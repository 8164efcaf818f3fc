---------------------------- MODULE Access_proofs ----------------------------
(***************************************************************************)
(* Proofs about who may use the gateway, and with what it gets in          *)
(* upstream: Console, OAuthRefresh and TokenAccess, which share no state.  *)
(*                                                                         *)
(* Console, for any number of logins, edits, sessions and secrets: types,  *)
(* scopes that agree with links, complete revocation.  RevocationComplete  *)
(* is not inductive.  An edit that saves an old row must not put a key     *)
(* back that was never issued, and unless one has put an old key back, the *)
(* subject has the newest: KeysKnown.                                      *)
(*                                                                         *)
(* OAuthRefresh, for any number of requests, edits and refresh tokens: no  *)
(* request sends a token that was spent.  SpentOnce says nothing of the    *)
(* token a request is about to send, so it is not inductive.  What carries *)
(* it is the lock.  Its holder has read the row's token after taking it,   *)
(* and the row's token is spent only while the holder carries its          *)
(* successor; so whoever takes the lock next finds the successor, or the   *)
(* model knows that it was lost.                                           *)
(*                                                                         *)
(* TokenAccess: the concurrency limit and the rate limit of a token hold   *)
(* for any number of handlers and any limits, whatever an administrator    *)
(* does to the row in between.                                             *)
(***************************************************************************)
EXTENDS Console, OAuthRefresh, TokenAccess, FiniteSetTheorems, TLAPS

\* The subject and the edits know only secrets that were issued; unless an edit has put an
\* older one back, the subject's is the newest.
KeysKnown ==
  /\ subject.key <= issued
  /\ undone \/ subject.key = issued
  /\ \A e \in Editors : edit[e].step = "update" => edit[e].key <= issued

-----------------------------------------------------------------------------
(* Types. *)

\* The initial rows and handlers hold values of the code.
LEMMA TypeInit == Init => TypeOK
<1> SUFFICES ASSUME Init PROVE TypeOK
  OBVIOUS
<1> USE DEF Init
<1>1. subject \in [kind: Kinds, present: BOOLEAN, enabled: BOOLEAN, key: Nat, all: BOOLEAN]
  OBVIOUS
<1>2. NoLogin \in Logins /\ NoEdit \in Edits
  BY DEF NoLogin, Logins, NoEdit, Edits
<1>3. failures \in [count: Nat, age: Nat]
  BY WindowAssumption
<1> QED
  BY <1>1, <1>2, <1>3 DEF TypeOK

\* Every action of Next keeps the types.
LEMMA TypeStep == TypeOK /\ [Next]_vars => TypeOK'
<1> SUFFICES ASSUME TypeOK, [Next]_vars PROVE TypeOK'
  OBVIOUS
<1> USE DEF TypeOK
<1>1. CASE UNCHANGED vars
  BY <1>1 DEF vars
<1>2. ASSUME NEW h \in Handlers, AllowLogin(h) PROVE TypeOK'
  BY <1>2 DEF AllowLogin, Logins
<1>3. ASSUME NEW h \in Handlers, Verify(h) PROVE TypeOK'
  BY <1>3 DEF Verify, Logins
<1>4. ASSUME NEW h \in Handlers, Reject(h) PROVE TypeOK'
  BY <1>4 DEF Reject, Logins
<1>5. ASSUME NEW h \in Handlers, RecordLoginFailure(h) PROVE TypeOK'
  BY <1>5 DEF RecordLoginFailure, Logins, NoLogin
<1>6. ASSUME NEW h \in Handlers, NEW i \in Slots, CreateSession(h, i) PROVE TypeOK'
  BY <1>6 DEF CreateSession, Logins, Sessions, Usable
<1>7. ASSUME NEW h \in Handlers, ClearLoginFailures(h) PROVE TypeOK'
  BY <1>7, WindowAssumption DEF ClearLoginFailures, Logins, NoLogin
<1>8. ASSUME NEW i \in Slots, Logout(i) PROVE TypeOK'
  BY <1>8 DEF Logout, Without
<1>9. ASSUME NEW e \in Editors, ReadToken(e) PROVE TypeOK'
  BY <1>9 DEF ReadToken, Edits
<1>10. ASSUME NEW e \in Editors, ReadLinks(e) PROVE TypeOK'
  <2>1. edit[e] \in [step: {"rotate", "links"}, enabled: BOOLEAN, all: BOOLEAN,
                     models: SUBSET Models]
    BY <1>10 DEF ReadLinks, Edits
  <2>2. [edit[e] EXCEPT !.step = "links", !.models = links] \in Edits
    BY <2>1 DEF Edits
  <2> QED
    BY <1>10, <2>2 DEF ReadLinks
<1>11. ASSUME NEW e \in Editors, NEW enabled \in BOOLEAN, NEW all \in BOOLEAN,
              NEW models \in SUBSET Models, UpdateToken(e, enabled, all, models)
       PROVE TypeOK'
  <2>1. edit[e].key \in Nat
    BY <1>11 DEF UpdateToken, Edits
  <2>2. NoEdit \in Edits
    BY DEF NoEdit, Edits
  <2>3. subject' \in [kind: Kinds, present: BOOLEAN, enabled: BOOLEAN, key: Nat, all: BOOLEAN]
    BY <1>11, <2>1 DEF UpdateToken, Save, Kinds
  <2>4. undone' \in BOOLEAN
    BY <1>11 DEF UpdateToken, Save
  <2>5. session' \in [Slots -> Sessions \cup {Absent}]
    BY <1>11 DEF UpdateToken, RevokeSessions, Without
  <2> QED
    BY <1>11, <2>2, <2>3, <2>4, <2>5 DEF UpdateToken, ReplaceModels
<1>12. ASSUME NEW e \in Editors, RotateToken(e) PROVE TypeOK'
  <2>1. /\ edit[e].enabled \in BOOLEAN /\ edit[e].all \in BOOLEAN
        /\ edit[e].models \subseteq Models
    BY <1>12 DEF RotateToken, Edits
  <2>2. NoEdit \in Edits
    BY DEF NoEdit, Edits
  <2>3. subject' \in [kind: Kinds, present: BOOLEAN, enabled: BOOLEAN, key: Nat, all: BOOLEAN]
    BY <1>12, <2>1 DEF RotateToken, Save, Kinds
  <2>4. undone' \in BOOLEAN
    BY <1>12 DEF RotateToken, Save
  <2> QED
    BY <1>12, <2>1, <2>2, <2>3, <2>4 DEF RotateToken, ReplaceModels, RotateRevokes, Without
<1>13. ASSUME NEW e \in Editors, RotationRefused(e) PROVE TypeOK'
  BY <1>13 DEF RotationRefused, Edits, NoEdit
<1>14. ASSUME NEW e \in Editors, ComparePassword(e) PROVE TypeOK'
  BY <1>14 DEF ComparePassword, Edits
<1>15. ASSUME NEW e \in Editors, ChangePassword(e) PROVE TypeOK'
  <2>1. NoEdit \in Edits
    BY DEF NoEdit, Edits
  <2>2. subject' \in [kind: Kinds, present: BOOLEAN, enabled: BOOLEAN, key: Nat, all: BOOLEAN]
    <3>1. subject' = [subject EXCEPT !.key = issued + 1, !.enabled = subject.enabled]
      BY <1>15 DEF ChangePassword, NewPassword
    <3>2. subject' = [kind |-> subject.kind, present |-> subject.present,
                      enabled |-> subject.enabled, key |-> issued + 1, all |-> subject.all]
      BY <3>1
    <3> QED
      BY <3>2
  <2> QED
    BY <1>15, <2>1, <2>2 DEF ChangePassword, NewPassword, RevokeSessions, Without
<1>16. CASE DeleteToken
  BY <1>16 DEF DeleteToken, RevokeSessions, Without
<1>17. CASE ResetPassword
  <2>1. subject' \in [kind: Kinds, present: BOOLEAN, enabled: BOOLEAN, key: Nat, all: BOOLEAN]
    <3>1. subject' = [subject EXCEPT !.key = issued + 1, !.enabled = TRUE]
      BY <1>17 DEF ResetPassword, NewPassword
    <3>2. subject' = [kind |-> subject.kind, present |-> subject.present, enabled |-> TRUE,
                      key |-> issued + 1, all |-> subject.all]
      BY <3>1
    <3> QED
      BY <3>2
  <2> QED
    BY <1>17, <2>1 DEF ResetPassword, NewPassword, RevokeSessions, Without
<1>18. CASE CleanupSessions
  BY <1>18 DEF CleanupSessions, Without
<1>19. CASE Tick
  <2>1. \A n \in Nat : \A bound : Older(n, bound) \in Nat
    BY DEF Older
  <2>2. ASSUME NEW i \in Slots PROVE session'[i] \in Sessions \cup {Absent}
    BY <1>19, <2>1 DEF Tick, Sessions, Open
  <2>3. failures' \in [count: Nat, age: Nat]
    BY <1>19, <2>1 DEF Tick
  <2> QED
    BY <1>19, <2>2, <2>3 DEF Tick
<1>20. ASSUME NEW m \in Models, DeleteModel(m) PROVE TypeOK'
  BY <1>20 DEF DeleteModel
<1> QED
  BY <1>1, <1>2, <1>3, <1>4, <1>5, <1>6, <1>7, <1>8, <1>9, <1>10, <1>11, <1>12, <1>13, <1>14,
     <1>15, <1>16, <1>17, <1>18, <1>19, <1>20 DEF Next

\* Rows and handlers always hold values of the code.
THEOREM TypeCorrect == Spec => []TypeOK
BY TypeInit, TypeStep, PTL DEF Spec

-----------------------------------------------------------------------------
(* Scopes. *)

\* A token that has all models, or is gone, has no links.
THEOREM ScopesAgree == Spec => []ScopeMatchesLinks
<1>1. Init => ScopeMatchesLinks
  BY DEF Init, ScopeMatchesLinks
<1>2. TypeOK /\ ScopeMatchesLinks /\ [Next]_vars => ScopeMatchesLinks'
  <2> SUFFICES ASSUME TypeOK, ScopeMatchesLinks, [Next]_vars PROVE ScopeMatchesLinks'
    OBVIOUS
  <2> USE DEF ScopeMatchesLinks
  <2>1. CASE UNCHANGED vars
    BY <2>1 DEF vars
  <2>2. ASSUME NEW h \in Handlers,
               \/ AllowLogin(h) \/ Verify(h) \/ Reject(h) \/ RecordLoginFailure(h)
               \/ \E i \in Slots : CreateSession(h, i)
               \/ ClearLoginFailures(h)
        PROVE ScopeMatchesLinks'
    BY <2>2 DEF AllowLogin, Verify, Reject, RecordLoginFailure, CreateSession, ClearLoginFailures
  <2>3. ASSUME NEW e \in Editors,
               ReadToken(e) \/ ReadLinks(e) \/ RotationRefused(e) \/ ComparePassword(e)
        PROVE ScopeMatchesLinks'
    BY <2>3 DEF ReadToken, ReadLinks, RotationRefused, ComparePassword
  <2>4. ASSUME NEW e \in Editors, NEW enabled \in BOOLEAN, NEW all \in BOOLEAN,
               NEW models \in SUBSET Models, UpdateToken(e, enabled, all, models)
        PROVE ScopeMatchesLinks'
    BY <2>4 DEF UpdateToken, Save, ReplaceModels
  <2>5. ASSUME NEW e \in Editors, RotateToken(e) PROVE ScopeMatchesLinks'
    BY <2>5 DEF RotateToken, Save, ReplaceModels
  <2>6. ASSUME NEW e \in Editors, ChangePassword(e) PROVE ScopeMatchesLinks'
    BY <2>6 DEF ChangePassword, NewPassword, TypeOK
  <2>7. CASE ResetPassword
    BY <2>7 DEF ResetPassword, NewPassword, TypeOK
  <2>8. CASE DeleteToken
    BY <2>8 DEF DeleteToken
  <2>9. ASSUME NEW m \in Models, DeleteModel(m) PROVE ScopeMatchesLinks'
    BY <2>9 DEF DeleteModel
  <2>10. CASE CleanupSessions \/ Tick \/ \E i \in Slots : Logout(i)
    BY <2>10 DEF CleanupSessions, Tick, Logout
  <2> QED
    BY <2>1, <2>2, <2>3, <2>4, <2>5, <2>6, <2>7, <2>8, <2>9, <2>10 DEF Next
<1> QED
  BY <1>1, <1>2, TypeCorrect, PTL DEF Spec

-----------------------------------------------------------------------------
(* Revocation. *)

\* No edit puts back a key that was never issued, and unless one has put an old key back
\* the subject has the newest.
LEMMA KeysAlwaysKnown == Spec => []KeysKnown
<1>1. Init => KeysKnown
  BY DEF Init, KeysKnown, NoEdit
<1>2. TypeOK /\ TypeOK' /\ KeysKnown /\ [Next]_vars => KeysKnown'
  <2> SUFFICES ASSUME TypeOK, TypeOK', KeysKnown, [Next]_vars PROVE KeysKnown'
    OBVIOUS
  <2> USE DEF KeysKnown
  <2>1. CASE UNCHANGED vars
    BY <2>1 DEF vars
  <2>2. ASSUME NEW h \in Handlers,
               \/ AllowLogin(h) \/ Verify(h) \/ Reject(h) \/ RecordLoginFailure(h)
               \/ \E i \in Slots : CreateSession(h, i)
               \/ ClearLoginFailures(h)
        PROVE KeysKnown'
    BY <2>2 DEF AllowLogin, Verify, Reject, RecordLoginFailure, CreateSession, ClearLoginFailures
  <2>3. ASSUME NEW e \in Editors,
               ReadToken(e) \/ ReadLinks(e) \/ RotationRefused(e) \/ ComparePassword(e)
        PROVE KeysKnown'
    <3>1. \A x \in Editors : \/ edit'[x] = edit[x]
                             \/ edit'[x].step # "update"
                             \/ edit'[x].key = subject.key
      <4>1. CASE ReadToken(e)
        <5>1. CASE edit' = [edit EXCEPT ![e] = [step |-> "update", key |-> subject.key]]
          BY <5>1 DEF TypeOK
        <5>2. CASE edit' = [edit EXCEPT ![e] = [step |-> "rotate", enabled |-> subject.enabled,
                                                all |-> subject.all, models |-> {}]]
          BY <5>2 DEF TypeOK
        <5> QED
          BY <4>1, <5>1, <5>2 DEF ReadToken
      <4>2. CASE ReadLinks(e)
        <5>1. edit[e] \in [step: {"rotate", "links"}, enabled: BOOLEAN, all: BOOLEAN,
                           models: SUBSET Models]
          BY <4>2 DEF ReadLinks, TypeOK, Edits
        <5>2. [edit[e] EXCEPT !.step = "links", !.models = links].step = "links"
          BY <5>1
        <5> QED
          BY <4>2, <5>2 DEF ReadLinks, TypeOK
      <4>3. CASE RotationRefused(e) \/ ComparePassword(e)
        BY <4>3 DEF RotationRefused, ComparePassword, NoEdit, TypeOK
      <4> QED
        BY <2>3, <4>1, <4>2, <4>3
    <3>2. UNCHANGED <<subject, issued, undone>>
      BY <2>3 DEF ReadToken, ReadLinks, RotationRefused, ComparePassword
    <3> QED
      BY <3>1, <3>2
  <2>4. ASSUME NEW e \in Editors, NEW enabled \in BOOLEAN, NEW all \in BOOLEAN,
               NEW models \in SUBSET Models, UpdateToken(e, enabled, all, models)
        PROVE KeysKnown'
    <3>1. edit[e].key \in Nat /\ edit[e].key <= issued
      BY <2>4 DEF UpdateToken, TypeOK, Edits
    <3> QED
      <4>1. /\ subject'.key = edit[e].key /\ issued' = issued
            /\ undone' = (undone \/ edit[e].key < subject.key)
        BY <2>4 DEF UpdateToken, Save
      <4>2. \A x \in Editors : edit'[x] = edit[x] \/ edit'[x].step # "update"
        BY <2>4 DEF UpdateToken, NoEdit, TypeOK
      <4>3. undone \/ edit[e].key < subject.key \/ edit[e].key = issued
        BY <3>1 DEF TypeOK
      <4> QED
        BY <3>1, <4>1, <4>2, <4>3
  <2>5. ASSUME NEW e \in Editors, RotateToken(e) PROVE KeysKnown'
    <3>1. \A x \in Editors : edit[x].step = "update" => edit[x].key <= issued + 1
      BY DEF TypeOK, Edits
    <3>2. subject'.key = issued + 1 /\ issued' = issued + 1
      BY <2>5 DEF RotateToken, Save
    <3>3. \A x \in Editors : edit'[x] = edit[x] \/ edit'[x] = NoEdit
      BY <2>5 DEF RotateToken, TypeOK
    <3> QED
      BY <3>1, <3>2, <3>3 DEF NoEdit, TypeOK
  <2>6. ASSUME NewPassword(TRUE) \/ NewPassword(subject.enabled),
               \A x \in Editors : edit'[x] = edit[x] \/ edit'[x] = NoEdit
        PROVE KeysKnown'
    <3>1. \A x \in Editors : edit[x].step = "update" => edit[x].key <= issued + 1
      BY DEF TypeOK, Edits
    <3>2. subject'.key = issued + 1 /\ issued' = issued + 1
      BY <2>6 DEF NewPassword, TypeOK
    <3> QED
      BY <2>6, <3>1, <3>2 DEF NoEdit, TypeOK
  <2>7. ASSUME NEW e \in Editors, ChangePassword(e) PROVE KeysKnown'
    BY <2>6, <2>7 DEF ChangePassword, TypeOK
  <2>8. CASE ResetPassword
    BY <2>6, <2>8 DEF ResetPassword
  <2>9. CASE DeleteToken \/ \E m \in Models : DeleteModel(m)
    BY <2>9 DEF DeleteToken, DeleteModel, TypeOK
  <2>10. CASE CleanupSessions \/ Tick \/ \E i \in Slots : Logout(i)
    BY <2>10 DEF CleanupSessions, Tick, Logout
  <2> QED
    BY <2>1, <2>2, <2>3, <2>4, <2>5, <2>7, <2>8, <2>9, <2>10 DEF Next
<1> QED
  BY <1>1, <1>2, TypeCorrect, PTL DEF Spec

\* Every session was opened with the secret its subject has now, unless its login had
\* verified an older one, or an edit has put an older one back.
THEOREM RevocationHolds == Spec => []RevocationComplete
<1>1. Init => RevocationComplete
  BY DEF Init, RevocationComplete, Open
<1>2. TypeOK /\ KeysKnown /\ RevocationComplete /\ [Next]_vars => RevocationComplete'
  <2> SUFFICES ASSUME TypeOK, KeysKnown, RevocationComplete, [Next]_vars
               PROVE RevocationComplete'
    OBVIOUS
  <2> USE DEF RevocationComplete, Open, Usable
  <2>0. Without(Open) = [i \in Slots |-> Absent]
    BY DEF Without, TypeOK
  <2>1. CASE UNCHANGED vars
    BY <2>1 DEF vars
  <2>2. ASSUME NEW h \in Handlers,
               \/ AllowLogin(h) \/ Verify(h) \/ Reject(h) \/ RecordLoginFailure(h)
               \/ ClearLoginFailures(h)
        PROVE RevocationComplete'
    BY <2>2 DEF AllowLogin, Verify, Reject, RecordLoginFailure, ClearLoginFailures
  <2>3. ASSUME NEW h \in Handlers, NEW i \in Slots, CreateSession(h, i)
        PROVE RevocationComplete'
    BY <2>3 DEF CreateSession, TypeOK
  <2>4. ASSUME NEW e \in Editors,
               ReadToken(e) \/ ReadLinks(e) \/ RotationRefused(e) \/ ComparePassword(e)
        PROVE RevocationComplete'
    BY <2>4 DEF ReadToken, ReadLinks, RotationRefused, ComparePassword
  <2>5. ASSUME NEW e \in Editors, NEW enabled \in BOOLEAN, NEW all \in BOOLEAN,
               NEW models \in SUBSET Models, UpdateToken(e, enabled, all, models)
        PROVE RevocationComplete'
    <3>1. CASE ~enabled
      BY <2>5, <2>0, <3>1 DEF UpdateToken, RevokeSessions
    <3>2. CASE enabled
      <4>1. /\ edit[e].key \in Nat /\ edit[e].key <= issued
            /\ subject.key \in Nat /\ issued \in Nat /\ undone \in BOOLEAN
        BY <2>5 DEF UpdateToken, TypeOK, Edits, KeysKnown
      <4>2. undone' \/ edit[e].key = subject.key
        <5>1. undone' = (undone \/ edit[e].key < subject.key)
          BY <2>5 DEF UpdateToken, Save
        <5>2. undone \/ edit[e].key < subject.key \/ edit[e].key = subject.key
          BY <4>1 DEF KeysKnown
        <5> QED
          BY <5>1, <5>2
      <4>3. /\ subject'.present /\ subject'.enabled /\ subject'.key = edit[e].key
            /\ undone' \/ ~undone
            /\ session' = session
        BY <2>5, <3>2, <4>1 DEF UpdateToken, Save
      <4> QED
        BY <4>2, <4>3
    <3> QED
      BY <3>1, <3>2
  <2>6. ASSUME NEW e \in Editors, RotateToken(e) PROVE RevocationComplete'
    BY <2>6, <2>0 DEF RotateToken, RotateRevokes
  <2>7. ASSUME NEW e \in Editors, ChangePassword(e) PROVE RevocationComplete'
    BY <2>7, <2>0 DEF ChangePassword, NewPassword, RevokeSessions
  <2>8. CASE ResetPassword
    BY <2>8, <2>0 DEF ResetPassword, NewPassword, RevokeSessions
  <2>9. CASE DeleteToken
    BY <2>9, <2>0 DEF DeleteToken, RevokeSessions
  <2>10. ASSUME NEW m \in Models, DeleteModel(m) PROVE RevocationComplete'
    BY <2>10 DEF DeleteModel
  <2>11. CASE CleanupSessions \/ \E i \in Slots : Logout(i)
    BY <2>11 DEF CleanupSessions, Logout, Without, TypeOK
  <2>12. CASE Tick
    <3>1. ASSUME NEW i \in Slots, session'[i] # Absent
          PROVE  /\ session[i] # Absent
                 /\ session'[i].late = session[i].late /\ session'[i].key = session[i].key
      <4>1. session[i] # Absent
        BY <2>12, <3>1 DEF Tick, TypeOK
      <4>2. session[i] \in Sessions
        BY <4>1 DEF TypeOK
      <4> QED
        BY <2>12, <4>1, <4>2 DEF Tick, Sessions, TypeOK
    <3> QED
      BY <2>12, <3>1 DEF Tick
  <2> QED
    BY <2>1, <2>2, <2>3, <2>4, <2>5, <2>6, <2>7, <2>8, <2>9, <2>10, <2>11, <2>12 DEF Next
<1> QED
  BY <1>1, <1>2, TypeCorrect, KeysAlwaysKnown, PTL DEF Spec

-----------------------------------------------------------------------------
(* OAuthRefresh. *)

\* The states of a request, with what it carries from one step to the next.
RequestStates ==
  [step: {"idle"}] \cup [step: {"planned", "locked"}, copy: Rows]
    \cup [step: {"sending"}, token: 1..MaxIssued]
    \cup [step: {"answered"}, token: 0..MaxIssued, expires: BOOLEAN]
EditStates == [step: {"idle"}] \cup [step: {"read"}, copy: Rows]

OAuthTypeOK ==
  /\ row \in Rows
  /\ request \in [Relays -> RequestStates]
  /\ lock \in Relays \cup {Nobody}
  /\ channelEdit \in [ChannelEditors -> EditStates]
  /\ tokens \in 1..MaxIssued /\ spent \subseteq 1..tokens
  /\ resent \in BOOLEAN /\ lost \in BOOLEAN

\* Steps that hold the channel's lock, and the step that carries a successor to the row.
Holding(r)  == At(r, "locked") \/ At(r, "sending") \/ At(r, "answered")
Carrying(r) == At(r, "answered") /\ request[r].token # 0

\* At most one request is between the lock and its return.
LockHeld == \A r \in Relays : Holding(r) => lock = r

\* Every token that anybody knows has been issued.
TokensIssued ==
  /\ row.refresh <= tokens
  /\ \A e \in ChannelEditors : channelEdit[e].step = "read" => channelEdit[e].copy.refresh <= tokens
  /\ \A r \in Relays : At(r, "sending") \/ At(r, "answered") => request[r].token <= tokens

\* Unless a successor was lost, the row's token is spent only while one is carried to it, and
\* neither a token about to be sent nor a successor is spent.
TokensUnspent ==
  \/ lost
  \/ /\ row.refresh \in spent => \E r \in Relays : Carrying(r)
     /\ \A r \in Relays : At(r, "sending") \/ Carrying(r) => request[r].token \notin spent

TokenInv == OAuthTypeOK /\ LockHeld /\ TokensIssued /\ TokensUnspent /\ SpentOnce

-----------------------------------------------------------------------------
(* Types. *)

\* The first row has the first token, which is not spent; no request is under way.
LEMMA OAuthFirst == OAuthInit => TokenInv
<1> SUFFICES ASSUME OAuthInit PROVE TokenInv
  OBVIOUS
<1> USE DEF OAuthInit
<1>1. Idle \in RequestStates /\ Idle \in EditStates /\ Idle.step = "idle"
  BY DEF Idle, RequestStates, EditStates
<1>2. 1 \in 0..MaxIssued /\ 1 \in 1..MaxIssued
  BY IssuedAssumption
<1>3. row \in Rows
  BY <1>2 DEF Rows, Expiries
<1>4. OAuthTypeOK
  BY <1>1, <1>2, <1>3 DEF OAuthTypeOK
<1> QED
  BY <1>1, <1>4 DEF TokenInv, LockHeld, Holding, TokensIssued, TokensUnspent, Carrying, At, SpentOnce

\* What each step of a request carries.
LEMMA Carried ==
  ASSUME OAuthTypeOK, NEW r \in Relays
  PROVE  /\ request[r].step \in {"idle", "planned", "locked", "sending", "answered"}
         /\ At(r, "planned") \/ At(r, "locked") => request[r] = [step |-> request[r].step, copy |-> request[r].copy]
                                                   /\ request[r].copy \in Rows
         /\ At(r, "sending") => request[r].token \in 1..MaxIssued
         /\ At(r, "answered") => request[r].token \in 0..MaxIssued /\ request[r].expires \in BOOLEAN
<1>1. request[r] \in RequestStates
  BY DEF OAuthTypeOK
<1> QED
  BY <1>1 DEF RequestStates, At

\* A record of the wanted shape is a state of a request.
LEMMA StateShapes ==
  /\ Idle \in RequestStates /\ Idle \in EditStates
  /\ \A channel \in Rows : /\ [step |-> "planned", copy |-> channel] \in RequestStates
                           /\ [step |-> "locked", copy |-> channel] \in RequestStates
                           /\ [step |-> "read", copy |-> channel] \in EditStates
  /\ \A n \in 1..MaxIssued : [step |-> "sending", token |-> n] \in RequestStates
  /\ \A n \in 0..MaxIssued, expires \in BOOLEAN :
       [step |-> "answered", token |-> n, expires |-> expires] \in RequestStates
BY DEF Idle, RequestStates, EditStates

\* Time keeps a row a row, and its token.
LEMMA AgedRow == \A channel \in Rows : Aged(channel) \in Rows /\ Aged(channel).refresh = channel.refresh
BY DEF Aged, Rows, Expiries

\* A request that goes elsewhere leaves the others alone.
LEMMA Gone ==
  ASSUME OAuthTypeOK, NEW r \in Relays, NEW next \in RequestStates, Go(r, next)
  PROVE  /\ request' \in [Relays -> RequestStates]
         /\ request'[r] = next
         /\ \A other \in Relays \ {r} : request'[other] = request[other]
BY DEF Go, OAuthTypeOK

-----------------------------------------------------------------------------
(* Each action keeps the invariant. *)

\* A holder that returns has carried nothing, or the model knows what became of it.
LEMMA ReturnKeeps ==
  ASSUME TokenInv, NEW r \in Relays, Holding(r), Return(r), UNCHANGED channelEdit,
         row' \in Rows, tokens' \in 1..MaxIssued, spent' \subseteq 1..tokens', lost' \in BOOLEAN, resent' \in BOOLEAN,
         tokens <= tokens', row'.refresh <= tokens',
         lost' \/ row'.refresh \notin spent',
         resent' => lost'
  PROVE  TokenInv'
<1>1. OAuthTypeOK /\ LockHeld /\ TokensIssued
  BY DEF TokenInv
<1>2. /\ request' \in [Relays -> RequestStates]
      /\ request'[r] = Idle
      /\ \A other \in Relays \ {r} : request'[other] = request[other]
  BY <1>1, StateShapes, Gone DEF Return
<1>3. \A other \in Relays : ~Holding(other)'
  BY <1>1, <1>2 DEF LockHeld, Holding, At, Idle
<1>4. OAuthTypeOK'
  BY <1>1, <1>2 DEF OAuthTypeOK, Return
<1>5. LockHeld'
  BY <1>3 DEF LockHeld
<1>6. TokensIssued'
  <2>1. \A e \in ChannelEditors : channelEdit'[e].step = "read" => channelEdit'[e].copy.refresh <= tokens'
    <3> SUFFICES ASSUME NEW e \in ChannelEditors, channelEdit[e].step = "read"
                 PROVE  channelEdit[e].copy.refresh <= tokens'
      OBVIOUS
    <3>1. channelEdit[e].copy \in Rows
      BY <1>1 DEF OAuthTypeOK, EditStates
    <3> QED
      BY <1>1, <3>1 DEF TokensIssued, OAuthTypeOK, Rows
  <2> QED
    BY <1>3, <2>1 DEF TokensIssued, Holding
<1>7. TokensUnspent'
  BY <1>3 DEF TokensUnspent, Holding, Carrying
<1> QED
  BY <1>4, <1>5, <1>6, <1>7 DEF TokenInv, SpentOnce

\* A request that takes no lock and carries no token only needs a state of its own.
LEMMA PlanningKeeps ==
  ASSUME TokenInv, NEW r \in Relays, NEW next \in RequestStates, Go(r, next),
         ~Holding(r), next.step \in {"idle", "planned"},
         UNCHANGED <<row, lock, channelEdit, tokens, spent, resent, lost>>
  PROVE  TokenInv'
<1>1. OAuthTypeOK /\ LockHeld /\ TokensIssued /\ TokensUnspent /\ SpentOnce
  BY DEF TokenInv
<1>2. /\ request' \in [Relays -> RequestStates]
      /\ request'[r] = next
      /\ \A other \in Relays \ {r} : request'[other] = request[other]
  BY <1>1, Gone
<1>3. \A other \in Relays : /\ Holding(other)' => Holding(other) /\ request'[other] = request[other]
                            /\ Carrying(other) => Carrying(other)'
  BY <1>2 DEF Holding, Carrying, At
<1>4. OAuthTypeOK'
  BY <1>1, <1>2 DEF OAuthTypeOK
<1>5. LockHeld'
  BY <1>1, <1>3 DEF LockHeld
<1>6. TokensIssued'
  BY <1>1, <1>3 DEF TokensIssued, Holding, At
<1>7. TokensUnspent'
  BY <1>1, <1>3 DEF TokensUnspent, Holding, Carrying, At
<1> QED
  BY <1>1, <1>4, <1>5, <1>6, <1>7 DEF TokenInv, SpentOnce

\* Plan and UsePlanned hold nothing.
LEMMA PlanKeeps ==
  ASSUME TokenInv, NEW r \in Relays, Plan(r) \/ UsePlanned(r)
  PROVE  TokenInv'
<1>1. row \in Rows
  BY DEF TokenInv, OAuthTypeOK
<1>2. CASE Plan(r)
  <2>1. [step |-> "planned", copy |-> row] \in RequestStates
    BY <1>1, StateShapes
  <2> QED
    BY <1>2, <2>1, PlanningKeeps DEF Plan, Holding, At
<1>3. CASE UsePlanned(r)
  <2>1. Idle \in RequestStates /\ Idle.step = "idle"
    BY StateShapes DEF Idle
  <2> QED
    BY <1>3, <2>1, PlanningKeeps DEF UsePlanned, Holding, At
<1> QED
  BY <1>2, <1>3

\* Whoever takes the free lock is the only holder.
LEMMA LockKeeps ==
  ASSUME TokenInv, NEW r \in Relays, Lock(r)
  PROVE  TokenInv'
<1> DEFINE next == [request[r] EXCEPT !.step = "locked"]
<1>1. OAuthTypeOK /\ LockHeld /\ TokensIssued /\ TokensUnspent /\ SpentOnce
  BY DEF TokenInv
<1>2. next \in RequestStates /\ next.step = "locked"
  <2>1. request[r] = [step |-> request[r].step, copy |-> request[r].copy] /\ request[r].copy \in Rows
    BY <1>1, Carried DEF Lock
  <2>2. next = [step |-> "locked", copy |-> request[r].copy]
    BY <2>1
  <2> QED
    BY <2>1, <2>2, StateShapes
<1>3. Go(r, next)
  BY DEF Lock
<1> HIDE DEF next
<1>4. /\ request' \in [Relays -> RequestStates]
      /\ request'[r] = next
      /\ \A other \in Relays \ {r} : request'[other] = request[other]
  BY <1>1, <1>2, <1>3, Gone
<1>5. \A other \in Relays : ~Holding(other)
  BY <1>1, NobodyAssumption DEF Lock, LockHeld
<1>6. \A other \in Relays : ~At(other, "sending")' /\ ~At(other, "answered")' /\ (Holding(other)' => other = r)
  BY <1>2, <1>4, <1>5 DEF Holding, At
<1>7. OAuthTypeOK'
  BY <1>1, <1>4 DEF OAuthTypeOK, Lock
<1>8. LockHeld'
  BY <1>6 DEF LockHeld, Lock
<1>9. TokensIssued'
  BY <1>1, <1>6 DEF TokensIssued, Lock
<1>10. TokensUnspent'
  <2>1. \A other \in Relays : ~Carrying(other)
    BY <1>5 DEF Carrying, Holding
  <2> QED
    BY <1>1, <1>6, <2>1, Zenon DEF TokensUnspent, Carrying, Lock
<1> QED
  BY <1>1, <1>7, <1>8, <1>9, <1>10 DEF TokenInv, SpentOnce, Lock

\* While the lock is at a request that carries no successor, nobody carries one.
LEMMA RowUnspent ==
  ASSUME TokenInv, NEW r \in Relays, Holding(r), ~Carrying(r)
  PROVE  lost \/ row.refresh \notin spent
BY DEF TokenInv, LockHeld, TokensUnspent, Carrying, Holding

\* The token that the holder reads again is not spent.
LEMMA RereadKeeps ==
  ASSUME TokenInv, NEW r \in Relays, Reread(r)
  PROVE  TokenInv'
<1>1. OAuthTypeOK /\ LockHeld /\ TokensIssued /\ TokensUnspent /\ SpentOnce
  BY DEF TokenInv
<1>2. Holding(r) /\ ~Carrying(r) /\ lock = r
  BY <1>1 DEF Reread, Holding, Carrying, At, LockHeld
<1>3. lost \/ row.refresh \notin spent
  BY <1>2, RowUnspent
<1>4. CASE Return(r)
  BY <1>1, <1>2, <1>3, <1>4, ReturnKeeps DEF Reread, OAuthTypeOK, TokensIssued, SpentOnce
<1>5. ASSUME row.refresh # 0, Go(r, [step |-> "sending", token |-> row.refresh]), UNCHANGED lock
      PROVE  TokenInv'
  <2>1. row.refresh \in 1..MaxIssued
    BY <1>1, <1>5, IssuedAssumption DEF OAuthTypeOK, Rows
  <2>2. [step |-> "sending", token |-> row.refresh] \in RequestStates
    BY <2>1, StateShapes
  <2>3. /\ request' \in [Relays -> RequestStates]
        /\ request'[r] = [step |-> "sending", token |-> row.refresh]
        /\ \A other \in Relays \ {r} : request'[other] = request[other]
    BY <1>1, <1>5, <2>2, Gone
  <2>4. \A other \in Relays : Holding(other)' => other = r
    BY <1>1, <1>2, <2>3 DEF LockHeld, Holding, At
  <2>5. At(r, "sending")' /\ ~Carrying(r)' /\ request'[r].token = row.refresh
    BY <2>3 DEF At, Carrying
  <2>6. OAuthTypeOK'
    BY <1>1, <1>5, <2>3 DEF OAuthTypeOK, Reread
  <2>7. LockHeld'
    BY <1>2, <1>5, <2>4 DEF LockHeld
  <2>8. TokensIssued'
    BY <1>1, <2>4, <2>5 DEF TokensIssued, Reread, Holding
  <2>9. TokensUnspent'
    <3>1. \A other \in Relays : At(other, "sending")' \/ Carrying(other)' => other = r
      BY <2>4 DEF Holding, Carrying
    <3> QED
      BY <1>3, <2>5, <3>1 DEF TokensUnspent, Reread
  <2> QED
    BY <1>1, <2>6, <2>7, <2>8, <2>9 DEF TokenInv, SpentOnce, Reread
<1> QED
  BY <1>4, <1>5 DEF Reread, Current

\* The holder has an answer: its successor, if there is one, is new, and a token that was
\* rotated is spent.
LEMMA AnswerKeeps ==
  ASSUME TokenInv, NEW r \in Relays, At(r, "sending"), NEW n \in 0..MaxIssued, NEW expires \in BOOLEAN,
         Go(r, [step |-> "answered", token |-> n, expires |-> expires]),
         UNCHANGED <<row, lock, channelEdit, resent, lost>>,
         tokens' \in 1..MaxIssued, tokens <= tokens', spent' \subseteq 1..tokens',
         \/ n = 0 /\ spent' = spent
         \/ n # 0 /\ n <= tokens' /\ n \notin spent'
  PROVE  TokenInv'
<1>1. OAuthTypeOK /\ LockHeld /\ TokensIssued /\ TokensUnspent /\ SpentOnce
  BY DEF TokenInv
<1>2. Holding(r) /\ ~Carrying(r) /\ lock = r
  BY <1>1 DEF Holding, Carrying, At, LockHeld
<1>3. lost \/ row.refresh \notin spent
  BY <1>2, RowUnspent
<1>4. [step |-> "answered", token |-> n, expires |-> expires] \in RequestStates
  BY StateShapes
<1>5. /\ request' \in [Relays -> RequestStates]
      /\ request'[r] = [step |-> "answered", token |-> n, expires |-> expires]
      /\ \A other \in Relays \ {r} : request'[other] = request[other]
  BY <1>1, <1>4, Gone
<1>6. \A other \in Relays : Holding(other)' => other = r
  BY <1>1, <1>2, <1>5 DEF LockHeld, Holding, At
<1>7. At(r, "answered")' /\ ~At(r, "sending")' /\ (Carrying(r)' <=> n # 0) /\ request'[r].token = n
  BY <1>5 DEF At, Carrying
<1>8. OAuthTypeOK'
  BY <1>1, <1>5 DEF OAuthTypeOK
<1>9. LockHeld'
  BY <1>2, <1>6 DEF LockHeld
<1>10. TokensIssued'
  <2>1. row.refresh <= tokens'
    BY <1>1 DEF TokensIssued, OAuthTypeOK, Rows
  <2>2. \A e \in ChannelEditors : channelEdit[e].step = "read" => channelEdit[e].copy.refresh <= tokens'
    <3> SUFFICES ASSUME NEW e \in ChannelEditors, channelEdit[e].step = "read"
                 PROVE  channelEdit[e].copy.refresh <= tokens'
      OBVIOUS
    <3>1. channelEdit[e].copy \in Rows
      BY <1>1 DEF OAuthTypeOK, EditStates
    <3> QED
      BY <1>1, <3>1 DEF TokensIssued, OAuthTypeOK, Rows
  <2>3. n <= tokens'
    OBVIOUS
  <2> QED
    BY <1>6, <1>7, <2>1, <2>2, <2>3 DEF TokensIssued, Holding
<1>11. TokensUnspent'
  <2>1. \A other \in Relays : At(other, "sending")' \/ Carrying(other)' => other = r
    BY <1>6 DEF Holding, Carrying
  <2> QED
    BY <1>3, <1>7, <2>1 DEF TokensUnspent
<1> QED
  BY <1>1, <1>8, <1>9, <1>10, <1>11 DEF TokenInv, SpentOnce

\* The provider refuses the token, rotates it or keeps it; it is not spent unless a
\* successor was lost before.
LEMMA SendKeeps ==
  ASSUME TokenInv, NEW r \in Relays, Send(r)
  PROVE  TokenInv'
<1> DEFINE sending == request[r].token
<1>1. OAuthTypeOK /\ LockHeld /\ TokensIssued /\ TokensUnspent /\ SpentOnce
  BY DEF TokenInv
<1>2. At(r, "sending") /\ Holding(r) /\ ~Carrying(r)
  BY DEF Send, Holding, Carrying, At
<1>3. lost \/ row.refresh \notin spent
  BY <1>2, RowUnspent
<1>4. sending \in 1..tokens
  BY <1>1, <1>2, Carried DEF TokensIssued, OAuthTypeOK
<1>5. lost \/ sending \notin spent
  BY <1>1, <1>2 DEF TokensUnspent
<1>6. /\ resent' = (resent \/ sending \in spent)
      /\ row' = row /\ channelEdit' = channelEdit
      /\ row \in Rows /\ row.refresh <= tokens
  BY <1>1 DEF Send, OAuthTypeOK, TokensIssued
<1>7. resent' \in BOOLEAN /\ (resent' => lost)
  BY <1>1, <1>5, <1>6 DEF SpentOnce, OAuthTypeOK
<1> HIDE DEF sending
<1>8. CASE Return(r) /\ UNCHANGED <<tokens, spent, lost>>
  BY <1>1, <1>2, <1>3, <1>6, <1>7, <1>8, ReturnKeeps DEF OAuthTypeOK
<1>9. ASSUME sending \notin spent, tokens < MaxIssued, tokens' = tokens + 1, spent' = spent \cup {sending}
      PROVE  /\ tokens' \in 1..MaxIssued /\ tokens <= tokens' /\ spent' \subseteq 1..tokens'
             /\ row.refresh <= tokens' /\ tokens + 1 \notin spent' /\ tokens + 1 \in 0..MaxIssued
             /\ resent' = resent
  <2>1. tokens \in 1..MaxIssued /\ spent \subseteq 1..tokens /\ MaxIssued \in Nat
    BY <1>1, IssuedAssumption DEF OAuthTypeOK
  <2>2. row.refresh \in Nat
    BY <1>6 DEF Rows
  <2>3. resent' = resent
    BY <1>1, <1>6, <1>9 DEF OAuthTypeOK
  <2>4. tokens' \in 1..MaxIssued /\ tokens <= tokens' /\ tokens + 1 \in 0..MaxIssued
    BY <1>9, <2>1
  <2>5. spent' \subseteq 1..tokens'
    BY <1>4, <1>9, <2>1
  <2>6. tokens + 1 \notin spent'
    BY <1>4, <1>9, <2>1
  <2>7. row.refresh <= tokens'
    BY <1>6, <1>9, <2>1, <2>2
  <2> QED
    BY <2>3, <2>4, <2>5, <2>6, <2>7
<1>10. CASE /\ sending \notin spent /\ tokens < MaxIssued
            /\ tokens' = tokens + 1 /\ spent' = spent \cup {sending}
            /\ Return(r) /\ lost' = TRUE
  BY <1>1, <1>2, <1>6, <1>7, <1>9, <1>10, ReturnKeeps
<1>11. CASE /\ sending \notin spent /\ tokens < MaxIssued
            /\ tokens' = tokens + 1 /\ spent' = spent \cup {sending}
            /\ \E expires \in BOOLEAN :
                 Go(r, [step |-> "answered", token |-> tokens + 1, expires |-> expires])
            /\ UNCHANGED <<lock, lost>>
  <2>1. PICK expires \in BOOLEAN : Go(r, [step |-> "answered", token |-> tokens + 1, expires |-> expires])
    BY <1>11
  <2>2. tokens + 1 # 0 /\ tokens + 1 <= tokens'
    BY <1>1, <1>11 DEF OAuthTypeOK
  <2> QED
    BY <1>2, <1>6, <1>9, <1>11, <2>1, <2>2, AnswerKeeps
<1>12. CASE /\ sending \notin spent
            /\ \E expires \in BOOLEAN : Go(r, [step |-> "answered", token |-> 0, expires |-> expires])
            /\ UNCHANGED <<lock, tokens, spent, lost>>
  <2>1. PICK expires \in BOOLEAN : Go(r, [step |-> "answered", token |-> 0, expires |-> expires])
    BY <1>12
  <2>2. /\ 0 \in 0..MaxIssued /\ tokens' \in 1..MaxIssued /\ tokens <= tokens' /\ spent' \subseteq 1..tokens'
        /\ spent' = spent /\ resent' = resent
    BY <1>1, <1>6, <1>12, IssuedAssumption DEF OAuthTypeOK
  <2> QED
    BY <1>2, <1>6, <1>12, <2>1, <2>2, AnswerKeeps
<1> QED
  BY <1>8, <1>10, <1>11, <1>12 DEF Send, sending

\* The successor replaces the spent token of the row, unless the row is gone.
LEMMA StoreKeeps ==
  ASSUME TokenInv, NEW r \in Relays, Store(r) \/ StoreCancelled(r)
  PROVE  TokenInv'
<1>1. OAuthTypeOK /\ LockHeld /\ TokensIssued /\ TokensUnspent /\ SpentOnce
  BY DEF TokenInv
<1>2. At(r, "answered") /\ Holding(r)
  BY DEF Store, StoreCancelled, Holding
<1>3. /\ request[r].token \in 0..MaxIssued /\ request[r].token <= tokens /\ request[r].expires \in BOOLEAN
  BY <1>1, <1>2, Carried DEF TokensIssued
<1>4. request[r].token = 0 => lost \/ row.refresh \notin spent
  BY <1>2, RowUnspent DEF Carrying
<1>5. request[r].token # 0 => lost \/ request[r].token \notin spent
  BY <1>1, <1>2 DEF TokensUnspent, Carrying
<1>6. CASE Store(r)
  <2>1. Stored(request[r]) \in 0..MaxIssued /\ Stored(request[r]) <= tokens
    BY <1>1, <1>3 DEF Stored, OAuthTypeOK, Rows, TokensIssued
  <2>2. row.present => row'.refresh = Stored(request[r]) /\ row' \in Rows
    BY <1>1, <1>6, <2>1 DEF Store, OAuthTypeOK, Rows, Expiries
  <2>3. ~row.present => row' = row
    BY <1>6 DEF Store
  <2>4. /\ row' \in Rows /\ row'.refresh <= tokens
    BY <1>1, <2>1, <2>2, <2>3 DEF OAuthTypeOK, TokensIssued
  <2>5. lost' \/ row'.refresh \notin spent
    BY <1>4, <1>5, <1>6, <2>2, <2>3 DEF Store, Stored
  <2>6. lost' \in BOOLEAN /\ (lost => lost')
    BY <1>1, <1>6 DEF Store, OAuthTypeOK
  <2>7. Return(r) /\ UNCHANGED <<channelEdit, tokens, spent, resent>>
    BY <1>6 DEF Store
  <2> QED
    BY <1>1, <1>2, <2>4, <2>5, <2>6, <2>7, ReturnKeeps DEF OAuthTypeOK, SpentOnce
<1>7. CASE StoreCancelled(r)
  <2>1. /\ lost' \in BOOLEAN /\ (lost => lost')
        /\ lost' \/ row.refresh \notin spent
    BY <1>1, <1>4, <1>7 DEF StoreCancelled, OAuthTypeOK
  <2>2. Return(r) /\ UNCHANGED <<row, channelEdit, tokens, spent, resent>>
    BY <1>7 DEF StoreCancelled
  <2> QED
    BY <1>1, <1>2, <2>1, <2>2, ReturnKeeps DEF OAuthTypeOK, TokensIssued, SpentOnce
<1> QED
  BY <1>6, <1>7

\* A form that is opened keeps a token that was issued.
LEMMA ReadChannelKeeps ==
  ASSUME TokenInv, NEW e \in ChannelEditors, ReadChannel(e)
  PROVE  TokenInv'
<1>1. OAuthTypeOK /\ LockHeld /\ TokensIssued /\ TokensUnspent /\ SpentOnce
  BY DEF TokenInv
<1>2. [step |-> "read", copy |-> row] \in EditStates
  BY <1>1, StateShapes DEF OAuthTypeOK
<1>3. OAuthTypeOK'
  BY <1>1, <1>2 DEF OAuthTypeOK, ReadChannel
<1>4. TokensIssued'
  <2>1. \A other \in ChannelEditors :
          channelEdit'[other] = IF other = e THEN [step |-> "read", copy |-> row] ELSE channelEdit[other]
    BY <1>1 DEF ReadChannel, OAuthTypeOK
  <2> QED
    BY <1>1, <2>1 DEF TokensIssued, ReadChannel, At
<1> QED
  BY <1>1, <1>3, <1>4 DEF TokenInv, LockHeld, Holding, At, TokensUnspent, Carrying, SpentOnce, ReadChannel

\* An edit leaves the row's token, brings a new one or none, or is known to have overwritten
\* a successor.
LEMMA SaveKeeps ==
  ASSUME TokenInv, NEW e \in ChannelEditors, NEW oauth \in BOOLEAN, NEW expires \in Expiries,
         NEW renewed \in BOOLEAN, SaveChannel(e, oauth, expires, renewed)
  PROVE  TokenInv'
<1> DEFINE kept == channelEdit[e].copy.refresh
<1>1. OAuthTypeOK /\ LockHeld /\ TokensIssued /\ TokensUnspent /\ SpentOnce
  BY DEF TokenInv
<1>2. /\ tokens \in 1..MaxIssued /\ spent \subseteq 1..tokens /\ row \in Rows /\ MaxIssued \in Nat
      /\ lost \in BOOLEAN /\ resent \in BOOLEAN
  BY <1>1, IssuedAssumption DEF OAuthTypeOK
<1>3. channelEdit[e].step = "read" /\ channelEdit[e].copy \in Rows /\ kept <= tokens /\ kept \in 0..MaxIssued
  BY <1>1 DEF SaveChannel, OAuthTypeOK, EditStates, TokensIssued, Rows
<1>4. /\ row'.refresh = IF ~oauth THEN 0 ELSE IF renewed THEN tokens + 1 ELSE kept
      /\ row'.present = TRUE /\ row'.oauth = oauth /\ row'.expires = IF oauth THEN expires ELSE "none"
      /\ row' = [present |-> row'.present, oauth |-> row'.oauth, refresh |-> row'.refresh,
                 expires |-> row'.expires]
      /\ tokens' = IF renewed THEN tokens + 1 ELSE tokens
      /\ (renewed => oauth /\ tokens < MaxIssued)
      /\ lost' = (lost \/ (oauth /\ ~renewed /\ kept # row.refresh))
      /\ channelEdit' = [channelEdit EXCEPT ![e] = Idle]
      /\ UNCHANGED <<request, lock, spent, resent>>
  BY DEF SaveChannel
<1> HIDE DEF kept
<1>5. tokens' \in 1..MaxIssued /\ tokens <= tokens' /\ spent \subseteq 1..tokens'
  BY <1>2, <1>4
<1>6. row'.refresh \in 0..MaxIssued /\ row'.refresh <= tokens'
  BY <1>2, <1>3, <1>4
<1>7. row' \in Rows
  BY <1>4, <1>6 DEF Rows, Expiries
<1>8. lost' \in BOOLEAN
  BY <1>2, <1>4
<1>9. OAuthTypeOK'
  BY <1>1, <1>4, <1>5, <1>7, <1>8, StateShapes DEF OAuthTypeOK
<1>10. LockHeld'
  BY <1>1, <1>4 DEF LockHeld, Holding, At
<1>11. TokensIssued'
  <2>1. \A other \in ChannelEditors :
          channelEdit'[other].step = "read" => channelEdit[other].step = "read" /\ channelEdit'[other] = channelEdit[other]
    BY <1>1, <1>4 DEF OAuthTypeOK, Idle
  <2>2. \A other \in ChannelEditors : channelEdit'[other].step = "read" => channelEdit'[other].copy.refresh <= tokens'
    <3> SUFFICES ASSUME NEW other \in ChannelEditors, channelEdit'[other].step = "read"
                 PROVE  channelEdit'[other].copy.refresh <= tokens'
      OBVIOUS
    <3>1. channelEdit[other].copy \in Rows /\ channelEdit[other].copy.refresh <= tokens
      BY <1>1, <2>1 DEF OAuthTypeOK, EditStates, TokensIssued
    <3> QED
      BY <1>2, <1>5, <2>1, <3>1 DEF Rows
  <2>3. \A r \in Relays : At(r, "sending") \/ At(r, "answered") => request[r].token <= tokens'
    <3> SUFFICES ASSUME NEW r \in Relays, At(r, "sending") \/ At(r, "answered")
                 PROVE  request[r].token <= tokens'
      OBVIOUS
    <3>1. request[r].token \in 1..MaxIssued \/ request[r].token \in 0..MaxIssued
      BY <1>1, Carried
    <3>2. request[r].token <= tokens
      BY <1>1 DEF TokensIssued
    <3> QED
      BY <1>2, <1>5, <3>1, <3>2
  <2> QED
    BY <1>4, <1>6, <2>2, <2>3 DEF TokensIssued, At
<1>12. TokensUnspent'
  <2>1. row'.refresh \in spent => lost' \/ row'.refresh = row.refresh
    BY <1>2, <1>4
  <2>2. lost => lost'
    BY <1>4
  <2> QED
    BY <1>1, <1>4, <2>1, <2>2 DEF TokensUnspent, Carrying, At
<1> QED
  BY <1>1, <1>4, <1>9, <1>10, <1>11, <1>12 DEF TokenInv, SpentOnce

\* A row that goes keeps its columns; the lock is not asked for.
LEMMA DeleteKeeps == TokenInv /\ DeleteChannel => TokenInv'
<1> SUFFICES ASSUME TokenInv, DeleteChannel PROVE TokenInv'
  OBVIOUS
<1>1. OAuthTypeOK /\ LockHeld /\ TokensIssued /\ TokensUnspent /\ SpentOnce
  BY DEF TokenInv
<1>2. row' \in Rows /\ row'.refresh = row.refresh
  BY <1>1 DEF DeleteChannel, OAuthTypeOK, Rows
<1> QED
  BY <1>1, <1>2 DEF TokenInv, OAuthTypeOK, LockHeld, Holding, At, TokensIssued, TokensUnspent, Carrying,
                    SpentOnce, DeleteChannel

\* Time only ages copies.
LEMMA ExpireKeeps == TokenInv /\ Expire => TokenInv'
<1> SUFFICES ASSUME TokenInv, Expire PROVE TokenInv'
  OBVIOUS
<1>1. OAuthTypeOK /\ LockHeld /\ TokensIssued /\ TokensUnspent /\ SpentOnce
  BY DEF TokenInv
<1>2. row' \in Rows /\ row'.refresh = row.refresh
  BY <1>1, AgedRow DEF Expire, OAuthTypeOK
<1>3. \A r \in Relays : /\ request'[r] \in RequestStates
                        /\ request'[r].step = request[r].step
                        /\ At(r, "sending") \/ At(r, "answered") => request'[r] = request[r]
  <2> SUFFICES ASSUME NEW r \in Relays
               PROVE  /\ request'[r] \in RequestStates
                      /\ request'[r].step = request[r].step
                      /\ At(r, "sending") \/ At(r, "answered") => request'[r] = request[r]
    OBVIOUS
  <2>1. request'[r] = IF At(r, "planned") \/ At(r, "locked")
                      THEN [request[r] EXCEPT !.copy = Aged(@)] ELSE request[r]
    BY DEF Expire
  <2>2. CASE At(r, "planned") \/ At(r, "locked")
    <3>1. request[r] = [step |-> request[r].step, copy |-> request[r].copy] /\ request[r].copy \in Rows
      BY <1>1, <2>2, Carried
    <3>2. request'[r] = [step |-> request[r].step, copy |-> Aged(request[r].copy)]
      BY <2>1, <2>2, <3>1
    <3>3. request'[r] \in RequestStates
      BY <2>2, <3>1, <3>2, AgedRow, StateShapes DEF At
    <3> QED
      BY <2>2, <3>2, <3>3 DEF At
  <2>3. CASE ~(At(r, "planned") \/ At(r, "locked"))
    BY <1>1, <2>1, <2>3 DEF OAuthTypeOK
  <2> QED
    BY <2>2, <2>3
<1>4. request' = [r \in Relays |-> request'[r]]
  BY DEF Expire
<1>5. request' \in [Relays -> RequestStates]
  BY <1>3, <1>4
<1>6. OAuthTypeOK'
  BY <1>1, <1>2, <1>5 DEF OAuthTypeOK, Expire
<1>7. LockHeld'
  BY <1>1, <1>3 DEF LockHeld, Holding, At, Expire
<1>8. TokensIssued'
  BY <1>1, <1>2, <1>3 DEF TokensIssued, At, Expire
<1>9. TokensUnspent'
  BY <1>1, <1>2, <1>3 DEF TokensUnspent, Carrying, At, Expire
<1> QED
  BY <1>1, <1>6, <1>7, <1>8, <1>9 DEF TokenInv, SpentOnce, Expire

\* A crash loses the successor that was not stored, and the model knows.
LEMMA CrashKeeps == TokenInv /\ Crash => TokenInv'
<1> SUFFICES ASSUME TokenInv, Crash PROVE TokenInv'
  OBVIOUS
<1>1. OAuthTypeOK /\ LockHeld /\ TokensIssued /\ TokensUnspent /\ SpentOnce
  BY DEF TokenInv
<1>2. \A r \in Relays : request'[r].step = "idle"
  BY DEF Crash, Idle
<1>3. \A e \in ChannelEditors : channelEdit'[e].step = "idle"
  BY DEF Crash, Idle
<1>4. lost' = (lost \/ \E r \in Relays : Carrying(r))
  BY DEF Crash, Carrying
<1>5. OAuthTypeOK'
  BY <1>1, <1>4, StateShapes DEF OAuthTypeOK, Crash
<1>6. LockHeld' /\ TokensIssued'
  BY <1>1, <1>2, <1>3 DEF LockHeld, Holding, At, TokensIssued, Crash
<1>7. TokensUnspent'
  BY <1>1, <1>2, <1>4 DEF TokensUnspent, Carrying, At, Crash
<1> QED
  BY <1>1, <1>4, <1>5, <1>6, <1>7 DEF TokenInv, SpentOnce, Crash

-----------------------------------------------------------------------------
\* Every step keeps the invariant.
LEMMA TokenStep == TokenInv /\ [OAuthNext]_oauthVars => TokenInv'
<1> SUFFICES ASSUME TokenInv, [OAuthNext]_oauthVars PROVE TokenInv'
  OBVIOUS
<1>1. CASE UNCHANGED oauthVars
  BY <1>1 DEF oauthVars, TokenInv, OAuthTypeOK, LockHeld, Holding, At, TokensIssued, TokensUnspent,
              Carrying, SpentOnce
<1>2. CASE OAuthNext
  BY <1>2, PlanKeeps, LockKeeps, RereadKeeps, SendKeeps, StoreKeeps, ReadChannelKeeps, SaveKeeps,
     DeleteKeeps, ExpireKeeps, CrashKeeps DEF OAuthNext
<1> QED
  BY <1>1, <1>2

\* No request refreshes with a spent token, for any number of requests and edits that overlap
\* in any way, unless a successor was lost or overwritten (channelAccessToken).
THEOREM TokensSpentOnce == OAuthSpec => []SpentOnce
<1>1. TokenInv => SpentOnce
  BY DEF TokenInv
<1> QED
  BY <1>1, OAuthFirst, TokenStep, PTL DEF OAuthSpec

\* At most one request of a channel is between the lock and its return, and what each of them
\* carries has the type of its step.
THEOREM OneRefreshAtATime == OAuthSpec => [](OAuthTypeOK /\ LockHeld)
<1>1. TokenInv => OAuthTypeOK /\ LockHeld
  BY DEF TokenInv
<1> QED
  BY <1>1, OAuthFirst, TokenStep, PTL DEF OAuthSpec

-----------------------------------------------------------------------------
(* TokenAccess. *)

USE RequestsAssumption, LimitsAssumption, MinuteAssumption, GrantsAssumption

\* The part of the state that is about slots.
SlotInv == SlotTypeOK /\ ActiveCounted /\ ConcurrencyWithinLimit

\* The sets that are counted are finite, and those under a limit are among
\* the running ones.
LEMMA RunningFinite ==
  /\ IsFiniteSet(Running) /\ Cardinality(Running) \in Nat
  /\ \A k : /\ IsFiniteSet(RunningUnder(k))
            /\ Cardinality(RunningUnder(k)) \in Nat
            /\ Cardinality(RunningUnder(k)) <= Cardinality(Running)
<1>1. IsFiniteSet(Running)
  BY FS_Subset DEF Running
<1>2. ASSUME NEW k
      PROVE  /\ IsFiniteSet(RunningUnder(k))
             /\ Cardinality(RunningUnder(k)) <= Cardinality(Running)
  BY <1>1, FS_Subset DEF RunningUnder
<1>3. QED
  BY <1>1, <1>2, FS_CardinalityType

\* A grant adds one to what runs, and its own limit bounds it.
LEMMA AcquireStep ==
  ASSUME SlotInv, NEW r \in Requests, Acquire(r)
  PROVE  SlotInv'
<1> USE DEF SlotInv, SlotTypeOK, LimitPairs, NoLimits
<1>1. SlotTypeOK'
  BY DEF Acquire, CurrentAge, CurrentRequests
<1>2. r \notin Running /\ Running' = Running \cup {r} /\ limits' = limits
  BY DEF Acquire, Running
<1>3. ActiveCounted'
  <2>1. Cardinality(Running \cup {r}) = Cardinality(Running) + 1
    BY <1>2, RunningFinite, FS_AddElement
  <2>2. Cardinality(Running') = Cardinality(Running) + 1
    BY <1>2, <2>1
  <2>3. QED
    BY <2>2 DEF ActiveCounted, Acquire
<1>4. ConcurrencyWithinLimit'
  <2> SUFFICES ASSUME NEW k \in ConcurrencyLimits
               PROVE  Cardinality(RunningUnder(k)') <= k
    BY DEF ConcurrencyWithinLimit
  <2>1. Cardinality(RunningUnder(k)) <= k
    BY DEF ConcurrencyWithinLimit
  <2>2. CASE limits[r].concurrency \in 1 .. k
    <3>1. RunningUnder(k)' = RunningUnder(k) \cup {r} /\ r \notin RunningUnder(k)
      BY <1>2, <2>2 DEF RunningUnder
    <3>2. Cardinality(RunningUnder(k)') = Cardinality(RunningUnder(k)) + 1
      BY <3>1, RunningFinite, FS_AddElement
    <3>3. window.active < limits[r].concurrency /\ limits[r].concurrency <= k
      BY <2>2 DEF Acquire, ConcurrencyExceeded
    <3>4. Cardinality(RunningUnder(k)) <= window.active
      BY RunningFinite DEF ActiveCounted
    <3>5. QED
      BY <2>2, <3>2, <3>3, <3>4, RunningFinite
  <2>3. CASE limits[r].concurrency \notin 1 .. k
    <3>1. RunningUnder(k)' = RunningUnder(k)
      BY <1>2, <2>3 DEF RunningUnder
    <3>2. QED
      BY <2>1, <3>1
  <2>4. QED
    BY <2>2, <2>3
<1>5. QED
  BY <1>1, <1>3, <1>4

\* A release takes one away, so the guard on the counter never matters.
LEMMA ReleaseStep ==
  ASSUME SlotInv, NEW r \in Requests, Release(r)
  PROVE  SlotInv'
<1> USE DEF SlotInv, SlotTypeOK, LimitPairs, NoLimits
<1>1. r \in Running /\ Running' = Running \ {r}
  BY DEF Release, BecomeIdle, Running
<1>2. window.active > 0
  BY <1>1, RunningFinite, FS_EmptySet DEF ActiveCounted
<1>3. window' = [window EXCEPT !.active = @ - 1]
  BY <1>2 DEF Release
<1>4. SlotTypeOK'
  BY <1>2, <1>3 DEF Release, BecomeIdle
<1>5. ActiveCounted'
  BY <1>1, <1>3, RunningFinite, FS_RemoveElement DEF ActiveCounted
<1>6. ConcurrencyWithinLimit'
  <2> SUFFICES ASSUME NEW k \in ConcurrencyLimits
               PROVE  Cardinality(RunningUnder(k)') <= k
    BY DEF ConcurrencyWithinLimit
  <2>1. RunningUnder(k)' \in SUBSET RunningUnder(k)
    BY <1>1 DEF RunningUnder, Release, BecomeIdle, Running
  <2>2. Cardinality(RunningUnder(k)') <= Cardinality(RunningUnder(k))
    BY <2>1, RunningFinite, FS_Subset
  <2>3. Cardinality(RunningUnder(k)') \in Nat
    BY <2>1, RunningFinite, FS_Subset, FS_CardinalityType
  <2>4. QED
    BY <2>2, <2>3, RunningFinite DEF ConcurrencyWithinLimit
<1>7. QED
  BY <1>4, <1>5, <1>6

\* A step that leaves the running handlers, their limits and the counter
\* alone keeps the slots as they are.
LEMMA OtherStep ==
  ASSUME SlotInv, SlotTypeOK', Running' = Running, window'.active = window.active,
         \A r \in Running : limits'[r] = limits[r]
  PROVE  SlotInv'
<1>1. \A k : RunningUnder(k)' = RunningUnder(k)
  BY DEF RunningUnder
<1>2. QED
  BY <1>1 DEF SlotInv, ActiveCounted, ConcurrencyWithinLimit

LEMMA InitTyped ==
  ASSUME AccessInit
  PROVE  SlotTypeOK
<1>1. token \in [enabled : BOOLEAN, rpm : RpmLimits, concurrency : ConcurrencyLimits]
  BY DEF AccessInit
<1>2. limits \in [Requests -> LimitPairs \cup {NoLimits}]
  BY DEF AccessInit
<1>3. window \in [age : 0 .. Minute, requests : Nat, active : Nat]
  BY DEF AccessInit
<1>4. QED
  BY <1>1, <1>2, <1>3 DEF AccessInit, SlotTypeOK

LEMMA SlotStep ==
  ASSUME SlotInv, [AccessNext]_accessVars
  PROVE  SlotInv'
<1> USE DEF SlotTypeOK, LimitPairs, NoLimits
<1>1. ASSUME NEW r \in Requests, Authenticate(r)
      PROVE  SlotInv'
  <2>1. SlotTypeOK'
    BY <1>1 DEF Authenticate, SlotInv
  <2>2. Running' = Running /\ \A s \in Running : limits'[s] = limits[s]
    BY <1>1 DEF Authenticate, SlotInv, Running
  <2>3. QED
    BY <1>1, <2>1, <2>2, OtherStep DEF Authenticate
<1>2. ASSUME NEW r \in Requests, Acquire(r)
      PROVE  SlotInv'
  BY <1>2, AcquireStep
<1>3. ASSUME NEW r \in Requests, Refuse(r)
      PROVE  SlotInv'
  <2>1. SlotTypeOK'
    BY <1>3 DEF Refuse, BecomeIdle, SlotInv
  <2>2. Running' = Running /\ \A s \in Running : limits'[s] = limits[s]
    BY <1>3 DEF Refuse, BecomeIdle, SlotInv, Running
  <2>3. QED
    BY <1>3, <2>1, <2>2, OtherStep DEF Refuse
<1>4. ASSUME NEW r \in Requests, Release(r)
      PROVE  SlotInv'
  BY <1>4, ReleaseStep
<1>5. ASSUME NEW enabled \in BOOLEAN, NEW pair \in LimitPairs,
             UpdateLimits(enabled, pair)
      PROVE  SlotInv'
  <2>1. SlotTypeOK'
    BY <1>5 DEF UpdateLimits, SlotInv
  <2>2. QED
    BY <1>5, <2>1, OtherStep DEF UpdateLimits, Running
<1>6. CASE MinuteTick
  <2>1. SlotTypeOK'
    BY <1>6 DEF MinuteTick, SlotInv
  <2>2. QED
    BY <1>6, <2>1, OtherStep DEF MinuteTick, Running, SlotInv
<1>7. CASE UNCHANGED accessVars
  <2>1. SlotTypeOK' /\ Running' = Running
    BY <1>7 DEF accessVars, SlotInv, Running
  <2>2. QED
    BY <1>7, <2>1, OtherStep DEF accessVars
<1>8. QED
  BY <1>1, <1>2, <1>3, <1>4, <1>5, <1>6, <1>7 DEF AccessNext

(* Slots are counted exactly and never granted beyond the limits that the  *)
(* holders were admitted under, for every number of handlers.              *)
THEOREM SlotSafety == AccessSpec => []SlotInv
<1>1. AccessInit => SlotInv
  <2> SUFFICES ASSUME AccessInit
               PROVE  SlotInv
    OBVIOUS
  <2>1. SlotTypeOK
    BY InitTyped
  <2>2. Running = {} /\ \A k : RunningUnder(k) = {}
    BY DEF AccessInit, Running, RunningUnder
  <2>3. ActiveCounted
    BY <2>2, FS_EmptySet DEF AccessInit, ActiveCounted
  <2>4. ConcurrencyWithinLimit
    BY <2>2, FS_EmptySet DEF ConcurrencyWithinLimit
  <2>5. QED
    BY <2>1, <2>3, <2>4 DEF SlotInv
<1>2. SlotInv /\ [AccessNext]_accessVars => SlotInv'
  BY SlotStep
<1>3. QED
  BY <1>1, <1>2, PTL DEF AccessSpec

(* No slot leaks and none is given back twice.                             *)
THEOREM SlotsCounted == AccessSpec => []ActiveCounted
<1>1. SlotInv => ActiveCounted
  BY DEF SlotInv
<1>2. QED
  BY <1>1, SlotSafety, PTL

(* At most k handlers run that were admitted under a limit of k or less.   *)
THEOREM ConcurrencyHolds == AccessSpec => []ConcurrencyWithinLimit
<1>1. SlotInv => ConcurrencyWithinLimit
  BY DEF SlotInv
<1>2. QED
  BY <1>1, SlotSafety, PTL
-----------------------------------------------------------------------------
(* The rate of grants. *)

\* Grants under a limit that belong to the window before the present one.
Before(k) == {i \in DOMAIN recent : recent[i].rpm \in 1 .. k /\ recent[i].ago > window.age}

\* What is remembered of grants; when a window has run out, none is of this tick.
RecentOK ==
  /\ IsFiniteSet(DOMAIN recent) /\ DOMAIN recent \subseteq Nat \ {0}
  /\ \A i \in DOMAIN recent :
       /\ recent[i].ago \in 0 .. (Minute - 1) /\ recent[i].rpm \in Nat
       /\ window.age = Minute => recent[i].ago > 0

\* The grants of the window are counted, and neither they nor those before
\* exceed a limit they were granted under.
RateKept(k) ==
  /\ Cardinality(GrantsUnder(k, window.age)) <= k
  /\ window.age < Minute => Cardinality(GrantsUnder(k, window.age)) <= window.requests
  /\ Cardinality(Before(k)) <= k

RateInv == SlotTypeOK /\ RecentOK /\ \A k \in RpmLimits : RateKept(k)

\* Numbering grants anew, a place later, does not make them more.
LEMMA ShiftedCount ==
  ASSUME NEW S \in SUBSET Nat, IsFiniteSet(S), NEW T \in SUBSET (Nat \ {0}),
         \A t \in T : t - 1 \in S
  PROVE  IsFiniteSet(T) /\ Cardinality(T) <= Cardinality(S)
<1> DEFINE f == [t \in T |-> t - 1]
<1>1. f \in Injection(T, S)
  BY DEF Injection, IsInjective
<1> HIDE DEF f
<1> QED
  BY <1>1, FS_Injection

\* What is counted is finite.
LEMMA GrantsFinite ==
  ASSUME RecentOK, NEW k, NEW age
  PROVE  /\ IsFiniteSet(GrantsUnder(k, age)) /\ Cardinality(GrantsUnder(k, age)) \in Nat
         /\ IsFiniteSet(Before(k)) /\ Cardinality(Before(k)) \in Nat
<1>1. GrantsUnder(k, age) \in SUBSET DOMAIN recent /\ Before(k) \in SUBSET DOMAIN recent
  BY DEF GrantsUnder, Before
<1> QED
  BY <1>1, FS_Subset, FS_CardinalityType DEF RecentOK

\* A step that grants nothing, lets grants grow older no slower than the
\* window, and forgets or keeps them, keeps the rate.
LEMMA NoGrant ==
  ASSUME RateInv, SlotTypeOK', RecentOK', DOMAIN recent' \subseteq DOMAIN recent,
         \A i \in DOMAIN recent' : /\ recent'[i].rpm = recent[i].rpm
                                   /\ recent'[i].ago <= window'.age
                                        <=> recent[i].ago <= window.age,
         window'.requests = window.requests,
         window'.age < Minute => window.age < Minute
  PROVE  RateInv'
<1> SUFFICES ASSUME NEW k \in RpmLimits PROVE RateKept(k)'
  BY DEF RateInv
<1>1. RateKept(k) /\ k \in Nat
  BY DEF RateInv
<1>2. GrantsUnder(k, window.age)' \in SUBSET GrantsUnder(k, window.age)
  BY DEF GrantsUnder
<1>3. Before(k)' \in SUBSET Before(k)
  BY DEF Before, RecentOK, RateInv, SlotTypeOK
<1>4. /\ Cardinality(GrantsUnder(k, window.age)') <= Cardinality(GrantsUnder(k, window.age))
      /\ Cardinality(GrantsUnder(k, window.age)') \in Nat
      /\ Cardinality(Before(k)') <= Cardinality(Before(k))
      /\ Cardinality(Before(k)') \in Nat
  BY <1>2, <1>3, GrantsFinite, FS_Subset, FS_CardinalityType DEF RateInv
<1>5. /\ Cardinality(GrantsUnder(k, window.age)) \in Nat /\ Cardinality(Before(k)) \in Nat
      /\ window.requests \in Nat
  BY GrantsFinite DEF RateInv, SlotTypeOK
<1> QED
  BY <1>1, <1>4, <1>5 DEF RateKept

\* A grant under a limit finds the window below it.
LEMMA AcquireKeepsRate ==
  ASSUME RateInv, NEW r \in Requests, Acquire(r)
  PROVE  RateInv'
<1> DEFINE new == [ago |-> 0, rpm |-> limits[r].rpm]
<1>1. /\ recent' = [i \in {1} \cup {j + 1 : j \in DOMAIN recent} |->
                      IF i = 1 THEN new ELSE recent[i - 1]]
      /\ window' = [age |-> CurrentAge, requests |-> CurrentRequests + 1,
                    active |-> window.active + 1]
  BY DEF Acquire
<1>2. /\ limits[r].rpm \in Nat /\ window.age \in 0 .. Minute /\ window.requests \in Nat
      /\ CurrentRequests \in Nat /\ CurrentAge \in 0 .. (Minute - 1)
  <2>1. limits[r] \in LimitPairs \cup {NoLimits}
    BY DEF RateInv, SlotTypeOK
  <2>2. limits[r].rpm \in Nat
    <3>1. CASE limits[r] \in [rpm : RpmLimits, concurrency : ConcurrencyLimits]
      BY <3>1
    <3>2. CASE limits[r] = [rpm |-> 0, concurrency |-> 0]
      BY <3>2
    <3> QED
      BY <2>1, <3>1, <3>2 DEF LimitPairs, NoLimits
  <2>3. window.age \in 0 .. Minute /\ window.requests \in Nat
    BY DEF RateInv, SlotTypeOK
  <2> QED
    BY <2>2, <2>3 DEF CurrentRequests, CurrentAge
<1>3. DOMAIN recent \subseteq Nat \ {0} /\ IsFiniteSet(DOMAIN recent)
  BY DEF RateInv, RecentOK
<1>4. /\ DOMAIN recent' = {1} \cup {j + 1 : j \in DOMAIN recent}
      /\ recent'[1] = new
      /\ \A i \in DOMAIN recent' :
           i # 1 => i - 1 \in DOMAIN recent /\ recent'[i] = recent[i - 1]
  BY <1>1, <1>3
<1>5. IsFiniteSet(DOMAIN recent') /\ DOMAIN recent' \subseteq Nat \ {0}
  <2>1. IsFiniteSet(DOMAIN recent' \ {1})
    BY <1>3, <1>4, ShiftedCount
  <2>2. DOMAIN recent' = (DOMAIN recent' \ {1}) \cup {1}
    BY <1>4
  <2> QED
    BY <1>3, <1>4, <2>1, <2>2, FS_AddElement
<1>6. SlotTypeOK'
  BY <1>1, <1>2 DEF RateInv, SlotTypeOK, Acquire
<1>7. RecentOK'
  BY <1>1, <1>2, <1>4, <1>5 DEF RateInv, RecentOK
<1>8. ASSUME NEW k \in RpmLimits
      PROVE  RateKept(k)'
  <2> DEFINE old == IF window.age < Minute THEN GrantsUnder(k, window.age) ELSE {}
             before == IF window.age < Minute THEN Before(k) ELSE GrantsUnder(k, window.age)
  <2>1. RateKept(k) /\ k \in Nat
    BY DEF RateInv
  <2>2. /\ old \in SUBSET Nat /\ IsFiniteSet(old)
        /\ Cardinality(old) \in Nat /\ Cardinality(old) <= k
        /\ Cardinality(old) <= CurrentRequests
    <3>1. old \in SUBSET Nat
      BY <1>3 DEF GrantsUnder
    <3>2. CASE window.age < Minute
      <4>1. old = GrantsUnder(k, window.age) /\ CurrentRequests = window.requests
        BY <1>2, <3>2 DEF CurrentRequests
      <4>2. IsFiniteSet(old) /\ Cardinality(old) \in Nat
        BY <4>1, GrantsFinite DEF RateInv
      <4>3. Cardinality(old) <= k /\ Cardinality(old) <= CurrentRequests
        BY <2>1, <3>2, <4>1 DEF RateKept
      <4> HIDE DEF old
      <4> QED
        BY <3>1, <4>2, <4>3
    <3>3. CASE ~(window.age < Minute)
      BY <1>2, <2>1, <3>1, <3>3, FS_EmptySet
    <3> QED
      BY <3>2, <3>3
  <2>3. before \in SUBSET Nat /\ IsFiniteSet(before) /\ Cardinality(before) <= k
    BY <1>3, <2>1, GrantsFinite DEF RateKept, RateInv, GrantsUnder, Before
  <2>4. \A t \in GrantsUnder(k, window.age)' \ {1} : t - 1 \in old
    BY <1>1, <1>2, <1>4 DEF GrantsUnder, CurrentAge, RateInv, RecentOK
  <2>5. \A t \in Before(k)' : t - 1 \in before
    BY <1>1, <1>2, <1>4 DEF GrantsUnder, Before, CurrentAge, RateInv, RecentOK
  <2>6. /\ GrantsUnder(k, window.age)' \in SUBSET (Nat \ {0})
        /\ Before(k)' \in SUBSET (Nat \ {0})
    BY <1>5 DEF GrantsUnder, Before
  <2> HIDE DEF old, before
  <2>7. /\ IsFiniteSet(GrantsUnder(k, window.age)' \ {1})
        /\ Cardinality(GrantsUnder(k, window.age)' \ {1}) <= Cardinality(old)
    BY <2>2, <2>4, <2>6, ShiftedCount
  <2>8. Cardinality(Before(k)') <= k
    <3>1. IsFiniteSet(Before(k)') /\ Cardinality(Before(k)') <= Cardinality(before)
      BY <2>3, <2>5, <2>6, ShiftedCount
    <3> QED
      BY <2>1, <2>3, <3>1, FS_CardinalityType
  <2>9. Cardinality(GrantsUnder(k, window.age)' \ {1}) \in Nat
    BY <2>7, FS_CardinalityType
  <2>10. CASE 1 \in GrantsUnder(k, window.age)'
    <3>1. GrantsUnder(k, window.age)' = (GrantsUnder(k, window.age)' \ {1}) \cup {1}
      BY <2>10
    <3>2. Cardinality(GrantsUnder(k, window.age)')
            = Cardinality(GrantsUnder(k, window.age)' \ {1}) + 1
      BY <2>7, <3>1, FS_AddElement
    <3>3. limits[r].rpm \in 1 .. k
      BY <1>4, <2>10 DEF GrantsUnder
    <3>4. CurrentRequests < limits[r].rpm
      BY <1>2, <3>3 DEF Acquire, RateExceeded
    <3>5. Cardinality(GrantsUnder(k, window.age)') <= CurrentRequests + 1
      BY <1>2, <2>2, <2>7, <2>9, <3>2
    <3>6. Cardinality(GrantsUnder(k, window.age)') <= k
      BY <1>2, <2>1, <2>2, <2>7, <2>9, <3>2, <3>3, <3>4
    <3> QED
      BY <1>1, <2>8, <3>5, <3>6 DEF RateKept
  <2>11. CASE 1 \notin GrantsUnder(k, window.age)'
    <3>1. GrantsUnder(k, window.age)' = GrantsUnder(k, window.age)' \ {1}
      BY <2>11
    <3>2. /\ Cardinality(GrantsUnder(k, window.age)') <= k
          /\ Cardinality(GrantsUnder(k, window.age)') <= CurrentRequests + 1
      BY <1>2, <2>1, <2>2, <2>7, <2>9, <3>1
    <3> QED
      BY <1>1, <2>8, <3>2 DEF RateKept
  <2> QED
    BY <2>10, <2>11
<1> QED
  BY <1>6, <1>7, <1>8 DEF RateInv

LEMMA TickKeepsRate ==
  ASSUME RateInv, MinuteTick
  PROVE  RateInv'
<1>1. /\ window' = [window EXCEPT
                     !.age = IF window.age < Minute THEN window.age + 1 ELSE window.age]
      /\ recent' = [i \in StillRecent |-> [ago |-> recent[i].ago + 1, rpm |-> recent[i].rpm]]
  BY DEF MinuteTick
<1>2. /\ window.age \in 0 .. Minute /\ window'.age \in 0 .. Minute
      /\ window'.age = IF window.age < Minute THEN window.age + 1 ELSE window.age
      /\ window'.requests = window.requests
  BY <1>1 DEF RateInv, SlotTypeOK
<1>3. SlotTypeOK'
  BY <1>1, <1>2 DEF RateInv, SlotTypeOK, MinuteTick
<1>4. /\ DOMAIN recent' = StillRecent /\ StillRecent \in SUBSET DOMAIN recent
      /\ \A i \in StillRecent : /\ recent'[i].rpm = recent[i].rpm
                                /\ recent'[i].ago = recent[i].ago + 1
                                /\ recent[i].ago \in 0 .. (Minute - 1)
                                /\ recent[i].ago + 1 < Minute
  BY <1>1 DEF StillRecent, RateInv, RecentOK
<1>5. RecentOK'
  BY <1>2, <1>4, FS_Subset DEF RateInv, RecentOK
<1> QED
  BY <1>2, <1>3, <1>4, <1>5, NoGrant

\* The slots' other operations grant nothing and let no time pass.
LEMMA RateInvariance == AccessSpec => []RateInv
<1>1. AccessInit => RateInv
  <2> SUFFICES ASSUME AccessInit PROVE RateInv
    OBVIOUS
  <2>1. SlotTypeOK
    BY InitTyped
  <2>2. DOMAIN recent = {}
    BY DEF AccessInit
  <2>3. RecentOK
    BY <2>2, FS_EmptySet DEF RecentOK
  <2>4. \A k, age : GrantsUnder(k, age) = {} /\ Before(k) = {}
    BY <2>2 DEF GrantsUnder, Before
  <2>5. \A k \in RpmLimits : RateKept(k)
    BY <2>1, <2>4, FS_EmptySet DEF RateKept, SlotTypeOK
  <2> QED
    BY <2>1, <2>3, <2>5 DEF RateInv
<1>2. SlotInv /\ RateInv /\ [AccessNext]_accessVars => RateInv'
  <2> SUFFICES ASSUME SlotInv, RateInv, [AccessNext]_accessVars PROVE RateInv'
    OBVIOUS
  <2>1. SlotTypeOK'
    BY SlotStep DEF SlotInv
  <2>2. ASSUME recent' = recent, window'.age = window.age,
               window'.requests = window.requests
        PROVE  RateInv'
    <3>1. RecentOK'
      BY <2>2 DEF RateInv, RecentOK
    <3> QED
      BY <2>1, <2>2, <3>1, NoGrant
  <2>3. ASSUME NEW r \in Requests, Authenticate(r) \/ Refuse(r) \/ Release(r)
        PROVE  RateInv'
    <3>1. recent' = recent /\ window'.age = window.age /\ window'.requests = window.requests
      BY <2>3 DEF Authenticate, Refuse, Release, RateInv, SlotTypeOK
    <3> QED
      BY <2>2, <3>1
  <2>4. ASSUME NEW r \in Requests, Acquire(r)
        PROVE  RateInv'
    BY <2>4, AcquireKeepsRate
  <2>5. ASSUME NEW enabled \in BOOLEAN, NEW pair \in LimitPairs, UpdateLimits(enabled, pair)
        PROVE  RateInv'
    BY <2>2, <2>5 DEF UpdateLimits
  <2>6. CASE MinuteTick
    BY <2>6, TickKeepsRate
  <2>7. CASE UNCHANGED accessVars
    BY <2>2, <2>7 DEF accessVars
  <2> QED
    BY <2>3, <2>4, <2>5, <2>6, <2>7 DEF AccessNext
<1> QED
  BY <1>1, <1>2, SlotSafety, PTL DEF AccessSpec

(* A window grants at most k requests under a limit of k or less, and any  *)
(* minute, wherever it begins, at most 2k: what is neither of the present  *)
(* window nor of the one before it is a minute old.                        *)
THEOREM RateHolds == AccessSpec => []RateOverAnyMinute
<1>1. RateInv => RateOverAnyMinute
  <2> SUFFICES ASSUME RateInv, NEW k \in RpmLimits
               PROVE  /\ Cardinality(GrantsUnder(k, window.age)) <= k
                      /\ Cardinality(GrantsUnder(k, Minute)) <= 2 * k
    BY DEF RateOverAnyMinute
  <2>1. RateKept(k) /\ k \in Nat
    BY DEF RateInv
  <2>2. GrantsUnder(k, Minute) = GrantsUnder(k, window.age) \cup Before(k)
    BY DEF RateInv, RecentOK, SlotTypeOK, GrantsUnder, Before
  <2>3. GrantsUnder(k, window.age) \cap Before(k) = {}
    BY DEF RateInv, RecentOK, SlotTypeOK, GrantsUnder, Before
  <2>4. Cardinality(GrantsUnder(k, Minute))
          = Cardinality(GrantsUnder(k, window.age)) + Cardinality(Before(k))
    <3>1. IsFiniteSet(GrantsUnder(k, window.age)) /\ IsFiniteSet(Before(k))
          /\ Cardinality(GrantsUnder(k, window.age)) \in Nat
          /\ Cardinality(Before(k)) \in Nat
      BY GrantsFinite DEF RateInv
    <3>2. Cardinality(GrantsUnder(k, window.age) \cup Before(k))
            = Cardinality(GrantsUnder(k, window.age)) + Cardinality(Before(k))
                - Cardinality({})
      BY <2>3, <3>1, FS_Union
    <3> QED
      BY <2>2, <3>1, <3>2, FS_EmptySet
  <2> QED
    BY <2>1, <2>4, GrantsFinite DEF RateKept, RateInv
<1> QED
  BY <1>1, RateInvariance, PTL
=============================================================================

----------------------------- MODULE OAuthRefresh -----------------------------
(***************************************************************************)
(* The ChatGPT credentials of one channel: channelAccessToken.             *)
(*                                                                         *)
(* A request whose planned copy of the channel has expired takes the       *)
(* channel's lock, reads the row again and refreshes it with the identity  *)
(* provider, which may rotate the refresh token; the one it was sent is    *)
(* then spent.  An administrator's edit reads the row and saves all of it, *)
(* without the lock.  Refresh tokens are numbered as they are issued.      *)
(***************************************************************************)
EXTENDS Naturals

CONSTANTS
  Relays,          \* relay requests that may run together
  ChannelEditors,  \* UpdateChannel calls that may overlap
  MaxIssued,       \* bound of the model: refresh tokens
  Nobody           \* the lock is free

ASSUME NobodyAssumption == Nobody \notin Relays
ASSUME IssuedAssumption == MaxIssued \in Nat \ {0}

VARIABLES
  row,          \* of channels: present, oauth (auth_type), refresh token (0: none) and expiry
  request,      \* each request: step, and the copy of the row or the token it works with
  lock,         \* the holder of oauthLocks[channel]
  channelEdit,  \* each edit: step and the row it has read
  tokens,       \* refresh tokens issued so far
  spent,        \* those the provider has rotated
  resent,       \* history: a spent token was sent
  lost          \* history: a successor was not stored, or was overwritten

oauthVars == <<row, request, lock, channelEdit, tokens, spent, resent, lost>>

-----------------------------------------------------------------------------
Expiries == {"fresh", "expired", "none"}
Rows     == [present: BOOLEAN, oauth: BOOLEAN, refresh: 0..MaxIssued, expires: Expiries]
Idle     == [step |-> "idle"]

\* An access token without an expiry never expires; the last minute counts as expired.
Unexpired(channel) == channel.expires \in {"fresh", "none"}

At(r, step) == request[r].step = step
Go(r, next) == request' = [request EXCEPT ![r] = next]

-----------------------------------------------------------------------------
(* channelAccessToken. *)

\* The plan's copy of the row, which earlier attempts of the request may make old.
Plan(r) ==
  /\ At(r, "idle") /\ row.present
  /\ Go(r, [step |-> "planned", copy |-> row])
  /\ UNCHANGED <<row, lock, channelEdit, tokens, spent, resent, lost>>

UsePlanned(r) ==
  /\ At(r, "planned")
  /\ ~request[r].copy.oauth \/ Unexpired(request[r].copy)
  /\ Go(r, Idle)
  /\ UNCHANGED <<row, lock, channelEdit, tokens, spent, resent, lost>>

Lock(r) ==
  /\ At(r, "planned")
  /\ request[r].copy.oauth /\ ~Unexpired(request[r].copy)
  /\ lock = Nobody
  /\ lock' = r
  /\ Go(r, [request[r] EXCEPT !.step = "locked"])
  /\ UNCHANGED <<row, channelEdit, tokens, spent, resent, lost>>

\* Every return after the lock unlocks it.
Return(r) == lock' = Nobody /\ Go(r, Idle)

\* Mutant: the holder works with its planned copy of the row.
CurrentPlanned(r) == request[r].copy
Current(r)        == row

Reread(r) ==
  /\ At(r, "locked")
  /\ IF row.present /\ ~Unexpired(Current(r)) /\ Current(r).refresh # 0
     THEN Go(r, [step |-> "sending", token |-> Current(r).refresh]) /\ UNCHANGED lock
     ELSE Return(r)
  /\ UNCHANGED <<row, channelEdit, tokens, spent, resent, lost>>

\* The refresh reaches the provider, which refuses a spent token, rotates an unspent one
\* (successor) or keeps it; the answer may be lost on the way back.
Send(r) ==
  LET token == request[r].token
  IN /\ At(r, "sending")
     /\ resent' = (resent \/ token \in spent)
     /\ \/ Return(r) /\ UNCHANGED <<tokens, spent, lost>>
        \/ /\ token \notin spent /\ tokens < MaxIssued
           /\ tokens' = tokens + 1
           /\ spent' = spent \cup {token}
           /\ \/ Return(r) /\ lost' = TRUE
              \/ /\ \E expires \in BOOLEAN :
                      Go(r, [step |-> "answered", token |-> tokens + 1, expires |-> expires])
                 /\ UNCHANGED <<lock, lost>>
        \/ /\ token \notin spent
           /\ \E expires \in BOOLEAN : Go(r, [step |-> "answered", token |-> 0, expires |-> expires])
           /\ UNCHANGED <<lock, tokens, spent, lost>>
     /\ UNCHANGED <<row, channelEdit>>

\* Updates leaves the columns the answer has nothing for.
Stored(answer) == IF answer.token # 0 THEN answer.token ELSE row.refresh

Store(r) ==
  /\ At(r, "answered")
  /\ row' = IF row.present
            THEN [row EXCEPT !.refresh = Stored(request[r]),
                             !.expires = IF request[r].expires THEN "fresh" ELSE @]
            ELSE row
  /\ lost' = (lost \/ (~row.present /\ request[r].token # 0))
  /\ Return(r)
  /\ UNCHANGED <<channelEdit, tokens, spent, resent>>

\* The client has left, and the update runs in the context of its request.
StoreCancelled(r) ==
  /\ At(r, "answered")
  /\ lost' = (lost \/ request[r].token # 0)
  /\ Return(r)
  /\ UNCHANGED <<row, channelEdit, tokens, spent, resent>>

-----------------------------------------------------------------------------
(* updateChannel. *)

ReadChannel(e) ==
  /\ channelEdit[e].step = "idle" /\ row.present
  /\ channelEdit' = [channelEdit EXCEPT ![e] = [step |-> "read", copy |-> row]]
  /\ UNCHANGED <<row, request, lock, tokens, spent, resent, lost>>

\* The form brings the expiry it was opened with, and perhaps credentials the administrator
\* has just obtained from the provider.
SaveChannel(e, oauth, expires, renewed) ==
  LET kept == channelEdit[e].copy.refresh
  IN /\ channelEdit[e].step = "read"
     /\ renewed => oauth /\ tokens < MaxIssued
     /\ row' = [present |-> TRUE, oauth |-> oauth,
                refresh |-> IF ~oauth THEN 0 ELSE IF renewed THEN tokens + 1 ELSE kept,
                expires |-> IF oauth THEN expires ELSE "none"]
     /\ tokens' = IF renewed THEN tokens + 1 ELSE tokens
     /\ lost' = (lost \/ (oauth /\ ~renewed /\ kept # row.refresh))
     /\ channelEdit' = [channelEdit EXCEPT ![e] = Idle]
     /\ UNCHANGED <<request, lock, spent, resent>>

DeleteChannel ==
  /\ row.present
  /\ row' = [row EXCEPT !.present = FALSE]
  /\ UNCHANGED <<request, lock, channelEdit, tokens, spent, resent, lost>>

-----------------------------------------------------------------------------
Aged(channel) == [channel EXCEPT !.expires = IF @ = "fresh" THEN "expired" ELSE @]

\* Time passes for the row and for every copy of it.
Expire ==
  /\ row' = Aged(row)
  /\ request' = [r \in Relays |-> IF At(r, "planned") \/ At(r, "locked")
                                  THEN [request[r] EXCEPT !.copy = Aged(@)] ELSE request[r]]
  /\ UNCHANGED <<lock, channelEdit, tokens, spent, resent, lost>>

\* The process stops and starts: requests, edits and locks are gone.
Crash ==
  /\ lost' = (lost \/ \E r \in Relays : At(r, "answered") /\ request[r].token # 0)
  /\ request' = [r \in Relays |-> Idle]
  /\ channelEdit' = [e \in ChannelEditors |-> Idle]
  /\ lock' = Nobody
  /\ UNCHANGED <<row, tokens, spent, resent>>

-----------------------------------------------------------------------------
OAuthInit ==
  /\ row = [present |-> TRUE, oauth |-> TRUE, refresh |-> 1, expires |-> "fresh"]
  /\ request = [r \in Relays |-> Idle]
  /\ channelEdit = [e \in ChannelEditors |-> Idle]
  /\ lock = Nobody
  /\ tokens = 1 /\ spent = {}
  /\ resent = FALSE /\ lost = FALSE

OAuthNext ==
  \/ \E r \in Relays : \/ Plan(r) \/ UsePlanned(r) \/ Lock(r) \/ Reread(r)
                       \/ Send(r) \/ Store(r) \/ StoreCancelled(r)
  \/ \E e \in ChannelEditors : \/ ReadChannel(e)
                               \/ \E oauth, renewed \in BOOLEAN, expires \in Expiries :
                                    SaveChannel(e, oauth, expires, renewed)
  \/ DeleteChannel \/ Expire \/ Crash

OAuthSpec == OAuthInit /\ [][OAuthNext]_oauthVars

-----------------------------------------------------------------------------
(* Properties. *)

\* No request refreshes with a token that another one has spent, however many find the
\* channel expired together: they read the row again once they hold the lock.  Excepted
\* are tokens whose successor could not be stored or was overwritten by an edit.
SpentOnce == resent => lost

=============================================================================

------------------------------ MODULE MCAccess ------------------------------
(* Three components that share nothing, one in each behaviour: the secrets *)
(* that open console sessions, the limits of an API token, and the         *)
(* upstream credentials of a channel.                                      *)
EXTENDS Console, TokenAccess, OAuthRefresh, TLC

VARIABLE part

\* While one component is at work the others stay in one of their initial states.
FirstConsole == subject.kind = "admin" /\ subject.enabled
FirstToken   == token.enabled /\ \A pair \in LimitPairs :
                  token.rpm <= pair.rpm /\ token.concurrency <= pair.concurrency

MCInit ==
  /\ Init /\ AccessInit /\ OAuthInit
  /\ \/ part = "console" /\ FirstToken
     \/ part = "token"   /\ FirstConsole
     \/ part = "oauth"   /\ FirstConsole /\ FirstToken

MCNext ==
  \/ part = "console" /\ Next /\ UNCHANGED <<part, accessVars, oauthVars>>
  \/ part = "token" /\ AccessNext /\ UNCHANGED <<part, vars, oauthVars>>
  \/ part = "oauth" /\ OAuthNext /\ UNCHANGED <<part, vars, accessVars>>

MCSpec == MCInit /\ [][MCNext]_<<part, vars, accessVars, oauthVars>>

MCSymmetry == Permutations(Editors)
=============================================================================

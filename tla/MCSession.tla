------------------------------ MODULE MCSession ------------------------------
(* Three questions a request of a session asks, one in each behaviour:     *)
(* which session a conversation belongs to that names none, which channel  *)
(* the session takes, and which context window it shows.  The three share  *)
(* no row that another one writes: the first gives a request its session   *)
(* id, the others take any.                                                *)
(*                                                                         *)
(* Three requests; two models, two channels of which one hosts both models *)
(* and the other one of them; two sessions; two clients.                   *)
EXTENDS SessionRoute, ChatSession, ContextWindow

CONSTANTS c1, c2, x, y, f1, f2, s1, s2, w1, w2, u, v, m1, m2

VARIABLE part

MCMappings == {<<c1, x>>, <<c2, x>>, <<c2, y>>}

\* A conversation, its two continuations, one for each answer, and another one.
MCConversations == {<<w1>>, <<w1, u, w2>>, <<w1, v, w2>>, <<w2>>}
MCAnswers       == {<<>>, <<u>>, <<v>>}

\* One session whose client may send no fingerprint, and one whose client may change.
MCClientsOf == [s \in {s1, s2} |-> IF s = s1 THEN {f1, Unknown} ELSE {f1, f2}]
MCHistories == {<<<<s1, m, "auto", 100000>>, <<s1, n, "turn", 0>>, <<s2, m, "turn", 0>>>> :
                  m \in {m1, m2}, n \in {m1, m2}}

MCProfiles  == {<<>>, <<2000, 2000, 2000>>}

\* While one of them is at work the others stay in an initial state.
FirstWindow == upgraded /\ \A p \in DOMAIN profile : profile[p] = Unknown

MCInit == /\ Init /\ ChatInit /\ WindowInit
          /\ part \in {"route", "chat", "window"}
          /\ part # "window" => FirstWindow
MCNext ==
  \/ part = "route" /\ Next /\ UNCHANGED <<part, chatVars, windowVars>>
  \/ part = "chat" /\ ChatNext /\ UNCHANGED <<part, vars, windowVars>>
  \/ part = "window" /\ WindowNext /\ UNCHANGED <<part, vars, chatVars>>
MCSpec == MCInit /\ [][MCNext]_<<part, vars, chatVars, windowVars>>
==============================================================================

----------------------------- MODULE ChatSession -----------------------------
(***************************************************************************)
(* The sessions of a client that names none: resolveCopilotChatSession.    *)
(*                                                                         *)
(* A chat request brings its whole conversation.  Before it is relayed, a  *)
(* transaction looks for the session it goes on with: the one that has     *)
(* claimed the same conversation, or one that a part of it leads to.  When *)
(* it has been answered the recording transaction writes the conversation  *)
(* and the answer into the session's state.  Requests overlap, claims and  *)
(* states age and expire separately, and logs are deleted meanwhile.       *)
(*                                                                         *)
(* Abstractions: one token, whose clients all have one fingerprint; equal  *)
(* messages have equal hashes; the 128 latest claims and states are all.   *)
(***************************************************************************)
EXTENDS Naturals, FiniteSets, SequencesExt

CONSTANTS
  Chats,          \* chat requests, numbered in the order in which they begin
  Messages,
  Conversations,  \* what clients may send, none of them empty
  Answers,        \* messages an answer adds to a conversation, perhaps none
  Nothing,        \* no session, no row
  MaxSessions     \* bound of the model

ASSUME ConversationsAssumption == Conversations \subseteq Seq(Messages) \ {<<>>}
ASSUME AnswersAssumption       == Answers \subseteq Seq(Messages)
ASSUME SessionsAssumption      == MaxSessions \in Nat

VARIABLES
  claim,     \* relay_chat_session_claims: of a conversation the session and its age
  state,     \* relay_session_states: request and payload manifest, and age
  rows,      \* relay_request_logs: the age of a session's latest row
  chat,      \* each request: stage, conversation and the session it was given
  sessions,  \* session ids made so far
  past       \* history: conversations that sessions were given, with their answers

chatVars == <<claim, state, rows, chat, sessions, past>>

-----------------------------------------------------------------------------
\* The age of an entry: within the window of twelve hours, past it, past retention.
Recent  == 0
Expired == 2
Ages    == Recent..Expired
Ids     == 1..MaxSessions

Claims == [session : Ids, age : Ages]
States == [request : Conversations, payload : Seq(Messages), age : Ages]
Pasts  == [session : Ids, conversation : Conversations, age : Ages]

ASSUME NothingAssumption == Nothing \notin Ids \cup Claims \cup States \cup Pasts

IdleChat == [stage |-> "idle", conversation |-> <<>>, session |-> Nothing, known |-> {}, recent |-> {}]

Is(entry, age) == entry # Nothing /\ entry.age = age

-----------------------------------------------------------------------------
(* resolveChatHistoryCandidate. *)

\* Mutant: the lengths are enough.
PrefixByLength(s, t) == s # <<>> /\ Len(s) <= Len(t)
IsHashPrefix(s, t)   == s # <<>> /\ IsPrefix(s, t)

Goes(s, t) == IsHashPrefix(s, t) /\ Len(s) < Len(t)

\* Mutant: what a session was given since then is all that counts.
LeadsIfLatest(s, c, current) ==
  Is(claim[c], Recent) /\ claim[c].session = s /\ Goes(c, current)
  /\ state[s] # Nothing /\ state[s].request = c

Leads(s, c, current) == Is(claim[c], Recent) /\ claim[c].session = s /\ Goes(c, current)

\* What speaks for a session: its latest answer, its latest request, an earlier one.
Scores(s, current) ==
  {0}
  \cup {4 : x \in {st \in {state[s]} : Is(st, Recent) /\ Len(st.payload) > Len(st.request)
                                        /\ IsHashPrefix(st.payload, current)}}
  \cup {3 : x \in {st \in {state[s]} : Is(st, Recent) /\ Goes(st.request, current)}}
  \cup {2 : c \in {c \in Conversations : Leads(s, c, current)}}

Score(s, current) == CHOOSE n \in Scores(s, current) : \A m \in Scores(s, current) : m <= n

Best(current) == {s \in Ids : /\ Score(s, current) > 0
                              /\ \A t \in Ids : Score(t, current) <= Score(s, current)}

\* The one session that most speaks for; if two are equal, none.
Candidate(current) == IF Cardinality(Best(current)) = 1 THEN CHOOSE s \in Best(current) : TRUE ELSE Nothing

-----------------------------------------------------------------------------
\* OnConflict DoNothing.
KeptOr(entry, new) == IF entry = Nothing THEN new ELSE entry

\* Sessions that were given a conversation which this one repeats or goes on with.
Known(current, past0) ==
  {p.session : p \in {p \in past0 : IsPrefix(p.conversation, current)}}

\* The request is given the session s, by a claim of this age.
BeginChat(r, c, s, age) ==
  /\ chat' = [chat EXCEPT ![r] =
       [stage |-> "running", conversation |-> c, session |-> s,
        known |-> Known(c, past) \cup {n \in {s} : \A p \in past : p.session # n},
        recent |-> IF age # Recent THEN {}
                   ELSE Known(c, {p \in past : p.age = Recent}) \cup {n \in Ids : Score(n, c) > 0}]]
  /\ past' = {p \in past : p.session # s \/ p.conversation # c}
               \cup {[session |-> s, conversation |-> c, age |-> age]}

Begins(r) == chat[r].stage = "idle" /\ \A q \in Chats : q < r => chat[q].stage # "idle"

ResolveClaimed(r, c) ==
  /\ Begins(r) /\ Is(claim[c], Recent)
  /\ BeginChat(r, c, claim[c].session, Recent)
  /\ UNCHANGED <<claim, state, rows, sessions>>

\* A claim past the window does not decide at first, but is in the way of a new one.
ResolveByHistory(r, c) ==
  LET found == Candidate(c)
      named == IF found = Nothing THEN sessions + 1 ELSE found
      kept  == KeptOr(claim[c], [session |-> named, age |-> Recent])
  IN  /\ Begins(r) /\ ~Is(claim[c], Recent)
      /\ named \in Ids
      /\ sessions' = IF found = Nothing THEN sessions + 1 ELSE sessions
      /\ claim' = [claim EXCEPT ![c] = kept]
      /\ state' = [state EXCEPT ![kept.session] =
                     KeptOr(@, [request |-> c, payload |-> c, age |-> Recent])]
      /\ BeginChat(r, c, kept.session, kept.age)
      /\ UNCHANGED rows

\* The transaction fails: the request belongs to no session.
ResolveFails(r) ==
  /\ Begins(r)
  /\ chat' = [chat EXCEPT ![r].stage = "over"]
  /\ UNCHANGED <<claim, state, rows, sessions, past>>

-----------------------------------------------------------------------------
\* compactSessionPayload, in the transaction of recordRequest: whatever the state held,
\* it now holds this conversation.
RecordRequest(r, answer) ==
  LET c == chat[r].conversation  s == chat[r].session IN
  /\ chat[r].stage = "running"
  /\ state' = [state EXCEPT ![s] = [request |-> c, payload |-> c \o answer, age |-> Recent]]
  /\ rows' = [rows EXCEPT ![s] = Recent]
  /\ chat' = [chat EXCEPT ![r] = [IdleChat EXCEPT !.stage = "over"]]
  /\ UNCHANGED <<claim, sessions, past>>

RecordLost(r) ==
  /\ chat[r].stage = "running"
  /\ chat' = [chat EXCEPT ![r] = [IdleChat EXCEPT !.stage = "over"]]
  /\ UNCHANGED <<claim, state, rows, sessions, past>>

-----------------------------------------------------------------------------
(* Time, cleanup and deletion. *)

Aged(entry) == IF entry = Nothing THEN Nothing ELSE [entry EXCEPT !.age = IF @ = Expired THEN @ ELSE @ + 1]

\* Half a day passes, in which every request that is running ends.
Tick ==
  /\ \A r \in Chats : chat[r].stage # "running"
  /\ claim' = [c \in Conversations |-> Aged(claim[c])]
  /\ state' = [s \in Ids |-> Aged(state[s])]
  /\ rows' = [s \in Ids |-> IF rows[s] \in {Nothing, Expired} THEN rows[s] ELSE rows[s] + 1]
  /\ past' = {Aged(p) : p \in past}
  /\ <<claim', state', rows'>> # <<claim, state, rows>>
  /\ UNCHANGED <<chat, sessions>>

\* cleanupExpired, statement by statement; a failed one is not repeated.
CleanupRows ==
  /\ rows' = [s \in Ids |-> IF rows[s] = Expired THEN Nothing ELSE rows[s]]
  /\ UNCHANGED <<claim, state, chat, sessions, past>>
CleanupStates ==
  /\ state' = [s \in Ids |-> IF Is(state[s], Expired) THEN Nothing ELSE state[s]]
  /\ UNCHANGED <<claim, rows, chat, sessions, past>>
CleanupClaims ==
  /\ claim' = [c \in Conversations |-> IF Is(claim[c], Expired) THEN Nothing ELSE claim[c]]
  /\ UNCHANGED <<state, rows, chat, sessions, past>>

\* Sessions without a row lose their state and claims, those whose first request is
\* running among them.
DeleteHistoricalLogsBefore ==
  LET left == {s \in Ids : rows[s] \notin {Nothing, Expired}} IN
  /\ rows' = [s \in Ids |-> IF s \in left THEN rows[s] ELSE Nothing]
  /\ state' = [s \in Ids |-> IF s \in left THEN state[s] ELSE Nothing]
  /\ claim' = [c \in Conversations |-> IF claim[c] # Nothing /\ claim[c].session \notin left THEN Nothing
                                       ELSE claim[c]]
  /\ past' = {IF p.session \in left THEN p ELSE [p EXCEPT !.age = Expired] : p \in past}
  /\ UNCHANGED <<chat, sessions>>

-----------------------------------------------------------------------------
ChatInit ==
  /\ claim = [c \in Conversations |-> Nothing]
  /\ state = [s \in Ids |-> Nothing]
  /\ rows = [s \in Ids |-> Nothing]
  /\ chat = [r \in Chats |-> IdleChat]
  /\ sessions = 0 /\ past = {}

ChatNext ==
  \/ \E r \in Chats : \/ \E c \in Conversations : ResolveClaimed(r, c) \/ ResolveByHistory(r, c)
                         \/ \E answer \in Answers : RecordRequest(r, answer)
                         \/ ResolveFails(r) \/ RecordLost(r)
  \/ Tick \/ CleanupRows \/ CleanupStates \/ CleanupClaims \/ DeleteHistoricalLogsBefore

ChatSpec == ChatInit /\ [][ChatNext]_chatVars

-----------------------------------------------------------------------------
(* Properties. *)

Running == {r \in Chats : chat[r].stage = "running"}

\* A request is only given the session of a conversation which it repeats or goes on
\* with, or a new one, whatever has been recorded, aged and expired in between.
ConversationsApart ==
  \A r \in Running : chat[r].session \in chat[r].known

\* If all the conversations of the window, on record or not yet, that a request repeats or
\* goes on with are of one session, it is given that session.  Excepted are conversations
\* that an older claim stands for, which is not renewed.
ConversationKept ==
  \A r \in Running : Cardinality(chat[r].recent) = 1 => chat[r].session \in chat[r].recent

\* A conversation stays in its session, and others stay out of it.
SessionOfConversation == ConversationsApart /\ ConversationKept

=============================================================================

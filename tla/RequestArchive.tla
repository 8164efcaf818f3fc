--------------------------- MODULE RequestArchive ---------------------------
(***************************************************************************)
(* What the request log promises of the bodies it keeps.  A body is told   *)
(* whole, or as what is left of it behind a number of messages said to     *)
(* have been recorded before; and so they have: a request recorded earlier *)
(* in the same session was sent or answered as many messages, alike in all *)
(* that a hash tells apart.  What has been told is never told otherwise    *)
(* later, and what has been lost stays lost.                               *)
(***************************************************************************)
EXTENDS Naturals, Sequences

CONSTANTS Requests, Sendable, Answers, ItemHash, None

VARIABLES
  sent,  \* what a client has sent: its session, and messages or a form
  held,  \* what a request was sent and answered, once it is recorded
  told   \* what the log tells of a request's body and of its attempt's

Entries == Requests \X {"request", "attempt"}

Pending == [state |-> "pending"]
Lost    == [state |-> "lost"]
Deleted == [state |-> "deleted"]
Telling(base, omitted, shown) ==
  [state |-> "told", base |-> base, omitted |-> omitted, shown |-> shown]

Alike(one, other) ==
  Len(one) = Len(other) /\ \A i \in DOMAIN one : ItemHash[one[i]] = ItemHash[other[i]]

\* The first messages, of which request q held the like.
HeldBefore(items, n, q) == /\ held[q] # None /\ n <= Len(held[q])
                           /\ Alike(SubSeq(items, 1, n), SubSeq(held[q], 1, n))

\* The request named is the one that held them, or only forms came after that one.
Names(base, q) == base = q \/ (held[base] # None /\ sent[base].form /\ sent[base].session = sent[q].session)

\* What is shown is the rest of what was sent.
ShowsRest(items, t) ==
  t.omitted \in 0..Len(items) /\ t.shown = SubSeq(items, t.omitted + 1, Len(items))

TrueOfRequest(r, t) ==
  /\ ShowsRest(sent[r].items, t)
  /\ t.omitted > 0 =>
       /\ sent[r].session # None
       /\ \E q \in Requests : /\ HeldBefore(sent[r].items, t.omitted, q)
                              /\ sent[q].session = sent[r].session
                              /\ Names(t.base, q)

\* An attempt leaves out what its own request holds.
TrueOfAttempt(r, t) == ShowsRest(sent[r].items, t) /\ (t.omitted > 0 => t.base = r)

Told(e, t) ==
  \/ t = Lost
  \/ /\ t.state = "told" /\ t = Telling(t.base, t.omitted, t.shown)
     /\ IF e[2] = "request" THEN TrueOfRequest(e[1], t) ELSE TrueOfAttempt(e[1], t)

Init == /\ sent = [r \in Requests |-> None] /\ held = [r \in Requests |-> None]
        /\ told = [e \in Entries |-> Pending]

Send(r, what) == /\ sent[r] = None
                 /\ sent' = [sent EXCEPT ![r] = what]
                 /\ UNCHANGED <<held, told>>

\* A request is recorded, and with it what the log will tell of it.
Record(r, answer) ==
  /\ sent[r] # None /\ held[r] = None
  /\ held' = [held EXCEPT ![r] = sent[r].items \o answer]
  /\ DOMAIN told' = Entries
  /\ \A e \in Entries : IF e[1] = r THEN Told(e, told'[e]) ELSE told'[e] = told[e]
  /\ UNCHANGED sent

\* What may be left of what was told.
Left(t) == IF t.state = "pending" THEN {Pending}
           ELSE IF t.state = "told" THEN {t, Lost, Deleted}
           ELSE {t, Deleted}

Lose == /\ DOMAIN told' = Entries /\ \A e \in Entries : told'[e] \in Left(told[e])
        /\ UNCHANGED <<sent, held>>

Next == \/ \E r \in Requests, what \in Sendable : Send(r, what)
        \/ \E r \in Requests, answer \in Answers : Record(r, answer)
        \/ Lose

Spec == Init /\ [][Next]_<<sent, held, told>>
=============================================================================

------------------------- MODULE PayloadLog_proofs -------------------------
(***************************************************************************)
(* What the log tells of a body is true of what was sent, for any          *)
(* requests, sessions, messages and hashes: PayloadLog implements          *)
(* RequestArchive.  What a row shows is fixed when the request is          *)
(* recorded, so that the invariant is about the session states it is       *)
(* computed from.                                                          *)
(***************************************************************************)
EXTENDS PayloadLog, SequenceTheorems, FiniteSetTheorems, TLAPS

-----------------------------------------------------------------------------
(* Sequences of messages and of their hashes. *)

Items == Seq(Messages)
HashArrays == Seq({ItemHash[m] : m \in Messages})

LEMMA HashesOf ==
  ASSUME NEW items \in Items
  PROVE  /\ Hashes(items) \in HashArrays
         /\ Len(items) \in Nat /\ Len(Hashes(items)) = Len(items)
         /\ \A i \in 1 .. Len(items) : Hashes(items)[i] = ItemHash[items[i]]
<1>1. DOMAIN items = 1 .. Len(items) /\ Len(items) \in Nat
  BY LenProperties DEF Items
<1>2. \A i \in 1 .. Len(items) : items[i] \in Messages
  BY ElementOfSeq DEF Items
<1>3. Hashes(items) = [i \in 1 .. Len(items) |-> ItemHash[items[i]]]
  BY <1>1 DEF Hashes
<1>4. QED
  BY <1>1, <1>2, <1>3 DEF HashArrays

LEMMA HashesOfBoth ==
  ASSUME NEW items \in Items, NEW answer \in Items
  PROVE  Hashes(items) \o Hashes(answer) = Hashes(items \o answer)
<1> DEFINE both == items \o answer
           left == Hashes(items) \o Hashes(answer)
<1>1. /\ both \in Items /\ Len(both) = Len(items) + Len(answer)
      /\ Len(items) \in Nat /\ Len(answer) \in Nat
      /\ \A i \in 1 .. Len(items) + Len(answer) :
           both[i] = IF i <= Len(items) THEN items[i] ELSE answer[i - Len(items)]
  BY ConcatProperties, LenProperties DEF Items
<1>2. /\ Hashes(items) \in HashArrays /\ Hashes(answer) \in HashArrays /\ Hashes(both) \in HashArrays
      /\ Len(Hashes(items)) = Len(items) /\ Len(Hashes(answer)) = Len(answer)
      /\ Len(Hashes(both)) = Len(both)
      /\ \A i \in 1 .. Len(items) : Hashes(items)[i] = ItemHash[items[i]]
      /\ \A i \in 1 .. Len(answer) : Hashes(answer)[i] = ItemHash[answer[i]]
      /\ \A i \in 1 .. Len(both) : Hashes(both)[i] = ItemHash[both[i]]
  BY <1>1, HashesOf
<1>3. /\ left \in HashArrays /\ Len(left) = Len(items) + Len(answer)
      /\ \A i \in 1 .. Len(items) + Len(answer) :
           left[i] = IF i <= Len(items) THEN Hashes(items)[i] ELSE Hashes(answer)[i - Len(items)]
  <2> DEFINE H == {ItemHash[m] : m \in Messages}
             a == Hashes(items)
             b == Hashes(answer)
  <2>1. a \in Seq(H) /\ b \in Seq(H) /\ Len(a) = Len(items) /\ Len(b) = Len(answer) /\ left = a \o b
    BY <1>2 DEF HashArrays
  <2>2. HashArrays = Seq(H)
    BY DEF HashArrays
  <2> HIDE DEF H, a, b, left
  <2>3. /\ a \o b \in Seq(H) /\ Len(a \o b) = Len(a) + Len(b)
        /\ \A i \in 1 .. Len(a) + Len(b) : (a \o b)[i] = IF i <= Len(a) THEN a[i] ELSE b[i - Len(a)]
    BY <2>1, ConcatProperties
  <2>4. QED
    BY <2>1, <2>2, <2>3 DEF a, b
<1> HIDE DEF both, left
<1>4. \A i \in 1 .. Len(both) : left[i] = Hashes(both)[i]
  <2> SUFFICES ASSUME NEW i \in 1 .. Len(both) PROVE left[i] = Hashes(both)[i]
    OBVIOUS
  <2>1. i \in 1 .. Len(items) + Len(answer) /\ i \in Nat /\ i >= 1
    BY <1>1
  <2>2. CASE i <= Len(items)
    <3>1. i \in 1 .. Len(items)
      BY <2>1, <2>2
    <3>2. QED
      BY <1>1, <1>2, <1>3, <2>1, <2>2, <3>1
  <2>3. CASE ~(i <= Len(items))
    <3>1. i - Len(items) \in 1 .. Len(answer)
      BY <1>1, <2>1, <2>3
    <3>2. QED
      BY <1>1, <1>2, <1>3, <2>1, <2>3, <3>1
  <2>4. QED
    BY <2>2, <2>3
<1>5. left = Hashes(both)
  BY <1>1, <1>2, <1>3, <1>4, SeqEqual DEF HashArrays
<1>6. QED
  BY <1>5 DEF both, left

\* A body is whole, or its first n messages, left out, are alike those of full.
Shows(items, body, full, base) ==
  \/ body = Whole(items)
  \/ \E n \in 0 .. Len(items) : /\ body = Delta(base, n, SubSeq(items, n + 1, Len(items)))
                                /\ n <= Len(full)
                                /\ \A i \in 1 .. n : ItemHash[items[i]] = ItemHash[full[i]]

LEMMA CompactedShows ==
  ASSUME NEW items \in Items, NEW before \in Items, NEW answer \in Items, NEW base,
         NEW m, m = [field |-> before, array |-> Hashes(before \o answer)]
  PROVE  Shows(items, Compacted(items, m, base), before \o answer, base)
<1> DEFINE full == before \o answer
<1>1. /\ full \in Items /\ Len(full) = Len(before) + Len(answer)
      /\ Len(before) \in Nat /\ Len(answer) \in Nat /\ Len(items) \in Nat /\ Len(full) \in Nat
      /\ \A i \in 1 .. Len(before) : full[i] = before[i]
  BY ConcatProperties, LenProperties DEF Items
<1>2. /\ Hashes(full) \in HashArrays /\ Len(Hashes(full)) = Len(full)
      /\ \A i \in 1 .. Len(full) : Hashes(full)[i] = ItemHash[full[i]]
      /\ Hashes(items) \in HashArrays /\ Len(Hashes(items)) = Len(items)
      /\ \A i \in 1 .. Len(items) : Hashes(items)[i] = ItemHash[items[i]]
  BY <1>1, HashesOf
<1>3. m.field = before /\ m.array = Hashes(full)
  OBVIOUS
<1> HIDE DEF full
<1>4. CASE Continues(items, m.array)
  <2> DEFINE n == Len(full)
  <2>1. /\ n <= Len(items) /\ n \in 0 .. Len(items)
        /\ Hashes(full) = SubSeq(Hashes(items), 1, n)
    <3>1. /\ Len(Hashes(full)) <= Len(Hashes(items))
          /\ SubSeq(Hashes(full), 1, Len(Hashes(full))) = SubSeq(Hashes(items), 1, Len(Hashes(full)))
      BY <1>3, <1>4 DEF Continues, IsPrefix
    <3>2. SubSeq(Hashes(full), 1, Len(Hashes(full))) = Hashes(full)
      BY <1>2, SubSeqFull DEF HashArrays
    <3>3. QED
      BY <1>1, <1>2, <3>1, <3>2
  <2>2. \A i \in 1 .. n : ItemHash[items[i]] = ItemHash[full[i]]
    <3> SUFFICES ASSUME NEW i \in 1 .. n PROVE ItemHash[items[i]] = ItemHash[full[i]]
      OBVIOUS
    <3>1. SubSeq(Hashes(items), 1, n)[i] = Hashes(items)[i]
      <4>1. 1 \in 1 .. Len(Hashes(items)) + 1 /\ n \in 0 .. Len(Hashes(items))
        BY <1>1, <1>2, <2>1
      <4> HIDE DEF n
      <4>2. QED
        BY <4>1 DEF HashArrays
    <3>2. i \in 1 .. Len(items)
      BY <1>1, <2>1
    <3>3. QED
      BY <1>2, <2>1, <3>1, <3>2
  <2>3. Compacted(items, m, base) = Delta(base, n, SubSeq(items, n + 1, Len(items)))
    <3>1. Len(m.array) = n
      BY <1>2, <1>3
    <3> HIDE DEF n
    <3>2. QED
      BY <1>4, <3>1 DEF Compacted
  <2>4. n <= Len(full)
    BY <1>1
  <2> HIDE DEF n
  <2>5. Shows(items, Compacted(items, m, base), full, base)
    BY <2>1, <2>2, <2>3, <2>4 DEF Shows
  <2>6. QED
    BY <2>5 DEF full
<1>5. CASE ~Continues(items, m.array) /\ m.field = items
  <2> DEFINE n == Len(items)
  <2>1. Compacted(items, m, base) = Delta(base, n, <<>>)
    BY <1>5 DEF Compacted
  <2>2. SubSeq(items, n + 1, Len(items)) = <<>>
    <3>1. n + 1 > Len(items)
      BY <1>1
    <3>2. QED
      BY <1>1, <3>1, SubSeqEmpty
  <2>3. n \in 0 .. Len(items) /\ n <= Len(full)
        /\ \A i \in 1 .. n : ItemHash[items[i]] = ItemHash[full[i]]
    BY <1>1, <1>3, <1>5
  <2>4. QED
    BY <2>1, <2>2, <2>3 DEF Shows, full
<1>6. CASE ~Continues(items, m.array) /\ m.field # items
  BY <1>6 DEF Compacted, Shows
<1>7. QED
  BY <1>4, <1>5, <1>6

-----------------------------------------------------------------------------
(* The invariant of the log. *)

Asked     == [stage : {"new", "running", "over"}, session : Sessions \cup {None}, form : BOOLEAN,
              items : Bodies \cup {<<>>}, answer : Answers \cup {<<>>}, started : Nat, recorded : Nat]
Manifests == [field : Items, array : HashArrays]
States    == [latest : Requests, manifest : SUBSET Manifests, updated : Nat]

LogTyped ==
  /\ request \in [Requests -> Asked]
  /\ row \in [Requests -> Rows \cup {None}]
  /\ state \in [Sessions -> States \cup {None}]
  /\ today \in Nat

Over(r) == request[r].stage = "over"

\* What a request and its answer add up to.
Full(r) == request[r].items \o request[r].answer

\* A manifest is of a recorded request of the session: of the one the state names,
\* unless that is a form.
Describes(m, q) == m = [field |-> request[q].items, array |-> Hashes(Full(q))]

StateTrue(s, st) ==
  /\ Over(st.latest) /\ request[st.latest].session = s
  /\ \A m \in st.manifest :
       \E q \in Requests : /\ Over(q) /\ request[q].session = s /\ Describes(m, q)
                           /\ st.latest = q \/ request[st.latest].form

StatesTrue == \A s \in Sessions : state[s] # None => StateTrue(s, state[s])

LogInv == LogTyped /\ StatesTrue

LEMMA AskedTyped ==
  ASSUME LogTyped, NEW r \in Requests
  PROVE  /\ request[r] \in Asked
         /\ request[r].items \in Items /\ request[r].answer \in Items /\ Full(r) \in Items
<1>1. <<>> \in Items /\ Bodies \subseteq Items /\ Answers \subseteq Items
  BY BodiesAssumption, EmptySeq DEF Items
<1>2. request[r] \in Asked
  BY DEF LogTyped
<1>3. request[r].items \in Items /\ request[r].answer \in Items
  BY <1>1, <1>2 DEF Asked
<1>4. Full(r) \in Items
  BY <1>3, ConcatProperties DEF Full, Items
<1>5. QED
  BY <1>2, <1>3, <1>4

-----------------------------------------------------------------------------
(* The steps.  Most only take something from the rows. *)

Lessened(old, new) ==
  \/ new = old
  \/ new = None
  \/ /\ old # None /\ new # None
     /\ new.request \in {old.request, Gone}
     /\ \/ new.attempt \in {old.attempt, None}
        \/ new.attempt = Gone /\ old.attempt # None

\* What a recorded request held remains, and a state that is not written is as true as
\* before.
LEMMA StateKept ==
  ASSUME LogInv, NEW s \in Sessions, NEW st, st = state[s], st # None,
         \A q \in Requests : Over(q) => request'[q] = request[q]
  PROVE  StateTrue(s, st)'
<1>1. st.latest \in Requests
  BY DEF LogInv, LogTyped, States
<1>2. StateTrue(s, st)
  BY DEF LogInv, StatesTrue
<1>3. Over(st.latest) /\ request'[st.latest] = request[st.latest]
  BY <1>1, <1>2 DEF StateTrue
<1>4. ASSUME NEW m \in st.manifest
      PROVE  \E q \in Requests : /\ Over(q)' /\ request'[q].session = s /\ Describes(m, q)'
                                 /\ st.latest = q \/ request'[st.latest].form
  <2>1. PICK q \in Requests : /\ Over(q) /\ request[q].session = s /\ Describes(m, q)
                              /\ st.latest = q \/ request[st.latest].form
    BY <1>2 DEF StateTrue
  <2>2. request'[q] = request[q]
    BY <2>1
  <2>3. Over(q)' /\ Describes(m, q)'
    BY <2>1, <2>2 DEF Over, Describes, Full
  <2>4. QED
    BY <1>3, <2>1, <2>2, <2>3
<1>5. QED
  BY <1>2, <1>3, <1>4 DEF StateTrue, Over

LEMMA LessenedKeepsInv ==
  ASSUME LogInv, request' = request,
         row' \in [Requests -> Rows \cup {None}],
         state' \in [Sessions -> States \cup {None}],
         \A s \in Sessions : state'[s] = state[s] \/ state'[s] = None,
         today' \in Nat
  PROVE  LogInv'
<1>1. LogTyped'
  BY DEF LogInv, LogTyped
<1>2. ASSUME NEW s \in Sessions, NEW st, st = state'[s], st # None PROVE StateTrue(s, st)'
  BY <1>2, StateKept
<1>3. StatesTrue'
  BY <1>2 DEF StatesTrue, StateTrue
<1>4. QED
  BY <1>1, <1>3 DEF LogInv

\* A request begins: nothing is stored yet.
LEMMA StartedKeepsInv ==
  ASSUME LogInv, NEW r \in Requests, NEW s \in Sessions \cup {None}, NEW form \in BOOLEAN,
         NEW items \in Bodies \cup {<<>>}, RecordRequestStarted(r, s, form, items)
  PROVE  LogInv'
<1> DEFINE mine == [Unsent EXCEPT !.stage = "running", !.session = s, !.form = form,
                                  !.items = items, !.started = today]
           new  == [created |-> today, request |-> Gone, attempt |-> None]
<1>1. /\ request' = [request EXCEPT ![r] = mine] /\ row' = [row EXCEPT ![r] = new]
      /\ UNCHANGED <<state, today>> /\ request[r].stage = "new"
  BY DEF RecordRequestStarted
<1>2. /\ request \in [Requests -> Asked] /\ row \in [Requests -> Rows \cup {None}]
      /\ state \in [Sessions -> States \cup {None}] /\ today \in Nat
  BY DEF LogInv, LogTyped
<1>3. mine \in Asked
  BY <1>2 DEF Unsent, Asked
<1>4. Gone \in Stored /\ new \in Rows
  BY <1>2, EmptySeq DEF Gone, Stored, Rows
<1> HIDE DEF mine, new
<1>5. LogTyped'
  BY <1>1, <1>2, <1>3, <1>4 DEF LogTyped
<1>6. \A q \in Requests : Over(q) => request'[q] = request[q]
  BY <1>1, <1>2 DEF Over
<1>7. StatesTrue'
  <2>1. ASSUME NEW z \in Sessions, NEW st, st = state'[z], st # None PROVE StateTrue(z, st)'
    BY <1>1, <1>6, <2>1, StateKept
  <2>2. QED
    BY <2>1 DEF StatesTrue, StateTrue
<1>8. QED
  BY <1>5, <1>7 DEF LogInv

-----------------------------------------------------------------------------
(* What the recording stores. *)

Rest(r, n) == SubSeq(request[r].items, n + 1, Len(request[r].items))

HeldAlike(r, n, q) ==
  /\ Over(q) /\ request[q].session = request[r].session /\ n <= Len(Full(q))
  /\ \A i \in 1 .. n : ItemHash[request[r].items[i]] = ItemHash[Full(q)[i]]

StandsFor(base, q) ==
  base = q \/ (Over(base) /\ request[base].form /\ request[base].session = request[q].session)

TellsRequest(r, body) ==
  \/ body \in {Gone, Whole(request[r].items)}
  \/ /\ request[r].session # None
     /\ \E n \in 0 .. Len(request[r].items), q \in Requests, base \in Requests :
          body = Delta(base, n, Rest(r, n)) /\ HeldAlike(r, n, q) /\ StandsFor(base, q)

TellsAttempt(r, body) ==
  \/ body \in {Gone, Whole(request[r].items)}
  \/ \E n \in 0 .. Len(request[r].items) : body = Delta(r, n, Rest(r, n))

LEMMA RequestTold ==
  ASSUME LogInv, NEW r \in Requests
  PROVE  TellsRequest(r, CompactSessionPayload(r))
<1> DEFINE mine == request[r]
           st   == state[mine.session]
           m    == CHOOSE m \in st.manifest : TRUE
           base == st.latest
<1>1. mine \in Asked /\ mine.items \in Items
  BY AskedTyped DEF LogInv
<1>2. CASE \/ mine.session = None \/ mine.form \/ mine.items \in Short
           \/ st = None \/ st.manifest = {}
  <2>1. CompactSessionPayload(r) = Whole(mine.items)
    BY <1>2 DEF CompactSessionPayload
  <2>2. QED
    BY <2>1 DEF TellsRequest
<1>3. CASE ~(\/ mine.session = None \/ mine.form \/ mine.items \in Short
             \/ st = None \/ st.manifest = {})
  <2>1. CompactSessionPayload(r) = Compacted(mine.items, m, base)
    BY <1>3 DEF CompactSessionPayload
  <2>2. mine.session \in Sessions /\ st \in States /\ m \in st.manifest /\ base \in Requests
    BY <1>1, <1>3 DEF LogInv, LogTyped, Asked, States
  <2>3. /\ Over(base) /\ request[base].session = mine.session
        /\ \A d \in st.manifest :
             \E q \in Requests : /\ Over(q) /\ request[q].session = mine.session /\ Describes(d, q)
                                 /\ base = q \/ request[base].form
    BY <1>3, <2>2 DEF LogInv, StatesTrue, StateTrue
  <2> HIDE DEF m, base
  <2>4. PICK q \in Requests : /\ Over(q) /\ request[q].session = mine.session /\ Describes(m, q)
                              /\ base = q \/ request[base].form
    BY <2>2, <2>3
  <2>5. request[q].items \in Items /\ request[q].answer \in Items
    BY AskedTyped DEF LogInv
  <2>6. m = [field |-> request[q].items, array |-> Hashes(request[q].items \o request[q].answer)]
    BY <2>4 DEF Describes, Full
  <2>7. Shows(mine.items, Compacted(mine.items, m, base), request[q].items \o request[q].answer, base)
    <3> HIDE DEF mine
    <3>1. QED
      BY <1>1, <2>5, <2>6, CompactedShows
  <2>8. Shows(mine.items, CompactSessionPayload(r), Full(q), base)
    BY <2>1, <2>7 DEF Full
  <2>9. StandsFor(base, q)
    BY <2>3, <2>4 DEF StandsFor
  <2>10. CASE CompactSessionPayload(r) = Whole(mine.items)
    BY <2>10 DEF TellsRequest
  <2>11. CASE CompactSessionPayload(r) # Whole(mine.items)
    <3>1. PICK n \in 0 .. Len(mine.items) :
            /\ CompactSessionPayload(r) = Delta(base, n, SubSeq(mine.items, n + 1, Len(mine.items)))
            /\ n <= Len(Full(q))
            /\ \A i \in 1 .. n : ItemHash[mine.items[i]] = ItemHash[Full(q)[i]]
      BY <2>8, <2>11 DEF Shows
    <3>2. HeldAlike(r, n, q) /\ CompactSessionPayload(r) = Delta(base, n, Rest(r, n))
      BY <2>4, <3>1 DEF HeldAlike, Rest
    <3>3. request[r].session # None /\ n \in 0 .. Len(request[r].items)
      BY <1>3, <3>1
    <3>4. QED
      BY <2>2, <2>9, <3>2, <3>3 DEF TellsRequest
  <2>12. QED
    BY <2>10, <2>11
<1>4. QED
  BY <1>2, <1>3

LEMMA AttemptTold ==
  ASSUME LogInv, NEW r \in Requests
  PROVE  TellsAttempt(r, CompactAttemptPayload(r))
<1> DEFINE items == request[r].items
           m     == PayloadManifest(items)
<1>1. items \in Items /\ <<>> \in Items /\ items \o <<>> = items
  BY AskedTyped, EmptySeq, ConcatEmptySeq DEF LogInv, Items
<1>2. CASE request[r].form \/ items \in Short
  BY <1>2 DEF CompactAttemptPayload, TellsAttempt
<1>3. CASE ~(request[r].form \/ items \in Short)
  <2>1. CompactAttemptPayload(r) = Compacted(items, m, r)
    BY <1>3 DEF CompactAttemptPayload
  <2>2. m = [field |-> items, array |-> Hashes(items \o <<>>)]
    BY <1>1 DEF PayloadManifest
  <2>3. Shows(items, Compacted(items, m, r), items \o <<>>, r)
    <3> HIDE DEF items, m
    <3>1. QED
      BY <1>1, <2>2, CompactedShows
  <2>4. \/ CompactAttemptPayload(r) = Whole(items)
        \/ \E n \in 0 .. Len(items) :
             CompactAttemptPayload(r) = Delta(r, n, SubSeq(items, n + 1, Len(items)))
    BY <2>1, <2>3 DEF Shows
  <2>5. QED
    BY <2>4 DEF TellsAttempt, Rest
<1>4. QED
  BY <1>2, <1>3

LEMMA BodiesStored ==
  ASSUME LogTyped, NEW r \in Requests, NEW body,
         TellsRequest(r, body) \/ TellsAttempt(r, body)
  PROVE  body \in Stored
<1>1. request[r].items \in Items /\ Len(request[r].items) \in Nat
  BY AskedTyped, LenProperties DEF Items
<1>2. Gone \in Stored /\ Whole(request[r].items) \in Stored
  BY <1>1, EmptySeq DEF Gone, Whole, Stored, Items
<1>3. ASSUME NEW n \in 0 .. Len(request[r].items) PROVE Rest(r, n) \in Items
  <2>1. /\ n + 1 \in Nat /\ n + 1 >= 1
        /\ \A i \in n + 1 .. Len(request[r].items) : request[r].items[i] \in Messages
    BY <1>1, ElementOfSeq DEF Items
  <2>2. QED
    BY <1>1, <2>1, SubSeqProperties DEF Items, Rest
<1>4. ASSUME NEW n \in 0 .. Len(request[r].items), NEW base \in Requests
      PROVE  Delta(base, n, Rest(r, n)) \in Stored
  BY <1>1, <1>3 DEF Delta, Stored, Items
<1>5. QED
  BY <1>2, <1>4 DEF TellsRequest, TellsAttempt

LEMMA SavedTells ==
  ASSUME LogInv, NEW r \in Requests, NEW kept \in KeptChoices
  PROVE  /\ SavedRow(r, kept) \in Rows
         /\ SavedRow(r, kept) # None /\ SavedRow(r, kept).attempt # None
         /\ TellsRequest(r, SavedRow(r, kept).request)
         /\ TellsAttempt(r, SavedRow(r, kept).attempt)
<1> DEFINE body    == Retained("request", kept, CompactSessionPayload(r))
           attempt == Retained("attempt", kept, CompactAttemptPayload(r))
<1>1. TellsRequest(r, body) /\ TellsAttempt(r, attempt)
  BY RequestTold, AttemptTold DEF Retained, TellsRequest, TellsAttempt
<1>2. SavedRow(r, kept) = [created |-> request[r].started, request |-> body, attempt |-> attempt]
  BY DEF SavedRow
<1> HIDE DEF body, attempt
<1>3. body \in Stored /\ attempt \in Stored /\ request[r].started \in Nat
  BY <1>1, BodiesStored, AskedTyped DEF LogInv, Asked
<1>4. SavedRow(r, kept) \in Rows
  BY <1>2, <1>3 DEF Rows
<1>5. QED
  BY <1>1, <1>2, <1>3, <1>4, NoneAssumption

LEMMA Appended ==
  ASSUME NEW items \in Items, NEW answer \in Items
  PROVE  AppendResponse(PayloadManifest(items), answer)
           = [field |-> items, array |-> Hashes(items \o answer)]
BY HashesOfBoth DEF AppendResponse, PayloadManifest

\* A request is recorded: the state names it, with its hashes or, if it is a form, with
\* those of an earlier one.
LEMMA RecordedKeepsInv ==
  ASSUME LogInv, NEW r \in Requests, NEW answer \in Answers, NEW kept \in KeptChoices,
         RecordRequest(r, answer, kept)
  PROVE  LogInv'
<1> DEFINE mine  == [request[r] EXCEPT !.stage = "over", !.answer = answer, !.recorded = today]
           saved == SavedRow(r, kept)
           s     == request[r].session
           next  == NextState(r, answer)
<1>1. /\ request' = [request EXCEPT ![r].stage = "over", ![r].answer = answer, ![r].recorded = today]
      /\ row' = [row EXCEPT ![r] = saved]
      /\ state' = IF s = None THEN state ELSE [state EXCEPT ![s] = next]
      /\ today' = today /\ request[r].stage = "running"
  BY DEF RecordRequest
<1>2. /\ request \in [Requests -> Asked] /\ row \in [Requests -> Rows \cup {None}]
      /\ state \in [Sessions -> States \cup {None}] /\ today \in Nat
  BY DEF LogInv, LogTyped
<1>3. request[r] \in Asked /\ request[r].items \in Items /\ answer \in Items
  BY AskedTyped, BodiesAssumption DEF LogInv, Items
<1>4. /\ mine \in Asked /\ mine.stage = "over" /\ mine.items = request[r].items
      /\ mine.answer = answer /\ mine.form = request[r].form /\ mine.session = s
  BY <1>2, <1>3 DEF Asked
<1>5. saved \in Rows
  BY SavedTells
<1>6. request' = [request EXCEPT ![r] = mine]
  BY <1>1, <1>2
<1>7. s # None => s \in Sessions
  BY <1>3 DEF Asked
<1>8. /\ next.latest = r
      /\ next.manifest = IF request[r].form
                         THEN IF state[s] = None THEN {} ELSE state[s].manifest
                         ELSE {[field |-> request[r].items, array |-> Hashes(request[r].items \o answer)]}
      /\ next = [latest |-> r, manifest |-> next.manifest, updated |-> today]
  BY <1>3, Appended, Zenon DEF NextState
<1>9. s # None => next \in States
  <2> SUFFICES ASSUME s # None PROVE next \in States
    OBVIOUS
  <2>1. state[s] # None => state[s].manifest \in SUBSET Manifests
    BY <1>2, <1>7 DEF States
  <2>2. [field |-> request[r].items, array |-> Hashes(request[r].items \o answer)] \in Manifests
    <3>1. request[r].items \o answer \in Items
      BY <1>3, ConcatProperties DEF Items
    <3>2. QED
      BY <1>3, <3>1, HashesOf DEF Manifests
  <2> DEFINE manifest == next.manifest
  <2>3. manifest \in SUBSET Manifests
    BY <1>8, <2>1, <2>2
  <2>4. next = [latest |-> r, manifest |-> manifest, updated |-> today]
    BY <1>8
  <2> HIDE DEF manifest, next
  <2>5. QED
    BY <1>2, <2>3, <2>4 DEF States
<1> HIDE DEF mine, saved, s, next
<1>10. \A q \in Requests : request'[q] = IF q = r THEN mine ELSE request[q]
  BY <1>2, <1>6
<1>11. \A z \in Sessions : state'[z] = IF z = s THEN next ELSE state[z]
  BY <1>1, <1>2, <1>7, NoneAssumption
<1>12. LogTyped'
  <2>1. request' \in [Requests -> Asked]
    BY <1>2, <1>4, <1>6
  <2>2. row' \in [Requests -> Rows \cup {None}]
    BY <1>1, <1>2, <1>5
  <2>3. state' \in [Sessions -> States \cup {None}]
    BY <1>1, <1>2, <1>7, <1>9
  <2>4. QED
    BY <1>1, <1>2, <2>1, <2>2, <2>3 DEF LogTyped
<1>13. \A q \in Requests : Over(q) => q # r /\ request'[q] = request[q]
  BY <1>1, <1>10 DEF Over
<1>14. request'[r] = mine /\ Over(r)' /\ request'[r].session = s
  BY <1>4, <1>10 DEF Over
<1>15. StatesTrue'
  <2>1. ASSUME NEW z \in Sessions, NEW st, st = state'[z], st # None
        PROVE  StateTrue(z, st)'
    <3>1. CASE z # s
      <4>1. st = state[z]
        BY <1>11, <2>1, <3>1
      <4>2. \A q \in Requests : Over(q) => request'[q] = request[q]
        BY <1>13
      <4>3. QED
        BY <2>1, <4>1, <4>2, StateKept
    <3>2. CASE z = s
      <4>1. st = next /\ st.latest = r
        BY <1>8, <1>11, <2>1, <3>2
      <4>2. CASE request[r].form
        <5>1. ASSUME NEW m \in st.manifest
              PROVE  \E q \in Requests : Over(q)' /\ request'[q].session = z /\ Describes(m, q)'
          <6>1. state[s] # None /\ m \in state[s].manifest
            BY <1>8, <4>1, <4>2, <5>1
          <6>2. PICK q \in Requests : Over(q) /\ request[q].session = s /\ Describes(m, q)
            BY <3>2, <6>1 DEF LogInv, StatesTrue, StateTrue
          <6>3. request'[q] = request[q]
            BY <1>13, <6>2
          <6>4. QED
            BY <3>2, <6>2, <6>3 DEF Over, Describes, Full
        <5>2. request'[r].form
          BY <1>4, <1>14, <4>2
        <5>3. QED
          BY <1>14, <3>2, <4>1, <5>1, <5>2 DEF StateTrue, Over
      <4>3. CASE ~request[r].form
        <5>1. st.manifest = {[field |-> request[r].items, array |-> Hashes(request[r].items \o answer)]}
          BY <1>8, <4>1, <4>3
        <5>2. \A m \in st.manifest : Describes(m, r)'
          BY <1>4, <1>14, <5>1 DEF Describes, Full
        <5>3. QED
          BY <1>14, <3>2, <4>1, <5>2 DEF StateTrue, Over
      <4>4. QED
        BY <4>2, <4>3
    <3>3. QED
      BY <3>1, <3>2
  <2>2. QED
    BY <2>1 DEF StatesTrue, StateTrue
<1>16. QED
  BY <1>12, <1>15 DEF LogInv

\* Every other step takes from the rows or leaves them alone.
Removal ==
  \/ \E c \in 2..today : \/ ClearHistoricalLogPayloadsBefore(c)
                         \/ DeleteHistoricalLogsBefore(c)
                         \/ CleanupResourcesBefore(c)
                         \/ BeginSweep(c)
  \/ SweepAttemptPayloads \/ SweepPayloads \/ SweepAttempts
  \/ SweepReferences \/ SweepRows \/ SweepStates
  \/ Tick
  \/ UNCHANGED vars

LEMMA ClearedLessens ==
  ASSUME NEW rw \in Rows
  PROVE  Cleared(rw) \in Rows /\ Lessened(rw, Cleared(rw))
<1>1. Gone \in Stored
  BY EmptySeq DEF Gone, Stored
<1>2. /\ Cleared(rw).request = Gone
      /\ Cleared(rw).attempt = IF rw.attempt = None THEN None ELSE Gone
      /\ Cleared(rw) \in Rows
  BY <1>1 DEF Cleared, Rows
<1>3. rw # None /\ Cleared(rw) # None
  BY <1>2, NoneAssumption
<1>4. QED
  BY <1>2, <1>3 DEF Lessened

LEMMA SweptLessens ==
  ASSUME NEW rw \in Rows
  PROVE  /\ [rw EXCEPT !.request = Gone] \in Rows /\ Lessened(rw, [rw EXCEPT !.request = Gone])
         /\ [rw EXCEPT !.attempt = None] \in Rows /\ Lessened(rw, [rw EXCEPT !.attempt = None])
         /\ rw.attempt # None =>
              [rw EXCEPT !.attempt = Gone] \in Rows /\ Lessened(rw, [rw EXCEPT !.attempt = Gone])
<1>1. Gone \in Stored
  BY EmptySeq DEF Gone, Stored
<1> DEFINE p == [rw EXCEPT !.request = Gone]
           a == [rw EXCEPT !.attempt = None]
           g == [rw EXCEPT !.attempt = Gone]
<1>2. /\ p \in Rows /\ p.request = Gone /\ p.attempt = rw.attempt
      /\ a \in Rows /\ a.request = rw.request /\ a.attempt = None
      /\ g \in Rows /\ g.request = rw.request /\ g.attempt = Gone
  BY <1>1 DEF Rows
<1>3. rw # None /\ p # None /\ a # None /\ g # None
  BY <1>2, NoneAssumption
<1> HIDE DEF p, a, g
<1>4. Lessened(rw, p) /\ Lessened(rw, a) /\ (rw.attempt # None => Lessened(rw, g))
  BY <1>2, <1>3 DEF Lessened
<1>5. QED
  BY <1>2, <1>4 DEF p, a, g

Lesser ==
  /\ request' = request /\ today' \in Nat
  /\ row' \in [Requests -> Rows \cup {None}]
  /\ state' \in [Sessions -> States \cup {None}]
  /\ \A r \in Requests : Lessened(row[r], row'[r])
  /\ \A s \in Sessions : state'[s] = state[s] \/ state'[s] = None

LEMMA RemovalLessens == LogInv /\ Removal => Lesser
<1> SUFFICES ASSUME LogInv, Removal PROVE Lesser
  OBVIOUS
<1>1. /\ request \in [Requests -> Asked] /\ row \in [Requests -> Rows \cup {None}]
      /\ state \in [Sessions -> States \cup {None}] /\ today \in Nat
  BY DEF LogInv, LogTyped
<1>2. ASSUME request' = request, row' = row, state' = state, today' \in Nat
      PROVE  Lesser
  BY <1>1, <1>2 DEF Lesser, Lessened
<1>3. ASSUME NEW S \in SUBSET Requests, \A r \in S : row[r] # None,
             row' = [r \in Requests |-> IF r \in S THEN Cleared(row[r]) ELSE row[r]],
             request' = request, state' = state, today' = today
      PROVE  Lesser
  <2>1. ASSUME NEW r \in Requests
        PROVE  row'[r] \in Rows \cup {None} /\ Lessened(row[r], row'[r])
    <3>1. CASE r \in S
      <4>1. row[r] \in Rows /\ row'[r] = Cleared(row[r])
        BY <1>1, <1>3, <3>1
      <4>2. QED
        BY <4>1, ClearedLessens
    <3>2. CASE r \notin S
      BY <1>1, <1>3, <3>2 DEF Lessened
    <3>3. QED
      BY <3>1, <3>2
  <2>2. row' \in [Requests -> Rows \cup {None}]
    BY <1>3, <2>1
  <2>3. QED
    BY <1>1, <1>3, <2>1, <2>2 DEF Lesser
<1>4. ASSUME NEW S \in SUBSET Requests,
             row' = [r \in Requests |-> IF r \in S THEN None ELSE row[r]],
             request' = request, today' = today,
             state' \in [Sessions -> States \cup {None}],
             \A s \in Sessions : state'[s] = state[s] \/ state'[s] = None
      PROVE  Lesser
  BY <1>1, <1>4 DEF Lesser, Lessened
<1>5. ASSUME NEW new, \A r \in Requests : row[r] # None => new[r] \in Rows /\ Lessened(row[r], new[r]),
             NEW S \in SUBSET Requests, \A r \in S : row[r] # None,
             row' = [r \in Requests |-> IF r \in S THEN new[r] ELSE row[r]],
             request' = request, state' = state, today' = today
      PROVE  Lesser
  <2>1. ASSUME NEW r \in Requests
        PROVE  row'[r] \in Rows \cup {None} /\ Lessened(row[r], row'[r])
    <3>1. CASE r \in S
      BY <1>5, <3>1
    <3>2. CASE r \notin S
      BY <1>1, <1>5, <3>2 DEF Lessened
    <3>3. QED
      BY <3>1, <3>2
  <2>2. row' \in [Requests -> Rows \cup {None}]
    BY <1>5, <2>1
  <2>3. QED
    BY <1>1, <1>5, <2>1, <2>2 DEF Lesser
<1>6. \A c : Before(c) \in SUBSET Requests /\ \A r \in Before(c) : row[r] # None
  BY DEF Before
<1>7. ASSUME NEW c \in 2..today, ClearHistoricalLogPayloadsBefore(c) PROVE Lesser
  BY <1>3, <1>6, <1>7 DEF ClearHistoricalLogPayloadsBefore
<1>8. ASSUME NEW c \in 2..today, DeleteHistoricalLogsBefore(c) PROVE Lesser
  <2> DEFINE left == [r \in Requests |-> IF r \in Before(c) THEN None ELSE row[r]]
             held(s) == \E r \in Requests : left[r] # None /\ request[r].session = s
  <2>1. /\ row' = left /\ request' = request /\ today' = today
        /\ state' = [s \in Sessions |-> IF held(s) THEN state[s] ELSE None]
    BY <1>8 DEF DeleteHistoricalLogsBefore
  <2> HIDE DEF held
  <2>2. /\ state' \in [Sessions -> States \cup {None}]
        /\ \A s \in Sessions : state'[s] = state[s] \/ state'[s] = None
    BY <1>1, <2>1
  <2>3. QED
    BY <1>4, <1>6, <2>1, <2>2
<1>9. ASSUME NEW c \in 2..today, CleanupResourcesBefore(c) PROVE Lesser
  BY <1>1, <1>2, <1>9 DEF CleanupResourcesBefore, logVars
<1>10. ASSUME NEW c \in 2..today, BeginSweep(c) PROVE Lesser
  BY <1>1, <1>2, <1>10 DEF BeginSweep, logVars
<1>11. CASE SweepAttemptPayloads
  <2> DEFINE S == {r \in Expired : row[r].attempt # None}
             new == [r \in Requests |-> IF row[r].attempt = None THEN row[r] ELSE [row[r] EXCEPT !.attempt = Gone]]
  <2>1. ASSUME NEW r \in Requests, row[r] # None
        PROVE  new[r] \in Rows /\ Lessened(row[r], new[r])
    <3>1. row[r] \in Rows
      BY <1>1, <2>1
    <3>2. QED
      BY <3>1, SweptLessens DEF Lessened
  <2>2. S \in SUBSET Requests /\ \A r \in S : row[r] # None
    BY <1>6 DEF Expired
  <2>3. row' = [r \in Requests |-> IF r \in S THEN new[r] ELSE row[r]]
    BY <1>11 DEF SweepAttemptPayloads
  <2>4. request' = request /\ state' = state /\ today' = today
    BY <1>11 DEF SweepAttemptPayloads, Sweeping
  <2> HIDE DEF S, new
  <2>5. QED
    BY <1>5, <2>1, <2>2, <2>3, <2>4
<1>12. CASE SweepPayloads \/ SweepAttempts
  <2> DEFINE new == [r \in Requests |-> IF SweepPayloads THEN [row[r] EXCEPT !.request = Gone]
                                        ELSE [row[r] EXCEPT !.attempt = None]]
  <2>1. ASSUME NEW r \in Requests, row[r] # None
        PROVE  new[r] \in Rows /\ Lessened(row[r], new[r])
    <3>1. row[r] \in Rows
      BY <1>1, <2>1
    <3>2. QED
      BY <3>1, SweptLessens
  <2>2. row' = [r \in Requests |-> IF r \in Expired THEN new[r] ELSE row[r]]
    BY <1>12 DEF SweepPayloads, SweepAttempts, Expired, Before
  <2>3. request' = request /\ state' = state /\ today' = today
    BY <1>12 DEF SweepPayloads, SweepAttempts, Sweeping
  <2>4. Expired \in SUBSET Requests /\ \A r \in Expired : row[r] # None
    BY <1>6 DEF Expired
  <2> HIDE DEF new
  <2>5. QED
    BY <1>5, <2>1, <2>2, <2>3, <2>4
<1>13. CASE SweepReferences
  BY <1>1, <1>2, <1>13 DEF SweepReferences, Sweeping
<1>14. CASE SweepRows
  <2>1. /\ state' \in [Sessions -> States \cup {None}]
        /\ \A s \in Sessions : state'[s] = state[s] \/ state'[s] = None
    BY <1>1, <1>14 DEF SweepRows
  <2>2. QED
    BY <1>4, <1>6, <1>14, <2>1 DEF SweepRows, Sweeping, Expired
<1>15. CASE SweepStates
  <2>1. row' = row /\ request' = request /\ today' = today
    BY <1>15 DEF SweepStates, Sweeping
  <2>2. /\ state' \in [Sessions -> States \cup {None}]
        /\ \A s \in Sessions : state'[s] = state[s] \/ state'[s] = None
    BY <1>1, <1>15 DEF SweepStates
  <2>3. QED
    BY <1>1, <2>1, <2>2 DEF Lesser, Lessened
<1>16. CASE Tick
  BY <1>1, <1>2, <1>16 DEF Tick, logVars
<1>17. CASE UNCHANGED vars
  BY <1>1, <1>2, <1>17 DEF vars, logVars
<1>18. QED
  BY <1>7, <1>8, <1>9, <1>10, <1>11, <1>12, <1>13, <1>14, <1>15, <1>16, <1>17 DEF Removal

-----------------------------------------------------------------------------
(* The invariant holds. *)

LEMMA StepsClassified ==
  [Next]_vars =>
    \/ \E r \in Requests, s \in Sessions \cup {None}, form \in BOOLEAN, b \in Bodies \cup {<<>>} :
         RecordRequestStarted(r, s, form, b)
    \/ \E r \in Requests, a \in Answers, kept \in KeptChoices : RecordRequest(r, a, kept)
    \/ Removal
BY DEF Next, Removal

LEMMA LogInvInit == Init => LogInv
<1> SUFFICES ASSUME Init PROVE LogInv
  OBVIOUS
<1>1. Unsent \in Asked
  BY DEF Unsent, Asked
<1>2. LogTyped
  BY <1>1 DEF Init, LogTyped
<1>3. StatesTrue
  BY DEF Init, StatesTrue
<1>4. QED
  BY <1>2, <1>3 DEF LogInv

LEMMA LogInvStep == LogInv /\ [Next]_vars => LogInv'
<1> SUFFICES ASSUME LogInv, [Next]_vars PROVE LogInv'
  OBVIOUS
<1>1. CASE \E r \in Requests, s \in Sessions \cup {None}, form \in BOOLEAN, b \in Bodies \cup {<<>>} :
             RecordRequestStarted(r, s, form, b)
  BY <1>1, StartedKeepsInv
<1>2. CASE \E r \in Requests, a \in Answers, kept \in KeptChoices : RecordRequest(r, a, kept)
  BY <1>2, RecordedKeepsInv
<1>3. CASE Removal
  BY <1>3, RemovalLessens, LessenedKeepsInv DEF Lesser
<1>4. QED
  BY <1>1, <1>2, <1>3, StepsClassified

LEMMA LogInvHolds == Spec => []LogInv
BY LogInvInit, LogInvStep, PTL DEF Spec

-----------------------------------------------------------------------------
(* The log implements the archive. *)

Absent(e) == row[e[1]] = None \/ Body(e) = None

\* What is told, as the archive says it.
Told(e) ==
  IF ~Over(e[1]) THEN Archive!Pending
  ELSE IF Absent(e) THEN Archive!Deleted
  ELSE IF Body(e).kind = "gone" THEN Archive!Lost
  ELSE Archive!Telling(Body(e).base, Body(e).count, Body(e).items)

LEMMA EntryParts ==
  ASSUME NEW e \in Entries
  PROVE  e[1] \in Requests /\ e[2] \in {"request", "attempt"}
BY DEF Entries

LEMMA DescriptionTold == \A e \in Entries : DeltaDescription(e) = Told(e)
BY DEF DeltaDescription, Told, Over, Absent, Archive!Pending, Archive!Deleted, Archive!Lost, Archive!Telling

LEMMA NextDescriptionTold == (\A e \in Entries : DeltaDescription(e) = Told(e))'
BY DescriptionTold, PTL

LEMMA TellingParts ==
  /\ Archive!Pending.state = "pending" /\ Archive!Lost.state = "lost"
  /\ Archive!Deleted.state = "deleted"
  /\ \A b, o, s : /\ Archive!Telling(b, o, s).state = "told" /\ Archive!Telling(b, o, s).base = b
                  /\ Archive!Telling(b, o, s).omitted = o /\ Archive!Telling(b, o, s).shown = s
BY DEF Archive!Pending, Archive!Lost, Archive!Deleted, Archive!Telling

\* What is taken from the rows is lost.
LEMMA LesserIsLoss ==
  ASSUME LogInv, Lesser
  PROVE  Archive!Lose
<1>1. ASSUME NEW e \in Entries
      PROVE  DeltaDescription(e)' \in Archive!Left(DeltaDescription(e))
  <2> DEFINE r == e[1]
  <2>1. /\ r \in Requests /\ e[2] \in {"request", "attempt"}
        /\ DeltaDescription(e) = Told(e) /\ DeltaDescription(e)' = Told(e)'
    BY EntryParts, DescriptionTold, NextDescriptionTold
  <2>2. Over(r)' <=> Over(r)
    BY DEF Lesser, Over
  <2>3. Lessened(row[r], row'[r])
    BY <2>1 DEF Lesser
  <2>4. Gone # None /\ Gone.kind = "gone"
    <3>1. Gone \in Stored /\ Gone.kind = "gone"
      BY EmptySeq DEF Gone, Stored
    <3>2. QED
      BY <3>1, NoneAssumption
  <2>5. Absent(e) => Absent(e)'
    <3>1. row[r] # None => row[r].request # None
      BY <2>1, NoneAssumption DEF LogInv, LogTyped, Rows
    <3>2. QED
      BY <2>1, <2>3, <3>1 DEF Absent, Body, Lessened
  <2>6. ~Absent(e)' => Body(e)' \in {Body(e), Gone}
    BY <2>1, <2>3 DEF Absent, Body, Lessened
  <2>7. CASE ~Over(r)
    <3>1. Told(e) = Archive!Pending /\ Told(e)' = Archive!Pending
      BY <2>2, <2>7 DEF Told, Archive!Pending
    <3>2. QED
      BY <2>1, <3>1, TellingParts DEF Archive!Left
  <2>8. CASE Over(r) /\ Absent(e)
    <3>1. Told(e) = Archive!Deleted /\ Told(e)' = Archive!Deleted
      BY <2>2, <2>5, <2>8 DEF Told, Archive!Deleted
    <3>2. QED
      BY <2>1, <3>1, TellingParts DEF Archive!Left
  <2>9. CASE Over(r) /\ ~Absent(e) /\ Body(e).kind = "gone"
    <3>1. Told(e) = Archive!Lost
      BY <2>9 DEF Told
    <3>2. Told(e)' \in {Archive!Lost, Archive!Deleted}
      BY <2>2, <2>4, <2>6, <2>9 DEF Told, Archive!Lost, Archive!Deleted
    <3>3. QED
      BY <2>1, <3>1, <3>2, TellingParts DEF Archive!Left
  <2>10. CASE Over(r) /\ ~Absent(e) /\ Body(e).kind # "gone"
    <3>1. Told(e) = Archive!Telling(Body(e).base, Body(e).count, Body(e).items)
      BY <2>10 DEF Told
    <3>2. Told(e)' \in {Told(e), Archive!Lost, Archive!Deleted}
      <4>1. CASE Absent(e)'
        BY <2>2, <2>10, <4>1 DEF Told, Archive!Deleted
      <4>2. CASE ~Absent(e)' /\ Body(e)' = Gone
        BY <2>2, <2>4, <2>10, <4>2 DEF Told, Archive!Lost
      <4>3. CASE ~Absent(e)' /\ Body(e)' = Body(e)
        BY <2>2, <2>10, <4>3 DEF Told, Archive!Telling
      <4>4. QED
        BY <2>6, <4>1, <4>2, <4>3
    <3>3. QED
      BY <2>1, <3>1, <3>2, TellingParts DEF Archive!Left
  <2>11. QED
    BY <2>7, <2>8, <2>9, <2>10
<1>2. request' = request
  BY DEF Lesser
<1> DEFINE all == [e \in Entries |-> DeltaDescription(e)]
<1>3. DOMAIN all' = Entries /\ \A e \in Entries : all'[e] \in Archive!Left(all[e])
  BY <1>1
<1>4. Archive!Entries = Entries
  BY DEF Archive!Entries, Entries
<1>5. QED
  BY <1>2, <1>3, <1>4 DEF Archive!Lose

\* The messages and forms that requests hold are not the absence of one.
LEMMA SentIsNotNone ==
  ASSUME LogTyped, NEW r \in Requests
  PROVE  /\ [session |-> request[r].session, form |-> request[r].form, items |-> request[r].items]
               \in Sendable
         /\ [session |-> request[r].session, form |-> request[r].form, items |-> request[r].items] # None
         /\ Full(r) # None
<1>1. request[r] \in Asked /\ Full(r) \in Seq(Messages)
  BY AskedTyped DEF Items
<1>2. [session |-> request[r].session, form |-> request[r].form, items |-> request[r].items] \in Sendable
  BY <1>1 DEF Asked, Sendable
<1>3. QED
  BY <1>1, <1>2, NoneAssumption

LEMMA StartedIsSend ==
  ASSUME LogInv, LogInv', NEW r \in Requests, NEW s \in Sessions \cup {None},
         NEW form \in BOOLEAN, NEW items \in Bodies \cup {<<>>},
         RecordRequestStarted(r, s, form, items)
  PROVE  Archive!Send(r, [session |-> s, form |-> form, items |-> items])
<1> DEFINE mine == [Unsent EXCEPT !.stage = "running", !.session = s, !.form = form,
                                  !.items = items, !.started = today]
           what == [session |-> s, form |-> form, items |-> items]
           sent == [q \in Requests |->
             IF request[q].stage = "new" THEN None
             ELSE [session |-> request[q].session, form |-> request[q].form, items |-> request[q].items]]
           held == [q \in Requests |->
             IF request[q].stage # "over" THEN None ELSE request[q].items \o request[q].answer]
           all  == [e \in Entries |-> DeltaDescription(e)]
<1>1. /\ request[r].stage = "new" /\ request' = [request EXCEPT ![r] = mine]
      /\ \A q \in Requests \ {r} : row'[q] = row[q]
  <2>1. row \in [Requests -> Rows \cup {None}]
    BY DEF LogInv, LogTyped
  <2>2. QED
    BY <2>1 DEF RecordRequestStarted
<1>2. mine.stage = "running" /\ mine.items = items /\ mine.session = s /\ mine.form = form
  BY DEF Unsent
<1> HIDE DEF mine
<1>3. request \in [Requests -> Asked]
  BY DEF LogInv, LogTyped
<1>4. request'[r] = mine /\ \A q \in Requests \ {r} : request'[q] = request[q]
  BY <1>1, <1>3
<1>5. sent[r] = None /\ sent' = [sent EXCEPT ![r] = what]
  BY <1>1, <1>2, <1>4
<1>6. held' = held
  BY <1>1, <1>2, <1>4
<1>7. ASSUME NEW e \in Entries PROVE DeltaDescription(e)' = DeltaDescription(e)
  <2>1. e[1] \in Requests /\ DeltaDescription(e) = Told(e) /\ DeltaDescription(e)' = Told(e)'
    BY EntryParts, DescriptionTold, NextDescriptionTold
  <2>2. CASE e[1] = r
    BY <1>1, <1>2, <1>4, <2>1, <2>2 DEF Told, Over, Archive!Pending
  <2>3. CASE e[1] # r
    <3>1. row'[e[1]] = row[e[1]] /\ request'[e[1]] = request[e[1]]
      BY <1>1, <1>4, <2>1, <2>3
    <3>2. QED
      BY <3>1 DEF DeltaDescription, Body
  <2>4. QED
    BY <2>2, <2>3
<1>8. all' = all
  BY <1>7
<1>9. QED
  BY <1>5, <1>6, <1>8 DEF Archive!Send

\* What is recorded is told as the archive allows it.
LEMMA StoredTold ==
  ASSUME LogInv, NEW r \in Requests, Over(r) \/ request[r].stage = "running",
         NEW body, NEW e \in Entries, e[1] = r,
         IF e[2] = "request" THEN TellsRequest(r, body) ELSE TellsAttempt(r, body),
         body.kind # "gone"
  PROVE  Archive!Told(e, Archive!Telling(body.base, body.count, body.items))
<1> DEFINE items == request[r].items
           t     == Archive!Telling(body.base, body.count, body.items)
           sent == [q \in Requests |->
             IF request[q].stage = "new" THEN None
             ELSE [session |-> request[q].session, form |-> request[q].form, items |-> request[q].items]]
           held == [q \in Requests |->
             IF request[q].stage # "over" THEN None ELSE request[q].items \o request[q].answer]
<1>1. /\ items \in Items /\ Len(items) \in Nat /\ Gone.kind = "gone"
      /\ SubSeq(items, 1, Len(items)) = items
  BY AskedTyped, LenProperties, SubSeqFull DEF Gone, LogInv, Items
<1>2. /\ t.state = "told" /\ t.base = body.base /\ t.omitted = body.count /\ t.shown = body.items
      /\ t = Archive!Telling(t.base, t.omitted, t.shown)
  BY TellingParts
<1>3. sent[r].items = items /\ sent[r].session = request[r].session
  BY DEF Over
<1>4. \A q \in Requests : Over(q) =>
        /\ held[q] = Full(q) /\ held[q] # None
        /\ sent[q].session = request[q].session /\ sent[q].form = request[q].form
  <2> SUFFICES ASSUME NEW q \in Requests, Over(q)
               PROVE  /\ held[q] = Full(q) /\ held[q] # None
                      /\ sent[q].session = request[q].session /\ sent[q].form = request[q].form
    OBVIOUS
  <2>1. held[q] = Full(q) /\ sent[q].session = request[q].session /\ sent[q].form = request[q].form
    BY DEF Over, Full
  <2>2. Full(q) # None
    BY SentIsNotNone DEF LogInv
  <2> HIDE DEF sent, held
  <2>3. QED
    BY <2>1, <2>2
<1>5. \E n \in 0 .. Len(items) : body.count = n /\ body.items = SubSeq(items, n + 1, Len(items))
  <2>1. CASE body = Whole(items)
    BY <1>1, <2>1 DEF Whole
  <2>2. CASE \E n \in 0 .. Len(items), base \in Requests : body = Delta(base, n, Rest(r, n))
    BY <2>2 DEF Delta, Rest
  <2>3. QED
    BY <1>1, <2>1, <2>2 DEF TellsRequest, TellsAttempt
<1>6. Archive!ShowsRest(items, t)
  BY <1>2, <1>5 DEF Archive!ShowsRest
<1>7. CASE e[2] = "request"
  <2>1. ASSUME t.omitted > 0
        PROVE  /\ request[r].session # None
               /\ \E q \in Requests : /\ Archive!HeldBefore(items, t.omitted, q)
                                      /\ sent[q].session = request[r].session
                                      /\ Archive!Names(t.base, q)
    <3>1. body # Whole(items) /\ body # Gone
      BY <1>1, <1>2, <2>1 DEF Whole
    <3>2. /\ request[r].session # None
          /\ \E n \in 0 .. Len(items), q \in Requests, base \in Requests :
               body = Delta(base, n, Rest(r, n)) /\ HeldAlike(r, n, q) /\ StandsFor(base, q)
      BY <1>7, <3>1 DEF TellsRequest
    <3>3. PICK n \in 0 .. Len(items), q \in Requests, base \in Requests :
            body = Delta(base, n, Rest(r, n)) /\ HeldAlike(r, n, q) /\ StandsFor(base, q)
      BY <3>2
    <3>4. t.base = base /\ t.omitted = n
      BY <1>2, <3>3 DEF Delta
    <3>5. /\ Over(q) /\ request[q].session = request[r].session /\ n <= Len(Full(q))
          /\ \A i \in 1 .. n : ItemHash[items[i]] = ItemHash[Full(q)[i]]
      BY <3>3 DEF HeldAlike
    <3>6. Archive!Alike(SubSeq(items, 1, n), SubSeq(Full(q), 1, n))
      <4>1. Full(q) \in Items /\ Len(Full(q)) \in Nat
        BY AskedTyped, LenProperties DEF LogInv, Items
      <4> HIDE DEF items
      <4>2. /\ SubSeq(items, 1, n) \in Items /\ Len(SubSeq(items, 1, n)) = n
            /\ \A i \in 1 .. n : SubSeq(items, 1, n)[i] = items[i]
        BY <1>1 DEF Items
      <4>3. /\ SubSeq(Full(q), 1, n) \in Items /\ Len(SubSeq(Full(q), 1, n)) = n
            /\ \A i \in 1 .. n : SubSeq(Full(q), 1, n)[i] = Full(q)[i]
        BY <3>5, <4>1 DEF Items
      <4>4. DOMAIN SubSeq(items, 1, n) = 1 .. n
        BY <4>2 DEF Items
      <4>5. QED
        BY <3>5, <4>2, <4>3, <4>4 DEF Archive!Alike
    <3>7. Archive!HeldBefore(items, n, q)
      <4> HIDE DEF items
      <4>1. held[q] = Full(q) /\ held[q] # None
        BY <1>4, <3>5
      <4>2. QED
        BY <3>5, <3>6, <4>1 DEF Archive!HeldBefore
    <3>8. Archive!Names(base, q)
      <4>1. CASE base = q
        BY <4>1 DEF Archive!Names
      <4>2. CASE base # q
        <5>1. Over(base) /\ request[base].form /\ request[base].session = request[q].session
          BY <3>3, <4>2 DEF StandsFor
        <5>2. /\ held[base] # None /\ sent[base].form
              /\ sent[base].session = sent[q].session
          BY <1>4, <3>5, <5>1
        <5>3. QED
          BY <5>2 DEF Archive!Names
      <4>3. QED
        BY <4>1, <4>2
    <3>9. sent[q].session = request[r].session
      BY <1>4, <3>5
    <3>10. QED
      BY <3>2, <3>4, <3>7, <3>8, <3>9
  <2>2. Archive!TrueOfRequest(r, t)
    BY <1>3, <1>6, <2>1 DEF Archive!TrueOfRequest
  <2>3. QED
    BY <1>2, <1>7, <2>2 DEF Archive!Told
<1>8. CASE e[2] # "request"
  <2>1. t.omitted > 0 => t.base = r
    <3>1. CASE body = Whole(items)
      BY <1>2, <3>1 DEF Whole
    <3>2. CASE \E n \in 0 .. Len(items) : body = Delta(r, n, Rest(r, n))
      BY <1>2, <3>2 DEF Delta
    <3>3. QED
      BY <1>1, <1>8, <3>1, <3>2 DEF TellsAttempt
  <2>2. Archive!TrueOfAttempt(r, t)
    BY <1>3, <1>6, <2>1 DEF Archive!TrueOfAttempt
  <2>3. QED
    BY <1>2, <1>8, <2>2 DEF Archive!Told
<1>9. QED
  BY <1>7, <1>8

LEMMA RecordedIsRecord ==
  ASSUME LogInv, NEW r \in Requests, NEW answer \in Answers, NEW kept \in KeptChoices,
         RecordRequest(r, answer, kept)
  PROVE  Archive!Record(r, answer)
<1> DEFINE mine == [request[r] EXCEPT !.stage = "over", !.answer = answer, !.recorded = today]
           saved == SavedRow(r, kept)
           sent == [q \in Requests |->
             IF request[q].stage = "new" THEN None
             ELSE [session |-> request[q].session, form |-> request[q].form, items |-> request[q].items]]
           held == [q \in Requests |->
             IF request[q].stage # "over" THEN None ELSE request[q].items \o request[q].answer]
           all  == [e \in Entries |-> DeltaDescription(e)]
<1>1. /\ request \in [Requests -> Asked] /\ row \in [Requests -> Rows \cup {None}]
      /\ request[r] \in Asked
  BY DEF LogInv, LogTyped
<1>2. request' = [request EXCEPT ![r] = mine] /\ row' = [row EXCEPT ![r] = saved]
      /\ request[r].stage = "running"
  BY <1>1 DEF RecordRequest
<1>3. /\ mine.stage = "over" /\ mine.items = request[r].items /\ mine.answer = answer
      /\ mine.session = request[r].session /\ mine.form = request[r].form
  BY <1>1 DEF Asked
<1> HIDE DEF mine
<1>4. /\ request'[r] = mine /\ row'[r] = saved
      /\ \A q \in Requests \ {r} : request'[q] = request[q] /\ row'[q] = row[q]
  BY <1>1, <1>2
<1>5. /\ saved # None /\ saved.attempt # None
      /\ TellsRequest(r, saved.request) /\ TellsAttempt(r, saved.attempt)
      /\ saved \in Rows
  BY SavedTells
<1> HIDE DEF saved
<1>6. sent' = sent
  BY <1>2, <1>3, <1>4
<1>7. held' = [held EXCEPT ![r] = sent[r].items \o answer]
  <2>1. sent[r].items = request[r].items
    BY <1>2
  <2>2. \A q \in Requests : held'[q] = IF q = r THEN request[r].items \o answer ELSE held[q]
    BY <1>2, <1>3, <1>4
  <2> HIDE DEF sent
  <2>3. QED
    BY <2>1, <2>2
<1>8. sent[r] # None
  <2>1. sent[r] = [session |-> request[r].session, form |-> request[r].form, items |-> request[r].items]
    BY <1>2
  <2> HIDE DEF sent
  <2>2. QED
    BY <2>1, SentIsNotNone DEF LogInv
<1>9. held[r] = None
  BY <1>2
<1>10. ASSUME NEW e \in Entries
       PROVE  IF e[1] = r THEN Archive!Told(e, DeltaDescription(e)')
                          ELSE DeltaDescription(e)' = DeltaDescription(e)
  <2>1. /\ e[1] \in Requests /\ e[2] \in {"request", "attempt"}
        /\ DeltaDescription(e)' = Told(e)'
    BY EntryParts, NextDescriptionTold
  <2>2. CASE e[1] # r
    <3>1. row'[e[1]] = row[e[1]] /\ request'[e[1]] = request[e[1]]
      BY <1>4, <2>1, <2>2
    <3>2. QED
      BY <2>2, <3>1 DEF DeltaDescription, Body
  <2>3. CASE e[1] = r
    <3> DEFINE body == IF e[2] = "request" THEN saved.request ELSE saved.attempt
    <3>1. Over(r)' /\ row'[r] = saved /\ Body(e)' = body
      BY <1>3, <1>4, <2>3 DEF Over, Body
    <3>2. body # None
      BY <1>5, NoneAssumption DEF Rows
    <3>3. IF e[2] = "request" THEN TellsRequest(r, body) ELSE TellsAttempt(r, body)
      BY <1>5
    <3> HIDE DEF body
    <3>4. ~Absent(e)'
      BY <1>5, <2>3, <3>1, <3>2 DEF Absent
    <3>5. Told(e)' = IF body.kind = "gone" THEN Archive!Lost
                     ELSE Archive!Telling(body.base, body.count, body.items)
      BY <2>3, <3>1, <3>4 DEF Told, Archive!Lost, Archive!Telling
    <3>6. CASE body.kind = "gone"
      BY <2>1, <2>3, <3>5, <3>6 DEF Archive!Told
    <3>7. CASE body.kind # "gone"
      <4>1. Archive!Told(e, Archive!Telling(body.base, body.count, body.items))
        BY <1>2, <2>3, <3>3, <3>7, StoredTold
      <4>2. QED
        BY <2>1, <2>3, <3>5, <3>7, <4>1
    <3>8. QED
      BY <3>6, <3>7
  <2>4. QED
    BY <2>2, <2>3
<1>11. DOMAIN all' = Entries /\ Archive!Entries = Entries
  BY DEF Archive!Entries, Entries
<1>12. \A e \in Entries : IF e[1] = r THEN Archive!Told(e, all'[e]) ELSE all'[e] = all[e]
  BY <1>10
<1>13. QED
  BY <1>6, <1>7, <1>8, <1>9, <1>11, <1>12 DEF Archive!Record

\* What is shown of a recorded body is what was sent, or the end of it; and of the
\* messages said to have been recorded before (log_payload.go), as many, alike in their
\* hashes, were sent or answered by one request of the same session, recorded earlier.
\* Nothing says that its row is still there, nor that the messages were the same.
THEOREM LogImplementsArchive == Spec => ImplementsArchive
<1>1. Init => Archive!Init
  <2> SUFFICES ASSUME Init PROVE Archive!Init
    OBVIOUS
  <2>1. \A r \in Requests : request[r].stage = "new"
    BY DEF Init, Unsent
  <2>2. \A e \in Entries : DeltaDescription(e) = Archive!Pending
    BY <2>1, EntryParts, DescriptionTold DEF Told, Over
  <2>3. [e \in Entries |-> DeltaDescription(e)] = [e \in Entries |-> Archive!Pending]
    BY <2>2
  <2>4. Archive!Entries = Entries
    BY DEF Archive!Entries, Entries
  <2>5. QED
    BY <2>1, <2>3, <2>4 DEF Archive!Init
<1>2. LogInv /\ LogInv' /\ [Next]_vars => Archive!Next
  <2> SUFFICES ASSUME LogInv, LogInv', [Next]_vars PROVE Archive!Next
    OBVIOUS
  <2>1. CASE \E r \in Requests, s \in Sessions \cup {None}, form \in BOOLEAN, b \in Bodies \cup {<<>>} :
               RecordRequestStarted(r, s, form, b)
    <3>1. PICK r \in Requests, s \in Sessions \cup {None}, form \in BOOLEAN, b \in Bodies \cup {<<>>} :
            RecordRequestStarted(r, s, form, b)
      BY <2>1
    <3>2. Archive!Send(r, [session |-> s, form |-> form, items |-> b])
      BY <3>1, StartedIsSend
    <3>3. [session |-> s, form |-> form, items |-> b] \in Sendable
      BY DEF Sendable
    <3>4. QED
      BY <3>2, <3>3 DEF Archive!Next
  <2>2. CASE \E r \in Requests, a \in Answers, kept \in KeptChoices : RecordRequest(r, a, kept)
    BY <2>2, RecordedIsRecord DEF Archive!Next
  <2>3. CASE Removal
    BY <2>3, RemovalLessens, LesserIsLoss DEF Archive!Next
  <2>4. QED
    BY <2>1, <2>2, <2>3, StepsClassified
<1>3. QED
  BY <1>1, <1>2, LogInvHolds, PTL DEF Spec, ImplementsArchive, Archive!Spec

-----------------------------------------------------------------------------
(* Resources. *)

Has(r)           == row[r] # None
Held(s, r)       == Has(r) /\ request[r].session = s

ResourcesTyped ==
  /\ catalog \in [Resources -> Nat \cup {None}]
  /\ refs \subseteq Requests \X Resources
  /\ purged \in Nat

\* Only recorded requests hold links.
HoldersOver == \A r \in Requests : \A res \in Resources : <<r, res>> \in refs => Over(r)

RecordedBefore == \A r \in Requests : request[r].recorded <= today

OneLink ==
  \A s \in Sessions : \A res \in Resources : \A r, q \in Requests :
    Held(s, r) /\ Held(s, q) /\ <<r, res>> \in refs /\ <<q, res>> \in refs => r = q

Links ==
  \A s \in Sessions : \A res \in Resources :
    s \notin unlinked /\ purged = 0
      /\ (\E r \in Requests : Held(s, r) /\ Over(r) /\ res \in Carried(r))
    => \E r \in Requests : Held(s, r) /\ <<r, res>> \in refs

ResourceInv ==
  /\ ResourcesTyped /\ HoldersOver /\ RecordedBefore
  /\ RecentResourceKept /\ OneLink /\ Links

LEMMA CarriedTyped ==
  ASSUME LogTyped, NEW r \in Requests
  PROVE  Carried(r) \subseteq Resources
<1>1. request[r].items \in Seq(Messages)
  BY AskedTyped DEF Items
<1>2. ToSet(request[r].items) \subseteq Messages
  <2>1. \A i \in 1 .. Len(request[r].items) : request[r].items[i] \in Messages
    BY <1>1, ElementOfSeq
  <2>2. DOMAIN request[r].items = 1 .. Len(request[r].items)
    BY <1>1, LenProperties
  <2>3. QED
    BY <2>1, <2>2 DEF ToSet
<1>3. \A m \in Messages : Carries[m] \subseteq Resources
  BY CarriesAssumption
<1>4. QED
  BY <1>2, <1>3 DEF Carried

LEMMA ResourceInvInit == Init => ResourceInv
<1> SUFFICES ASSUME Init PROVE ResourceInv
  OBVIOUS
<1>1. \A r \in Requests : request[r] = Unsent /\ row[r] = None
  BY DEF Init
<1>2. ResourcesTyped /\ HoldersOver
  BY DEF Init, ResourcesTyped, HoldersOver
<1>3. RecordedBefore /\ RecentResourceKept
  BY <1>1 DEF Init, Unsent, RecordedBefore, RecentResourceKept
<1>4. OneLink /\ Links
  BY <1>1 DEF OneLink, Links, Held, Has
<1>5. QED
  BY <1>2, <1>3, <1>4 DEF ResourceInv

\* Clearing rows, and time.
LEMMA ClearingKeepsResources ==
  ASSUME LogInv, ResourceInv, \A r \in Requests : row'[r] # None <=> row[r] # None,
         UNCHANGED <<request, resourceVars>>, today' \in Nat, today <= today'
  PROVE  ResourceInv'
<1>1. /\ request' = request /\ catalog' = catalog /\ refs' = refs /\ purged' = purged
      /\ unlinked' = unlinked
  BY DEF resourceVars
<1>2. \A r \in Requests : Carried(r)' = Carried(r) /\ Over(r)' = Over(r)
  BY <1>1 DEF Carried, Over
<1>3. \A r \in Requests, s \in Sessions : Held(s, r)' <=> Held(s, r)
  BY <1>1 DEF Held, Has
<1>4. ResourcesTyped' /\ HoldersOver' /\ RecentResourceKept'
  BY <1>1, <1>2 DEF ResourceInv, ResourcesTyped, HoldersOver, RecentResourceKept
<1>5. RecordedBefore'
  <2>1. \A r \in Requests : request[r].recorded \in Nat /\ today \in Nat
    BY DEF LogInv, LogTyped, Asked
  <2>2. QED
    BY <1>1, <2>1 DEF ResourceInv, RecordedBefore
<1>6. OneLink'
  BY <1>1, <1>3 DEF ResourceInv, OneLink
<1>7. Links'
  BY <1>1, <1>2, <1>3 DEF ResourceInv, Links
<1>8. QED
  BY <1>4, <1>5, <1>6, <1>7 DEF ResourceInv

\* Deleting rows or their links.
LEMMA DeletingKeepsResources ==
  ASSUME LogInv, ResourceInv, NEW S \in SUBSET Requests,
         \A r \in Requests : row'[r] # None => row[r] # None,
         \A r \in Requests \ S : row'[r] # None <=> row[r] # None,
         refs' \subseteq refs, \A l \in refs : l[1] \notin S => l \in refs',
         unlinked' = unlinked \cup {request[r].session : r \in S},
         UNCHANGED <<request, catalog, purged, today>>
  PROVE  ResourceInv'
<1>1. \A r \in Requests : Carried(r)' = Carried(r) /\ Over(r)' = Over(r)
  BY DEF Carried, Over
<1>2. \A r \in Requests, s \in Sessions : Held(s, r)' => Held(s, r)
  BY DEF Held, Has
<1>3. ResourcesTyped' /\ HoldersOver' /\ RecentResourceKept' /\ RecordedBefore'
  BY <1>1 DEF ResourceInv, ResourcesTyped, HoldersOver, RecentResourceKept, RecordedBefore
<1>4. OneLink'
  BY <1>2 DEF ResourceInv, OneLink
<1>5. Links'
  <2> SUFFICES ASSUME NEW s \in Sessions, NEW res \in Resources, s \notin unlinked', purged' = 0,
                      NEW r \in Requests, Held(s, r)', Over(r)', res \in Carried(r)'
               PROVE  \E q \in Requests : Held(s, q)' /\ <<q, res>> \in refs'
    BY DEF Links
  <2>1. PICK q \in Requests : Held(s, q) /\ <<q, res>> \in refs
    BY <1>1, <1>2 DEF ResourceInv, Links
  <2>2. q \notin S
    BY <2>1 DEF Held
  <2>3. Held(s, q)'
    BY <2>1, <2>2 DEF Held, Has
  <2>4. <<q, res>> \in refs'
    BY <2>1, <2>2
  <2>5. QED
    BY <2>3, <2>4
<1>6. QED
  BY <1>3, <1>4, <1>5 DEF ResourceInv

\* Cleaning up resources.
LEMMA CleanupKeepsResources ==
  ASSUME LogInv, ResourceInv, NEW c \in 2 .. today, CleanupResourcesBefore(c)
  PROVE  ResourceInv'
<1> DEFINE old == {res \in Resources : catalog[res] # None /\ catalog[res] < c}
<1>1. /\ refs' = {l \in refs : l[2] \notin old}
      /\ catalog' = [res \in Resources |-> IF res \in old THEN None ELSE catalog[res]]
      /\ purged' = IF c > purged THEN c ELSE purged
      /\ request' = request /\ row' = row /\ today' = today
  BY DEF CleanupResourcesBefore, logVars
<1>2. today \in Nat /\ c \in Nat /\ c >= 2
  BY DEF LogInv, LogTyped
<1>3. \A r \in Requests : Carried(r)' = Carried(r) /\ Over(r)' = Over(r)
  BY <1>1 DEF Carried, Over
<1>4. \A r \in Requests, s \in Sessions : Held(s, r)' <=> Held(s, r)
  BY <1>1 DEF Held, Has
<1>5. ResourcesTyped' /\ HoldersOver' /\ RecordedBefore'
  BY <1>1, <1>2, <1>3 DEF ResourceInv, ResourcesTyped, HoldersOver, RecordedBefore
<1>6. RecentResourceKept'
  <2> SUFFICES ASSUME NEW r \in Requests, NEW res \in Carried(r), request[r].stage = "over",
                      request[r].recorded >= purged'
               PROVE  catalog'[res] # None /\ catalog'[res] >= request[r].recorded
    BY <1>1, <1>3 DEF RecentResourceKept
  <2>1. request[r].recorded \in Nat /\ purged \in Nat /\ res \in Resources
    BY CarriedTyped DEF LogInv, LogTyped, Asked, ResourceInv, ResourcesTyped
  <2>2. request[r].recorded >= purged /\ request[r].recorded >= c
    BY <1>1, <1>2, <2>1
  <2>3. catalog[res] # None /\ catalog[res] >= request[r].recorded
    BY <2>2 DEF ResourceInv, RecentResourceKept
  <2>4. catalog[res] \in Nat
    BY <2>1, <2>3 DEF ResourceInv, ResourcesTyped
  <2>5. res \notin old
    BY <1>2, <2>1, <2>2, <2>3, <2>4
  <2>6. QED
    BY <1>1, <2>1, <2>3, <2>5
<1>7. OneLink'
  BY <1>1, <1>4 DEF ResourceInv, OneLink
<1>8. Links'
  BY <1>1, <1>2 DEF Links, ResourceInv, ResourcesTyped
<1>9. QED
  BY <1>5, <1>6, <1>7, <1>8 DEF ResourceInv

LEMMA StartedKeepsResources ==
  ASSUME LogInv, ResourceInv, NEW r \in Requests, NEW s \in Sessions \cup {None},
         NEW form \in BOOLEAN, NEW items \in Bodies \cup {<<>>},
         RecordRequestStarted(r, s, form, items)
  PROVE  ResourceInv'
<1> DEFINE mine == [Unsent EXCEPT !.stage = "running", !.session = s, !.form = form,
                                  !.items = items, !.started = today]
<1>1. /\ request[r].stage = "new" /\ request' = [request EXCEPT ![r] = mine]
      /\ \A q \in Requests \ {r} : row'[q] = row[q]
      /\ catalog' = catalog /\ refs' = refs /\ purged' = purged /\ unlinked' = unlinked
      /\ today' = today
  <2>1. row \in [Requests -> Rows \cup {None}]
    BY DEF LogInv, LogTyped
  <2>2. QED
    BY <2>1 DEF RecordRequestStarted, resourceVars
<1>2. mine.stage = "running" /\ mine.recorded = 0
  BY DEF Unsent
<1> HIDE DEF mine
<1>3. request \in [Requests -> Asked] /\ today \in Nat
  BY DEF LogInv, LogTyped
<1>4. request'[r] = mine /\ \A q \in Requests \ {r} : request'[q] = request[q]
  BY <1>1, <1>3
<1>5. \A q \in Requests : /\ Over(q)' <=> Over(q)
                          /\ Over(q) => q # r /\ Carried(q)' = Carried(q)
  BY <1>1, <1>2, <1>4 DEF Over, Carried
<1>6. \A q \in Requests \ {r}, z \in Sessions : Held(z, q)' <=> Held(z, q)
  BY <1>1, <1>4 DEF Held, Has
<1>7. \A res \in Resources : <<r, res>> \notin refs
  BY <1>1 DEF ResourceInv, HoldersOver, Over
<1>8. ResourcesTyped' /\ HoldersOver' /\ RecordedBefore'
  BY <1>1, <1>2, <1>3, <1>4, <1>5 DEF ResourceInv, ResourcesTyped, HoldersOver, RecordedBefore
<1>9. RecentResourceKept'
  <2> SUFFICES ASSUME NEW q \in Requests, NEW res \in Carried(q)', request'[q].stage = "over",
                      request'[q].recorded >= purged'
               PROVE  catalog'[res] # None /\ catalog'[res] >= request'[q].recorded
    BY DEF RecentResourceKept
  <2>1. Over(q) /\ q # r /\ res \in Carried(q) /\ request'[q] = request[q]
    BY <1>4, <1>5 DEF Over
  <2>2. QED
    BY <1>1, <2>1 DEF ResourceInv, RecentResourceKept, Over
<1>10. OneLink'
  BY <1>1, <1>6, <1>7 DEF ResourceInv, OneLink
<1>11. Links'
  <2> SUFFICES ASSUME NEW z \in Sessions, NEW res \in Resources, z \notin unlinked', purged' = 0,
                      NEW q \in Requests, Held(z, q)', Over(q)', res \in Carried(q)'
               PROVE  \E p \in Requests : Held(z, p)' /\ <<p, res>> \in refs'
    BY DEF Links
  <2>1. Over(q) /\ q # r /\ res \in Carried(q) /\ Held(z, q)
    BY <1>5, <1>6
  <2>2. PICK p \in Requests : Held(z, p) /\ <<p, res>> \in refs
    BY <1>1, <2>1 DEF ResourceInv, Links
  <2>3. p # r
    BY <1>7, <2>2
  <2>4. QED
    BY <1>1, <1>6, <2>2, <2>3
<1>12. QED
  BY <1>8, <1>9, <1>10, <1>11 DEF ResourceInv

LEMMA RecordedKeepsResources ==
  ASSUME LogInv, ResourceInv, NEW r \in Requests, NEW answer \in Answers,
         NEW kept \in KeptChoices, RecordRequest(r, answer, kept)
  PROVE  ResourceInv'
<1> DEFINE mine == [request[r] EXCEPT !.stage = "over", !.answer = answer, !.recorded = today]
           s    == request[r].session
<1>1. /\ request \in [Requests -> Asked] /\ row \in [Requests -> Rows \cup {None}]
      /\ request[r] \in Asked /\ today \in Nat
  BY DEF LogInv, LogTyped
<1>2. /\ request' = [request EXCEPT ![r] = mine] /\ row' = [row EXCEPT ![r] = SavedRow(r, kept)]
      /\ request[r].stage = "running"
      /\ today' = today /\ purged' = purged /\ unlinked' = unlinked
  BY <1>1 DEF RecordRequest
<1>3. /\ catalog' = [res \in Resources |-> IF res \in Carried(r) THEN today ELSE catalog[res]]
      /\ refs' = refs \cup {<<r, res>> : res \in {c \in Carried(r) : ~Linked(s, c)}}
  BY DEF RecordRequest, PersistRequestResources, Seen
<1>4. /\ mine.stage = "over" /\ mine.items = request[r].items /\ mine.form = request[r].form
      /\ mine.session = s /\ mine.recorded = today
  BY <1>1 DEF Asked
<1> HIDE DEF mine
<1>5. /\ request'[r] = mine /\ row'[r] # None
      /\ \A q \in Requests \ {r} : request'[q] = request[q] /\ row'[q] = row[q]
  BY <1>1, <1>2, SavedTells, NoneAssumption
<1>6. \A q \in Requests : Carried(q)' = Carried(q)
  BY <1>4, <1>5 DEF Carried
<1>7. \A q \in Requests : Over(q)' <=> Over(q) \/ q = r
  BY <1>4, <1>5 DEF Over
<1>8. \A q \in Requests, z \in Sessions :
        Held(z, q)' <=> IF q = r THEN z = s ELSE Held(z, q)
  BY <1>4, <1>5 DEF Held, Has
<1>9. \A res \in Resources : <<r, res>> \notin refs
  BY <1>2 DEF ResourceInv, HoldersOver, Over
<1>10. Carried(r) \subseteq Resources
  BY CarriedTyped DEF LogInv
<1>11. \A q \in Requests, res \in Resources :
         <<q, res>> \in refs' <=> \/ <<q, res>> \in refs
                                  \/ q = r /\ res \in Carried(r) /\ ~Linked(s, res)
  BY <1>3
<1>12. \A z \in Sessions, res \in Resources :
         Linked(z, res) <=> \E q \in Requests : Held(z, q) /\ <<q, res>> \in refs
  BY NoneAssumption DEF Linked, RowsOf, Held, Has
<1>13. ResourcesTyped'
  <2>1. catalog' \in [Resources -> Nat \cup {None}]
    BY <1>1, <1>3 DEF ResourceInv, ResourcesTyped
  <2>2. refs' \subseteq Requests \X Resources
    BY <1>3, <1>10 DEF ResourceInv, ResourcesTyped
  <2>3. QED
    BY <1>2, <2>1, <2>2 DEF ResourceInv, ResourcesTyped
<1>14. HoldersOver'
  BY <1>7, <1>11 DEF ResourceInv, HoldersOver
<1>15. RecordedBefore'
  BY <1>1, <1>2, <1>4, <1>5 DEF ResourceInv, RecordedBefore
<1>16. RecentResourceKept'
  <2> SUFFICES ASSUME NEW q \in Requests, NEW res \in Carried(q)', request'[q].stage = "over",
                      request'[q].recorded >= purged'
               PROVE  catalog'[res] # None /\ catalog'[res] >= request'[q].recorded
    BY DEF RecentResourceKept
  <2>1. res \in Carried(q) /\ res \in Resources
    BY <1>6, CarriedTyped DEF LogInv
  <2>2. request'[q].recorded \in Nat /\ request'[q].recorded <= today
    <3>1. request[q].recorded \in Nat
      BY <1>1 DEF Asked
    <3>2. request[q].recorded <= today
      BY DEF ResourceInv, RecordedBefore
    <3>3. QED
      BY <1>1, <1>4, <1>5, <3>1, <3>2
  <2>3. CASE res \in Carried(r)
    BY <1>1, <1>3, <2>1, <2>2, <2>3, NoneAssumption
  <2>4. CASE res \notin Carried(r)
    <3>1. q # r /\ request'[q] = request[q] /\ catalog'[res] = catalog[res]
      BY <1>3, <1>5, <2>1, <2>4
    <3>2. QED
      BY <1>2, <2>1, <3>1 DEF ResourceInv, RecentResourceKept
  <2>5. QED
    BY <2>3, <2>4
<1>17. OneLink'
  <2> SUFFICES ASSUME NEW z \in Sessions, NEW res \in Resources, NEW p \in Requests, NEW q \in Requests,
                      Held(z, p)', Held(z, q)', <<p, res>> \in refs', <<q, res>> \in refs',
                      p # q
               PROVE  FALSE
    BY DEF OneLink
  <2>1. CASE p # r /\ q # r
    BY <1>8, <1>11, <2>1 DEF ResourceInv, OneLink
  <2>2. CASE p = r
    <3>1. z = s /\ ~Linked(s, res) /\ Held(s, q) /\ <<q, res>> \in refs
      BY <1>8, <1>9, <1>11, <2>2
    <3>2. QED
      BY <1>12, <3>1
  <2>3. CASE q = r
    <3>1. z = s /\ ~Linked(s, res) /\ Held(s, p) /\ <<p, res>> \in refs
      BY <1>8, <1>9, <1>11, <2>3
    <3>2. QED
      BY <1>12, <3>1
  <2>4. QED
    BY <2>1, <2>2, <2>3
<1>18. Links'
  <2> SUFFICES ASSUME NEW z \in Sessions, NEW res \in Resources, z \notin unlinked', purged' = 0,
                      NEW q \in Requests, Held(z, q)', Over(q)', res \in Carried(q)'
               PROVE  \E p \in Requests : Held(z, p)' /\ <<p, res>> \in refs'
    BY DEF Links
  <2>1. ASSUME NEW p \in Requests, Held(z, p), <<p, res>> \in refs
        PROVE  Held(z, p)' /\ <<p, res>> \in refs'
    BY <1>8, <1>9, <1>11, <2>1
  <2>2. CASE q = r
    <3>1. z = s /\ res \in Carried(r)
      BY <1>6, <1>8, <2>2
    <3>2. CASE Linked(s, res)
      BY <1>12, <2>1, <3>1, <3>2
    <3>3. CASE ~Linked(s, res)
      BY <1>11, <2>2, <3>1, <3>3
    <3>4. QED
      BY <3>2, <3>3
  <2>3. CASE q # r
    <3>1. Held(z, q) /\ Over(q) /\ res \in Carried(q)
      BY <1>6, <1>7, <1>8, <2>3
    <3>2. QED
      BY <1>2, <2>1, <3>1 DEF ResourceInv, Links
  <2>4. QED
    BY <2>2, <2>3
<1>19. QED
  BY <1>13, <1>14, <1>15, <1>16, <1>17, <1>18 DEF ResourceInv

LEMMA RemovalKeepsResources ==
  ASSUME LogInv, ResourceInv, Removal
  PROVE  ResourceInv'
<1>1. \A c : Before(c) \in SUBSET Requests /\ \A r \in Before(c) : row[r] # None
  BY DEF Before
<1>2. row \in [Requests -> Rows \cup {None}] /\ today \in Nat
  BY DEF LogInv, LogTyped
<1>3. ASSUME NEW rw \in Rows
      PROVE  /\ rw # None /\ Cleared(rw) # None /\ [rw EXCEPT !.attempt = None] # None
             /\ [rw EXCEPT !.request = Gone] # None
             /\ rw.attempt # None => [rw EXCEPT !.attempt = Gone] # None
  <2>1. Cleared(rw) \in Rows
    BY ClearedLessens
  <2>2. /\ [rw EXCEPT !.attempt = None] \in Rows /\ [rw EXCEPT !.request = Gone] \in Rows
        /\ rw.attempt # None => [rw EXCEPT !.attempt = Gone] \in Rows
    BY SweptLessens
  <2>3. QED
    BY <2>1, <2>2, NoneAssumption
<1>4. ASSUME NEW c \in 2..today, ClearHistoricalLogPayloadsBefore(c) PROVE ResourceInv'
  <2>1. \A r \in Requests : row'[r] # None <=> row[r] # None
    BY <1>1, <1>2, <1>3, <1>4 DEF ClearHistoricalLogPayloadsBefore
  <2>2. UNCHANGED <<request, resourceVars>> /\ today' = today
    BY <1>4 DEF ClearHistoricalLogPayloadsBefore
  <2>3. QED
    BY <1>2, <2>1, <2>2, ClearingKeepsResources
<1>5. ASSUME NEW c \in 2..today, DeleteHistoricalLogsBefore(c) PROVE ResourceInv'
  <2>1. /\ row' = [r \in Requests |-> IF r \in Before(c) THEN None ELSE row[r]]
        /\ refs' = {l \in refs : l[1] \notin Before(c)}
        /\ unlinked' = unlinked \cup {request[r].session : r \in Before(c)}
        /\ UNCHANGED <<request, catalog, purged, today>>
    BY <1>5 DEF DeleteHistoricalLogsBefore
  <2>2. QED
    BY <1>1, <2>1, DeletingKeepsResources
<1>6. ASSUME NEW c \in 2..today, CleanupResourcesBefore(c) PROVE ResourceInv'
  BY <1>6, CleanupKeepsResources
<1>7. ASSUME NEW c \in 2..today, BeginSweep(c) PROVE ResourceInv'
  <2>1. UNCHANGED <<request, row, resourceVars>> /\ today' = today
    BY <1>7 DEF BeginSweep, logVars
  <2>2. QED
    BY <1>2, <2>1, ClearingKeepsResources
<1>8. CASE SweepAttemptPayloads
  <2>1. \A r \in Requests : row'[r] # None <=> row[r] # None
    BY <1>1, <1>2, <1>3, <1>8 DEF SweepAttemptPayloads, Expired
  <2>2. UNCHANGED <<request, resourceVars>> /\ today' = today
    BY <1>8 DEF SweepAttemptPayloads, Sweeping
  <2>3. QED
    BY <1>2, <2>1, <2>2, ClearingKeepsResources
<1>16. CASE SweepPayloads
  <2>1. \A r \in Requests : row'[r] # None <=> row[r] # None
    BY <1>1, <1>2, <1>3, <1>16 DEF SweepPayloads, Expired
  <2>2. UNCHANGED <<request, resourceVars>> /\ today' = today
    BY <1>16 DEF SweepPayloads, Sweeping
  <2>3. QED
    BY <1>2, <2>1, <2>2, ClearingKeepsResources
<1>9. CASE SweepAttempts
  <2>1. \A r \in Requests : row'[r] # None <=> row[r] # None
    BY <1>1, <1>2, <1>3, <1>9 DEF SweepAttempts, Expired
  <2>2. UNCHANGED <<request, resourceVars>> /\ today' = today
    BY <1>9 DEF SweepAttempts, Sweeping
  <2>3. QED
    BY <1>2, <2>1, <2>2, ClearingKeepsResources
<1>10. CASE SweepReferences
  <2>1. /\ row' = row /\ refs' = {l \in refs : l[1] \notin Expired}
        /\ unlinked' = unlinked \cup {request[r].session : r \in Expired}
        /\ UNCHANGED <<request, catalog, purged, today>>
    BY <1>10 DEF SweepReferences, Sweeping
  <2>2. Expired \in SUBSET Requests
    BY <1>1 DEF Expired
  <2>3. QED
    BY <2>1, <2>2, DeletingKeepsResources
<1>11. CASE SweepRows
  <2>1. /\ row' = [r \in Requests |-> IF r \in Expired THEN None ELSE row[r]] /\ refs' = refs
        /\ unlinked' = unlinked \cup {request[r].session : r \in Expired}
        /\ UNCHANGED <<request, catalog, purged, today>>
    BY <1>11 DEF SweepRows, Sweeping
  <2>2. Expired \in SUBSET Requests
    BY <1>1 DEF Expired
  <2>3. QED
    BY <2>1, <2>2, DeletingKeepsResources
<1>12. CASE SweepStates
  BY <1>2, <1>12, ClearingKeepsResources DEF SweepStates, Sweeping
<1>13. CASE Tick
  BY <1>2, <1>13, ClearingKeepsResources DEF Tick, logVars
<1>14. CASE UNCHANGED vars
  BY <1>2, <1>14, ClearingKeepsResources DEF vars, logVars
<1>15. QED
  BY <1>4, <1>5, <1>6, <1>7, <1>8, <1>9, <1>10, <1>11, <1>12, <1>13, <1>14, <1>16 DEF Removal

\* A resource seen in a request is in the catalogue, with a day no earlier than the
\* request's, until a cleanup with a later cutoff; and a session that carries it is
\* linked to it by exactly one of its rows until that row may have been deleted.
THEOREM ResourcesKept == Spec => []ResourcesTrue
<1>1. LogInv /\ ResourceInv /\ [Next]_vars => ResourceInv'
  <2> SUFFICES ASSUME LogInv, ResourceInv, [Next]_vars PROVE ResourceInv'
    OBVIOUS
  <2>1. QED
    BY StepsClassified, StartedKeepsResources, RecordedKeepsResources, RemovalKeepsResources
<1>2. ResourceInv => ResourcesTrue
  <2> SUFFICES ASSUME ResourceInv PROVE SessionsLinked
    BY DEF ResourceInv, ResourcesTrue
  <2> SUFFICES ASSUME NEW s \in Sessions, NEW res \in Resources
               PROVE  /\ Cardinality({r \in RowsOf(s) : <<r, res>> \in refs}) <= 1
                      /\ s \notin unlinked /\ purged = 0
                           /\ (\E r \in RowsOf(s) : request[r].stage = "over" /\ res \in Carried(r))
                         => Linked(s, res)
    BY DEF SessionsLinked
  <2> DEFINE holders == {r \in RowsOf(s) : <<r, res>> \in refs}
  <2>1. RowsOf(s) = {r \in Requests : Held(s, r)}
    BY DEF RowsOf, Held, Has
  <2>2. holders = {} \/ \E r : holders = {r}
    <3>1. \A r, q \in holders : r = q
      BY <2>1 DEF ResourceInv, OneLink
    <3> HIDE DEF holders
    <3>2. ASSUME NEW r \in holders PROVE holders = {r}
      BY <3>1
    <3>3. QED
      BY <3>2
  <2>3. Cardinality(holders) <= 1
    <3>1. Cardinality(holders) = 0 \/ Cardinality(holders) = 1
      BY <2>2, FS_EmptySet, FS_Singleton, Zenon
    <3>2. QED
      BY <3>1
  <2>4. Linked(s, res) <=> \E r \in Requests : Held(s, r) /\ <<r, res>> \in refs
    BY <2>1, NoneAssumption DEF Linked
  <2>5. QED
    BY <2>1, <2>3, <2>4 DEF ResourceInv, Links, Over
<1>3. QED
  BY <1>1, <1>2, ResourceInvInit, LogInvHolds, PTL DEF Spec
=============================================================================

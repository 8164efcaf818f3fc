------------------------- MODULE SessionLog_proofs -------------------------
(***************************************************************************)
(* Where the request log leaves the requests of a session, for any         *)
(* requests, sessions and histories: the title and guardian requests are   *)
(* found in the session they accompany, its compactions are counted, and   *)
(* the title a user chose stays.  The recording transaction merges up to   *)
(* two requests and touches up to three states; what it does to one row    *)
(* and to one state is stated first, and the invariants follow from that.  *)
(***************************************************************************)
EXTENDS SessionLog, FiniteSetTheorems, WellFoundedInduction, TLAPS

-----------------------------------------------------------------------------
(* The rows a lookup reads: the first of what it finds.                    *)

Below == {p \in Nat \X Nat : p[1] < p[2]}

\* Induction: a set of numbers has a least one.
LEMMA LeastNumber ==
  ASSUME NEW T, T \subseteq Nat, T # {}
  PROVE  \E n \in T : \A m \in T : n <= m
<1>1. IsWellFoundedOn(Below, Nat)
  <2>1. Below = OpToRel(<, Nat)
    BY DEF OpToRel, Below
  <2>2. QED
    BY <2>1, NatLessThanWellFounded, Zenon
<1>2. PICK n \in T : \A m \in T : ~(<<m, n>> \in Below)
  BY <1>1, WFMin, Zenon
<1>3. ASSUME NEW m \in T PROVE n <= m
  <2>1. m \in Nat /\ n \in Nat
    OBVIOUS
  <2>2. m < n => <<m, n>> \in Below
    BY <2>1 DEF Below
  <2>3. QED
    BY <1>2, <2>1, <2>2
<1>4. QED
  BY <1>3

LEMMA NewestWithin ==
  \A S, n : Newest(S, n) \subseteq S /\ Oldest(S, n) \subseteq S
  BY DEF Newest, Oldest

\* What finds a row reads one.
LEMMA NewestSome ==
  ASSUME NEW S \in SUBSET Requests, S # {}
  PROVE  Newest(S, 1) # {}
<1> DEFINE above(r) == {q \in S : CreatedAt[q] > CreatedAt[r]}
           Counts == {Cardinality(above(r)) : r \in S}
<1>1. \A r \in S : IsFiniteSet(above(r)) /\ Cardinality(above(r)) \in Nat
  BY BoundAssumption, FS_Subset, FS_CardinalityType
<1>2. PICK n \in Counts : \A k \in Counts : n <= k
  <2>1. Counts \subseteq Nat /\ Counts # {}
    BY <1>1
  <2> HIDE DEF Counts
  <2>2. QED
    BY <2>1, LeastNumber
<1>3. PICK r \in S : n = Cardinality(above(r))
  OBVIOUS
<1>4. above(r) = {}
  <2> SUFFICES ASSUME NEW q \in above(r) PROVE FALSE
    OBVIOUS
  <2>1. q \in S /\ CreatedAt[q] > CreatedAt[r]
    OBVIOUS
  <2>2. \A p \in Requests : CreatedAt[p] \in Nat
    BY CreatedAssumption
  <2>3. above(q) \subseteq above(r) /\ q \notin above(q)
    BY <2>1, <2>2
  <2>4. Cardinality(above(q)) <= Cardinality(above(r)) /\ Cardinality(above(q)) # Cardinality(above(r))
    <3>1. above(q) # above(r) /\ IsFiniteSet(above(r))
      BY <1>1, <2>3
    <3> HIDE DEF above
    <3>2. QED
      BY <2>3, <3>1, FS_Subset
  <2>5. n <= Cardinality(above(q))
    BY <1>2, <2>1
  <2>6. QED
    BY <1>1, <1>3, <2>1, <2>4, <2>5
<1>5. Cardinality(above(r)) < 1
  BY <1>4, FS_EmptySet
<1>6. r \in Newest(S, 1)
  BY <1>3, <1>5 DEF Newest
<1>7. QED
  BY <1>6

LEMMA OldestSome ==
  ASSUME NEW S \in SUBSET Requests, S # {}
  PROVE  Oldest(S, 1) # {}
<1> DEFINE below(r) == {q \in S : CreatedAt[q] < CreatedAt[r]}
           Counts == {Cardinality(below(r)) : r \in S}
<1>1. \A r \in S : IsFiniteSet(below(r)) /\ Cardinality(below(r)) \in Nat
  BY BoundAssumption, FS_Subset, FS_CardinalityType
<1>2. PICK n \in Counts : \A k \in Counts : n <= k
  <2>1. Counts \subseteq Nat /\ Counts # {}
    BY <1>1
  <2> HIDE DEF Counts
  <2>2. QED
    BY <2>1, LeastNumber
<1>3. PICK r \in S : n = Cardinality(below(r))
  OBVIOUS
<1>4. below(r) = {}
  <2> SUFFICES ASSUME NEW q \in below(r) PROVE FALSE
    OBVIOUS
  <2>1. q \in S /\ CreatedAt[q] < CreatedAt[r]
    OBVIOUS
  <2>2. \A p \in Requests : CreatedAt[p] \in Nat
    BY CreatedAssumption
  <2>3. below(q) \subseteq below(r) /\ q \notin below(q)
    BY <2>1, <2>2
  <2>4. Cardinality(below(q)) <= Cardinality(below(r)) /\ Cardinality(below(q)) # Cardinality(below(r))
    <3>1. below(q) # below(r) /\ IsFiniteSet(below(r))
      BY <1>1, <2>3
    <3> HIDE DEF below
    <3>2. QED
      BY <2>3, <3>1, FS_Subset
  <2>5. n <= Cardinality(below(q))
    BY <1>2, <2>1
  <2>6. QED
    BY <1>1, <1>3, <2>1, <2>4, <2>5
<1>5. Cardinality(below(r)) < 1
  BY <1>4, FS_EmptySet
<1>6. r \in Oldest(S, 1)
  BY <1>3, <1>5 DEF Oldest
<1>7. QED
  BY <1>6

\* What few of a larger set come before is read.
LEMMA ReadAmong ==
  ASSUME NEW S \in SUBSET Requests, NEW T \in SUBSET Requests, S \subseteq T, NEW m \in S, NEW n \in Nat
  PROVE  /\ Cardinality({q \in T : CreatedAt[q] > CreatedAt[m]}) < n => m \in Newest(S, n)
         /\ Cardinality({q \in T : CreatedAt[q] < CreatedAt[m]}) < n => m \in Oldest(S, n)
<1>1. ASSUME NEW A, NEW B, A \subseteq B, B \subseteq Requests
      PROVE  Cardinality(A) \in Nat /\ Cardinality(B) \in Nat /\ Cardinality(A) <= Cardinality(B)
  BY <1>1, BoundAssumption, FS_Subset, FS_CardinalityType
<1> DEFINE newerS == {q \in S : CreatedAt[q] > CreatedAt[m]}
           newerT == {q \in T : CreatedAt[q] > CreatedAt[m]}
           olderS == {q \in S : CreatedAt[q] < CreatedAt[m]}
           olderT == {q \in T : CreatedAt[q] < CreatedAt[m]}
<1>2. /\ newerS \subseteq newerT /\ newerT \subseteq Requests
      /\ olderS \subseteq olderT /\ olderT \subseteq Requests
  OBVIOUS
<1>3. /\ m \in Newest(S, n) <=> Cardinality(newerS) < n
      /\ m \in Oldest(S, n) <=> Cardinality(olderS) < n
  BY DEF Newest, Oldest
<1> HIDE DEF newerS, newerT, olderS, olderT
<1>4. Cardinality(newerT) < n => m \in Newest(S, n)
  BY <1>1, <1>2, <1>3
<1>5. Cardinality(olderT) < n => m \in Oldest(S, n)
  BY <1>1, <1>2, <1>3
<1>6. QED
  BY <1>4, <1>5 DEF newerT, olderT

-----------------------------------------------------------------------------
(* The two tables, and what each piece of the transaction does to them.    *)

Tables == [row : [Requests -> Row \cup {None}], state : [Sessions -> State \cup {None}]]

\* What becomes of a state that is kept: nothing is lost, and a title the user chose stays.
Grown(a, b) ==
  /\ a # None => /\ b # None
                 /\ b.compactions >= a.compactions /\ b.updated >= a.updated
                 /\ a.custom => b.title = a.title
  /\ b # None => /\ b.custom <=> (a # None /\ a.custom)
                 /\ b.updated <= today \/ (a # None /\ b.updated = a.updated)

LEMMA KeyTypes ==
  \A r \in Requests : /\ Key[r] \in Sessions /\ SessionOf(r) \in Sessions
                      /\ SourceOf(r) \in {"key", "guardian"} /\ NameOf(r) \in Titles
                      /\ Canonical[SessionOf(r)] = SessionOf(r)
  BY KeyAssumption DEF SessionOf, SourceOf, NameOf, Titles

LEMMA RowFields ==
  \A x \in Row \cup {None} : x # None =>
    /\ x \in Row
    /\ x.outcome \in Outcomes /\ x.session \in Sessions /\ x.source \in Sources
    /\ x.name \in Titles /\ x.created \in 0..MaxAge
  BY DEF Row

LEMMA StateFields ==
  \A x \in State \cup {None} : x # None =>
    /\ x \in State
    /\ x.title \in Titles /\ x.custom \in BOOLEAN /\ x.compactions \in Nat /\ x.updated \in 0..MaxAge
  BY DEF State

LEMMA FreshState ==
  ASSUME today \in 0..MaxAge, NEW title \in Titles
  PROVE  /\ Fresh(title) \in State /\ Fresh(title) # None
         /\ Fresh(title).title = title /\ Fresh(title).custom = FALSE
         /\ Fresh(title).compactions = 0 /\ Fresh(title).updated = today
<1>1. Fresh(title) \in State
  BY DEF Fresh, State
<1>2. QED
  BY <1>1, NoneAssumption DEF Fresh

LEMMA GrownSame ==
  ASSUME NEW a \in State \cup {None} PROVE Grown(a, a)
  BY StateFields, BoundAssumption DEF Grown

LEMMA GrownTwice ==
  ASSUME NEW a \in State \cup {None}, NEW b \in State \cup {None}, NEW c \in State \cup {None},
         Grown(a, b), Grown(b, c), today \in Nat
  PROVE  Grown(a, c)
  BY StateFields, BoundAssumption DEF Grown

\* The new value of a state that is None or not: what TouchSession and ApplyTitle do to it.
LEMMA TouchEffect ==
  ASSUME today \in 0..MaxAge, NEW db \in Tables, NEW s \in Sessions, NEW title \in Titles,
         NEW d, d = TouchSession(db, s, title)
  PROVE  /\ d \in Tables /\ d.row = db.row
         /\ d.state[s] # None /\ d.state[s].updated = today
         /\ \A q \in Sessions : q # s => d.state[q] = db.state[q]
         /\ (db.state[s] # None => db.state[s].updated <= today) => Grown(db.state[s], d.state[s])
<1> DEFINE st == db.state[s]
           new == IF st = None THEN Fresh(title)
                  ELSE [st EXCEPT !.updated = today,
                                  !.title = IF ~st.custom /\ @ = "" THEN title ELSE @]
<1>1. st \in State \cup {None} /\ MaxAge \in Nat
  BY BoundAssumption DEF Tables
<1>2. d = [db EXCEPT !.state = [db.state EXCEPT ![s] = new]]
  <2>1. CASE st = None
    BY <2>1 DEF TouchSession
  <2>2. CASE st # None
    BY <2>2, Zenon DEF TouchSession
  <2>3. QED
    BY <2>1, <2>2
<1>3. /\ new \in State /\ new # None /\ new.updated = today
      /\ st # None => /\ new.custom = st.custom /\ new.compactions = st.compactions
                      /\ st.custom => new.title = st.title
      /\ st = None => new.custom = FALSE
  <2>1. CASE st = None
    BY <2>1, FreshState
  <2>2. CASE st # None
    BY <1>1, <2>2, NoneAssumption DEF State, Titles
  <2>3. QED
    BY <2>1, <2>2
<1> HIDE DEF new
<1>4. d.row = db.row /\ d.state = [db.state EXCEPT ![s] = new]
  BY <1>2 DEF Tables
<1>5. d \in Tables
  BY <1>2, <1>3 DEF Tables
<1>6. d.state[s] = new /\ \A q \in Sessions : q # s => d.state[q] = db.state[q]
  BY <1>4 DEF Tables
<1>7. (st # None => st.updated <= today) => Grown(st, new)
  BY <1>1, <1>3, StateFields DEF Grown
<1>8. QED
  BY <1>3, <1>4, <1>5, <1>6, <1>7

LEMMA ApplyEffect ==
  ASSUME today \in 0..MaxAge, NEW db \in Tables, NEW s \in Sessions, NEW title \in Titles,
         NEW d, d = ApplyTitle(db, s, title)
  PROVE  /\ d \in Tables /\ d.row = db.row
         /\ d.state[s] # None
         /\ \A q \in Sessions : q # s => d.state[q] = db.state[q]
         /\ (db.state[s] # None => db.state[s].updated <= today) => Grown(db.state[s], d.state[s])
<1> DEFINE st == db.state[s]
           new == IF st = None THEN Fresh(title)
                  ELSE IF st.custom THEN st
                  ELSE [st EXCEPT !.title = title, !.updated = today]
<1>1. st \in State \cup {None} /\ MaxAge \in Nat
  BY BoundAssumption DEF Tables
<1>2. d = [db EXCEPT !.state = [db.state EXCEPT ![s] = new]]
  <2>1. CASE st = None
    <3>1. d = [db EXCEPT !.state[s] = Fresh(title)]
      BY <2>1, Zenon DEF ApplyTitle
    <3>2. QED
      BY <2>1, <3>1
  <2>2. CASE st # None /\ st.custom
    <3>1. d = db
      BY <2>2 DEF ApplyTitle
    <3>2. [db.state EXCEPT ![s] = st] = db.state
      BY DEF Tables
    <3>3. QED
      BY <2>2, <3>1, <3>2 DEF Tables
  <2>3. CASE st # None /\ ~st.custom
    BY <2>3, Zenon DEF ApplyTitle
  <2>4. QED
    BY <2>1, <2>2, <2>3
<1>3. /\ new \in State /\ new # None
      /\ st # None => /\ new.custom = st.custom /\ new.compactions = st.compactions
                      /\ st.custom => new.title = st.title
                      /\ new.updated \in {st.updated, today}
      /\ st = None => new.custom = FALSE /\ new.updated = today
  <2>1. CASE st = None
    BY <2>1, FreshState
  <2>2. CASE st # None
    BY <1>1, <2>2, NoneAssumption DEF State, Titles
  <2>3. QED
    BY <2>1, <2>2
<1> HIDE DEF new
<1>4. d.row = db.row /\ d.state = [db.state EXCEPT ![s] = new]
  BY <1>2 DEF Tables
<1>5. d \in Tables
  BY <1>2, <1>3 DEF Tables
<1>6. d.state[s] = new /\ \A q \in Sessions : q # s => d.state[q] = db.state[q]
  BY <1>4 DEF Tables
<1>7. (st # None => st.updated <= today) => Grown(st, new)
  BY <1>1, <1>3, StateFields DEF Grown
<1>8. QED
  BY <1>3, <1>4, <1>5, <1>6, <1>7

LEMMA MergedTitleType ==
  ASSUME NEW db \in Tables, NEW t \in Requests, db.row[t] # None
  PROVE  MergedTitle(db, t) \in Titles
<1>1. db.row[t].session \in Sessions
  BY RowFields DEF Tables
<1>2. QED
  BY <1>1, StateFields DEF MergedTitle, Tables, Titles

LEMMA MergeEffect ==
  ASSUME NEW db \in Tables, NEW t \in Requests, db.row[t] # None, NEW s \in Sessions,
         NEW d, d = MergeTitle(db, t, s)
  PROVE  /\ d \in Tables
         /\ \A r \in Requests : r # t => d.row[r] = db.row[r]
         /\ d.row[t] # None /\ d.row[t].source = "title" /\ d.row[t].session = s
         /\ d.row[t].outcome = db.row[t].outcome /\ d.row[t].created = db.row[t].created
         /\ d.state[db.row[t].session] = None
         /\ \A q \in Sessions : q # db.row[t].session => d.state[q] = db.state[q]
<1> DEFINE old == db.row[t].session
           new == [db.row[t] EXCEPT !.session = s, !.source = "title", !.name = MergedTitle(db, t)]
<1>1. db.row[t] \in Row /\ old \in Sessions /\ MergedTitle(db, t) \in Titles
  BY RowFields, MergedTitleType DEF Tables
<1>2. /\ new \in Row /\ new # None /\ new.source = "title" /\ new.session = s
      /\ new.outcome = db.row[t].outcome /\ new.created = db.row[t].created
  BY <1>1, NoneAssumption DEF Row, Sources
<1>3. d = [row |-> [db.row EXCEPT ![t] = new], state |-> [db.state EXCEPT ![old] = None]]
  BY Zenon DEF MergeTitle
<1> HIDE DEF new
<1>4. d.row = [db.row EXCEPT ![t] = new] /\ d.state = [db.state EXCEPT ![old] = None]
  BY <1>3
<1>5. d \in Tables
  BY <1>1, <1>2, <1>3 DEF Tables
<1>6. QED
  BY <1>1, <1>2, <1>4, <1>5 DEF Tables

LEMMA SaveEffect ==
  ASSUME today \in 0..MaxAge, NEW db \in Tables, NEW r \in Requests, NEW outcome \in Outcomes,
         NEW title \in Titles, NEW d, d = SaveRow(db, r, outcome, title)
  PROVE  /\ d \in Tables /\ d.state = db.state
         /\ \A q \in Requests : q # r => d.row[q] = db.row[q]
         /\ d.row[r] # None /\ d.row[r].outcome = outcome /\ d.row[r].created = today
         /\ d.row[r].session = SessionOf(r) /\ d.row[r].source = SourceOf(r)
<1> DEFINE new == [outcome |-> outcome, session |-> SessionOf(r), source |-> SourceOf(r),
                   name |-> title, created |-> today]
<1>1. new \in Row /\ new # None
  BY KeyTypes, NoneAssumption DEF Row, Sources
<1>2. /\ new.outcome = outcome /\ new.created = today
      /\ new.session = SessionOf(r) /\ new.source = SourceOf(r)
  OBVIOUS
<1>3. d = [db EXCEPT !.row = [db.row EXCEPT ![r] = new]]
  BY Zenon DEF SaveRow
<1> HIDE DEF new
<1>4. QED
  BY <1>1, <1>2, <1>3 DEF Tables

LEMMA CountEffect ==
  ASSUME today \in 0..MaxAge, NEW db \in Tables, NEW r \in Requests, NEW outcome,
         db.row[r] # None, db.state[db.row[r].session] # None,
         NEW d, d = CountCompaction(db, r, outcome)
  PROVE  /\ d \in Tables /\ d.row = db.row
         /\ d.state[db.row[r].session] # None
         /\ d.state[db.row[r].session].updated = db.state[db.row[r].session].updated
         /\ \A q \in Sessions : q # db.row[r].session => d.state[q] = db.state[q]
         /\ Grown(db.state[db.row[r].session], d.state[db.row[r].session])
         /\ (Kind[r] = "compaction" /\ outcome = "success" /\ ~(row[r] # None /\ row[r].outcome = "success"))
              => d.state[db.row[r].session].compactions = db.state[db.row[r].session].compactions + 1
         /\ Kind[r] # "compaction" => d = db
<1> DEFINE s == db.row[r].session
           st == db.state[s]
           counts == /\ Kind[r] = "compaction" /\ outcome = "success"
                     /\ ~(row[r] # None /\ row[r].outcome = "success")
           new == [st EXCEPT !.compactions = @ + 1]
<1>1. s \in Sessions /\ st \in State /\ st # None /\ MaxAge \in Nat
  BY RowFields, StateFields, BoundAssumption DEF Tables
<1>2. CASE ~counts
  BY <1>1, <1>2, GrownSame DEF CountCompaction
<1>3. CASE counts
  <2>1. d = [db EXCEPT !.state = [db.state EXCEPT ![s] = new]]
    BY <1>3, Zenon DEF CountCompaction
  <2>2. /\ new \in State /\ new # None /\ new.compactions = st.compactions + 1 /\ new.title = st.title
        /\ new.custom = st.custom /\ new.updated = st.updated
    BY <1>1, NoneAssumption DEF State
  <2> HIDE DEF new
  <2>3. Grown(st, new)
    BY <1>1, <2>2, StateFields DEF Grown
  <2>4. d \in Tables /\ d.row = db.row /\ d.state = [db.state EXCEPT ![s] = new]
    BY <2>1, <2>2 DEF Tables
  <2>5. d.state[s] = new /\ \A q \in Sessions : q # s => d.state[q] = db.state[q]
    BY <1>1, <2>4 DEF Tables
  <2>6. QED
    BY <1>3, <2>2, <2>3, <2>4, <2>5
<1>4. QED
  BY <1>2, <1>3

-----------------------------------------------------------------------------
(* The whole transaction.                                                  *)

\* The recorded title request r goes to the session of m.
Follows(db, r, outcome, m) ==
  /\ IsTitle(r) /\ outcome = "success" /\ SourceOf(r) = "key"
  /\ db.row[m] # None /\ db.row[m].outcome = "success" /\ db.row[m].source = "key"
  /\ ~IsTitle(m) /\ Matches(r, m) /\ m \notin Slow
  /\ db.row[m].session # SessionOf(r)

\* What recording r, without what it takes over, does to the tables.
Stays(db, d, r, outcome) ==
  /\ ~ \E m \in Requests : Follows(db, r, outcome, m) /\ InReach(Succeeded(db), r, m)
  /\ d.row[r].session = SessionOf(r) /\ d.row[r].source = SourceOf(r)
  /\ \A s \in Sessions : s # SessionOf(r) => d.state[s] = db.state[s]
  /\ Grown(db.state[SessionOf(r)], d.state[SessionOf(r)])
  /\ d.state[SessionOf(r)] # None /\ d.state[SessionOf(r)].updated = today
  /\ (Kind[r] = "compaction" /\ outcome = "success") =>
       d.state[SessionOf(r)].compactions >=
         (IF db.state[SessionOf(r)] = None THEN 0 ELSE db.state[SessionOf(r)].compactions) + 1

MovesTo(db, d, r, outcome, m) ==
  /\ Follows(db, r, outcome, m)
  /\ d.row[r].session = db.row[m].session /\ d.row[r].source = "title"
  /\ d.state[SessionOf(r)] = None
  /\ \A s \in Sessions \ {SessionOf(r), db.row[m].session} : d.state[s] = db.state[s]
  /\ Grown(db.state[db.row[m].session], d.state[db.row[m].session])

LEMMA RecordedEffect ==
  ASSUME today \in 0..MaxAge, NEW db \in Tables, NEW r \in Requests, NEW outcome \in {"success", "failed"},
         NEW title \in Titles, NEW d \in Recorded(db, r, outcome, title),
         \A s \in Sessions : db.state[s] # None => db.state[s].updated <= today,
         ~(row[r] # None /\ row[r].outcome = "success"),
         ~(db.row[r] # None /\ db.row[r].outcome = "success")
  PROVE  /\ d \in Tables
         /\ \A q \in Requests : q # r => d.row[q] = db.row[q]
         /\ d.row[r] # None /\ d.row[r].outcome = outcome /\ d.row[r].created = today
         /\ Stays(db, d, r, outcome) \/ \E m \in Requests : MovesTo(db, d, r, outcome, m)
<1> DEFINE own == SessionOf(r)
           touched == TouchSession(db, own, title)
           saved == SaveRow(touched, r, outcome, title)
<1>0. own \in Sessions /\ outcome \in Outcomes /\ MaxAge \in Nat
  BY KeyTypes, BoundAssumption DEF Outcomes
<1>1. /\ touched \in Tables /\ touched.row = db.row
      /\ touched.state[own] # None /\ touched.state[own].updated = today
      /\ \A q \in Sessions : q # own => touched.state[q] = db.state[q]
      /\ Grown(db.state[own], touched.state[own])
  BY <1>0, TouchEffect
<1> HIDE DEF touched
<1>2. /\ saved \in Tables /\ saved.state = touched.state
      /\ \A q \in Requests : q # r => saved.row[q] = touched.row[q]
      /\ saved.row[r] # None /\ saved.row[r].outcome = outcome /\ saved.row[r].created = today
      /\ saved.row[r].session = own /\ saved.row[r].source = SourceOf(r)
  BY <1>0, <1>1, SaveEffect
<1>3. d \in IF Following(saved, r) = {}
           THEN {CountCompaction(saved, r, outcome)}
           ELSE {CountCompaction(
                   ApplyTitle(MergeTitle(saved, r, saved.row[m].session), saved.row[m].session,
                              MergedTitle(saved, r)), r, outcome) : m \in Following(saved, r)}
  BY DEF Recorded, touched
<1> HIDE DEF saved
<1>4. /\ \A q \in Requests : q # r => saved.row[q] = db.row[q]
      /\ \A q \in Sessions : q # own => saved.state[q] = db.state[q]
      /\ saved.state[own] # None /\ saved.state[own].updated = today
      /\ Grown(db.state[own], saved.state[own])
  BY <1>1, <1>2, Zenon
<1> DEFINE candidates == MainCandidates(saved, r)
           matching == {m \in Newest(candidates, CandidateLimit) : Matches(r, m) /\ m \notin Slow}
<1>5. \A m \in Requests : m # r =>
        (m \in candidates <=> /\ db.row[m] # None /\ db.row[m].outcome = "success"
                              /\ ~IsTitle(m) /\ Within(r, m)
                              /\ db.row[m].source = "key" /\ db.row[m].session # own)
  BY <1>2, <1>4 DEF MainCandidates, Succeeded
<1>a. /\ candidates \in SUBSET Requests /\ matching \in SUBSET candidates
      /\ \A m \in candidates : ~IsTitle(m)
      /\ Following(saved, r) = IF ~IsTitle(r) \/ outcome # "success" \/ SourceOf(r) # "key"
                               THEN {} ELSE Newest(matching, 1)
  BY <1>2, NewestWithin DEF Following, MainCandidates, Succeeded
<1>b. ASSUME NEW m \in Following(saved, r)
      PROVE  m \in Requests /\ Follows(db, r, outcome, m)
  <2>1. /\ IsTitle(r) /\ outcome = "success" /\ SourceOf(r) = "key"
        /\ m \in matching /\ m \in candidates /\ m \in Requests /\ m # r
    BY <1>a, <1>b, NewestWithin
  <2>2. Matches(r, m) /\ m \notin Slow
    BY <2>1
  <2> HIDE DEF candidates, matching
  <2>3. QED
    BY <1>5, <2>1, <2>2 DEF Follows
<1>c. ASSUME Following(saved, r) = {}, NEW m \in Requests, Follows(db, r, outcome, m),
             InReach(Succeeded(db), r, m)
      PROVE  FALSE
  <2> DEFINE seen == {q \in Succeeded(db) : Within(r, q) /\ ~IsTitle(q)}
  <2>1. r \notin Succeeded(db) /\ m # r
    BY <1>c DEF Succeeded, Follows
  <2>2. /\ Within(r, m)
        /\ Cardinality({q \in seen : CreatedAt[q] > CreatedAt[m]}) < CandidateLimit
    <3>1. {q \in seen : CreatedAt[q] > CreatedAt[m]} =
            {q \in Succeeded(db) : Within(r, q) /\ ~IsTitle(q) /\ CreatedAt[q] > CreatedAt[m]}
      OBVIOUS
    <3> HIDE DEF seen
    <3>2. QED
      BY <1>c, <2>1, <3>1 DEF InReach
  <2>3. m \in candidates /\ Matches(r, m) /\ m \notin Slow
    <3> HIDE DEF candidates
    <3>1. QED
      BY <1>5, <1>c, <2>1, <2>2 DEF Follows
  <2>4. candidates \subseteq seen /\ seen \in SUBSET Requests
    <3>1. IsTitle(r)
      BY <1>c DEF Follows
    <3>2. ASSUME NEW q \in candidates PROVE q \in seen
      <4>1. q \in Requests /\ q # r
        BY <1>a, <3>1
      <4> HIDE DEF candidates
      <4>2. QED
        BY <1>5, <3>2, <4>1 DEF Succeeded
    <3>3. QED
      BY <3>2 DEF Succeeded
  <2>5. m \in Newest(candidates, CandidateLimit)
    <3>1. CandidateLimit \in Nat
      BY CreatedAssumption
    <3> HIDE DEF candidates, seen
    <3>2. QED
      BY <1>a, <2>2, <2>3, <2>4, <3>1, ReadAmong
  <2>6. matching \in SUBSET Requests /\ matching # {}
    BY <1>a, <2>3, <2>5
  <2> HIDE DEF candidates, matching
  <2>7. Newest(matching, 1) # {}
    BY <2>6, NewestSome
  <2>8. QED
    BY <1>a, <1>c, <2>7 DEF Follows
<1> HIDE DEF candidates, matching
<1>6. CASE Following(saved, r) = {}
  <2>1. d = CountCompaction(saved, r, outcome)
    BY <1>3, <1>6
  <2>2. /\ d \in Tables /\ d.row = saved.row
        /\ d.state[own] # None /\ d.state[own].updated = saved.state[own].updated
        /\ \A q \in Sessions : q # own => d.state[q] = saved.state[q]
        /\ Grown(saved.state[own], d.state[own])
        /\ (Kind[r] = "compaction" /\ outcome = "success")
              => d.state[own].compactions = saved.state[own].compactions + 1
    <3>1. saved.row[r] # None /\ saved.row[r].session = own /\ saved.state[saved.row[r].session] # None
      BY <1>2, <1>4
    <3>2. saved \in Tables
      BY <1>2
    <3> HIDE DEF own
    <3>3. /\ d \in Tables /\ d.row = saved.row
          /\ d.state[saved.row[r].session] # None
          /\ d.state[saved.row[r].session].updated = saved.state[saved.row[r].session].updated
          /\ \A q \in Sessions : q # saved.row[r].session => d.state[q] = saved.state[q]
          /\ Grown(saved.state[saved.row[r].session], d.state[saved.row[r].session])
          /\ (Kind[r] = "compaction" /\ outcome = "success" /\ ~(row[r] # None /\ row[r].outcome = "success"))
               => d.state[saved.row[r].session].compactions = saved.state[saved.row[r].session].compactions + 1
      BY <2>1, <3>1, <3>2, CountEffect
    <3>4. QED
      BY <3>1, <3>3
  <2>3. /\ db.state[own] \in State \cup {None} /\ saved.state[own] \in State \cup {None}
        /\ d.state[own] \in State \cup {None}
    BY <1>0, <1>2, <2>2 DEF Tables
  <2>4. Grown(db.state[own], d.state[own])
    BY <1>4, <2>2, <2>3, GrownTwice
  <2>5. (Kind[r] = "compaction" /\ outcome = "success") =>
          d.state[own].compactions >= (IF db.state[own] = None THEN 0 ELSE db.state[own].compactions) + 1
    <3>1. saved.state[own].compactions \in Nat
      BY <1>4, <2>3, StateFields
    <3>2. CASE db.state[own] = None
      BY <2>2, <3>1, <3>2
    <3>3. CASE db.state[own] # None
      <4>1. db.state[own].compactions \in Nat
        BY <2>3, <3>3, StateFields
      <4>2. saved.state[own].compactions >= db.state[own].compactions
        BY <1>4, <3>3 DEF Grown
      <4>3. QED
        BY <2>2, <3>1, <3>3, <4>1, <4>2
    <3>4. QED
      BY <3>2, <3>3
  <2>6. ~ \E m \in Requests : Follows(db, r, outcome, m) /\ InReach(Succeeded(db), r, m)
    BY <1>6, <1>c
  <2>7. Stays(db, d, r, outcome)
    BY <1>2, <1>4, <2>2, <2>4, <2>5, <2>6, Zenon DEF Stays
  <2>8. QED
    BY <1>2, <1>4, <2>2, <2>7, Zenon
<1>7. CASE Following(saved, r) # {}
  <2>1. PICK m \in Following(saved, r) :
          d = CountCompaction(
                ApplyTitle(MergeTitle(saved, r, saved.row[m].session), saved.row[m].session,
                           MergedTitle(saved, r)), r, outcome)
    BY <1>3, <1>7
  <2>2. m \in Requests /\ Follows(db, r, outcome, m)
    BY <1>b, <2>1
  <2>3. m # r
    BY <2>2 DEF Follows
  <2> DEFINE there == db.row[m].session
             merged == MergeTitle(saved, r, there)
             title2 == MergedTitle(saved, r)
             applied == ApplyTitle(merged, there, title2)
  <2>4. there \in Sessions /\ there # own /\ saved.row[m] = db.row[m]
    BY <1>4, <2>2, <2>3, RowFields DEF Follows, Tables
  <2>5. /\ merged \in Tables
        /\ \A q \in Requests : q # r => merged.row[q] = saved.row[q]
        /\ merged.row[r] # None /\ merged.row[r].source = "title" /\ merged.row[r].session = there
        /\ merged.row[r].outcome = outcome /\ merged.row[r].created = today
        /\ merged.state[own] = None
        /\ \A q \in Sessions : q # own => merged.state[q] = saved.state[q]
    BY <1>2, <2>4, MergeEffect
  <2>6. title2 \in Titles
    BY <1>2, MergedTitleType
  <2>7. d = CountCompaction(applied, r, outcome)
    BY <2>1, <2>4
  <2> HIDE DEF merged, title2, there
  <2>8. merged.state[there] = db.state[there]
    BY <1>4, <2>4, <2>5
  <2>9. /\ applied \in Tables /\ applied.row = merged.row
        /\ applied.state[there] # None
        /\ \A q \in Sessions : q # there => applied.state[q] = merged.state[q]
        /\ Grown(merged.state[there], applied.state[there])
    BY <2>4, <2>5, <2>6, <2>8, ApplyEffect
  <2> HIDE DEF applied
  <2>10. d = applied
    <3>1. Kind[r] # "compaction"
      BY <2>2 DEF Follows, IsTitle
    <3>2. applied.row[r] # None /\ applied.state[applied.row[r].session] # None
      BY <2>5, <2>9
    <3>3. QED
      BY <2>7, <2>9, <3>1, <3>2, CountEffect
  <2>11. MovesTo(db, d, r, outcome, m)
    <3>1. d.row[r].session = there /\ d.row[r].source = "title" /\ d.state[own] = None
      BY <1>0, <2>4, <2>5, <2>9, <2>10
    <3>2. ASSUME NEW s \in Sessions \ {own, there}
          PROVE  d.state[s] = db.state[s]
      BY <1>4, <2>5, <2>9, <2>10
    <3>3. Grown(db.state[there], d.state[there])
      BY <2>8, <2>9, <2>10
    <3>4. QED
      BY <2>2, <3>1, <3>2, <3>3, Zenon DEF MovesTo, there
  <2>12. QED
    BY <1>4, <2>2, <2>5, <2>9, <2>10, <2>11, Zenon
<1>8. QED
  BY <1>6, <1>7

-----------------------------------------------------------------------------
(* The inductive invariant.                                                *)

\* The stages of a request and the ages of what is stored.
Recording ==
  /\ \A r \in Requests : Finished(r) => stage[r] = "over"
  /\ \A r \in Requests : row[r] # None => row[r].created <= today
  /\ \A s \in Sessions : state[s] # None =>
       state[s].updated <= today /\ (state[s].custom => state[s].title = "chosen")
  /\ \A t \in Requests : \A m \in settled[t] : stage[m] = "over"
  /\ serving => upgraded
  /\ sweeping => serving /\ \A r \in Requests : row[r] # None => row[r].created = today

\* Nothing has touched the tables of an older version.
Untouched ==
  ~upgraded =>
    /\ \A r \in Requests : row[r] # None =>
         row[r].session = Key[r] /\ row[r].source = "key" /\ row[r].outcome = "success"
    /\ \A r \in Requests : row[r] # None /\ Kind[r] = "compaction" => Canonical[Key[r]] = Key[r]
    /\ \A s \in Sessions : state[s] # None => ~state[s].custom
    /\ \A r \in Requests : stage[r] # "running"
    /\ \A r, q \in Requests : row[r] # None /\ row[q] # None => q \in settled[r]

\* Once the upgrade has run, only a title request leaves the session of its key.
Steady ==
  upgraded => \A r \in Requests : Finished(r) /\ ~IsTitle(r) =>
                row[r].session = SessionOf(r) /\ row[r].source = SourceOf(r)

TitlesMerged ==
  upgraded =>
    \A t, m \in Requests :
      (/\ Paired(t, m) /\ m \in settled[t] \ Slow /\ InReach(settled[t], t, m)
       /\ t \in Succeeded(db0) /\ m \in Succeeded(db0))
        => row[t].source = "title"

\* The compactions the log shows of a session.
Shown(s) == {r \in Rows(db0, s) : Kind[r] = "compaction" /\ row[r].outcome = "success"}

\* A state is at least as young as the compactions shown, so that no cleanup takes it first.
Fresher == \A s \in Sessions : \A r \in Shown(s) : state[s] # None /\ row[r].created <= state[s].updated

IInv == /\ TypeOK /\ Recording /\ Untouched /\ Steady /\ TitlesMerged
        /\ Fresher /\ CompactionsCounted

LEMMA ShownMember ==
  \A s, c : c \in Shown(s) <=> /\ c \in Requests /\ row[c] # None /\ row[c].session = s
                              /\ Kind[c] = "compaction" /\ row[c].outcome = "success"
  BY DEF Shown, Rows, db0

LEMMA ShownFinite == \A s : IsFiniteSet(Shown(s)) /\ Cardinality(Shown(s)) \in Nat
<1> TAKE s
<1>1. Shown(s) \subseteq Requests
  BY DEF Shown, Rows
<1>2. QED
  BY <1>1, BoundAssumption, FS_Subset, FS_CardinalityType

LEMMA CountedByShown ==
  CompactionsCounted <=>
    \A s \in Sessions : Shown(s) # {} => state[s] # None /\ state[s].compactions >= Cardinality(Shown(s))
  BY DEF CompactionsCounted, Shown

LEMMA TablesType == TypeOK => db0 \in Tables /\ db0.row = row /\ db0.state = state
  BY DEF TypeOK, Tables, db0

LEMMA SucceededMember ==
  \A r : r \in Succeeded(db0) <=> r \in Requests /\ row[r] # None /\ row[r].outcome = "success"
  BY DEF Succeeded, db0

-----------------------------------------------------------------------------
(* What one step does to a state; it keeps what is counted on.             *)

Kept(s) == Grown(state[s], state'[s]) \/ (state'[s] = None /\ Shown(s)' = {})

\* What has been shown before stays backed by its state.
Backed ==
  \A s \in Sessions : \A c \in Shown(s)' :
    /\ c \in Shown(s) /\ row'[c].created = row[c].created
    /\ state'[s] # None /\ state'[s].compactions >= state[s].compactions
    /\ state'[s].updated >= state[s].updated

LEMMA BackedKeeps ==
  ASSUME TypeOK, TypeOK', Fresher, CompactionsCounted, Backed
  PROVE  Fresher' /\ CompactionsCounted'
<1>1. Fresher'
  <2> SUFFICES ASSUME NEW s \in Sessions, NEW c \in Shown(s)'
               PROVE  state'[s] # None /\ row'[c].created <= state'[s].updated
    BY DEF Fresher
  <2>1. /\ c \in Shown(s) /\ row'[c].created = row[c].created
        /\ state'[s] # None /\ state'[s].updated >= state[s].updated
    BY DEF Backed
  <2>2. state[s] # None /\ row[c].created <= state[s].updated /\ c \in Requests /\ row[c] # None
    BY <2>1, ShownMember DEF Fresher
  <2>3. state[s].updated \in Nat /\ state'[s].updated \in Nat /\ row[c].created \in Nat
    BY <2>1, <2>2, StateFields, RowFields, BoundAssumption DEF TypeOK
  <2>4. QED
    BY <2>1, <2>2, <2>3
<1>2. ASSUME NEW s \in Sessions, Shown(s)' # {}
      PROVE  state'[s] # None /\ state'[s].compactions >= Cardinality(Shown(s)')
  <2>1. PICK c \in Shown(s)' : TRUE
    BY <1>2
  <2>2. /\ c \in Shown(s) /\ state'[s] # None /\ state'[s].compactions >= state[s].compactions
    BY <2>1 DEF Backed
  <2>3. state[s] # None /\ state[s].compactions >= Cardinality(Shown(s))
    BY <2>2, CountedByShown
  <2>4. Shown(s)' \subseteq Shown(s)
    BY DEF Backed
  <2>5. Cardinality(Shown(s)') <= Cardinality(Shown(s)) /\ Cardinality(Shown(s)') \in Nat
        /\ Cardinality(Shown(s)) \in Nat
    BY <2>4, ShownFinite, FS_Subset, FS_CardinalityType
  <2>6. state[s].compactions \in Nat /\ state'[s].compactions \in Nat
    BY <2>2, <2>3, StateFields DEF TypeOK
  <2>7. QED
    BY <2>2, <2>3, <2>5, <2>6
<1>3. CompactionsCounted'
  <2>1. CompactionsCounted' <=>
          \A s \in Sessions : Shown(s)' # {} =>
            state'[s] # None /\ state'[s].compactions >= Cardinality(Shown(s)')
    BY DEF CompactionsCounted, Shown
  <2>2. QED
    BY <1>2, <2>1
<1>4. QED
  BY <1>1, <1>3

-----------------------------------------------------------------------------
(* The recording of a request.                                             *)

LEMMA PrecedingEffect ==
  ASSUME TypeOK, NEW r \in Requests, NEW t \in Preceding(db0, r)
  PROVE  /\ t \in Requests /\ row[t] # None /\ row[t].outcome = "success" /\ IsTitle(t)
         /\ row[t].session \in Sessions /\ row[t].session # SessionOf(r)
         /\ \A q \in Requests : row[q] # None /\ row[q].session = row[t].session => q = t
<1>1. /\ t \in Requests /\ row[t] # None /\ row[t].outcome = "success" /\ IsTitle(t)
      /\ row[t].session # SessionOf(r) /\ Cardinality(Rows(db0, row[t].session)) = 1
  BY NewestWithin DEF Preceding, TitleCandidates, Succeeded, db0
<1>2. row[t].session \in Sessions
  BY <1>1, RowFields DEF TypeOK
<1> DEFINE there == Rows(db0, row[t].session)
<1>3. there \subseteq Requests /\ t \in there
  BY <1>1 DEF Rows, db0
<1>4. IsFiniteSet(there)
  BY <1>3, BoundAssumption, FS_Subset
<1>5. there = {t}
  <2> HIDE DEF there
  <2>1. Cardinality(there) = 1
    BY <1>1 DEF there
  <2>2. PICK x : there = {x}
    BY <1>4, <2>1, FS_Singleton
  <2>3. QED
    BY <1>3, <2>2
<1>6. ASSUME NEW q \in Requests, row[q] # None, row[q].session = row[t].session
      PROVE  q = t
  <2>1. q \in there
    BY <1>6 DEF Rows, db0
  <2>2. QED
    BY <1>5, <2>1
<1>7. QED
  BY <1>1, <1>2, <1>6

\* The record of a request r with its outcome, and what it took over.
Taken(r, outcome) ==
  /\ TypeOK'
  /\ row'[r] # None /\ row'[r].outcome = outcome /\ row'[r].created = today
  /\ \A q \in Requests : q # r =>
       \/ row'[q] = row[q]
       \/ /\ IsTitle(q) /\ row[q] # None /\ row'[q] # None
          /\ row[q].outcome = "success" /\ row'[q].outcome = "success"
          /\ row'[q].source = "title" /\ row'[q].created = row[q].created
  /\ \/ row'[r].session = SessionOf(r) /\ row'[r].source = SourceOf(r)
     \/ IsTitle(r) /\ row'[r].source = "title"
  /\ row'[r].source # "title" =>
       ~ \E m \in Requests : Follows(db0, r, outcome, m) /\ InReach(Succeeded(db0), r, m)
  /\ \A s \in Sessions : Kept(s)
  /\ (Kind[r] = "compaction" /\ outcome = "success") =>
       /\ row'[r].session = SessionOf(r)
       /\ state'[SessionOf(r)] # None /\ state'[SessionOf(r)].updated = today
       /\ state'[SessionOf(r)].compactions >=
            (IF state[SessionOf(r)] = None THEN 0 ELSE state[SessionOf(r)].compactions) + 1

LEMMA RecordEffect ==
  ASSUME IInv, NEW r \in Requests, NEW outcome \in {"success", "failed"}, RecordRequest(r, outcome)
  PROVE  Taken(r, outcome)
<1> DEFINE own == SessionOf(r)
<1>0. /\ TypeOK /\ Recording /\ Steady /\ today \in 0..MaxAge /\ MaxAge \in Nat /\ own \in Sessions
      /\ stage[r] = "running" /\ upgraded /\ db0 \in Tables /\ db0.row = row /\ db0.state = state
      /\ ~(row[r] # None /\ row[r].outcome = "success") /\ SourceOf(r) # "title"
  <2>1. TypeOK /\ Recording /\ Steady /\ stage[r] = "running" /\ serving
    BY DEF IInv, RecordRequest
  <2>2. ~Finished(r) /\ upgraded
    BY <2>1 DEF Recording
  <2>3. QED
    BY <2>1, <2>2, TablesType, KeyTypes, BoundAssumption DEF TypeOK, Finished
<1>a. \E b : /\ \/ Preceding(db0, r) = {} /\ b = db0
               \/ \E t \in Preceding(db0, r) : b = MergeTitle(db0, t, own)
            /\ \E title \in Titles : \E d \in Recorded(b, r, outcome, title) :
                 row' = d.row /\ state' = d.state
  <2>1. CASE Preceding(db0, r) = {}
    <3>1. PICK d \in Recorded(db0, r, outcome, NameOf(r)) : row' = d.row /\ state' = d.state
      BY <2>1 DEF RecordRequest
    <3>2. QED
      BY <2>1, <3>1, KeyTypes
  <2>2. CASE Preceding(db0, r) # {}
    <3>1. PICK t \in Preceding(db0, r) :
            \E d \in Recorded(MergeTitle(db0, t, own), r, outcome, MergedTitle(db0, t)) :
              row' = d.row /\ state' = d.state
      BY <2>2 DEF RecordRequest
    <3>2. MergedTitle(db0, t) \in Titles
      BY <1>0, PrecedingEffect, MergedTitleType
    <3>3. QED
      BY <3>1, <3>2
  <2>3. QED
    BY <2>1, <2>2
<1>b. PICK b : /\ \/ Preceding(db0, r) = {} /\ b = db0
                 \/ \E t \in Preceding(db0, r) : b = MergeTitle(db0, t, own)
              /\ \E title \in Titles : \E d \in Recorded(b, r, outcome, title) :
                   row' = d.row /\ state' = d.state
  BY <1>a
<1>c. PICK title \in Titles : \E d \in Recorded(b, r, outcome, title) : row' = d.row /\ state' = d.state
  BY <1>b
<1>1. PICK d \in Recorded(b, r, outcome, title) : row' = d.row /\ state' = d.state
  BY <1>c
\* The request taken over, if there is one, was the only one of its session.
<1>2. \/ b = db0
      \/ \E t \in Requests :
           /\ t # r /\ IsTitle(t) /\ row[t] # None /\ row[t].outcome = "success"
           /\ row[t].session \in Sessions \ {own}
           /\ \A q \in Requests : row[q] # None /\ row[q].session = row[t].session => q = t
           /\ b \in Tables
           /\ \A q \in Requests : q # t => b.row[q] = row[q]
           /\ b.row[t] # None /\ b.row[t].source = "title" /\ b.row[t].session = own
           /\ b.row[t].outcome = row[t].outcome /\ b.row[t].created = row[t].created
           /\ b.state[row[t].session] = None
           /\ \A s \in Sessions : s # row[t].session => b.state[s] = state[s]
  <2>1. CASE \E t \in Preceding(db0, r) : b = MergeTitle(db0, t, own)
    <3>1. PICK t \in Preceding(db0, r) : b = MergeTitle(db0, t, own)
      BY <2>1
    <3>2. /\ t \in Requests /\ row[t] # None /\ row[t].outcome = "success" /\ IsTitle(t)
          /\ row[t].session \in Sessions /\ row[t].session # own
          /\ \A q \in Requests : row[q] # None /\ row[q].session = row[t].session => q = t
      BY <1>0, PrecedingEffect
    <3> HIDE DEF own
    <3>3. /\ b \in Tables
          /\ \A q \in Requests : q # t => b.row[q] = db0.row[q]
          /\ b.row[t] # None /\ b.row[t].source = "title" /\ b.row[t].session = own
          /\ b.row[t].outcome = db0.row[t].outcome /\ b.row[t].created = db0.row[t].created
          /\ b.state[db0.row[t].session] = None
          /\ \A q \in Sessions : q # db0.row[t].session => b.state[q] = db0.state[q]
      BY <1>0, <3>1, <3>2, MergeEffect
    <3>4. QED
      BY <1>0, <3>2, <3>3
  <2>2. QED
    BY <1>b, <2>1
<1>3. /\ b \in Tables
      /\ \A s \in Sessions : b.state[s] # None => b.state[s] = state[s]
      /\ b.row[r] = row[r] /\ b.state[own] = state[own]
      /\ \A q \in Requests :
           \/ b.row[q] = row[q]
           \/ /\ IsTitle(q) /\ row[q] # None /\ b.row[q] # None
              /\ row[q].outcome = "success" /\ b.row[q].outcome = "success"
              /\ b.row[q].source = "title" /\ b.row[q].created = row[q].created
  BY <1>0, <1>2
<1>4. \A s \in Sessions : b.state[s] = state[s] \/
        /\ b.state[s] = None /\ s # own
        /\ \A q \in Requests : ~IsTitle(q) /\ b.row[q] # None => b.row[q].session # s
  BY <1>0, <1>2
<1>5. /\ d \in Tables
      /\ \A q \in Requests : q # r => d.row[q] = b.row[q]
      /\ d.row[r] # None /\ d.row[r].outcome = outcome /\ d.row[r].created = today
      /\ Stays(b, d, r, outcome) \/ \E m \in Requests : MovesTo(b, d, r, outcome, m)
  <2>1. \A s \in Sessions : b.state[s] # None => b.state[s].updated <= today
    BY <1>0, <1>3 DEF Recording
  <2>2. ~(b.row[r] # None /\ b.row[r].outcome = "success")
    BY <1>0, <1>3
  <2>3. QED
    BY <1>0, <1>1, <1>3, <2>1, <2>2, RecordedEffect
<1>6. \A m \in Requests : Follows(b, r, outcome, m) <=> Follows(db0, r, outcome, m)
  <2> TAKE m \in Requests
  <2>1. CASE IsTitle(m)
    BY <2>1 DEF Follows
  <2>2. CASE ~IsTitle(m)
    <3>1. b.row[m] = db0.row[m]
      BY <1>0, <1>3, <2>2
    <3>2. QED
      BY <3>1 DEF Follows
  <2>3. QED
    BY <2>1, <2>2
<1>d. Succeeded(b) = Succeeded(db0)
  <2>1. ASSUME NEW q \in Requests
        PROVE  (b.row[q] # None /\ b.row[q].outcome = "success") <=> (row[q] # None /\ row[q].outcome = "success")
    BY <1>3
  <2>2. QED
    BY <1>0, <2>1 DEF Succeeded
<1>7. \A s \in Sessions : state[s] \in State \cup {None} /\ d.state[s] \in State \cup {None}
                          /\ Grown(state[s], state[s])
  BY <1>0, <1>5, GrownSame DEF TypeOK, Tables
<1>8. /\ TypeOK'
      /\ row'[r] # None /\ row'[r].outcome = outcome /\ row'[r].created = today
      /\ \A q \in Requests : q # r =>
           \/ row'[q] = row[q]
           \/ /\ IsTitle(q) /\ row[q] # None /\ row'[q] # None
              /\ row[q].outcome = "success" /\ row'[q].outcome = "success"
              /\ row'[q].source = "title" /\ row'[q].created = row[q].created
  <2>1. TypeOK'
    <3>1. row' \in [Requests -> Row \cup {None}] /\ state' \in [Sessions -> State \cup {None}]
      BY <1>1, <1>5 DEF Tables
    <3>2. stage' \in [Requests -> {"new", "running", "over"}]
      BY <1>0 DEF RecordRequest, TypeOK
    <3>3. settled' \in [Requests -> SUBSET Requests]
      BY <1>0 DEF RecordRequest, TypeOK, Succeeded
    <3>4. UNCHANGED <<today, serving, upgraded, sweeping, renames>>
      BY DEF RecordRequest
    <3>5. QED
      BY <1>0, <3>1, <3>2, <3>3, <3>4 DEF TypeOK
  <2>2. QED
    BY <1>1, <1>3, <1>5, <2>1
\* The states that are not touched, and the one that went with the request taken over.
<1>9. ASSUME NEW s \in Sessions, d.state[s] = b.state[s],
             b.state[s] # state[s] => \A q \in Requests : Kind[q] = "compaction" /\ d.row[q] # None => d.row[q].session # s
      PROVE  Kept(s)
  <2>1. CASE b.state[s] = state[s]
    BY <1>1, <1>7, <1>9, <2>1 DEF Kept
  <2>2. CASE b.state[s] # state[s]
    <3>1. state'[s] = None
      BY <1>1, <1>4, <1>9, <2>2
    <3>2. Shown(s)' = {}
      BY <1>1, <1>9, <2>2 DEF Shown, Rows, db0
    <3>3. QED
      BY <3>1, <3>2 DEF Kept
  <2>3. QED
    BY <2>1, <2>2
<1>10. CASE Stays(b, d, r, outcome)
  <2>1. /\ ~ \E m \in Requests : Follows(db0, r, outcome, m) /\ InReach(Succeeded(db0), r, m)
        /\ row'[r].session = own /\ row'[r].source = SourceOf(r)
    BY <1>1, <1>6, <1>d, <1>10 DEF Stays
  <2>2. (Kind[r] = "compaction" /\ outcome = "success") =>
          /\ state'[own] # None /\ state'[own].updated = today
          /\ state'[own].compactions >= (IF state[own] = None THEN 0 ELSE state[own].compactions) + 1
    BY <1>1, <1>3, <1>10 DEF Stays
  <2>3. ASSUME NEW s \in Sessions PROVE Kept(s)
    <3>1. CASE s = own
      BY <1>1, <1>3, <1>10, <3>1 DEF Stays, Kept
    <3>2. CASE s # own
      <4>1. d.state[s] = b.state[s]
        BY <1>10, <3>2 DEF Stays
      <4>2. ASSUME NEW q \in Requests, Kind[q] = "compaction", d.row[q] # None, b.state[s] # state[s]
            PROVE  d.row[q].session # s
        <5>1. CASE q = r
          BY <1>10, <3>2, <5>1 DEF Stays
        <5>2. CASE q # r
          BY <1>4, <1>5, <4>2, <5>2 DEF IsTitle
        <5>3. QED
          BY <5>1, <5>2
      <4>3. QED
        BY <1>9, <4>1, <4>2
    <3>3. QED
      BY <3>1, <3>2
  <2>4. QED
    BY <1>8, <2>1, <2>2, <2>3 DEF Taken
<1>11. CASE \E m \in Requests : MovesTo(b, d, r, outcome, m)
  <2>1. PICK m \in Requests : MovesTo(b, d, r, outcome, m)
    BY <1>11
  <2>2. /\ IsTitle(r) /\ row'[r].source = "title" /\ row'[r].session = b.row[m].session
        /\ b.row[m].session \in Sessions /\ b.row[m].session # own
        /\ ~IsTitle(m) /\ Matches(r, m) /\ row[m] # None /\ row[m].outcome = "success"
        /\ b.row[m] = row[m] /\ state'[own] = None
    BY <1>0, <1>1, <1>3, <2>1, RowFields DEF MovesTo, Follows, Tables
  \* The session it moves to is not the one whose only request was taken over.
  <2>3. b.state[b.row[m].session] = state[b.row[m].session]
    BY <1>4, <2>2
  <2>4. Kept(b.row[m].session)
    BY <1>1, <2>1, <2>3 DEF MovesTo, Kept
  \* No compaction stands in the session it leaves.
  <2>5. Kept(own)
    <3>1. ASSUME NEW c \in Requests, Kind[c] = "compaction", row'[c] # None, row'[c].outcome = "success"
          PROVE  row'[c].session # own
      <4>1. c # r /\ ~IsTitle(c)
        BY <2>2, <3>1 DEF IsTitle
      <4>2. row'[c] = row[c]
        BY <1>8, <4>1
      <4>3. row[c].session = SessionOf(c) /\ row[m].session = SessionOf(m)
        BY <1>0, <2>2, <3>1, <4>1, <4>2 DEF Steady, Finished
      <4>4. Key[r] # Key[m]
        BY <2>2, <4>3 DEF SessionOf
      <4>5. SessionOf(c) # SessionOf(r)
        BY <2>2, <3>1, <4>4, TitleAssumption DEF SessionOf, IsTitle, Matches
      <4>6. QED
        BY <4>2, <4>3, <4>5
    <3>2. Shown(own)' = {}
      BY <3>1 DEF Shown, Rows, db0
    <3>3. QED
      BY <2>2, <3>2 DEF Kept
  <2>6. ASSUME NEW s \in Sessions, s # own, s # b.row[m].session PROVE Kept(s)
    <3>1. d.state[s] = b.state[s]
      BY <2>1, <2>6 DEF MovesTo
    <3>2. ASSUME NEW q \in Requests, Kind[q] = "compaction", d.row[q] # None, b.state[s] # state[s]
          PROVE  d.row[q].session # s
      BY <1>4, <1>5, <2>2, <3>2 DEF IsTitle
    <3>3. QED
      BY <1>9, <3>1, <3>2
  <2>7. Kind[r] # "compaction"
    BY <2>2 DEF IsTitle
  <2>8. \A s \in Sessions : Kept(s)
    BY <2>4, <2>5, <2>6
  <2>9. QED
    BY <1>8, <2>2, <2>7, <2>8 DEF Taken
<1>12. QED
  BY <1>5, <1>10, <1>11

\* A session keeps its states young enough and its titles as chosen.
LEMMA KeptStates ==
  ASSUME IInv, TypeOK', today' = today, \A s \in Sessions : Kept(s)
  PROVE  /\ \A s \in Sessions : state'[s] # None =>
              state'[s].updated <= today /\ (state'[s].custom => state'[s].title = "chosen")
         /\ \A s \in Sessions : (state[s] # None /\ state'[s] # None /\ state[s].custom) =>
              state'[s].custom /\ state'[s].title = "chosen"
<1> SUFFICES ASSUME NEW s \in Sessions, state'[s] # None
             PROVE  /\ state'[s].updated <= today /\ (state'[s].custom => state'[s].title = "chosen")
                    /\ (state[s] # None /\ state[s].custom) => state'[s].custom /\ state'[s].title = "chosen"
  OBVIOUS
<1>1. Grown(state[s], state'[s])
  BY DEF Kept
<1>2. state[s] # None => state[s].updated <= today /\ (state[s].custom => state[s].title = "chosen")
  BY DEF IInv, Recording
<1>3. (state[s] # None => state[s].updated \in Nat) /\ state'[s].updated \in Nat /\ today \in Nat
  BY StateFields, BoundAssumption DEF IInv, TypeOK
<1>4. QED
  BY <1>1, <1>2, <1>3 DEF Grown

LEMMA RecordKeeps ==
  ASSUME IInv, NEW r \in Requests, NEW outcome \in {"success", "failed"}, RecordRequest(r, outcome)
  PROVE  IInv'
<1>1. Taken(r, outcome) /\ TypeOK' /\ TypeOK /\ Recording /\ Steady /\ TitlesMerged /\ Fresher /\ CompactionsCounted
  BY RecordEffect DEF Taken, IInv
<1>2. /\ serving /\ stage[r] = "running" /\ stage' = [stage EXCEPT ![r] = "over"]
      /\ settled' = [settled EXCEPT ![r] = Succeeded(db0)]
      /\ UNCHANGED <<today, serving, upgraded, sweeping, renames>> /\ upgraded /\ today \in 0..MaxAge /\ MaxAge \in Nat
      /\ ~Finished(r)
  BY <1>1, BoundAssumption DEF RecordRequest, Recording, TypeOK
<1>3. /\ row'[r] # None /\ row'[r].outcome = outcome /\ row'[r].created = today
      /\ \A q \in Requests : q # r =>
           \/ row'[q] = row[q]
           \/ /\ IsTitle(q) /\ row[q] # None /\ row'[q] # None
              /\ row[q].outcome = "success" /\ row'[q].outcome = "success"
              /\ row'[q].source = "title" /\ row'[q].created = row[q].created
  BY <1>1 DEF Taken
<1>4. Recording'
  <2>1. ASSUME NEW q \in Requests, Finished(q)' PROVE stage'[q] = "over"
    <3>1. CASE q = r
      BY <1>1, <1>2, <3>1 DEF TypeOK
    <3>2. CASE q # r
      <4>1. Finished(q)
        BY <1>3, <2>1, <3>2 DEF Finished
      <4>2. QED
        BY <1>1, <1>2, <3>2, <4>1 DEF Recording, TypeOK
    <3>3. QED
      BY <3>1, <3>2
  <2>2. ASSUME NEW q \in Requests, row'[q] # None
        PROVE  row'[q].created <= today /\ (sweeping => row'[q].created = today)
    <3>1. CASE q = r
      BY <1>2, <1>3, <3>1
    <3>2. CASE q # r
      <4>1. row[q] # None /\ row'[q].created = row[q].created
        BY <1>3, <2>2, <3>2
      <4>2. QED
        BY <1>1, <4>1 DEF Recording
    <3>3. QED
      BY <3>1, <3>2
  <2>3. \A s \in Sessions : state'[s] # None =>
          state'[s].updated <= today /\ (state'[s].custom => state'[s].title = "chosen")
    BY <1>1, <1>2, KeptStates DEF Taken
  <2>4. ASSUME NEW t \in Requests, NEW m \in settled'[t] PROVE stage'[m] = "over"
    <3>1. m \in Requests
      BY <1>1, <2>4 DEF TypeOK
    <3>2. CASE t = r
      <4>1. m \in Succeeded(db0)
        BY <1>1, <1>2, <2>4, <3>2 DEF TypeOK
      <4>2. Finished(m)
        BY <4>1, SucceededMember DEF Finished
      <4>3. QED
        BY <1>1, <1>2, <3>1, <4>2 DEF Recording, TypeOK
    <3>3. CASE t # r
      <4>1. m \in settled[t]
        BY <1>1, <1>2, <2>4, <3>3 DEF TypeOK
      <4>2. QED
        BY <1>1, <1>2, <3>1, <4>1 DEF Recording, TypeOK
    <3>4. QED
      BY <3>2, <3>3
  <2>5. (serving' => upgraded') /\ (sweeping' => serving')
    BY <1>2
  <2>6. QED
    BY <1>2, <2>1, <2>2, <2>3, <2>4, <2>5 DEF Recording
<1>5. Untouched'
  BY <1>2 DEF Untouched
<1>6. Steady'
  <2> SUFFICES ASSUME NEW q \in Requests, Finished(q)', ~IsTitle(q)
               PROVE  row'[q].session = SessionOf(q) /\ row'[q].source = SourceOf(q)
    BY DEF Steady, IsTitle, SessionOf, SourceOf
  <2>1. CASE q = r
    BY <1>1, <2>1 DEF Taken
  <2>2. CASE q # r
    <3>1. row'[q] = row[q]
      BY <1>3, <2>2
    <3>2. QED
      BY <1>1, <1>2, <3>1 DEF Steady, Finished
  <2>3. QED
    BY <2>1, <2>2
<1>7. TitlesMerged'
  <2> SUFFICES ASSUME NEW t \in Requests, NEW m \in Requests, Paired(t, m), m \in settled'[t], m \notin Slow,
                      InReach(settled'[t], t, m),
                      row'[t] # None, row'[t].outcome = "success", row'[m] # None, row'[m].outcome = "success"
               PROVE  row'[t].source = "title"
    BY DEF TitlesMerged, Paired, IsTitle, Matches, SourceOf, SessionOf, Succeeded, db0
  <2>1. t # m /\ IsTitle(t) /\ ~IsTitle(m) /\ Matches(t, m) /\ SourceOf(t) = "key" /\ SourceOf(m) = "key"
        /\ SessionOf(t) # SessionOf(m)
    BY DEF Paired
  <2>2. CASE t = r
    <3>1. m \in Succeeded(db0)
      BY <1>1, <1>2, <2>2 DEF TypeOK
    <3>2. row[m] # None /\ row[m].outcome = "success" /\ Finished(m)
      BY <3>1, SucceededMember DEF Finished
    <3>3. row[m].session = SessionOf(m) /\ row[m].source = "key"
      BY <1>1, <1>2, <2>1, <3>2 DEF Steady
    <3>4. outcome = "success"
      BY <1>3, <2>2
    <3>5. Follows(db0, r, outcome, m) /\ InReach(Succeeded(db0), r, m)
      <4>1. settled'[t] = Succeeded(db0)
        BY <1>1, <1>2, <2>2 DEF TypeOK
      <4>2. QED
        BY <2>1, <2>2, <3>2, <3>3, <3>4, <4>1 DEF Follows, db0
    <3>6. QED
      BY <1>1, <2>2, <3>5 DEF Taken
  <2>3. CASE t # r
    <3>1. m \in settled[t]
      BY <1>1, <1>2, <2>3 DEF TypeOK
    <3>2. m # r
      BY <1>1, <1>2, <3>1 DEF Recording
    <3>3. row'[m] = row[m]
      BY <1>3, <2>1, <3>2
    <3>4. row[t] # None /\ row[t].outcome = "success" /\ (row'[t] = row[t] \/ row'[t].source = "title")
      BY <1>3, <2>3
    <3>5. t \in Succeeded(db0) /\ m \in Succeeded(db0)
      BY <3>3, <3>4, SucceededMember
    <3>6. row[t].source = "title"
      <4>1. settled'[t] = settled[t]
        BY <1>1, <1>2, <2>3 DEF TypeOK
      <4>2. QED
        BY <1>1, <1>2, <3>1, <3>5, <4>1 DEF TitlesMerged
    <3>7. QED
      BY <3>4, <3>6
  <2>4. QED
    BY <2>2, <2>3
\* A compaction that was shown is still shown in the same session.
<1>8. ASSUME NEW s \in Sessions, NEW c \in Shown(s)'
      PROVE  /\ c = r => Kind[r] = "compaction" /\ outcome = "success" /\ s = SessionOf(r)
             /\ c # r => c \in Shown(s) /\ row'[c].created = row[c].created
             /\ state'[s] # None /\ Grown(state[s], state'[s])
  <2>1. /\ c \in Requests /\ row'[c] # None /\ row'[c].session = s
        /\ Kind[c] = "compaction" /\ row'[c].outcome = "success"
    BY <1>8 DEF Shown, Rows, db0
  <2>2. c = r => outcome = "success" /\ s = SessionOf(r)
    BY <1>1, <1>3, <2>1 DEF Taken
  <2>3. c # r => row'[c] = row[c]
    BY <1>3, <2>1 DEF IsTitle
  <2>4. c # r => c \in Shown(s)
    BY <2>1, <2>3, ShownMember
  <2>5. Grown(state[s], state'[s])
    BY <1>1, <1>8 DEF Taken, Kept
  <2>6. CASE c = r
    BY <1>1, <2>1, <2>2, <2>5, <2>6 DEF Taken
  <2>7. CASE c # r
    <3>1. state[s] # None
      BY <1>1, <2>4, <2>7 DEF Fresher
    <3>2. QED
      BY <2>3, <2>4, <2>5, <2>7, <3>1 DEF Grown
  <2>8. QED
    BY <2>6, <2>7
<1>9. r \notin Shown(SessionOf(r)) /\ \A s : r \notin Shown(s)
  BY <1>2, ShownMember DEF Finished
<1>10. CASE Kind[r] = "compaction" /\ outcome = "success"
  <2> DEFINE own == SessionOf(r)
  <2>0. own \in Sessions
    BY KeyTypes
  <2>1. /\ state'[own] # None /\ state'[own].updated = today
        /\ state'[own].compactions >= (IF state[own] = None THEN 0 ELSE state[own].compactions) + 1
    BY <1>1, <1>10 DEF Taken
  <2>2. Fresher'
    <3> SUFFICES ASSUME NEW s \in Sessions, NEW c \in Shown(s)'
                 PROVE  state'[s] # None /\ row'[c].created <= state'[s].updated
      BY DEF Fresher
    <3>1. CASE c = r
      BY <1>2, <1>3, <1>8, <2>1, <3>1
    <3>2. CASE c # r
      <4>1. /\ c \in Shown(s) /\ row'[c].created = row[c].created /\ state'[s] # None
            /\ Grown(state[s], state'[s])
        BY <1>8, <3>2
      <4>2. state[s] # None /\ row[c].created <= state[s].updated /\ c \in Requests /\ row[c] # None
        BY <1>1, <4>1, ShownMember DEF Fresher
      <4>3. state'[s].updated >= state[s].updated
        BY <4>1, <4>2 DEF Grown
      <4>4. row[c].created \in Nat /\ state[s].updated \in Nat /\ state'[s].updated \in Nat
        BY <1>1, <1>2, <4>1, <4>2, RowFields, StateFields DEF TypeOK
      <4>5. QED
        BY <4>1, <4>2, <4>3, <4>4
    <3>3. QED
      BY <3>1, <3>2
  <2>3. ASSUME NEW s \in Sessions, Shown(s)' # {}
        PROVE  state'[s] # None /\ state'[s].compactions >= Cardinality(Shown(s)')
    <3>0. /\ IsFiniteSet(Shown(s)) /\ Cardinality(Shown(s)) \in Nat
          /\ Shown(s)' \subseteq Shown(s) \cup {r}
          /\ (s # own => Shown(s)' \subseteq Shown(s))
      BY <1>8, ShownFinite
    <3>1. state'[s] # None /\ Grown(state[s], state'[s]) /\ state'[s].compactions \in Nat
      BY <1>1, <1>8, <2>3, StateFields DEF TypeOK
    <3>2. Shown(s) # {} => state[s] # None /\ state[s].compactions >= Cardinality(Shown(s))
                           /\ state[s].compactions \in Nat
      BY <1>1, CountedByShown, StateFields DEF TypeOK
    <3>3. CASE s = own
      <4>1. /\ IsFiniteSet(Shown(s) \cup {r}) /\ Cardinality(Shown(s) \cup {r}) = Cardinality(Shown(s)) + 1
        BY <1>9, <3>0, FS_AddElement
      <4>2. Cardinality(Shown(s)') <= Cardinality(Shown(s)) + 1 /\ Cardinality(Shown(s)') \in Nat
        BY <3>0, <4>1, FS_Subset, FS_CardinalityType
      <4>3. CASE Shown(s) = {}
        <5>1. Cardinality(Shown(s)) = 0
          BY <4>3, FS_EmptySet
        <5>2. (IF state[own] = None THEN 0 ELSE state[own].compactions) \in Nat
          BY <1>1, <2>0, StateFields DEF TypeOK
        <5>3. QED
          BY <2>1, <3>1, <3>3, <4>2, <5>1, <5>2
      <4>4. CASE Shown(s) # {}
        BY <2>1, <3>0, <3>1, <3>2, <3>3, <4>2, <4>4
      <4>5. QED
        BY <4>3, <4>4
    <3>4. CASE s # own
      <4>1. Cardinality(Shown(s)') <= Cardinality(Shown(s)) /\ Cardinality(Shown(s)') \in Nat
        BY <3>0, <3>4, FS_Subset, FS_CardinalityType
      <4>2. Shown(s) # {} /\ state[s] # None
        BY <2>3, <3>0, <3>2, <3>4
      <4>3. state'[s].compactions >= state[s].compactions
        BY <3>1, <4>2 DEF Grown
      <4>4. QED
        BY <3>0, <3>1, <3>2, <4>1, <4>2, <4>3
    <3>5. QED
      BY <3>3, <3>4
  <2>4. CompactionsCounted'
    <3>1. CompactionsCounted' <=>
            \A s \in Sessions : Shown(s)' # {} =>
              state'[s] # None /\ state'[s].compactions >= Cardinality(Shown(s)')
      BY DEF CompactionsCounted, Shown
    <3>2. QED
      BY <2>3, <3>1
  <2>5. QED
    BY <1>1, <1>4, <1>5, <1>6, <1>7, <2>2, <2>4 DEF IInv
<1>11. CASE ~(Kind[r] = "compaction" /\ outcome = "success")
  <2>1. ASSUME NEW s \in Sessions, NEW c \in Shown(s)'
        PROVE  /\ c \in Shown(s) /\ row'[c].created = row[c].created
               /\ state'[s] # None /\ state'[s].compactions >= state[s].compactions
               /\ state'[s].updated >= state[s].updated
    <3>1. /\ c \in Shown(s) /\ row'[c].created = row[c].created /\ state'[s] # None
          /\ Grown(state[s], state'[s])
      BY <1>8, <1>11, <2>1
    <3>2. state[s] # None
      BY <1>1, <3>1 DEF Fresher
    <3>3. QED
      BY <3>1, <3>2 DEF Grown
  <2>2. Backed
    BY <2>1 DEF Backed
  <2>3. QED
    BY <1>1, <1>4, <1>5, <1>6, <1>7, <2>2, BackedKeeps DEF IInv
<1>12. QED
  BY <1>10, <1>11

-----------------------------------------------------------------------------
(* The other writers of the tables.  Each leaves a row as it was, drops it *)
(* or, for a rename, gives it another name.                                *)

\* What of a row the invariants speak about is not changed, once the upgrade has run.
RowsStay ==
  \A r \in Requests : row'[r] # None /\ row'[r].outcome # "processing" =>
    /\ row[r] # None /\ row'[r].outcome = row[r].outcome
    /\ row'[r].session = row[r].session /\ row'[r].source = row[r].source
    /\ row'[r].created = row[r].created

LEMMA RowsStayKeeps ==
  ASSUME IInv, RowsStay, settled' = settled, upgraded' = upgraded
  PROVE  Steady' /\ TitlesMerged'
<1>1. Steady'
  <2> SUFFICES ASSUME upgraded, NEW q \in Requests, Finished(q)', ~IsTitle(q)
               PROVE  row'[q].session = SessionOf(q) /\ row'[q].source = SourceOf(q)
    BY DEF Steady, IsTitle, SessionOf, SourceOf
  <2>1. Finished(q) /\ row'[q].session = row[q].session /\ row'[q].source = row[q].source
    BY DEF RowsStay, Finished
  <2>2. QED
    BY <2>1 DEF IInv, Steady
<1>2. TitlesMerged'
  <2> SUFFICES ASSUME upgraded, NEW t \in Requests, NEW m \in Requests, Paired(t, m), m \in settled[t], m \notin Slow,
                      InReach(settled[t], t, m),
                      row'[t] # None, row'[t].outcome = "success", row'[m] # None, row'[m].outcome = "success"
               PROVE  row'[t].source = "title"
    BY DEF TitlesMerged, Paired, IsTitle, Matches, SourceOf, SessionOf, Succeeded, db0
  <2>1. /\ row[t] # None /\ row[t].outcome = "success" /\ row[m] # None /\ row[m].outcome = "success"
        /\ row'[t].source = row[t].source
    BY DEF RowsStay
  <2>2. t \in Succeeded(db0) /\ m \in Succeeded(db0)
    BY <2>1, SucceededMember
  <2>3. QED
    BY <2>1, <2>2 DEF IInv, TitlesMerged
<1>3. QED
  BY <1>1, <1>2

LEMMA RowsStayShown ==
  ASSUME RowsStay, NEW s \in Sessions, NEW c \in Shown(s)'
  PROVE  c \in Shown(s) /\ c \in Requests /\ row'[c] # None /\ row[c] # None
         /\ row'[c].session = s /\ row'[c].created = row[c].created
<1>1. /\ c \in Requests /\ row'[c] # None /\ row'[c].session = s
      /\ Kind[c] = "compaction" /\ row'[c].outcome = "success"
  BY DEF Shown, Rows, db0
<1>2. QED
  BY <1>1, ShownMember DEF RowsStay

\* A state that is not changed backs what it backed.
LEMMA SameStatesBack ==
  ASSUME IInv, RowsStay, state' = state
  PROVE  Backed
<1> SUFFICES ASSUME NEW s \in Sessions, NEW c \in Shown(s)'
             PROVE  /\ c \in Shown(s) /\ row'[c].created = row[c].created
                    /\ state'[s] # None /\ state'[s].compactions >= state[s].compactions
                    /\ state'[s].updated >= state[s].updated
  BY DEF Backed
<1>1. c \in Shown(s) /\ row'[c].created = row[c].created
  BY RowsStayShown
<1>2. state[s] # None
  BY <1>1 DEF IInv, Fresher
<1>3. state[s].compactions \in Nat /\ state[s].updated \in Nat
  BY <1>2, StateFields, BoundAssumption DEF IInv, TypeOK
<1>4. QED
  BY <1>1, <1>2, <1>3

LEMMA StartedKeeps ==
  ASSUME IInv, NEW r \in Requests, RecordStarted(r)
  PROVE  IInv'
<1>1. TypeOK /\ Recording /\ serving /\ upgraded /\ MaxAge \in Nat /\ today \in 0..MaxAge
  BY BoundAssumption DEF IInv, RecordStarted, Recording, TypeOK
<1>2. /\ stage[r] = "new" /\ stage' = [stage EXCEPT ![r] = "running"]
      /\ UNCHANGED <<state, today, serving, upgraded, sweeping, renames, settled>>
  BY DEF RecordStarted
<1> DEFINE new == [outcome |-> "processing", session |-> Key[r], source |-> "key",
                   name |-> "", created |-> today]
<1>3. /\ new \in Row /\ new # None /\ new.outcome = "processing" /\ new.created = today
  <2>1. new \in Row
    BY <1>1, KeyTypes DEF Row, Outcomes, Sources, Titles
  <2>2. QED
    BY <2>1, NoneAssumption
<1>4. row' = [row EXCEPT ![r] = new] \/ row' = row
  BY DEF RecordStarted
<1> HIDE DEF new
<1>5. \A q \in Requests : row'[q] = row[q] \/ (q = r /\ row'[q] = new)
  BY <1>1, <1>4 DEF TypeOK
<1>6. TypeOK'
  <2>1. row' \in [Requests -> Row \cup {None}]
    BY <1>1, <1>3, <1>4 DEF TypeOK
  <2>2. stage' \in [Requests -> {"new", "running", "over"}]
    BY <1>1, <1>2 DEF TypeOK
  <2>3. QED
    BY <1>1, <1>2, <2>1, <2>2 DEF TypeOK
<1>7. RowsStay
  BY <1>3, <1>5 DEF RowsStay
<1>8. Recording'
  <2>1. \A q \in Requests : stage'[q] = IF q = r THEN "running" ELSE stage[q]
    BY <1>1, <1>2 DEF TypeOK
  <2>2. ASSUME NEW q \in Requests, Finished(q)' PROVE stage'[q] = "over"
    <3>1. Finished(q)
      BY <1>3, <1>5, <2>2 DEF Finished
    <3>2. QED
      BY <1>1, <1>2, <2>1, <3>1 DEF Recording
  <2>3. \A q \in Requests : row'[q] # None => row'[q].created <= today /\ (sweeping => row'[q].created = today)
    BY <1>1, <1>3, <1>5 DEF Recording
  <2>4. ASSUME NEW t \in Requests, NEW m \in settled[t] PROVE stage'[m] = "over"
    <3>1. m \in Requests /\ stage[m] = "over"
      BY <1>1, <2>4 DEF Recording, TypeOK
    <3>2. QED
      BY <1>2, <2>1, <3>1
  <2>5. QED
    BY <1>1, <1>2, <2>2, <2>3, <2>4 DEF Recording
<1>9. Untouched'
  BY <1>1, <1>2 DEF Untouched
<1>10. Backed
  BY <1>2, <1>7, SameStatesBack
<1>11. QED
  BY <1>2, <1>6, <1>7, <1>8, <1>9, <1>10, RowsStayKeeps, BackedKeeps DEF IInv

\* A step that changes neither table.
LEMMA StagesKeep ==
  ASSUME IInv, UNCHANGED <<row, state, upgraded, settled>>,
         stage' \in [Requests -> {"new", "running", "over"}], today' \in 0..MaxAge, today <= today',
         \A r \in Requests : stage[r] = "over" => stage'[r] = "over",
         \A r \in Requests : stage'[r] = "running" => stage[r] = "running",
         renames' = renames, serving' \in BOOLEAN, sweeping' \in BOOLEAN,
         serving' => upgraded, sweeping' => (sweeping /\ serving' /\ today' = today)
  PROVE  IInv'
<1>1. TypeOK /\ Recording /\ Untouched /\ MaxAge \in Nat
  BY BoundAssumption DEF IInv
<1>2. TypeOK'
  BY <1>1 DEF TypeOK
<1>3. Recording'
  <2>1. ASSUME NEW q \in Requests, Finished(q)' PROVE stage'[q] = "over"
    BY <1>1, <2>1 DEF Recording, Finished
  <2>2. ASSUME NEW q \in Requests, row[q] # None PROVE row[q].created <= today'
    <3>1. row[q].created <= today /\ row[q].created \in Nat /\ today \in Nat /\ today' \in Nat
      BY <1>1, <2>2, RowFields DEF Recording, TypeOK
    <3>2. QED
      BY <3>1
  <2>3. ASSUME NEW s \in Sessions, state[s] # None
        PROVE  state[s].updated <= today' /\ (state[s].custom => state[s].title = "chosen")
    <3>1. /\ state[s].updated <= today /\ state[s].updated \in Nat /\ today \in Nat /\ today' \in Nat
          /\ state[s].custom => state[s].title = "chosen"
      BY <1>1, <2>3, StateFields DEF Recording, TypeOK
    <3>2. QED
      BY <3>1
  <2>4. ASSUME NEW t \in Requests, NEW m \in settled[t] PROVE stage'[m] = "over"
    <3>1. m \in Requests /\ stage[m] = "over"
      BY <1>1, <2>4 DEF Recording, TypeOK
    <3>2. QED
      BY <3>1
  <2>5. (serving' => upgraded) /\ (sweeping' => serving' /\ \A q \in Requests : row[q] # None => row[q].created = today')
    BY <1>1 DEF Recording
  <2>6. QED
    BY <2>1, <2>2, <2>3, <2>4, <2>5 DEF Recording
<1>4. Untouched'
  <2> SUFFICES ASSUME ~upgraded
               PROVE  /\ \A r \in Requests : row'[r] # None =>
                           row'[r].session = Key[r] /\ row'[r].source = "key" /\ row'[r].outcome = "success"
                      /\ \A r \in Requests : row'[r] # None /\ Kind[r] = "compaction" => Canonical[Key[r]] = Key[r]
                      /\ \A s \in Sessions : state'[s] # None => ~state'[s].custom
                      /\ \A r \in Requests : stage'[r] # "running"
                      /\ \A r, q \in Requests : row'[r] # None /\ row'[q] # None => q \in settled'[r]
    BY DEF Untouched
  <2>1. QED
    BY <1>1 DEF Untouched
<1>5. RowsStay
  BY DEF RowsStay
<1>6. Backed
  BY <1>5, SameStatesBack
<1>7. QED
  BY <1>2, <1>3, <1>4, <1>5, <1>6, RowsStayKeeps, BackedKeeps DEF IInv

LEMMA LostKeeps ==
  ASSUME IInv, NEW r \in Requests, RecordLost(r)
  PROVE  IInv'
<1>1. TypeOK /\ Recording /\ MaxAge \in Nat
  BY BoundAssumption DEF IInv
<1>2. /\ UNCHANGED <<row, state, today, serving, upgraded, sweeping, renames, settled>>
      /\ stage' = [stage EXCEPT ![r] = "over"]
  BY DEF RecordLost
<1>3. stage' \in [Requests -> {"new", "running", "over"}]
      /\ \A q \in Requests : stage'[q] = IF q = r THEN "over" ELSE stage[q]
  BY <1>1, <1>2 DEF TypeOK
<1>4. /\ today' \in 0..MaxAge /\ today <= today' /\ serving' \in BOOLEAN /\ sweeping' \in BOOLEAN
      /\ (serving' => upgraded) /\ (sweeping' => (sweeping /\ serving' /\ today' = today))
  BY <1>1, <1>2 DEF TypeOK, Recording
<1>5. /\ \A q \in Requests : stage[q] = "over" => stage'[q] = "over"
      /\ \A q \in Requests : stage'[q] = "running" => stage[q] = "running"
  BY <1>3
<1>6. QED
  BY <1>2, <1>3, <1>4, <1>5, StagesKeep

LEMMA CrashKeeps ==
  ASSUME IInv, Crash
  PROVE  IInv'
<1>1. TypeOK /\ Recording /\ MaxAge \in Nat
  BY BoundAssumption DEF IInv
<1>2. /\ UNCHANGED <<row, state, today, upgraded, renames, settled>>
      /\ stage' = [r \in Requests |-> IF stage[r] = "running" THEN "over" ELSE stage[r]]
      /\ serving' = FALSE /\ sweeping' = FALSE
  BY DEF Crash
<1>3. stage' \in [Requests -> {"new", "running", "over"}]
      /\ \A q \in Requests : stage'[q] = IF stage[q] = "running" THEN "over" ELSE stage[q]
  BY <1>1, <1>2 DEF TypeOK
<1>4. today' \in 0..MaxAge /\ today <= today'
  BY <1>1, <1>2 DEF TypeOK
<1>5. /\ \A q \in Requests : stage[q] = "over" => stage'[q] = "over"
      /\ \A q \in Requests : stage'[q] = "running" => stage[q] = "running"
  BY <1>3
<1>6. QED
  BY <1>2, <1>3, <1>4, <1>5, StagesKeep

LEMMA GrowKeeps ==
  ASSUME IInv, GrowOld
  PROVE  IInv'
<1>1. TypeOK /\ Recording /\ MaxAge \in Nat
  BY BoundAssumption DEF IInv
<1> DEFINE partnered(r) == \E q \in Requests : stage[q] = "over" /\ (Matches(q, r) \/ Matches(r, q))
<1>2. /\ UNCHANGED <<row, state, serving, upgraded, sweeping, renames, settled>>
      /\ stage' = [r \in Requests |-> IF partnered(r) THEN "over" ELSE stage[r]]
      /\ today' = today + 1 /\ today < MaxAge /\ ~sweeping
  BY DEF GrowOld
<1> HIDE DEF partnered
<1>3. stage' \in [Requests -> {"new", "running", "over"}]
      /\ \A q \in Requests : stage'[q] = IF partnered(q) THEN "over" ELSE stage[q]
  BY <1>1, <1>2 DEF TypeOK
<1>4. today' \in 0..MaxAge /\ today <= today' /\ serving' \in BOOLEAN /\ sweeping' \in BOOLEAN
      /\ (serving' => upgraded)
  BY <1>1, <1>2 DEF TypeOK, Recording
<1>5. /\ \A q \in Requests : stage[q] = "over" => stage'[q] = "over"
      /\ \A q \in Requests : stage'[q] = "running" => stage[q] = "running"
  BY <1>3
<1>6. QED
  BY <1>2, <1>3, <1>4, <1>5, StagesKeep

LEMMA RenameKeeps ==
  ASSUME IInv, NEW s \in Sessions, RenameSession(s)
  PROVE  /\ IInv'
         /\ state'[s] # None /\ state'[s].custom /\ state'[s].title = "chosen"
         /\ \A q \in Sessions : q # s => state'[q] = state[q]
<1>1. /\ TypeOK /\ Recording /\ MaxAge \in Nat /\ today \in 0..MaxAge /\ upgraded /\ serving
      /\ UNCHANGED <<stage, today, serving, upgraded, sweeping, settled>>
      /\ renames' = renames + 1 /\ renames < MaxRenames
  BY BoundAssumption DEF IInv, RenameSession, Recording, TypeOK
<1> DEFINE old == IF state[s] = None THEN Fresh("") ELSE state[s]
           new == [old EXCEPT !.title = "chosen", !.custom = TRUE, !.updated = today]
           named(r) == [row[r] EXCEPT !.name = "chosen"]
<1>2. old \in State /\ "" \in Titles
  BY <1>1, FreshState, StateFields DEF TypeOK, Titles
<1>3. /\ new \in State /\ new # None /\ new.title = "chosen" /\ new.custom = TRUE /\ new.updated = today
      /\ state[s] # None => new.compactions = state[s].compactions
  <2>1. new \in State
    BY <1>1, <1>2 DEF State, Titles
  <2>2. /\ new.title = "chosen" /\ new.custom = TRUE /\ new.updated = today
        /\ new.compactions = old.compactions
    BY <1>2 DEF State
  <2>3. QED
    BY <2>1, <2>2, NoneAssumption
<1>4. state' = [state EXCEPT ![s] = new]
  BY Zenon DEF RenameSession
<1>5. \A r \in Requests : row[r] # None =>
        /\ named(r) \in Row /\ named(r) # None /\ named(r).outcome = row[r].outcome
        /\ named(r).session = row[r].session /\ named(r).source = row[r].source
        /\ named(r).created = row[r].created
  <2> SUFFICES ASSUME NEW r \in Requests, row[r] # None
               PROVE  /\ named(r) \in Row /\ named(r) # None /\ named(r).outcome = row[r].outcome
                      /\ named(r).session = row[r].session /\ named(r).source = row[r].source
                      /\ named(r).created = row[r].created
    OBVIOUS
  <2>1. row[r] \in Row
    BY <1>1, RowFields DEF TypeOK
  <2>2. named(r) \in Row
    BY <2>1 DEF Row, Titles
  <2>3. QED
    BY <2>1, <2>2, NoneAssumption DEF Row
<1>6. row' = [r \in Requests |-> IF r \in Rows(db0, s) THEN named(r) ELSE row[r]]
  BY DEF RenameSession
<1> HIDE DEF new, named
<1>7. state'[s] = new /\ \A q \in Sessions : q # s => state'[q] = state[q]
  BY <1>1, <1>4 DEF TypeOK
<1>8. \A r \in Requests : row'[r] = row[r] \/ (row[r] # None /\ row'[r] = named(r))
  BY <1>6 DEF Rows, db0
<1>9. TypeOK'
  <2>1. row' \in [Requests -> Row \cup {None}]
    <3>1. \A r \in Requests : (IF r \in Rows(db0, s) THEN named(r) ELSE row[r]) \in Row \cup {None}
      BY <1>1, <1>5 DEF TypeOK, Rows, db0
    <3>2. QED
      BY <1>6, <3>1
  <2>2. state' \in [Sessions -> State \cup {None}]
    BY <1>1, <1>3, <1>4 DEF TypeOK
  <2>3. renames' \in 0..MaxRenames
    BY <1>1, BoundAssumption DEF TypeOK
  <2>4. QED
    BY <1>1, <2>1, <2>2, <2>3 DEF TypeOK
<1>10. RowsStay
  BY <1>5, <1>8 DEF RowsStay
<1>11. Recording'
  <2>1. ASSUME NEW q \in Requests, Finished(q)' PROVE stage'[q] = "over"
    BY <1>1, <1>5, <1>8, <2>1 DEF Recording, Finished
  <2>2. \A q \in Requests : row'[q] # None => row'[q].created <= today /\ (sweeping => row'[q].created = today)
    BY <1>1, <1>5, <1>8 DEF Recording
  <2>3. \A q \in Sessions : state'[q] # None =>
          state'[q].updated <= today /\ (state'[q].custom => state'[q].title = "chosen")
    BY <1>1, <1>3, <1>7 DEF Recording
  <2>4. \A t \in Requests : \A m \in settled[t] : stage'[m] = "over"
    BY <1>1 DEF Recording
  <2>5. QED
    BY <1>1, <2>1, <2>2, <2>3, <2>4 DEF Recording
<1>12. Untouched'
  BY <1>1 DEF Untouched
<1>13. Backed
  <2> SUFFICES ASSUME NEW q \in Sessions, NEW c \in Shown(q)'
               PROVE  /\ c \in Shown(q) /\ row'[c].created = row[c].created
                      /\ state'[q] # None /\ state'[q].compactions >= state[q].compactions
                      /\ state'[q].updated >= state[q].updated
    BY DEF Backed
  <2>1. c \in Shown(q) /\ row'[c].created = row[c].created
    BY <1>10, RowsStayShown
  <2>2. state[q] # None /\ state[q].updated <= today
    BY <1>1, <2>1 DEF IInv, Fresher, Recording
  <2>3. state[q].compactions \in Nat /\ state[q].updated \in Nat
    BY <1>1, <2>2, StateFields DEF TypeOK
  <2>4. QED
    BY <1>1, <1>3, <1>7, <2>1, <2>2, <2>3
<1>14. IInv'
  BY <1>1, <1>9, <1>10, <1>11, <1>12, <1>13, RowsStayKeeps, BackedKeeps DEF IInv
<1>15. QED
  BY <1>3, <1>7, <1>14

-----------------------------------------------------------------------------
(* Retention: a row and a state go when they are old, or the last row of   *)
(* the session has gone.                                                   *)

\* What a step that only deletes leaves.
Deletes ==
  /\ \A r \in Requests : row'[r] = row[r] \/ row'[r] = None
  /\ \A s \in Sessions : state'[s] = state[s] \/ state'[s] = None
  /\ UNCHANGED <<stage, today, renames, settled, upgraded>>
  /\ \A s \in Sessions : Shown(s)' # {} => state'[s] = state[s]
  /\ serving' \in BOOLEAN /\ sweeping' \in BOOLEAN
  /\ sweeping' => /\ serving'
                  /\ sweeping \/ \A r \in Requests : row'[r] # None => row'[r].created >= today
  /\ row' = [r \in Requests |-> row'[r]] /\ state' = [s \in Sessions |-> state'[s]]

LEMMA DeletesKeeps ==
  ASSUME IInv, Deletes, upgraded
  PROVE  IInv'
<1>1. /\ TypeOK /\ Recording /\ MaxAge \in Nat /\ today \in 0..MaxAge
      /\ UNCHANGED <<stage, today, renames, settled, upgraded>>
  BY BoundAssumption DEF IInv, TypeOK, Deletes
<1>2. \A r \in Requests : row'[r] = row[r] \/ row'[r] = None
  BY DEF Deletes
<1>3. TypeOK'
  <2>1. \A r \in Requests : row'[r] \in Row \cup {None}
    BY <1>1, <1>2 DEF TypeOK
  <2>2. \A s \in Sessions : state'[s] \in State \cup {None}
    BY <1>1 DEF TypeOK, Deletes
  <2>3. row' \in [Requests -> Row \cup {None}] /\ state' \in [Sessions -> State \cup {None}]
    BY <2>1, <2>2 DEF Deletes
  <2>4. QED
    BY <1>1, <2>3 DEF TypeOK, Deletes
<1>4. RowsStay
  BY <1>2 DEF RowsStay
<1>5. Recording'
  <2>1. \A q \in Requests : Finished(q)' => stage'[q] = "over"
    BY <1>1, <1>2 DEF Recording, Finished
  <2>2. ASSUME NEW q \in Requests, row'[q] # None
        PROVE  row'[q].created <= today /\ (sweeping' => row'[q].created = today)
    <3>1. row'[q] = row[q] /\ row[q].created <= today /\ row[q].created \in Nat
      BY <1>1, <1>2, <2>2, RowFields DEF Recording, TypeOK
    <3>2. sweeping' => (sweeping /\ row[q].created = today) \/ row[q].created >= today
      BY <1>1, <2>2, <3>1 DEF Deletes, Recording
    <3>3. QED
      BY <1>1, <3>1, <3>2
  <2>3. \A s \in Sessions : state'[s] # None =>
          state'[s].updated <= today /\ (state'[s].custom => state'[s].title = "chosen")
    BY <1>1 DEF Recording, Deletes
  <2>4. (sweeping' => serving') /\ (serving' => upgraded')
    BY <1>1 DEF Deletes, Recording
  <2>5. \A t \in Requests : \A m \in settled[t] : stage[m] = "over"
    BY <1>1 DEF Recording
  <2>6. QED
    BY <1>1, <2>1, <2>2, <2>3, <2>4, <2>5 DEF Recording
<1>6. Untouched'
  BY <1>1 DEF Untouched
<1>7. Backed
  <2> SUFFICES ASSUME NEW s \in Sessions, NEW c \in Shown(s)'
               PROVE  /\ c \in Shown(s) /\ row'[c].created = row[c].created
                      /\ state'[s] # None /\ state'[s].compactions >= state[s].compactions
                      /\ state'[s].updated >= state[s].updated
    BY DEF Backed
  <2>1. c \in Shown(s) /\ row'[c].created = row[c].created
    BY <1>4, RowsStayShown
  <2>2. state'[s] = state[s] /\ state[s] # None
    BY <2>1 DEF Deletes, IInv, Fresher
  <2>3. state[s].compactions \in Nat /\ state[s].updated \in Nat
    BY <1>1, <2>2, StateFields DEF TypeOK
  <2>4. QED
    BY <2>1, <2>2, <2>3
<1>8. QED
  BY <1>1, <1>3, <1>4, <1>5, <1>6, <1>7, RowsStayKeeps, BackedKeeps DEF IInv

LEMMA DeleteLogsDeletes ==
  ASSUME IInv, DeleteHistoricalLogsBefore
  PROVE  Deletes /\ upgraded
<1>1. /\ row' = [r \in Requests |-> IF row[r] # None /\ row[r].created < today THEN None ELSE row[r]]
      /\ state' = [s \in Sessions |->
                     IF \E r \in Requests : row'[r] # None /\ row'[r].session = s THEN state[s] ELSE None]
      /\ UNCHANGED <<stage, today, serving, upgraded, sweeping, renames, settled>> /\ serving
  BY DEF DeleteHistoricalLogsBefore, UnexpiredRows, db0
<1>2. ASSUME NEW s \in Sessions, Shown(s)' # {} PROVE state'[s] = state[s]
  <2>1. PICK c \in Requests : row'[c] # None /\ row'[c].session = s
    BY <1>2 DEF Shown, Rows, db0
  <2>2. QED
    BY <1>1, <2>1
<1>3. upgraded /\ sweeping \in BOOLEAN
  BY <1>1 DEF IInv, Recording, TypeOK
<1>4. \A r \in Requests : row'[r] = row[r] \/ row'[r] = None
  BY <1>1
<1>5. \A s \in Sessions : state'[s] = state[s] \/ state'[s] = None
  BY <1>1
<1>6. row' = [r \in Requests |-> row'[r]] /\ state' = [s \in Sessions |-> state'[s]]
  BY <1>1
<1>7. QED
  BY <1>1, <1>2, <1>3, <1>4, <1>5, <1>6 DEF Deletes

LEMMA CleanupRowsDeletes ==
  ASSUME IInv, CleanupRows
  PROVE  Deletes /\ upgraded
<1>1. /\ row' = [r \in Requests |-> IF row[r] # None /\ row[r].created < today THEN None ELSE row[r]]
      /\ UNCHANGED <<state, stage, today, serving, upgraded, renames, settled>> /\ serving /\ sweeping' = TRUE
  BY DEF CleanupRows, UnexpiredRows, db0
<1>2. ASSUME NEW r \in Requests, row'[r] # None PROVE row'[r].created >= today
  <2>1. row'[r] = row[r] /\ row[r] # None /\ ~(row[r].created < today)
    BY <1>1, <1>2
  <2>2. row[r].created \in Nat /\ today \in Nat
    BY <2>1, RowFields, BoundAssumption DEF IInv, TypeOK
  <2>3. QED
    BY <2>1, <2>2
<1>3. upgraded /\ state' = [s \in Sessions |-> state'[s]]
  BY <1>1 DEF IInv, Recording, TypeOK
<1>4. /\ \A r \in Requests : row'[r] = row[r] \/ row'[r] = None
      /\ row' = [r \in Requests |-> row'[r]]
  BY <1>1
<1>5. QED
  BY <1>1, <1>2, <1>3, <1>4 DEF Deletes

LEMMA CleanupStatesDeletes ==
  ASSUME IInv, CleanupStates
  PROVE  Deletes /\ upgraded
<1>1. /\ state' = [s \in Sessions |-> IF state[s] # None /\ state[s].updated < today THEN None ELSE state[s]]
      /\ UNCHANGED <<row, stage, today, serving, upgraded, renames, settled>> /\ serving /\ sweeping
      /\ sweeping' = FALSE
  BY DEF CleanupStates, UnexpiredStates, db0
<1>2. ASSUME NEW s \in Sessions, Shown(s)' # {} PROVE state'[s] = state[s]
  <2>1. PICK c : c \in Shown(s)
    BY <1>1, <1>2 DEF Shown, Rows, db0
  <2>2. c \in Requests /\ row[c] # None /\ state[s] # None /\ row[c].created <= state[s].updated
    BY <2>1, ShownMember DEF IInv, Fresher
  <2>3. row[c].created = today
    BY <1>1, <2>2 DEF IInv, Recording
  <2>4. state[s].updated \in Nat /\ today \in Nat
    BY <2>2, StateFields, BoundAssumption DEF IInv, TypeOK
  <2>5. QED
    BY <1>1, <2>2, <2>3, <2>4
<1>3. upgraded /\ row' = [r \in Requests |-> row'[r]]
  BY <1>1 DEF IInv, Recording, TypeOK
<1>4. /\ \A s \in Sessions : state'[s] = state[s] \/ state'[s] = None
      /\ state' = [s \in Sessions |-> state'[s]]
  BY <1>1
<1>5. QED
  BY <1>1, <1>2, <1>3, <1>4 DEF Deletes

-----------------------------------------------------------------------------
(* The start-up.  On an upgraded database it is a cleanup.                 *)

LEMMA UnexpiredRow ==
  ASSUME today \in 0..MaxAge, NEW db \in Tables, NEW r \in Requests
  PROVE  /\ UnexpiredRows(db)[r] # None =>
              UnexpiredRows(db)[r] = db.row[r] /\ db.row[r] # None /\ db.row[r].created >= today
         /\ UnexpiredRows(db)[r] \in {db.row[r], None}
<1>1. UnexpiredRows(db)[r] = IF db.row[r] # None /\ db.row[r].created < today THEN None ELSE db.row[r]
  BY DEF UnexpiredRows
<1>2. db.row[r] # None => db.row[r].created \in Nat /\ today \in Nat
  BY RowFields, BoundAssumption DEF Tables
<1>3. QED
  BY <1>1, <1>2

LEMMA UnexpiredState ==
  ASSUME today \in 0..MaxAge, NEW db \in Tables, NEW s \in Sessions
  PROVE  /\ UnexpiredStates(db)[s] \in {db.state[s], None}
         /\ (db.state[s] # None /\ today <= db.state[s].updated) => UnexpiredStates(db)[s] = db.state[s]
<1>1. UnexpiredStates(db)[s] = IF db.state[s] # None /\ db.state[s].updated < today THEN None ELSE db.state[s]
  BY DEF UnexpiredStates
<1>2. db.state[s] # None => db.state[s].updated \in Nat /\ today \in Nat
  BY StateFields, BoundAssumption DEF Tables
<1>3. QED
  BY <1>1, <1>2

LEMMA StartUpAgainDeletes ==
  ASSUME IInv, StartUp, upgraded
  PROVE  Deletes
<1>1. /\ row' = UnexpiredRows(db0) /\ state' = UnexpiredStates(db0)
      /\ UNCHANGED <<stage, today, sweeping, renames, settled>> /\ ~serving /\ serving' = TRUE /\ upgraded' = TRUE
  BY DEF StartUp
<1>2. TypeOK /\ today \in 0..MaxAge /\ MaxAge \in Nat /\ db0 \in Tables /\ db0.row = row /\ db0.state = state
      /\ sweeping = FALSE /\ upgraded = TRUE
  BY <1>1, TablesType, BoundAssumption DEF IInv, TypeOK, Recording
<1>3. ASSUME NEW s \in Sessions, Shown(s)' # {} PROVE state'[s] = state[s]
  <2>1. PICK c \in Requests : /\ row'[c] # None /\ row'[c].session = s
                              /\ Kind[c] = "compaction" /\ row'[c].outcome = "success"
    BY <1>3 DEF Shown, Rows, db0
  <2>2. row'[c] = row[c] /\ row[c] # None /\ row[c].created >= today
    BY <1>1, <1>2, <2>1, UnexpiredRow
  <2>3. c \in Shown(s)
    BY <2>1, <2>2, ShownMember
  <2>4. state[s] # None /\ row[c].created <= state[s].updated
    BY <2>3 DEF IInv, Fresher
  <2>5. row[c].created \in Nat /\ state[s].updated \in Nat /\ today \in Nat
    BY <1>2, <2>2, <2>4, RowFields, StateFields DEF TypeOK
  <2>6. today <= state[s].updated
    BY <2>2, <2>4, <2>5
  <2>7. QED
    BY <1>1, <1>2, <2>4, <2>6, UnexpiredState
<1>4. \A r \in Requests : row'[r] = row[r] \/ row'[r] = None
  BY <1>1, <1>2, UnexpiredRow
<1>5. \A s \in Sessions : state'[s] = state[s] \/ state'[s] = None
  BY <1>1, <1>2, UnexpiredState
<1>6. row' = [r \in Requests |-> row'[r]] /\ state' = [s \in Sessions |-> state'[s]]
  BY <1>1 DEF UnexpiredRows, UnexpiredStates
<1>7. QED
  BY <1>1, <1>2, <1>3, <1>4, <1>5, <1>6 DEF Deletes

-----------------------------------------------------------------------------
(* The backfill of an older version's tables, title by title.              *)

TitlesDone == 0..Len(TitleOrder)

LEMMA OrderLength == /\ Len(TitleOrder) \in Nat
                     /\ \A n \in 1..Len(TitleOrder) : TitleOrder[n] \in Requests /\ IsTitle(TitleOrder[n])
                     /\ \A t \in Requests : IsTitle(t) => \E n \in 1..Len(TitleOrder) : TitleOrder[n] = t
  BY OrderAssumption DEF IsTitle

NextBackfilled(g, n) == IF n = 0 THEN BackfillGuardians(db0) ELSE BackfillTitle(g[n - 1], TitleOrder[n])

\* The recursion is well founded, and Backfilled is the function it defines.
LEMMA BackfilledEquation ==
  \A n \in TitlesDone : Backfilled[n] = NextBackfilled(Backfilled, n)
<1> DEFINE Solves(g, k) == /\ g = [n \in TitlesDone |-> g[n]]
                           /\ \A n \in TitlesDone : n < k => g[n] = NextBackfilled(g, n)
           Unsolved == {k \in Nat : ~ \E g : Solves(g, k)}
<1>0. TitlesDone \subseteq Nat /\ \A n \in TitlesDone : n # 0 => n - 1 \in TitlesDone
  BY OrderLength DEF TitlesDone
<1>1. Unsolved = {}
  <2> SUFFICES ASSUME Unsolved # {} PROVE FALSE
    OBVIOUS
  <2>1. PICK k \in Unsolved : \A j \in Unsolved : k <= j
    <3>1. Unsolved \subseteq Nat
      OBVIOUS
    <3> HIDE DEF Unsolved
    <3>2. QED
      BY <3>1, LeastNumber
  <2>2. k # 0
    <3>1. Solves([n \in TitlesDone |-> {}], 0)
      BY <1>0
    <3>2. QED
      BY <3>1
  <2>3. PICK g : Solves(g, k - 1)
    <3>1. k - 1 \in Nat /\ ~(k <= k - 1)
      BY <2>2
    <3>2. k - 1 \notin Unsolved
      BY <2>1, <3>1
    <3>3. QED
      BY <3>1, <3>2
  <2> DEFINE next == [n \in TitlesDone |-> IF n < k - 1 THEN g[n] ELSE NextBackfilled(g, n)]
  <2>4. \A n \in TitlesDone : next[n] = IF n < k - 1 THEN g[n] ELSE NextBackfilled(g, n)
    OBVIOUS
  <2>5. next = [n \in TitlesDone |-> next[n]]
    OBVIOUS
  <2> HIDE DEF next
  <2>6. ASSUME NEW n \in TitlesDone, n < k
        PROVE  next[n] = NextBackfilled(next, n)
    <3>1. next[n] = NextBackfilled(g, n)
      BY <2>3, <2>4
    <3>2. n # 0 => n - 1 \in TitlesDone /\ n - 1 < k - 1 /\ next[n - 1] = g[n - 1]
      BY <1>0, <2>4, <2>6
    <3>3. QED
      BY <3>1, <3>2, Zenon DEF NextBackfilled
  <2>7. Solves(next, k)
    BY <2>5, <2>6
  <2>8. QED
    BY <2>7
<1>2. PICK g : Solves(g, Len(TitleOrder) + 1)
  <2>1. Len(TitleOrder) + 1 \in Nat
    BY OrderLength
  <2>2. QED
    BY <1>1, <2>1
<1>3. \A n \in TitlesDone : n < Len(TitleOrder) + 1
  BY OrderLength DEF TitlesDone
<1>4. g = [n \in TitlesDone |-> NextBackfilled(g, n)]
  BY <1>2, <1>3
<1>5. Backfilled = CHOOSE f : f = [n \in TitlesDone |-> NextBackfilled(f, n)]
  BY Zenon DEF Backfilled, NextBackfilled, TitlesDone
<1>6. Backfilled = [n \in TitlesDone |-> NextBackfilled(Backfilled, n)]
  <2> DEFINE P(f) == f = [n \in TitlesDone |-> NextBackfilled(f, n)]
  <2>1. P(g)
    BY <1>4
  <2>2. Backfilled = CHOOSE f : P(f)
    BY <1>5
  <2> HIDE DEF P
  <2>3. P(Backfilled)
    BY <2>1, <2>2, Zenon
  <2>4. QED
    BY <2>3 DEF P
<1>7. QED
  BY <1>6

\* What the backfill of the guardians leaves of a row.
LEMMA GuardiansEffect ==
  ASSUME IInv, ~upgraded, NEW g, g = BackfillGuardians(db0)
  PROVE  /\ g \in Tables /\ g.state = state
         /\ \A r \in Requests : row[r] = None => g.row[r] = None
         /\ \A r \in Requests : row[r] # None =>
              /\ g.row[r] # None /\ g.row[r].outcome = "success" /\ g.row[r].created = row[r].created
              /\ \/ g.row[r].source = "key" /\ g.row[r].session = Key[r]
                 \/ g.row[r].source = "guardian"
              /\ row[r].created >= today =>
                   IF Canonical[Key[r]] = Key[r]
                   THEN g.row[r] = row[r]
                   ELSE g.row[r].source = "guardian" /\ g.row[r].session = Canonical[Key[r]]
              /\ Kind[r] = "compaction" => g.row[r] = row[r] /\ row[r].session = Key[r]
<1> DEFINE there(r) == [row[r] EXCEPT !.session = Canonical[row[r].session], !.source = "guardian"]
           moves(r) == row[r] # None /\ row[r].created >= today /\ Canonical[row[r].session] # row[r].session
           new == [r \in Requests |-> IF moves(r) THEN there(r) ELSE row[r]]
<1>1. /\ TypeOK /\ db0 \in Tables /\ db0.row = row /\ db0.state = state
      /\ \A r \in Requests : row[r] # None =>
           row[r] \in Row /\ row[r].session = Key[r] /\ row[r].source = "key" /\ row[r].outcome = "success"
      /\ \A r \in Requests : row[r] # None /\ Kind[r] = "compaction" => Canonical[Key[r]] = Key[r]
  BY TablesType, RowFields DEF IInv, Untouched, TypeOK
<1>2. g = [db0 EXCEPT !.row = new]
  BY <1>1, Zenon DEF BackfillGuardians
<1>3. ASSUME NEW r \in Requests, row[r] # None
      PROVE  /\ there(r) \in Row /\ there(r) # None /\ there(r).outcome = "success"
             /\ there(r).created = row[r].created /\ there(r).source = "guardian"
             /\ there(r).session = Canonical[Key[r]]
  <2>1. Canonical[Key[r]] \in Sessions
    BY KeyAssumption
  <2>2. row[r] \in Row /\ row[r].session = Key[r] /\ row[r].outcome = "success"
    BY <1>1, <1>3
  <2>3. there(r) \in Row
    BY <2>1, <2>2 DEF Row, Sources
  <2>4. QED
    BY <2>2, <2>3, NoneAssumption DEF Row
<1> HIDE DEF there
<1>4. new \in [Requests -> Row \cup {None}]
  BY <1>1, <1>3 DEF TypeOK
<1>5. g \in Tables /\ g.row = new /\ g.state = state
  BY <1>1, <1>2, <1>4 DEF Tables
<1>6. \A r \in Requests : g.row[r] = IF moves(r) THEN there(r) ELSE row[r]
  BY <1>5
<1>7. \A r \in Requests : row[r] = None => g.row[r] = None
  BY <1>6
<1>8. ASSUME NEW r \in Requests, row[r] # None
      PROVE  /\ g.row[r] # None /\ g.row[r].outcome = "success" /\ g.row[r].created = row[r].created
             /\ \/ g.row[r].source = "key" /\ g.row[r].session = Key[r]
                \/ g.row[r].source = "guardian"
             /\ row[r].created >= today =>
                  IF Canonical[Key[r]] = Key[r]
                  THEN g.row[r] = row[r]
                  ELSE g.row[r].source = "guardian" /\ g.row[r].session = Canonical[Key[r]]
             /\ Kind[r] = "compaction" => g.row[r] = row[r] /\ row[r].session = Key[r]
  <2>1. /\ row[r].session = Key[r] /\ row[r].source = "key" /\ row[r].outcome = "success"
        /\ Kind[r] = "compaction" => Canonical[Key[r]] = Key[r]
    BY <1>1, <1>8
  <2>2. CASE moves(r)
    <3>1. g.row[r] = there(r)
      BY <1>6, <2>2
    <3>2. Canonical[Key[r]] # Key[r]
      BY <2>1, <2>2
    <3>3. QED
      BY <1>3, <1>8, <2>1, <3>1, <3>2
  <2>3. CASE ~moves(r)
    <3>1. g.row[r] = row[r]
      BY <1>6, <2>3
    <3>2. row[r].created >= today => Canonical[Key[r]] = Key[r]
      BY <1>8, <2>1, <2>3
    <3>3. QED
      BY <1>8, <2>1, <3>1, <3>2
  <2>4. QED
    BY <2>2, <2>3
<1>9. QED
  BY <1>5, <1>7, <1>8

\* A title request of an older version, and a request it is to be brought to.
Bringable(t, m) == /\ Paired(t, m) /\ row[t] # None /\ row[m] # None /\ row[t].created >= today
                   /\ InReach(settled[t], t, m)

\* What the tables are when the first n titles are done.
Progress(g, db, n) ==
  /\ db \in Tables
  /\ \A r \in Requests : ~IsTitle(r) => db.row[r] = g.row[r]
  /\ \A t \in Requests : IsTitle(t) =>
       \/ db.row[t] = g.row[t]
       \/ /\ g.row[t] # None /\ db.row[t] # None /\ db.row[t].source = "title"
          /\ db.row[t].outcome = g.row[t].outcome /\ db.row[t].created = g.row[t].created
  /\ \A s \in Sessions : db.state[s] # None => ~db.state[s].custom /\ db.state[s].updated <= today
  /\ \A c \in Requests : (g.row[c] # None /\ Kind[c] = "compaction") =>
       Grown(state[g.row[c].session], db.state[g.row[c].session])
  /\ \A i \in 1..n, m \in Requests :
       Bringable(TitleOrder[i], m) => db.row[TitleOrder[i]].source = "title"

LEMMA GuardiansProgress ==
  ASSUME IInv, ~upgraded, NEW g, g = BackfillGuardians(db0)
  PROVE  Progress(g, g, 0)
<1>1. g \in Tables /\ g.state = state
  BY GuardiansEffect
<1>2. \A s \in Sessions : state[s] # None => ~state[s].custom /\ state[s].updated <= today
  BY DEF IInv, Untouched, Recording
<1>3. ASSUME NEW c \in Requests, g.row[c] # None
      PROVE  Grown(state[g.row[c].session], g.state[g.row[c].session])
  <2>1. g.row[c].session \in Sessions
    BY <1>1, <1>3, RowFields DEF Tables
  <2>2. state[g.row[c].session] \in State \cup {None}
    BY <2>1 DEF IInv, TypeOK
  <2>3. QED
    BY <1>1, <2>2, GrownSame
<1>4. QED
  BY <1>1, <1>2, <1>3 DEF Progress

LEMMA TitleProgress ==
  ASSUME IInv, ~upgraded, NEW g, g = BackfillGuardians(db0), NEW n \in 1..Len(TitleOrder),
         NEW db, Progress(g, db, n - 1), NEW d, d = BackfillTitle(db, TitleOrder[n])
  PROVE  Progress(g, d, n)
<1> DEFINE t == TitleOrder[n]
           candidates == BackfillCandidates(db, t)
           mains == {m \in Oldest(candidates, BackfillLimit) : Matches(t, m)}
           old == db.row[t].session
           s == db.row[CHOOSE m \in Oldest(mains, 1) : TRUE].session
           due == t \in Succeeded(db) /\ db.row[t].source = "key" /\ db.row[t].created >= today /\ mains # {}
<1>0. /\ t \in Requests /\ IsTitle(t) /\ n \in Nat /\ today \in 0..MaxAge /\ MaxAge \in Nat /\ TypeOK
      /\ db \in Tables
      /\ \A i \in 1..n : i # n => i \in 1..(n - 1)
  BY OrderLength, BoundAssumption DEF IInv, TypeOK, Progress
<1>1. /\ g \in Tables /\ g.state = state
      /\ \A r \in Requests : row[r] = None => g.row[r] = None
      /\ \A r \in Requests : row[r] # None =>
           /\ g.row[r] # None /\ g.row[r].outcome = "success" /\ g.row[r].created = row[r].created
           /\ \/ g.row[r].source = "key" /\ g.row[r].session = Key[r]
              \/ g.row[r].source = "guardian"
           /\ row[r].created >= today =>
                IF Canonical[Key[r]] = Key[r]
                THEN g.row[r] = row[r]
                ELSE g.row[r].source = "guardian" /\ g.row[r].session = Canonical[Key[r]]
           /\ Kind[r] = "compaction" => g.row[r] = row[r] /\ row[r].session = Key[r]
  BY GuardiansEffect
\* A row under a key stands as the older version left it.
<1>2. \A r \in Requests : (db.row[r] # None /\ db.row[r].source = "key") =>
        db.row[r] = g.row[r] /\ row[r] # None /\ db.row[r].session = Key[r]
  <2> SUFFICES ASSUME NEW r \in Requests, db.row[r] # None, db.row[r].source = "key"
               PROVE  db.row[r] = g.row[r] /\ row[r] # None /\ db.row[r].session = Key[r]
    OBVIOUS
  <2>1. db.row[r] = g.row[r]
    BY DEF Progress
  <2>2. row[r] # None
    BY <1>1, <2>1
  <2>3. QED
    BY <1>1, <2>1, <2>2
<1>3. d = IF due THEN ApplyTitle(MergeTitle(db, t, s), s, MergedTitle(db, t)) ELSE db
  BY DEF BackfillTitle
<1>4. CASE due
  <2> DEFINE merged == MergeTitle(db, t, s)
             title == MergedTitle(db, t)
  <2>1. PICK m \in mains : s = db.row[m].session
    <3>1. mains \in SUBSET Requests /\ mains # {}
      BY <1>4, NewestWithin DEF BackfillCandidates
    <3> HIDE DEF mains
    <3>2. Oldest(mains, 1) # {} /\ Oldest(mains, 1) \subseteq mains
      BY <3>1, OldestSome, NewestWithin
    <3>3. QED
      BY <3>2
  <2> HIDE DEF s
  <2>2. /\ m \in Requests /\ db.row[m] # None /\ db.row[m].source = "key" /\ Matches(t, m) /\ s # old
        /\ db.row[t] # None /\ db.row[t].outcome = "success" /\ db.row[t].source = "key"
        /\ db.row[t].created >= today
    <3>1. m \in candidates /\ Matches(t, m)
      BY <2>1, NewestWithin
    <3>2. QED
      BY <1>4, <2>1, <3>1 DEF Succeeded, BackfillCandidates
  <2>3. /\ db.row[m].session = Key[m] /\ db.row[t].session = Key[t] /\ db.row[t] = g.row[t] /\ row[t] # None
        /\ s = Key[m] /\ old = Key[t] /\ s \in Sessions /\ old \in Sessions
    BY <1>0, <1>2, <2>1, <2>2, KeyTypes
  <2>4. Canonical[Key[t]] = Key[t]
    <3>1. row[t].created >= today
      BY <1>0, <1>1, <2>2, <2>3
    <3>2. g.row[t].source # "guardian"
      BY <2>2, <2>3
    <3>3. QED
      BY <1>0, <1>1, <2>3, <3>1, <3>2
  <2>5. title \in Titles
    BY <1>0, <2>2, MergedTitleType
  <2>6. /\ merged \in Tables
        /\ \A r \in Requests : r # t => merged.row[r] = db.row[r]
        /\ merged.row[t] # None /\ merged.row[t].source = "title"
        /\ merged.row[t].outcome = db.row[t].outcome /\ merged.row[t].created = db.row[t].created
        /\ merged.state[old] = None
        /\ \A q \in Sessions : q # old => merged.state[q] = db.state[q]
    <3>1. db.row[t] # None /\ t \in Requests /\ s \in Sessions /\ db \in Tables
      BY <1>0, <2>2, <2>3
    <3> HIDE DEF t
    <3>2. QED
      BY <3>1, MergeEffect
  <2>7. d = ApplyTitle(merged, s, title)
    BY <1>3, <1>4
  <2>8. \A q \in Sessions : db.state[q] # None => ~db.state[q].custom /\ db.state[q].updated <= today
    BY DEF Progress
  <2> HIDE DEF merged, title, old
  <2>9. merged.state[s] # None => merged.state[s].updated <= today
    BY <2>2, <2>3, <2>6, <2>8
  <2>10. /\ d \in Tables /\ d.row = merged.row
         /\ \A q \in Sessions : q # s => d.state[q] = merged.state[q]
         /\ Grown(merged.state[s], d.state[s])
    BY <1>0, <2>3, <2>5, <2>6, <2>7, <2>9, ApplyEffect
  <2>11. \A r \in Requests : ~IsTitle(r) => d.row[r] = g.row[r]
    BY <1>0, <2>6, <2>10 DEF Progress
  <2>12. ASSUME NEW r \in Requests, IsTitle(r)
         PROVE  \/ d.row[r] = g.row[r]
                \/ /\ g.row[r] # None /\ d.row[r] # None /\ d.row[r].source = "title"
                   /\ d.row[r].outcome = g.row[r].outcome /\ d.row[r].created = g.row[r].created
    <3>1. CASE r = t
      BY <2>2, <2>3, <2>6, <2>10, <3>1
    <3>2. CASE r # t
      BY <2>6, <2>10, <2>12, <3>2 DEF Progress
    <3>3. QED
      BY <3>1, <3>2
  <2>13. ASSUME NEW q \in Sessions, d.state[q] # None
         PROVE  ~d.state[q].custom /\ d.state[q].updated <= today
    <3>1. CASE q = s
      <4>1. merged.state[s] # None => ~merged.state[s].custom
        BY <2>2, <2>3, <2>6, <2>8
      <4>2. d.state[s].custom \in BOOLEAN
        BY <2>10, <2>13, <3>1, StateFields DEF Tables
      <4>3. QED
        BY <2>9, <2>10, <2>13, <3>1, <4>1, <4>2 DEF Grown
    <3>2. CASE q # s
      BY <2>6, <2>8, <2>10, <2>13, <3>2
    <3>3. QED
      BY <3>1, <3>2
  \* No compaction stands in the session the title leaves.
  <2>14. ASSUME NEW c \in Requests, g.row[c] # None, Kind[c] = "compaction"
         PROVE  Grown(state[g.row[c].session], d.state[g.row[c].session])
    <3>1. row[c] # None /\ g.row[c].session = Key[c] /\ Key[c] \in Sessions
      BY <1>1, <2>14, KeyTypes
    <3>2. Canonical[Key[c]] = Key[c]
      BY <2>14, <3>1 DEF IInv, Untouched
    <3>3. Key[c] # Key[t]
      <4>1. Kind[t] = "title" /\ <<t, m>> \in SamePrompt /\ Key[t] # Key[m]
        BY <1>0, <2>2, <2>3 DEF IsTitle, Matches
      <4>2. Canonical[Key[c]] # Canonical[Key[t]]
        BY <1>0, <2>2, <2>14, <4>1, TitleAssumption
      <4>3. QED
        BY <4>2
    <3>4. Grown(state[Key[c]], db.state[Key[c]])
      BY <2>14, <3>1 DEF Progress
    <3>5. merged.state[Key[c]] = db.state[Key[c]]
      BY <2>3, <2>6, <3>1, <3>3
    <3>6. CASE Key[c] = s
      <4>1. Grown(db.state[s], d.state[s])
        BY <2>10, <3>5, <3>6
      <4>2. /\ state[s] \in State \cup {None} /\ db.state[s] \in State \cup {None}
            /\ d.state[s] \in State \cup {None} /\ today \in Nat
        BY <1>0, <2>3, <2>10 DEF TypeOK, Tables
      <4>3. QED
        BY <3>1, <3>4, <3>6, <4>1, <4>2, GrownTwice
    <3>7. CASE Key[c] # s
      BY <2>10, <3>1, <3>4, <3>5, <3>7
    <3>8. QED
      BY <3>6, <3>7
  <2>15. ASSUME NEW i \in 1..n, NEW r \in Requests, Bringable(TitleOrder[i], r)
         PROVE  d.row[TitleOrder[i]].source = "title"
    <3>1. CASE TitleOrder[i] = t
      BY <2>6, <2>10, <3>1
    <3>2. CASE TitleOrder[i] # t
      <4>1. i \in 1..(n - 1)
        BY <1>0, <3>2
      <4>2. db.row[TitleOrder[i]].source = "title"
        BY <2>15, <4>1 DEF Progress
      <4>3. TitleOrder[i] \in Requests
        BY <1>0, OrderLength
      <4>4. QED
        BY <2>6, <2>10, <3>2, <4>2, <4>3
    <3>3. QED
      BY <3>1, <3>2
  <2>16. QED
    BY <2>10, <2>11, <2>12, <2>13, <2>14, <2>15 DEF Progress
<1>5. CASE ~due
  <2>1. d = db
    BY <1>3, <1>5
  <2>2. ASSUME NEW m \in Requests, Bringable(t, m), db.row[t].source # "title" PROVE FALSE
    <3>1. /\ Matches(t, m) /\ ~IsTitle(m) /\ Canonical[Key[t]] = Key[t] /\ Canonical[Key[m]] = Key[m]
          /\ Key[t] # Key[m] /\ row[t] # None /\ row[m] # None /\ row[t].created >= today
      BY <2>2 DEF Bringable, Paired, SourceOf, SessionOf
    <3>2. db.row[t] = g.row[t] /\ db.row[m] = g.row[m]
      BY <1>0, <2>2, <3>1 DEF Progress
    <3>3. g.row[t] = row[t] /\ row[t].session = Key[t] /\ row[t].source = "key" /\ row[t].outcome = "success"
      BY <1>0, <1>1, <3>1 DEF IInv, Untouched
    <3>4. row[m].session = Key[m] /\ row[m].source = "key"
      BY <3>1 DEF IInv, Untouched
    <3>5. g.row[m] # None /\ g.row[m].source = "key" /\ g.row[m].session = Key[m]
      <4>1. g.row[m] = row[m]
        <5>1. g.row[m] = IF row[m] # None /\ row[m].created >= today /\ Canonical[row[m].session] # row[m].session
                         THEN [row[m] EXCEPT !.session = Canonical[row[m].session], !.source = "guardian"]
                         ELSE row[m]
          BY Zenon DEF BackfillGuardians, db0
        <5>2. QED
          BY <3>1, <3>4, <5>1
      <4>2. QED
        BY <3>1, <3>4, <4>1
    <3>6. m \in mains
      <4> DEFINE seen == {q \in settled[t] : Around(t, q)}
      <4>1. \A q \in Requests : row[q] # None => q \in settled[t]
        BY <1>0, <3>1 DEF IInv, Untouched
      <4>2. /\ Around(t, m)
            /\ Cardinality({q \in seen : CreatedAt[q] < CreatedAt[m]}) < BackfillLimit
        <5>1. {q \in seen : CreatedAt[q] < CreatedAt[m]} =
                {q \in settled[t] : Around(t, q) /\ CreatedAt[q] < CreatedAt[m]}
          OBVIOUS
        <5>2. t \in settled[t] /\ InReach(settled[t], t, m)
          BY <1>0, <2>2, <3>1, <4>1 DEF Bringable
        <5> HIDE DEF seen
        <5>3. QED
          BY <5>1, <5>2 DEF InReach
      <4>3. m \in candidates
        BY <3>1, <3>2, <3>3, <3>5, <4>2 DEF BackfillCandidates
      <4>4. /\ candidates \in SUBSET Requests /\ seen \in SUBSET Requests /\ candidates \subseteq seen
        <5>1. settled[t] \subseteq Requests
          BY <1>0 DEF TypeOK
        <5>2. ASSUME NEW q \in candidates PROVE q \in Requests /\ row[q] # None /\ Around(t, q)
          BY <1>2, <5>2 DEF BackfillCandidates
        <5>3. QED
          BY <4>1, <5>1, <5>2
      <4>5. m \in Oldest(candidates, BackfillLimit)
        <5>1. BackfillLimit \in Nat
          BY CreatedAssumption
        <5> HIDE DEF candidates, seen
        <5>2. QED
          BY <4>2, <4>3, <4>4, <5>1, ReadAmong
      <4>6. QED
        BY <3>1, <4>5
    <3>7. due
      BY <1>0, <3>1, <3>2, <3>3, <3>6 DEF Succeeded
    <3>8. QED
      BY <1>5, <3>7
  <2>3. ASSUME NEW i \in 1..n, NEW r \in Requests, Bringable(TitleOrder[i], r)
        PROVE  db.row[TitleOrder[i]].source = "title"
    <3>1. CASE i = n
      BY <2>2, <2>3, <3>1
    <3>2. CASE i # n
      BY <1>0, <2>3, <3>2 DEF Progress
    <3>3. QED
      BY <3>1, <3>2
  <2>4. QED
    BY <2>1, <2>3 DEF Progress
<1>6. QED
  BY <1>4, <1>5

LEMMA BackfilledProgress ==
  ASSUME IInv, ~upgraded, NEW g, g = BackfillGuardians(db0)
  PROVE  Progress(g, Backfilled[Len(TitleOrder)], Len(TitleOrder))
<1> DEFINE Behind == {n \in TitlesDone : ~Progress(g, Backfilled[n], n)}
<1>0. Len(TitleOrder) \in Nat /\ TitlesDone \subseteq Nat /\ Len(TitleOrder) \in TitlesDone /\ 0 \in TitlesDone
  BY OrderLength DEF TitlesDone
<1>1. ASSUME Behind # {} PROVE FALSE
  <2>1. PICK n \in Behind : \A m \in Behind : n <= m
    <3>1. Behind \subseteq Nat
      BY <1>0
    <3> HIDE DEF Behind
    <3>2. QED
      BY <1>1, <3>1, LeastNumber
  <2>2. n \in TitlesDone /\ n \in Nat /\ ~Progress(g, Backfilled[n], n)
    BY <1>0, <2>1
  <2>3. CASE n = 0
    <3>1. Backfilled[0] = g
      BY <1>0, BackfilledEquation, <2>2 DEF NextBackfilled
    <3>2. QED
      BY <2>2, <2>3, <3>1, GuardiansProgress
  <2>4. CASE n # 0
    <3>1. n \in 1..Len(TitleOrder) /\ n - 1 \in TitlesDone /\ ~(n <= n - 1)
      BY <1>0, <2>2, <2>4 DEF TitlesDone
    <3>2. Progress(g, Backfilled[n - 1], n - 1)
      BY <2>1, <3>1
    <3>3. Backfilled[n] = BackfillTitle(Backfilled[n - 1], TitleOrder[n])
      BY <2>2, <2>4, BackfilledEquation DEF NextBackfilled
    <3>4. Progress(g, Backfilled[n], n)
      BY <3>1, <3>2, <3>3, TitleProgress
    <3>5. QED
      BY <2>2, <3>4
  <2>5. QED
    BY <2>3, <2>4
<1>2. QED
  BY <1>0, <1>1

LEMMA UpgradeKeeps ==
  ASSUME IInv, StartUp, ~upgraded
  PROVE  IInv' /\ \A s \in Sessions : state[s] # None => ~state[s].custom
<1> DEFINE g == BackfillGuardians(db0)
           db == Backfilled[Len(TitleOrder)]
<1>1. /\ row' = UnexpiredRows(db) /\ state' = UnexpiredStates(db)
      /\ UNCHANGED <<stage, today, sweeping, renames, settled>> /\ ~serving /\ serving' = TRUE /\ upgraded' = TRUE
  BY DEF StartUp
<1>2. Progress(g, db, Len(TitleOrder))
  BY BackfilledProgress
<1>3. /\ g \in Tables /\ g.state = state
      /\ \A r \in Requests : row[r] = None => g.row[r] = None
      /\ \A r \in Requests : row[r] # None =>
           /\ g.row[r] # None /\ g.row[r].outcome = "success" /\ g.row[r].created = row[r].created
           /\ \/ g.row[r].source = "key" /\ g.row[r].session = Key[r]
              \/ g.row[r].source = "guardian"
           /\ row[r].created >= today =>
                IF Canonical[Key[r]] = Key[r]
                THEN g.row[r] = row[r]
                ELSE g.row[r].source = "guardian" /\ g.row[r].session = Canonical[Key[r]]
           /\ Kind[r] = "compaction" => g.row[r] = row[r] /\ row[r].session = Key[r]
  BY GuardiansEffect
<1> HIDE DEF g, db
<1>4. /\ TypeOK /\ Recording /\ Untouched /\ today \in 0..MaxAge /\ MaxAge \in Nat /\ db \in Tables
      /\ sweeping = FALSE
  BY <1>1, <1>2, BoundAssumption DEF IInv, TypeOK, Recording, Progress
\* A row that is left was there, and is young.
<1>5. ASSUME NEW r \in Requests, row'[r] # None
      PROVE  /\ row'[r] = db.row[r] /\ db.row[r].created >= today /\ row[r] # None /\ row[r].created >= today
             /\ row'[r].outcome = "success" /\ row'[r].created = row[r].created
             /\ ~IsTitle(r) => row'[r] = g.row[r]
  <2>1. row'[r] = db.row[r] /\ db.row[r] # None /\ db.row[r].created >= today
    BY <1>1, <1>4, <1>5, UnexpiredRow
  <2>2. g.row[r] # None /\ db.row[r].outcome = g.row[r].outcome /\ db.row[r].created = g.row[r].created
    <3>1. CASE IsTitle(r)
      BY <1>2, <2>1, <3>1 DEF Progress
    <3>2. CASE ~IsTitle(r)
      BY <1>2, <2>1, <3>2 DEF Progress
    <3>3. QED
      BY <3>1, <3>2
  <2>3. row[r] # None
    BY <1>3, <2>2
  <2>4. ~IsTitle(r) => db.row[r] = g.row[r]
    BY <1>2 DEF Progress
  <2>5. g.row[r].outcome = "success" /\ g.row[r].created = row[r].created
    BY <1>3, <2>3
  <2>6. QED
    BY <2>1, <2>2, <2>3, <2>4, <2>5
<1>6. TypeOK'
  <2>1. row' = [r \in Requests |-> row'[r]] /\ state' = [s \in Sessions |-> state'[s]]
    BY <1>1 DEF UnexpiredRows, UnexpiredStates
  <2>2. \A r \in Requests : row'[r] \in Row \cup {None}
    <3>1. ASSUME NEW r \in Requests PROVE row'[r] \in Row \cup {None}
      <4>1. row'[r] \in {db.row[r], None}
        BY <1>1, <1>4, UnexpiredRow
      <4>2. db.row[r] \in Row \cup {None}
        BY <1>4 DEF Tables
      <4>3. QED
        BY <4>1, <4>2
    <3>2. QED
      BY <3>1
  <2>3. \A s \in Sessions : state'[s] \in State \cup {None}
    <3>1. ASSUME NEW s \in Sessions PROVE state'[s] \in State \cup {None}
      <4>1. state'[s] \in {db.state[s], None}
        BY <1>1, <1>4, UnexpiredState
      <4>2. db.state[s] \in State \cup {None}
        BY <1>4 DEF Tables
      <4>3. QED
        BY <4>1, <4>2
    <3>2. QED
      BY <3>1
  <2>4. row' \in [Requests -> Row \cup {None}] /\ state' \in [Sessions -> State \cup {None}]
    BY <2>1, <2>2, <2>3
  <2>5. QED
    BY <1>1, <1>4, <2>4 DEF TypeOK
<1>7. Recording'
  <2>1. ASSUME NEW q \in Requests, Finished(q)' PROVE stage'[q] = "over"
    <3>1. row[q] # None
      BY <1>5, <2>1 DEF Finished
    <3>2. Finished(q)
      BY <1>4, <1>1, <3>1 DEF Finished, Untouched, IInv, Recording
    <3>3. QED
      BY <1>1, <1>4, <3>2 DEF Recording
  <2>2. \A q \in Requests : row'[q] # None => row'[q].created <= today
    BY <1>4, <1>5 DEF Recording
  <2>3. ASSUME NEW s \in Sessions, state'[s] # None
        PROVE  state'[s].updated <= today /\ ~state'[s].custom
    <3>1. state'[s] \in {db.state[s], None}
      BY <1>1, <1>4, UnexpiredState
    <3>2. QED
      BY <1>2, <2>3, <3>1 DEF Progress
  <2>4. \A t \in Requests : \A m \in settled[t] : stage[m] = "over"
    BY <1>4 DEF Recording
  <2>5. QED
    BY <1>1, <1>4, <2>1, <2>2, <2>3, <2>4 DEF Recording
<1>8. Untouched'
  BY <1>1 DEF Untouched
<1>9. Steady'
  <2> SUFFICES ASSUME NEW q \in Requests, Finished(q)', ~IsTitle(q)
               PROVE  row'[q].session = SessionOf(q) /\ row'[q].source = SourceOf(q)
    BY DEF Steady, IsTitle, SessionOf, SourceOf
  <2>1. row'[q] = g.row[q] /\ row[q] # None /\ row[q].created >= today
    BY <1>5 DEF Finished
  <2>2. row[q].session = Key[q] /\ row[q].source = "key"
    BY <1>4, <2>1 DEF Untouched
  <2>3. CASE Canonical[Key[q]] = Key[q]
    BY <1>3, <2>1, <2>2, <2>3 DEF SessionOf, SourceOf
  <2>4. CASE Canonical[Key[q]] # Key[q]
    BY <1>3, <2>1, <2>4 DEF SessionOf, SourceOf
  <2>5. QED
    BY <2>3, <2>4
<1>10. TitlesMerged'
  <2> SUFFICES ASSUME NEW t \in Requests, NEW m \in Requests, Paired(t, m), row'[t] # None, row'[m] # None,
                      InReach(settled'[t], t, m)
               PROVE  row'[t].source = "title"
    BY DEF TitlesMerged, Paired, IsTitle, Matches, SourceOf, SessionOf, Succeeded, db0
  <2>1. row'[t] = db.row[t] /\ row[t] # None /\ row[m] # None /\ row[t].created >= today
    BY <1>5
  <2>2. Bringable(t, m)
    BY <1>1, <2>1 DEF Bringable
  <2>3. PICK n \in 1..Len(TitleOrder) : TitleOrder[n] = t
    BY OrderLength DEF Paired
  <2>4. QED
    BY <1>2, <2>1, <2>2, <2>3 DEF Progress
<1>11. Backed
  <2> SUFFICES ASSUME NEW s \in Sessions, NEW c \in Shown(s)'
               PROVE  /\ c \in Shown(s) /\ row'[c].created = row[c].created
                      /\ state'[s] # None /\ state'[s].compactions >= state[s].compactions
                      /\ state'[s].updated >= state[s].updated
    BY DEF Backed
  <2>1. c \in Requests /\ row'[c] # None /\ row'[c].session = s /\ Kind[c] = "compaction"
        /\ row'[c].outcome = "success"
    BY DEF Shown, Rows, db0
  <2>2. /\ row'[c] = g.row[c] /\ row[c] # None /\ row[c].created >= today /\ row'[c].created = row[c].created
        /\ ~IsTitle(c)
    BY <1>5, <2>1 DEF IsTitle
  <2>3. g.row[c] = row[c]
    BY <1>3, <2>1, <2>2
  <2>4. c \in Shown(s)
    BY <2>1, <2>2, <2>3, ShownMember
  <2>5. state[s] # None /\ row[c].created <= state[s].updated
    BY <2>4 DEF IInv, Fresher
  <2>6. Grown(state[s], db.state[s])
    BY <1>2, <2>1, <2>2 DEF Progress
  <2>7. db.state[s] # None /\ db.state[s].compactions >= state[s].compactions /\ db.state[s].updated >= state[s].updated
    BY <2>5, <2>6 DEF Grown
  <2>8. row[c].created \in Nat /\ state[s].updated \in Nat /\ db.state[s].updated \in Nat /\ today \in Nat
    <3>1. row[c].created \in 0..MaxAge
      BY <1>4, <2>1, <2>2, RowFields DEF TypeOK
    <3>2. state[s].updated \in 0..MaxAge
      BY <1>4, <2>5, StateFields DEF TypeOK
    <3>3. db.state[s].updated \in 0..MaxAge
      BY <1>4, <2>7, StateFields DEF Tables
    <3>4. QED
      BY <1>4, <3>1, <3>2, <3>3
  <2>9. today <= db.state[s].updated
    BY <2>2, <2>5, <2>7, <2>8
  <2>10. state'[s] = db.state[s]
    BY <1>1, <1>4, <2>7, <2>9, UnexpiredState
  <2>11. QED
    BY <2>2, <2>4, <2>7, <2>10
<1>12. \A s \in Sessions : state[s] # None => ~state[s].custom
  BY <1>4 DEF Untouched, IInv
<1>13. QED
  BY <1>6, <1>7, <1>8, <1>9, <1>10, <1>11, <1>12, BackedKeeps DEF IInv

-----------------------------------------------------------------------------
(* The invariant holds.                                                    *)

LEMMA InitInvariant == Init => IInv
<1> SUFFICES ASSUME Init PROVE IInv
  OBVIOUS
<1>1. PICK old \in Histories : Inherited(old)
  BY DEF Init
<1>2. /\ today = 0 /\ serving = FALSE /\ upgraded = FALSE /\ sweeping = FALSE /\ renames = 0
      /\ old \subseteq Requests /\ today \in 0..MaxAge /\ MaxAge \in Nat
      /\ \A r \in old : Kind[r] = "compaction" => Canonical[Key[r]] = Key[r]
  BY HistoryAssumption, BoundAssumption DEF Init
<1> DEFINE was(r) == [outcome |-> "success", session |-> Key[r], source |-> "key",
                      name |-> NameOf(r), created |-> today]
           compacted(s) == {r \in old : Key[r] = s /\ Kind[r] = "compaction"}
           title(s) == IF \E r \in old : Key[r] = s /\ ~IsTitle(r) THEN "named" ELSE ""
           known(s) == [Fresh(title(s)) EXCEPT !.compactions = Cardinality(compacted(s))]
<1>3. /\ row = [r \in Requests |-> IF r \in old THEN was(r) ELSE None]
      /\ state = [s \in Sessions |-> IF \E r \in old : Key[r] = s THEN known(s) ELSE None]
      /\ stage = [r \in Requests |-> IF r \in old THEN "over" ELSE "new"]
      /\ settled = [r \in Requests |-> IF r \in old THEN old ELSE {}]
  BY <1>1 DEF Inherited
<1>4. ASSUME NEW r \in Requests
      PROVE  /\ was(r) \in Row /\ was(r) # None /\ was(r).outcome = "success" /\ was(r).session = Key[r]
             /\ was(r).source = "key" /\ was(r).created = today
  <2>1. was(r) \in Row
    BY <1>2, KeyTypes DEF Row, Outcomes, Sources, Titles
  <2>2. QED
    BY <2>1, NoneAssumption
<1>5. ASSUME NEW s \in Sessions
      PROVE  /\ known(s) \in State /\ known(s) # None /\ ~known(s).custom /\ known(s).updated = today
             /\ known(s).compactions = Cardinality(compacted(s))
  <2>1. Fresh(title(s)) \in State /\ Fresh(title(s)).custom = FALSE /\ Fresh(title(s)).updated = today
    <3>1. title(s) \in Titles
      BY DEF Titles
    <3> HIDE DEF title
    <3>2. QED
      BY <1>2, <3>1, FreshState
  <2>2. Cardinality(compacted(s)) \in Nat
    <3>1. compacted(s) \subseteq Requests
      BY <1>2
    <3>2. QED
      BY <3>1, BoundAssumption, FS_Subset, FS_CardinalityType
  <2> HIDE DEF compacted, title
  <2>3. known(s) \in State
    BY <2>1, <2>2 DEF State
  <2>4. known(s) # None
    BY <2>3, NoneAssumption
  <2>5. ~known(s).custom /\ known(s).updated = today /\ known(s).compactions = Cardinality(compacted(s))
    BY <2>1 DEF State
  <2>6. QED
    BY <2>3, <2>4, <2>5
<1> HIDE DEF was, known
<1>6. /\ \A r \in Requests : row[r] = IF r \in old THEN was(r) ELSE None
      /\ \A s \in Sessions : state[s] = IF \E r \in old : Key[r] = s THEN known(s) ELSE None
  BY <1>3
<1>7. TypeOK
  <2>1. row \in [Requests -> Row \cup {None}]
    BY <1>3, <1>4
  <2>2. state \in [Sessions -> State \cup {None}]
    BY <1>3, <1>5
  <2>3. stage \in [Requests -> {"new", "running", "over"}] /\ settled \in [Requests -> SUBSET Requests]
    BY <1>2, <1>3
  <2>4. serving \in BOOLEAN /\ upgraded \in BOOLEAN /\ sweeping \in BOOLEAN
    BY <1>2
  <2>5. renames \in 0..MaxRenames
    BY <1>2, BoundAssumption
  <2>6. QED
    BY <1>2, <2>1, <2>2, <2>3, <2>4, <2>5 DEF TypeOK
<1>8. Recording
  <2>1. \A r \in Requests : row[r] # None => r \in old /\ stage[r] = "over" /\ row[r].created = today
    BY <1>3, <1>4, <1>6
  <2>2. \A s \in Sessions : state[s] # None => state[s].updated = today /\ ~state[s].custom
    BY <1>5, <1>6
  <2>3. \A t \in Requests : \A m \in settled[t] : stage[m] = "over"
    BY <1>2, <1>3
  <2>4. QED
    BY <1>2, <2>1, <2>2, <2>3 DEF Recording, Finished
<1>9. Untouched
  <2>1. \A r \in Requests : row[r] # None =>
          r \in old /\ row[r].session = Key[r] /\ row[r].source = "key" /\ row[r].outcome = "success"
    BY <1>4, <1>6
  <2>2. \A s \in Sessions : state[s] # None => ~state[s].custom
    BY <1>5, <1>6
  <2>3. \A r \in Requests : stage[r] # "running"
    BY <1>3
  <2>4. \A r, q \in Requests : row[r] # None /\ row[q] # None => q \in settled[r]
    BY <1>2, <1>3, <2>1
  <2>5. QED
    BY <1>2, <2>1, <2>2, <2>3, <2>4 DEF Untouched
<1>10. Steady /\ TitlesMerged
  BY <1>2 DEF Steady, TitlesMerged
<1>11. \A s \in Sessions : \A c \in Shown(s) :
         /\ c \in compacted(s) /\ row[c].created = today
         /\ state[s] = known(s) /\ state[s] # None
  <2> SUFFICES ASSUME NEW s \in Sessions, NEW c \in Shown(s)
               PROVE  /\ c \in compacted(s) /\ row[c].created = today
                      /\ state[s] = known(s) /\ state[s] # None
    OBVIOUS
  <2>1. c \in Requests /\ row[c] # None /\ row[c].session = s /\ Kind[c] = "compaction"
    BY ShownMember
  <2>2. c \in old /\ Key[c] = s /\ row[c].created = today
    BY <1>4, <1>6, <2>1
  <2>3. QED
    BY <1>5, <1>6, <2>1, <2>2
<1>12. Fresher
  <2> SUFFICES ASSUME NEW s \in Sessions, NEW c \in Shown(s)
               PROVE  state[s] # None /\ row[c].created <= state[s].updated
    BY DEF Fresher
  <2>1. row[c].created = today /\ state[s] = known(s) /\ state[s] # None
    BY <1>11
  <2>2. state[s].updated = today
    BY <1>5, <2>1
  <2>3. QED
    BY <1>2, <2>1, <2>2
<1>13. CompactionsCounted
  <2>1. ASSUME NEW s \in Sessions, Shown(s) # {}
        PROVE  state[s] # None /\ state[s].compactions >= Cardinality(Shown(s))
    <3>1. PICK c : c \in Shown(s)
      BY <2>1
    <3>2. state[s] # None /\ state[s].compactions = Cardinality(compacted(s))
      BY <1>5, <1>11, <3>1
    <3>3. Shown(s) \subseteq compacted(s) /\ IsFiniteSet(compacted(s))
      <4>1. compacted(s) \subseteq Requests
        BY <1>2
      <4>2. QED
        BY <1>11, <4>1, BoundAssumption, FS_Subset
    <3>4. Cardinality(Shown(s)) <= Cardinality(compacted(s)) /\ Cardinality(Shown(s)) \in Nat
          /\ Cardinality(compacted(s)) \in Nat
      <4> HIDE DEF compacted
      <4>1. QED
        BY <3>3, FS_Subset, FS_CardinalityType
    <3>5. QED
      BY <3>2, <3>4
  <2>2. QED
    BY <2>1, CountedByShown
<1>14. QED
  BY <1>7, <1>8, <1>9, <1>10, <1>12, <1>13 DEF IInv

LEMMA StepInvariant == IInv /\ [Next]_vars => IInv'
<1> SUFFICES ASSUME IInv, [Next]_vars PROVE IInv'
  OBVIOUS
<1>1. ASSUME NEW r \in Requests, RecordStarted(r) PROVE IInv'
  BY <1>1, StartedKeeps
<1>2. ASSUME NEW r \in Requests, RecordLost(r) PROVE IInv'
  BY <1>2, LostKeeps
<1>3. ASSUME NEW r \in Requests, NEW outcome \in {"success", "failed"}, RecordRequest(r, outcome) PROVE IInv'
  BY <1>3, RecordKeeps
<1>4. ASSUME NEW s \in Sessions, RenameSession(s) PROVE IInv'
  BY <1>4, RenameKeeps
<1>5. CASE DeleteHistoricalLogsBefore
  BY <1>5, DeleteLogsDeletes, DeletesKeeps
<1>6. CASE CleanupRows
  BY <1>6, CleanupRowsDeletes, DeletesKeeps
<1>7. CASE CleanupStates
  BY <1>7, CleanupStatesDeletes, DeletesKeeps
<1>8. CASE StartUp
  <2>1. CASE upgraded
    BY <1>8, <2>1, StartUpAgainDeletes, DeletesKeeps
  <2>2. CASE ~upgraded
    BY <1>8, <2>2, UpgradeKeeps
  <2>3. QED
    BY <2>1, <2>2
<1>9. CASE Crash
  BY <1>9, CrashKeeps
<1>10. CASE GrowOld
  BY <1>10, GrowKeeps
<1>11. CASE UNCHANGED vars
  <2>1. UNCHANGED <<row, state, stage, today, serving, upgraded, sweeping, renames, settled>>
    BY <1>11 DEF vars
  <2>2. /\ stage' \in [Requests -> {"new", "running", "over"}] /\ today' \in 0..MaxAge /\ today <= today'
        /\ serving' \in BOOLEAN /\ sweeping' \in BOOLEAN /\ (serving' => upgraded)
        /\ (sweeping' => (sweeping /\ serving' /\ today' = today))
    BY <2>1, BoundAssumption DEF IInv, TypeOK, Recording
  <2>3. QED
    BY <2>1, <2>2, StagesKeep
<1>12. QED
  BY <1>1, <1>2, <1>3, <1>4, <1>5, <1>6, <1>7, <1>8, <1>9, <1>10, <1>11 DEF Next

LEMMA Invariant == Spec => []IInv
  BY InitInvariant, StepInvariant, PTL DEF Spec

\* The tables hold rows and states of their schema in every reachable state.
THEOREM TypeCorrect == Spec => []TypeOK
<1>1. IInv => TypeOK
  BY DEF IInv
<1>2. QED
  BY <1>1, Invariant, PTL

\* recordRequest and the backfill: a title request recorded after a main request of its prompt is
\* found in the main session unless the lookup's row limits keep the main request out of its reach,
\* and a guardian request in its parent, whatever else writes the tables.
THEOREM AuxiliariesAreMerged == Spec => []AuxiliariesMerged
<1>1. IInv => AuxiliariesMerged
  <2> SUFFICES ASSUME IInv PROVE AuxiliariesMerged
    OBVIOUS
  <2>1. serving => upgraded
    BY DEF IInv, Recording
  <2>2. LateTitleMerged
    BY <2>1 DEF IInv, TitlesMerged, LateTitleMerged
  <2>3. GuardianInParent
    <3> SUFFICES ASSUME NEW r \in Requests, serving, Finished(r), Kind[r] = "guardian"
                 PROVE  row[r].session = Canonical[Key[r]]
      BY DEF GuardianInParent
    <3>1. ~IsTitle(r)
      BY DEF IsTitle
    <3>2. QED
      BY <2>1, <3>1 DEF IInv, Steady, SessionOf
  <2>4. QED
    BY <2>2, <2>3 DEF AuxiliariesMerged
<1>2. QED
  BY <1>1, Invariant, PTL

\* incrementSessionCompactionCount: no merge, cleanup, deletion or crash leaves a session whose
\* count is less than the compactions its log shows.
THEOREM CompactionsAreCounted == Spec => []CompactionsCounted
<1>1. IInv => CompactionsCounted
  BY DEF IInv
<1>2. QED
  BY <1>1, Invariant, PTL

\* Only the user, a deletion, an expiry or the merge of the session itself takes a chosen title away.
THEOREM ChosenTitleIsKept == Spec => ChosenTitleKept
<1> DEFINE Keeps == \A s \in Sessions :
                      (state[s] # None /\ state'[s] # None /\ state[s].custom)
                        => state'[s].custom /\ state'[s].title = "chosen"
<1>1. IInv /\ [Next]_vars => Keeps
  <2> SUFFICES ASSUME IInv, [Next]_vars PROVE Keeps
    OBVIOUS
  <2>0. \A s \in Sessions : (state[s] # None /\ state[s].custom) => state[s].title = "chosen"
    BY DEF IInv, Recording
  <2>1. ASSUME NEW r \in Requests, NEW outcome \in {"success", "failed"}, RecordRequest(r, outcome) PROVE Keeps
    <3>1. TypeOK' /\ \A s \in Sessions : Kept(s)
      BY <2>1, RecordEffect DEF Taken
    <3>2. today' = today
      BY <2>1 DEF RecordRequest
    <3>3. QED
      BY <3>1, <3>2, KeptStates
  <2>2. ASSUME NEW q \in Sessions, RenameSession(q) PROVE Keeps
    BY <2>0, <2>2, RenameKeeps
  <2>3. ASSUME Deletes PROVE Keeps
    <3>1. \A s \in Sessions : state'[s] = state[s] \/ state'[s] = None
      BY <2>3 DEF Deletes
    <3>2. QED
      BY <2>0, <3>1
  <2>4. CASE DeleteHistoricalLogsBefore
    BY <2>3, <2>4, DeleteLogsDeletes
  <2>5. CASE CleanupRows
    BY <2>3, <2>5, CleanupRowsDeletes
  <2>6. CASE CleanupStates
    BY <2>3, <2>6, CleanupStatesDeletes
  <2>7. CASE StartUp
    <3>1. CASE upgraded
      BY <2>3, <2>7, <3>1, StartUpAgainDeletes
    <3>2. CASE ~upgraded
      BY <2>7, <3>2, UpgradeKeeps
    <3>3. QED
      BY <3>1, <3>2
  <2>8. ASSUME state' = state PROVE Keeps
    BY <2>0, <2>8
  <2>9. ASSUME NEW r \in Requests, RecordStarted(r) \/ RecordLost(r) PROVE Keeps
    BY <2>8, <2>9 DEF RecordStarted, RecordLost
  <2>10. CASE Crash \/ GrowOld \/ UNCHANGED vars
    BY <2>8, <2>10 DEF Crash, GrowOld, vars
  <2> HIDE DEF Keeps
  <2>11. QED
    BY <2>1, <2>2, <2>4, <2>5, <2>6, <2>7, <2>9, <2>10 DEF Next
<1>2. QED
  BY <1>1, Invariant, PTL DEF Spec, ChosenTitleKept
=============================================================================

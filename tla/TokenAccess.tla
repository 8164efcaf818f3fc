----------------------------- MODULE TokenAccess -----------------------------
(***************************************************************************)
(* The limits of one API token: ClientAccessService.                       *)
(*                                                                         *)
(* A request authenticates by reading the token row, then acquires a slot  *)
(* under the service's mutex, with the limits it has read; an              *)
(* administrator may change or revoke the row in between.  The slot is     *)
(* released once, when the handler returns.  Requests are counted in a     *)
(* fixed one-minute window that starts with the first grant after the      *)
(* previous one ran out.  Windows of different tokens are independent, and *)
(* a restarted gateway starts with none.                                   *)
(***************************************************************************)
EXTENDS Integers, FiniteSets

CONSTANTS
  Requests,           \* handlers that may run together
  RpmLimits,          \* values of client_tokens.rpm; 0 is unlimited
  ConcurrencyLimits,  \* values of client_tokens.max_concurrency, likewise
  Minute,             \* the length of a window in clock ticks
  MaxGrants           \* bound of the model: grants in one window

ASSUME RequestsAssumption == IsFiniteSet(Requests)
ASSUME LimitsAssumption   == RpmLimits \subseteq Nat /\ ConcurrencyLimits \subseteq Nat
ASSUME MinuteAssumption   == Minute \in Nat \ {0}
ASSUME GrantsAssumption   == MaxGrants \in Nat

VARIABLES
  token,    \* the row: enabled and its two limits
  handler,  \* each handler: "idle", "authenticated" or "running"
  limits,   \* the limits each handler has read; NoLimits while it is idle
  window,   \* tokenWindow; an age of Minute stands for none or an expired one
  recent    \* history: the grants of the last Minute ticks, newest first

accessVars == <<token, handler, limits, window, recent>>

-----------------------------------------------------------------------------
LimitPairs == [rpm : RpmLimits, concurrency : ConcurrencyLimits]
NoLimits   == [rpm |-> 0, concurrency |-> 0]

Running == {r \in Requests : handler[r] = "running"}

\* The window after the expiry check of Acquire.
CurrentAge      == IF window.age >= Minute THEN 0 ELSE window.age
CurrentRequests == IF window.age >= Minute THEN 0 ELSE window.requests

\* Mutants: one request too many.
RateExceededLate(r)        == limits[r].rpm > 0 /\ CurrentRequests > limits[r].rpm
ConcurrencyExceededLate(r) == /\ limits[r].concurrency > 0
                              /\ window.active > limits[r].concurrency

RateExceeded(r)        == limits[r].rpm > 0 /\ CurrentRequests >= limits[r].rpm
ConcurrencyExceeded(r) == /\ limits[r].concurrency > 0
                          /\ window.active >= limits[r].concurrency

BecomeIdle(r) == /\ handler' = [handler EXCEPT ![r] = "idle"]
                 /\ limits' = [limits EXCEPT ![r] = NoLimits]

Authenticate(r) ==
  /\ handler[r] = "idle"
  /\ token.enabled
  /\ handler' = [handler EXCEPT ![r] = "authenticated"]
  /\ limits' = [limits EXCEPT ![r] = [rpm |-> token.rpm, concurrency |-> token.concurrency]]
  /\ UNCHANGED <<token, window, recent>>

Acquire(r) ==
  /\ handler[r] = "authenticated"
  /\ ~RateExceeded(r)
  /\ ~ConcurrencyExceeded(r)
  /\ CurrentRequests < MaxGrants
  /\ window' = [age |-> CurrentAge, requests |-> CurrentRequests + 1,
                active |-> window.active + 1]
  /\ handler' = [handler EXCEPT ![r] = "running"]
  /\ recent' = [i \in {1} \cup {j + 1 : j \in DOMAIN recent} |->
                  IF i = 1 THEN [ago |-> 0, rpm |-> limits[r].rpm] ELSE recent[i - 1]]
  /\ UNCHANGED <<token, limits>>

\* A refused request stores nothing, not even the new start of an expired
\* window.
Refuse(r) ==
  /\ handler[r] = "authenticated"
  /\ RateExceeded(r) \/ ConcurrencyExceeded(r)
  /\ BecomeIdle(r)
  /\ UNCHANGED <<token, window, recent>>

\* The deferred release; sync.Once makes further calls do nothing.
Release(r) ==
  /\ handler[r] = "running"
  /\ BecomeIdle(r)
  /\ window' = [window EXCEPT !.active = IF @ > 0 THEN @ - 1 ELSE @]
  /\ UNCHANGED <<token, recent>>

\* UpdateLimits, and DeleteToken as a row that is never enabled again.
UpdateLimits(enabled, pair) ==
  /\ token' = [enabled |-> enabled, rpm |-> pair.rpm, concurrency |-> pair.concurrency]
  /\ UNCHANGED <<handler, limits, window, recent>>

StillRecent == {i \in DOMAIN recent : recent[i].ago + 1 < Minute}

MinuteTick ==
  /\ window' = [window EXCEPT !.age = IF @ < Minute THEN @ + 1 ELSE @]
  /\ recent' = [i \in StillRecent |-> [ago |-> recent[i].ago + 1, rpm |-> recent[i].rpm]]
  /\ UNCHANGED <<token, handler, limits>>

-----------------------------------------------------------------------------
AccessInit ==
  /\ token \in [enabled : {TRUE}, rpm : RpmLimits, concurrency : ConcurrencyLimits]
  /\ limits = [r \in Requests |-> NoLimits]
  /\ handler = [r \in Requests |-> "idle"]
  /\ window = [age |-> Minute, requests |-> 0, active |-> 0]
  /\ recent = [i \in {} |-> [ago |-> 0, rpm |-> 0]]

AccessNext ==
  \/ \E r \in Requests : Authenticate(r) \/ Acquire(r) \/ Refuse(r) \/ Release(r)
  \/ \E enabled \in BOOLEAN, pair \in LimitPairs : UpdateLimits(enabled, pair)
  \/ MinuteTick

AccessSpec == AccessInit /\ [][AccessNext]_accessVars

-----------------------------------------------------------------------------
(* Properties. *)

SlotTypeOK ==
  /\ token \in [enabled : BOOLEAN, rpm : RpmLimits, concurrency : ConcurrencyLimits]
  /\ handler \in [Requests -> {"idle", "authenticated", "running"}]
  /\ limits \in [Requests -> LimitPairs \cup {NoLimits}]
  /\ window \in [age : 0 .. Minute, requests : Nat, active : Nat]

\* No slot leaks and none is given back twice: the counter is the number of
\* handlers that hold one.
ActiveCounted == window.active = Cardinality(Running)

RunningUnder(k) == {r \in Running : limits[r].concurrency \in 1 .. k}

\* Whatever happened to the row since, at most k handlers run that were
\* admitted under a concurrency limit of k or less.
ConcurrencyWithinLimit ==
  \A k \in ConcurrencyLimits : Cardinality(RunningUnder(k)) <= k

GrantsUnder(k, age) ==
  {i \in DOMAIN recent : recent[i].rpm \in 1 .. k /\ recent[i].ago <= age}

\* One window grants at most k requests under a rate limit of k or less; and any minute,
\* wherever it begins, at most twice as many: it overlaps at most two windows.
RateOverAnyMinute ==
  \A k \in RpmLimits :
    /\ window.age < Minute => Cardinality(GrantsUnder(k, window.age)) <= k
    /\ Cardinality(GrantsUnder(k, Minute)) <= 2 * k
=============================================================================

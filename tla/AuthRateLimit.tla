--------------------------- MODULE AuthRateLimit ---------------------------
(***************************************************************************)
(* The limit on password attempts: the rows of `auth_rate_limits` and the  *)
(* statements on them (db.ts), the helpers of auth-rate-limit.ts, and the  *)
(* two handlers that use them, handleLogin (router.ts) and authenticate    *)
(* (share-public-routes.ts).  Before it verifies a password a handler      *)
(* reserves every key of the attempt; a reservation lasts a while, and a   *)
(* slow handler goes on after it has run out.                              *)
(*                                                                         *)
(* All keys are those of one client address.  Times are relative to the    *)
(* present: Tick lowers them all by a second, down to a floor below which  *)
(* no statement tells two times apart, so no bound on the number of        *)
(* attempts or on the clock is needed.  A handler reads the clock before   *)
(* it sends a statement, and `lag` is how old its reading is by then.      *)
(***************************************************************************)
EXTENDS Integers, Sequences, FiniteSets

CONSTANTS
  Requests,     \* handlers
  Scopes,       \* what they handle in one behaviour: sets of kinds
  MaxFailures,  \* policy.maxFailures, by scope
  Window,       \* policy.windowSeconds
  Reservation,  \* RESERVATION_SECONDS
  MaxBackoff,   \* MAX_BACKOFF_SECONDS
  Retention,    \* the age at which a login deletes rows
  MaxDelay,     \* bound: seconds until a statement that was sent runs
  MaxFaults     \* bound on evictions and failed statements

\* A login as the administrator, as somebody else, and a share's password.
AllKinds == {"login", "stranger", "share"}
KeysOf(kind) ==
  CASE kind = "login"    -> <<"ip", "admin">>
    [] kind = "stranger" -> <<"ip", "other">>
    [] kind = "share"    -> <<"share">>
AllOf(kind) == {KeysOf(kind)[i] : i \in DOMAIN KeysOf(kind)}
Kinds == UNION Scopes
Keys == UNION {AllOf(kind) : kind \in Kinds}

ASSUME ScopesAssumption == Scopes \subseteq SUBSET AllKinds
ASSUME MaxFailuresAssumption == MaxFailures \in [Keys -> Nat \ {0}]
ASSUME TimesAssumption ==
  /\ Window \in Nat \ {0} /\ Reservation \in Nat \ {0} /\ MaxBackoff \in Nat \ {0}
  /\ MaxDelay \in Nat
  /\ Retention \in Nat /\ Retention >= Reservation /\ Retention >= Window + 2 * MaxDelay
ASSUME FaultsAssumption == MaxFaults \in Nat
ASSUME TokensAssumption == {"none", "gone"} \cap Requests = {}

VARIABLES row, slot, faults,
  scope,  \* the kinds of requests there are
  lease,  \* how long each handler's reservation of a key is still in force
  book    \* the wrong answers given in time since a window opened

vars == <<row, slot, faults, scope, lease, book>>

\* The floors: what a column may be that is over by any clock reading.
Over == -MaxDelay
WindowOver == -(Window + MaxDelay)
Ancient == -(Retention + MaxDelay + 1)
Later(a, b) == IF a > b THEN a ELSE b
Aged(x, floor) == Later(x - 1, floor)

\* A row's token is the handler's whose attempt made it up, "none" for NULL
\* and "gone" once nobody remembers it.
Rows ==
  [present : BOOLEAN, started : WindowOver..0, count : Nat, blocked : Over..MaxBackoff,
   token : Requests \cup {"none", "gone"}, until : Over..Reservation, updated : Ancient..0]
NoRow ==
  [present |-> FALSE, started |-> WindowOver, count |-> 0, blocked |-> Over,
   token |-> "none", until |-> Over, updated |-> Ancient]

Phases == {"idle", "reserve", "read", "verify", "upgrade", "record", "clear", "release", "admit"}
Timed == {"reserve", "record", "admit"}  \* a statement with a clock reading is on its way
Idle ==
  [pc |-> "idle", kind |-> "none", at |-> 1, lag |-> 0, rel |-> {},
   again |-> FALSE]
Slots ==
  [pc : Phases, kind : Kinds \cup {"none"}, at : 1..2, lag : 0..MaxDelay,
   rel : SUBSET Keys, again : BOOLEAN]

NoLease == [k \in Keys |-> 0]
NoBook == [since |-> WindowOver, told |-> 0]

TypeOK ==
  /\ row \in [Keys -> Rows]
  /\ slot \in [Requests -> Slots]
  /\ faults \in 0..MaxFaults
  /\ scope \in Scopes
  /\ lease \in [Requests -> [Keys -> 0..Reservation]]
  /\ book \in [Keys -> [since : WindowOver..0, told : Nat]]

Init ==
  /\ row = [k \in Keys |-> NoRow]
  /\ slot = [r \in Requests |-> Idle]
  /\ faults = 0
  /\ scope \in Scopes
  /\ lease = [r \in Requests |-> NoLease]
  /\ book = [k \in Keys |-> NoBook]

-----------------------------------------------------------------------------
(* The statements, as guards and resulting rows; `t` is the handler's clock *)
(* reading.                                                                 *)

WindowEnded(w, t) == t >= w.started + Window

\* Mutants: the upsert forgets the reservation of another handler; or that it runs out.
ReservableTwice(k, t) ==
  LET w == row[k]
  IN  ~w.present \/ WindowEnded(w, t) \/ (w.count < MaxFailures[k] /\ w.blocked <= t)
ReservableUnlessHeld(k, t) ==
  LET w == row[k]
  IN  \/ ~w.present
      \/ /\ w.token = "none"
         /\ WindowEnded(w, t) \/ (w.count < MaxFailures[k] /\ w.blocked <= t)

\* reserveAuthRateLimitVerification: the WHERE of its upsert ...
Reservable(k, t) ==
  LET w == row[k]
  IN  \/ ~w.present
      \/ /\ w.until <= t
         /\ \/ WindowEnded(w, t)
            \/ w.count < MaxFailures[k] /\ w.blocked <= t

\* ... and the row it leaves.
Reserved(w, token, t) ==
  LET fresh == ~w.present \/ WindowEnded(w, t)
  IN  [present |-> TRUE, started |-> IF fresh THEN t ELSE w.started,
       count |-> IF fresh THEN 0 ELSE w.count, blocked |-> IF fresh THEN Over ELSE w.blocked,
       token |-> token, until |-> t + Reservation, updated |-> t]

\* MIN(MAX_BACKOFF_SECONDS, 1 << failure_count)
Backoff(n) == IF 2^n \in 1..MaxBackoff THEN 2^n ELSE MaxBackoff

\* recordAuthRateLimitFailure
Recorded(w, t) ==
  LET fresh == WindowEnded(w, t)
  IN  [present |-> TRUE, started |-> IF fresh THEN t ELSE w.started,
       count |-> IF fresh THEN 1 ELSE w.count + 1,
       blocked |-> t + (IF fresh THEN 1 ELSE Backoff(w.count)),
       token |-> "none", until |-> Over, updated |-> t]

\* clearAuthRateLimit
Cleared(w) == NoRow

\* Mutant: releasing a reservation deletes the row.
ReleasedForgetful(w) == NoRow

\* releaseAuthRateLimitVerification
Released(w) == [w EXCEPT !.token = "none", !.until = Over]

\* The rows deleteAuthRateLimitsBefore may delete: the oldest ones first, with a
\* limit, and other clients' rows count.
Outdated(t) == {k \in Keys : row[k].present /\ row[k].updated < t - Retention}

\* The WHERE of the statements that end a reservation.
Owns(r, k) == row[k].present /\ row[k].token = r

\* Mutant: the reservation of another handler is left out.
RetryAtFailures(k, t) ==
  LET w == row[k]
      threshold == IF w.count >= MaxFailures[k] THEN w.started + Window ELSE Over
  IN  Later(t + 1, Later(w.blocked, threshold))

\* assertAuthAllowed: the time it tells a refused client to wait for.
RetryAt(k, t) ==
  LET w == row[k]
      threshold == IF w.count >= MaxFailures[k] THEN w.started + Window ELSE Over
  IN  Later(t + 1, Later(w.blocked, Later(threshold, w.until)))

-----------------------------------------------------------------------------
(* The handlers.                                                            *)

At(r, pc) == slot[r].pc = pc
KeyOf(r) == KeysOf(slot[r].kind)[slot[r].at]
IsLast(r) == slot[r].at = Len(KeysOf(slot[r].kind))
ClockOf(r) == -slot[r].lag

\* The reservation of an attempt whose handler is gone, or never heard of it.
Forgotten(rows, r) == [k \in Keys |-> IF rows[k].token = r
                                        THEN [rows[k] EXCEPT !.token = "gone"] ELSE rows[k]]

\* The handler answers.
End(r, rows) ==
  /\ slot' = [slot EXCEPT ![r] = Idle]
  /\ row' = Forgotten(rows, r)
  /\ lease' = [lease EXCEPT ![r] = NoLease]

Goto(r, s, rows) ==
  /\ slot' = [slot EXCEPT ![r] = s]
  /\ row' = rows
  /\ UNCHANGED lease

\* The next of the attempt's keys, with a new clock reading, or the step after
\* the last one.
Further(r, after) ==
  IF IsLast(r) THEN [slot[r] EXCEPT !.pc = after, !.at = 1, !.lag = 0]
               ELSE [slot[r] EXCEPT !.at = @ + 1, !.lag = 0]

\* An error: the reservations that are left are released, and handleLogin's own
\* catch releases all of them once more.
Remaining(r) == {KeysOf(slot[r].kind)[i] : i \in slot[r].at..Len(KeysOf(slot[r].kind))}
Before(r) == {KeysOf(slot[r].kind)[i] : i \in 1..(slot[r].at - 1)}
Unwind(r, keys, again, rows) ==
  /\ slot' = [slot EXCEPT ![r] = [@ EXCEPT !.pc = "release", !.rel = keys, !.again = again,
                                           !.at = 1, !.lag = 0]]
  /\ row' = rows
  /\ lease' = [lease EXCEPT ![r] = NoLease]
Fails(r, rows) == Unwind(r, Remaining(r), slot[r].kind # "share", rows)

\* Mutant: a refusal for one key keeps the reservations of the others.
RefusesOnly(r, rows) == End(r, rows)

\* A refusal releases what is reserved so far (assertAuthAllowedAll).
Refuses(r, rows) == IF Before(r) = {} THEN End(r, rows) ELSE Unwind(r, Before(r), FALSE, rows)

Put(k, w) == [row EXCEPT ![k] = w]
Fault == faults < MaxFaults /\ faults' = faults + 1

Start(r) ==
  /\ At(r, "idle")
  /\ \E kind \in scope :
       slot' = [slot EXCEPT ![r] = [Idle EXCEPT !.pc = "reserve", !.kind = kind]]
  /\ UNCHANGED <<row, faults, scope, lease, book>>

\* A window opens with a reservation, if none is open.
Opened(b, t) == IF t >= b.since + Window THEN [since |-> t, told |-> 0] ELSE b

\* assertAuthAllowed, for each key in turn (assertAuthAllowedAll).
Reserve(r) ==
  LET k == KeyOf(r)
      t == ClockOf(r)
  IN  /\ At(r, "reserve")
      /\ \/ /\ Reservable(k, t)
            /\ row' = Put(k, Reserved(row[k], r, t))
            /\ slot' = [slot EXCEPT ![r] = Further(r, "verify")]
            /\ lease' = [lease EXCEPT ![r][k] = Later(t + Reservation, 0)]
            /\ book' = [book EXCEPT ![k] = Opened(@, t)]
         \/ /\ ~Reservable(k, t)
            /\ Goto(r, [slot[r] EXCEPT !.pc = "read", !.lag = 0], row)
            /\ UNCHANGED book
      /\ UNCHANGED faults

\* The statement throws, and may have reserved a key for a token nobody knows.
ReserveFails(r) ==
  LET k == KeyOf(r)
      t == ClockOf(r)
  IN  /\ At(r, "reserve")
      /\ Fault
      /\ \/ Refuses(r, row) /\ UNCHANGED book
         \/ /\ Reservable(k, t)
            /\ Refuses(r, Put(k, Reserved(row[k], "gone", t)))
            /\ book' = [book EXCEPT ![k] = Opened(@, t)]

\* The row is read for the time to wait, and the client is refused.
Read(r) ==
  /\ At(r, "read")
  /\ Refuses(r, row)
  /\ UNCHANGED <<faults, book>>

\* The password is verified, which takes any time: it is wrong, or right; a share's may
\* have a hash of the old format.
Verdicts(kind) ==
  CASE kind = "login"    -> {"record", "clear"}
    [] kind = "stranger" -> {"record"}
    [] kind = "share"    -> {"record", "upgrade", "clear"}

Verify(r) ==
  /\ At(r, "verify")
  /\ \E pc \in Verdicts(slot[r].kind) : Goto(r, [slot[r] EXCEPT !.pc = pc], row)
  /\ UNCHANGED <<faults, book>>

\* The verification throws: handleLogin and authenticate release everything.
VerifyFails(r) ==
  /\ At(r, "verify") /\ Fault
  /\ Unwind(r, Remaining(r), FALSE, row)
  /\ UNCHANGED book

\* authenticate stores the password under a new hash, unless the share has
\* another password by now.
Upgrade(r) ==
  /\ At(r, "upgrade")
  /\ \/ Goto(r, [slot[r] EXCEPT !.pc = "clear"], row)
     \/ Unwind(r, Remaining(r), FALSE, row)
  /\ UNCHANGED <<faults, book>>

\* The book counts the wrong passwords found while the reservation is in force, and
\* those found later that the row counts.
Booked(r, k, t) ==
  IF lease[r][k] > 0 \/ Owns(r, k) THEN LET b == Opened(book[k], t) IN [b EXCEPT !.told = @ + 1]
                     ELSE book[k]

\* recordAuthFailure, for each key in turn (recordAuthFailures); it does not matter
\* whether a row was there.
Record(r) ==
  LET k == KeyOf(r)
      t == ClockOf(r)
      rows == IF Owns(r, k) THEN Put(k, Recorded(row[k], t)) ELSE row
  IN  /\ At(r, "record")
      /\ book' = [book EXCEPT ![k] = Booked(r, k, t)]
      /\ IF IsLast(r) THEN End(r, rows)
         ELSE /\ row' = rows
              /\ slot' = [slot EXCEPT ![r] = Further(r, "record")]
              /\ lease' = [lease EXCEPT ![r][k] = 0]
      /\ UNCHANGED faults

RecordFails(r) ==
  /\ At(r, "record") /\ Fault
  /\ \/ Fails(r, row) /\ UNCHANGED book
     \/ LET k == KeyOf(r)
        IN  /\ Owns(r, k)
            /\ Fails(r, Put(k, Recorded(row[k], ClockOf(r))))
            /\ book' = [book EXCEPT ![k] = Booked(r, k, ClockOf(r))]

\* clearAuthFailures, for each key in turn (clearAuthFailureContexts).  A handler
\* that lost its reservation is refused.
Clear(r) ==
  LET k == KeyOf(r)
  IN  /\ At(r, "clear")
      /\ \/ /\ Owns(r, k)
            /\ row' = Put(k, Cleared(row[k]))
            /\ slot' = [slot EXCEPT ![r] = Further(r, "admit")]
            /\ lease' = [lease EXCEPT ![r][k] = 0]
            /\ book' = [book EXCEPT ![k] = NoBook]
         \/ ~Owns(r, k) /\ Fails(r, row) /\ UNCHANGED book
      /\ UNCHANGED faults

ClearFails(r) ==
  LET k == KeyOf(r)
  IN  /\ At(r, "clear") /\ Fault
      /\ \/ Fails(r, row) /\ UNCHANGED book
         \/ /\ Owns(r, k)
            /\ Fails(r, Put(k, Cleared(row[k])))
            /\ book' = [book EXCEPT ![k] = NoBook]

\* releaseAuthReservationSafely, for several keys in any order.
AfterRelease(r, k, rows) ==
  LET left == slot[r].rel \ {k}
  IN  IF left # {} THEN Goto(r, [slot[r] EXCEPT !.rel = left], rows)
      ELSE IF slot[r].again
           THEN Goto(r, [slot[r] EXCEPT !.rel = AllOf(slot[r].kind), !.again = FALSE], rows)
           ELSE End(r, rows)

Release(r) ==
  /\ At(r, "release")
  /\ \E k \in slot[r].rel :
       AfterRelease(r, k, IF Owns(r, k) THEN Put(k, Released(row[k])) ELSE row)
  /\ UNCHANGED <<faults, book>>

\* The statement throws, which is ignored.
ReleaseFails(r) ==
  /\ At(r, "release") /\ Fault
  /\ \E k \in slot[r].rel : AfterRelease(r, k, row)
  /\ UNCHANGED book

\* handleLogin deletes old rows and creates a session; authenticate signs a cookie.
Admit(r) ==
  /\ At(r, "admit")
  /\ \E old \in SUBSET Outdated(ClockOf(r)) :
       /\ slot[r].kind = "share" => old = {}
       /\ End(r, [k \in Keys |-> IF k \in old THEN NoRow ELSE row[k]])
  /\ UNCHANGED <<faults, book>>

\* The worker is evicted.
Evict(r) ==
  /\ ~At(r, "idle") /\ Fault
  /\ End(r, row)
  /\ UNCHANGED book

\* A second passes.
Older(w) ==
  [w EXCEPT !.started = Aged(@, WindowOver), !.blocked = Aged(@, Over),
            !.until = Aged(@, Over), !.updated = Aged(@, Ancient)]
Tick ==
  /\ \A r \in Requests : slot[r].pc \in Timed => slot[r].lag < MaxDelay
  /\ row' = [k \in Keys |-> Older(row[k])]
  /\ slot' = [r \in Requests |-> IF slot[r].pc \in Timed THEN [slot[r] EXCEPT !.lag = @ + 1]
                                                         ELSE slot[r]]
  /\ lease' = [r \in Requests |-> [k \in Keys |-> Aged(lease[r][k], 0)]]
  /\ book' = [k \in Keys |-> [book[k] EXCEPT !.since = Aged(@, WindowOver)]]
  /\ UNCHANGED <<faults, scope>>

Step(r) ==
  /\ \/ Reserve(r) \/ Read(r) \/ Verify(r) \/ Upgrade(r) \/ Record(r) \/ Clear(r) \/ Release(r)
     \/ Admit(r)
  /\ UNCHANGED scope
Failure(r) ==
  /\ \/ ReserveFails(r) \/ VerifyFails(r) \/ RecordFails(r) \/ ClearFails(r) \/ ReleaseFails(r)
     \/ Evict(r)
  /\ UNCHANGED scope

Next ==
  Tick \/ \E r \in Requests : Start(r) \/ Step(r) \/ Failure(r)

\* A handler that is not evicted goes on, and time passes.
Spec ==
  /\ Init /\ [][Next]_vars
  /\ WF_vars(Tick)
  /\ \A r \in Requests : WF_vars(Step(r))

-----------------------------------------------------------------------------
(* Properties.                                                              *)

\* Two handlers never verify passwords for one key at a time, as long as their
\* reservations are in force (reserveAuthRateLimitVerification).
OneVerificationAtATime ==
  \A r, s \in Requests : \A k \in Keys :
    lease[r][k] > 0 /\ lease[s][k] > 0 => r = s

\* Within a window no more wrong passwords are found out, by handlers in time, than
\* the policy allows; only the right password opens a new window early.
GuessesWithinLimit == \A k \in Keys : book[k].told <= MaxFailures[k]

\* Without an eviction or a failed statement no reservation is left behind: each one
\* belongs to an attempt that still needs it, and is not kept by a refusal for another
\* key.
NoReservationLeftBehind ==
  faults = 0 => \A k \in Keys : row[k].token # "gone"

\* A client that waits as long as a refusal says is not refused again, unless somebody
\* else tried meanwhile (assertAuthAllowed computes the time, the upsert decides).
RetryAfterIsEnough ==
  \A r \in Requests : slot[r].pc \in {"reserve", "read"} =>
    Reservable(KeyOf(r), RetryAt(KeyOf(r), ClockOf(r)))

\* Nobody is locked out for good: a client that asks again and again, from some time on
\* alone and with the right password (whose hash has the new format), is admitted again
\* and again, whatever reservations, failures and backoff there were before.
AsksAlone(r, kind) ==
  /\ []<>At(r, "reserve")
  /\ <>[](\A s \in Requests :
            ~At(s, "idle") => s = r /\ slot[s].kind = kind /\ slot[s].pc \notin {"record", "upgrade"})
NobodyLockedOut ==
  \A r \in Requests : \A kind \in Kinds \ {"stranger"} :
    AsksAlone(r, kind) => []<>At(r, "admit")
=============================================================================

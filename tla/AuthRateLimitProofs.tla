------------------------ MODULE AuthRateLimitProofs ------------------------
(***************************************************************************)
(* The invariants of AuthRateLimit, for every set of handlers and kinds of *)
(* attempts, every policy, and every number of faults.                     *)
(***************************************************************************)
EXTENDS AuthRateLimit, TLAPS

-----------------------------------------------------------------------------
(* The inductive invariant.                                                 *)

Books == [since : WindowOver..0, told : Nat]

\* A handler at work has a kind and a position among its keys.
SlotFacts(s) ==
  s.pc # "idle" => /\ s.kind \in Kinds /\ s.at <= Len(KeysOf(s.kind))
                   /\ s.pc \in {"verify", "upgrade"} => s.at = 1

\* The book's window is the row's, and counts what the row counts; a reserved row has
\* room for one more failure; a row that is gone had no open window.
RowFacts(k, w, b) ==
  /\ w.present => b.since = w.started /\ b.told <= w.count /\ w.count <= MaxFailures[k]
  /\ w.token # "none" => w.present /\ w.count < MaxFailures[k]
  /\ ~w.present => b.since = WindowOver
  /\ b.told <= MaxFailures[k]
  /\ w.started <= Later(w.updated + MaxDelay, WindowOver)
  /\ w.until <= Later(w.updated + Reservation, Over)

\* A reservation in force is in the row, with the same end.
LeaseFacts(k, w, l, r) == l > 0 => w.present /\ w.token = r /\ w.until = l

\* The keys whose reservation a handler may still have to end.
HeldBy(s) ==
  CASE s.pc \in {"reserve", "read"} -> {KeysOf(s.kind)[i] : i \in 1..(s.at - 1)}
    [] s.pc \in {"verify", "upgrade", "record", "clear"} ->
         {KeysOf(s.kind)[i] : i \in s.at..Len(KeysOf(s.kind))}
    [] s.pc = "release" -> s.rel
    [] OTHER -> {}

SlotInv == \A r \in Requests : SlotFacts(slot[r])
RowInv == \A k \in Keys : RowFacts(k, row[k], book[k])
LeaseInv ==
  \A r \in Requests : \A k \in Keys :
    /\ LeaseFacts(k, row[k], lease[r][k], r)
    /\ slot[r].pc = "release" => lease[r][k] = 0
HeldInv ==
  faults = 0 => \A k \in Keys :
    /\ row[k].token # "gone"
    /\ \A r \in Requests : row[k].token = r => k \in HeldBy(slot[r])

Inv == TypeOK /\ SlotInv /\ RowInv /\ LeaseInv /\ HeldInv

-----------------------------------------------------------------------------
(* Facts about the constants.                                               *)

\* An attempt has one or two keys, all of them keys of the table.
LEMMA KeysFacts ==
  \A kind \in Kinds :
    /\ Len(KeysOf(kind)) \in 1..2
    /\ \A i \in 1..Len(KeysOf(kind)) : KeysOf(kind)[i] \in Keys
    /\ AllOf(kind) = {KeysOf(kind)[i] : i \in 1..Len(KeysOf(kind))}
    /\ AllOf(kind) \subseteq Keys
<1> SUFFICES ASSUME NEW kind \in Kinds
             PROVE  /\ Len(KeysOf(kind)) \in 1..2
                    /\ \A i \in 1..Len(KeysOf(kind)) : KeysOf(kind)[i] \in Keys
                    /\ AllOf(kind) = {KeysOf(kind)[i] : i \in 1..Len(KeysOf(kind))}
                    /\ AllOf(kind) \subseteq Keys
  OBVIOUS
<1>1. kind \in {"login", "stranger", "share"}
  BY ScopesAssumption DEF Kinds, AllKinds
<1>2. /\ Len(KeysOf(kind)) \in 1..2
      /\ DOMAIN KeysOf(kind) = 1..Len(KeysOf(kind))
  <2>1. CASE kind = "login"    BY <2>1 DEF KeysOf
  <2>2. CASE kind = "stranger" BY <2>2 DEF KeysOf
  <2>3. CASE kind = "share"    BY <2>3 DEF KeysOf
  <2> QED BY <1>1, <2>1, <2>2, <2>3
<1>3. AllOf(kind) \subseteq Keys
  BY DEF Keys
<1>4. AllOf(kind) = {KeysOf(kind)[i] : i \in 1..Len(KeysOf(kind))}
  BY <1>2 DEF AllOf
<1> QED BY <1>2, <1>3, <1>4

\* Nobody is called "none" or "gone".
LEMMA TokenNames == \A r \in Requests : r # "none" /\ r # "gone"
BY TokensAssumption

\* The backoff is at least one second and at most MAX_BACKOFF_SECONDS.
LEMMA BackoffRange == \A n : Backoff(n) \in 1..MaxBackoff
BY TimesAssumption DEF Backoff

-----------------------------------------------------------------------------
(* What a statement does to one key.                                        *)

\* The row and the book a statement of handler r leaves for key k: nothing, or one of
\* the five statements.
Statement(r, k, w, b) ==
  \/ w = row[k] /\ b = book[k]
  \/ \E t \in Over..0, token \in {r, "gone"} :
       Reservable(k, t) /\ w = Reserved(row[k], token, t) /\ b = Opened(book[k], t)
  \/ \E t \in Over..0 :
       Owns(r, k) /\ w = Recorded(row[k], t) /\ b = [Opened(book[k], t) EXCEPT !.told = @ + 1]
  \/ Owns(r, k) /\ w = Cleared(row[k]) /\ b = NoBook
  \/ Owns(r, k) /\ w = Released(row[k]) /\ b = book[k]
  \/ \E t \in Over..0 : k \in Outdated(t) /\ w = NoRow /\ b = book[k]

\* The same, and the handler may forget its token afterwards.
Effect(r, k, w, b) ==
  \/ Statement(r, k, w, b)
  \/ \E v : Statement(r, k, v, b) /\ v.token = r /\ w = [v EXCEPT !.token = "gone"]

\* What is so of a key after an effect of r.
Sound(r, k, w, b) ==
  /\ w \in Rows /\ b \in Books /\ RowFacts(k, w, b)
  /\ w.token \in {row[k].token, r, "none", "gone"}
  /\ \A s \in Requests \ {r} : lease[s][k] > 0 => w = row[k]

\* Each statement keeps the row and the book together, and leaves other handlers'
\* reservations alone while they are in force.
LEMMA StatementSound ==
  ASSUME Inv, NEW r \in Requests, NEW k \in Keys, NEW w, NEW b, Statement(r, k, w, b)
  PROVE  Sound(r, k, w, b)
<1> DEFINE v == row[k]
           c == book[k]
<1>1. v \in Rows /\ c \in Books /\ RowFacts(k, v, c)
  BY DEF Inv, TypeOK, RowInv, Books
<1>2. \A s \in Requests : lease[s][k] \in Nat /\ LeaseFacts(k, v, lease[s][k], s)
  BY TimesAssumption DEF Inv, TypeOK, LeaseInv
<1>3. MaxFailures[k] \in Nat \ {0}
  BY MaxFailuresAssumption
<1>4. CASE w = v /\ b = c
  BY <1>1, <1>4 DEF Sound
<1>5. ASSUME NEW t \in Over..0, NEW token \in {r, "gone"},
             Reservable(k, t), w = Reserved(v, token, t), b = Opened(c, t)
      PROVE  Sound(r, k, w, b)
  <2>1. w \in Rows /\ b \in Books
    BY <1>1, <1>5, TimesAssumption DEF Reserved, Opened, Rows, Books, Over, WindowOver, Ancient
  <2>2. RowFacts(k, w, b)
    <3>1. CASE ~v.present \/ WindowEnded(v, t)
      <4>1. t >= c.since + Window
        BY <1>1, <3>1, TimesAssumption DEF RowFacts, WindowEnded, Books, Rows, WindowOver, Over
      <4>2. b = [since |-> t, told |-> 0]
        BY <1>5, <4>1 DEF Opened
      <4>3. /\ w.present /\ w.started = t /\ w.count = 0 /\ w.until = t + Reservation
            /\ w.updated = t
        BY <1>5, <3>1 DEF Reserved
      <4> HIDE DEF v, c
      <4> QED
        BY <1>3, <4>2, <4>3, TimesAssumption
           DEF RowFacts, Later, Over, WindowOver
    <3>2. CASE v.present /\ ~WindowEnded(v, t)
      <4>1. v.count < MaxFailures[k]
        BY <1>5, <3>2 DEF Reservable
      <4>2. b = c
        BY <1>1, <1>5, <3>2 DEF Opened, RowFacts, WindowEnded
      <4>3. /\ w.present /\ w.started = v.started /\ w.count = v.count
            /\ w.until = t + Reservation /\ w.updated = t
        BY <1>5, <3>2 DEF Reserved
      <4> HIDE DEF v, c
      <4> QED
        BY <1>1, <1>3, <3>2, <4>1, <4>2, <4>3, TimesAssumption
           DEF RowFacts, Later, Over, WindowOver, Rows, Books
    <3> QED BY <3>1, <3>2
  <2>3. \A s \in Requests : ~(lease[s][k] > 0)
    BY <1>1, <1>2, <1>5, TimesAssumption
       DEF LeaseFacts, Reservable, WindowEnded, Rows, Over
  <2>4. w.token \in {r, "gone"}
    BY <1>5 DEF Reserved
  <2> QED BY <2>1, <2>2, <2>3, <2>4 DEF Sound
<1>6. ASSUME NEW t \in Over..0, Owns(r, k), w = Recorded(v, t),
             b = [Opened(c, t) EXCEPT !.told = @ + 1]
      PROVE  Sound(r, k, w, b)
  <2>1. v.present /\ v.token = r /\ v.token # "none"
    BY <1>6, TokenNames DEF Owns
  <2>2. v.count < MaxFailures[k] /\ c.since = v.started /\ c.told <= v.count
    BY <1>1, <2>1 DEF RowFacts
  <2>3. Backoff(v.count) \in 1..MaxBackoff
    BY BackoffRange
  <2>4. w \in Rows /\ b \in Books
    BY <1>1, <1>6, <2>3, TimesAssumption
       DEF Recorded, Opened, Rows, Books, Over, WindowOver, Ancient
  <2>5. RowFacts(k, w, b)
    <3>1. /\ w.present /\ w.token = "none" /\ w.until = Over /\ w.updated = t
          /\ w.started = IF WindowEnded(v, t) THEN t ELSE v.started
          /\ w.count = IF WindowEnded(v, t) THEN 1 ELSE v.count + 1
      BY <1>6 DEF Recorded
    <3>2. /\ b.since = IF WindowEnded(v, t) THEN t ELSE v.started
          /\ b.told = IF WindowEnded(v, t) THEN 1 ELSE c.told + 1
      BY <1>1, <1>6, <2>2 DEF Opened, WindowEnded, Books
    <3> HIDE DEF v, c
    <3> QED
      BY <1>1, <1>3, <2>2, <3>1, <3>2, TimesAssumption
         DEF RowFacts, Later, Over, WindowOver, Rows, Books
  <2>6. \A s \in Requests \ {r} : ~(lease[s][k] > 0)
    BY <1>2, <2>1 DEF LeaseFacts
  <2> QED BY <2>4, <2>5, <2>6, <1>6 DEF Sound, Recorded
<1>7. CASE Owns(r, k) /\ w = Cleared(v) /\ b = NoBook
  <2>1. NoRow \in Rows /\ NoBook \in Books
    BY TimesAssumption DEF NoRow, Rows, NoBook, Books, Over, WindowOver, Ancient
  <2>2. RowFacts(k, NoRow, NoBook)
    BY <1>3, TimesAssumption DEF RowFacts, NoRow, NoBook, Later, Over, WindowOver, Ancient
  <2>3. \A s \in Requests \ {r} : ~(lease[s][k] > 0)
    BY <1>2, <1>7 DEF LeaseFacts, Owns
  <2> QED BY <1>7, <2>1, <2>2, <2>3 DEF Sound, Cleared, NoRow
<1>8. CASE Owns(r, k) /\ w = Released(v) /\ b = c
  <2>1. w \in Rows
    <3>1. Over \in Over..Reservation
      BY TimesAssumption DEF Over
    <3>2. [v EXCEPT !.token = "none", !.until = Over] \in Rows
      <4> HIDE DEF v
      <4> QED BY <1>1, <3>1 DEF Rows
    <3> QED BY <1>8, <3>2 DEF Released
  <2>2. RowFacts(k, w, b)
    BY <1>1, <1>8, TimesAssumption DEF RowFacts, Released, Later, Over, Rows
  <2>3. \A s \in Requests \ {r} : ~(lease[s][k] > 0)
    BY <1>2, <1>8 DEF LeaseFacts, Owns
  <2> QED BY <1>1, <1>8, <2>1, <2>2, <2>3 DEF Sound, Released, Rows
<1>9. ASSUME NEW t \in Over..0, k \in Outdated(t), w = NoRow, b = c
      PROVE  Sound(r, k, w, b)
  <2>1. v.present /\ v.updated < -Retention
    BY <1>1, <1>9, TimesAssumption DEF Outdated, Rows, Over
  <2>2. v.started = WindowOver
    BY <1>1, <2>1, TimesAssumption DEF RowFacts, Rows, Later, WindowOver, Ancient
  <2>3. v.until <= 0
    BY <1>1, <2>1, TimesAssumption DEF RowFacts, Rows, Later, Over, Ancient
  <2>4. \A s \in Requests : ~(lease[s][k] > 0)
    BY <1>1, <1>2, <2>3 DEF LeaseFacts, Rows
  <2>5. NoRow \in Rows
    BY TimesAssumption DEF NoRow, Rows, Over, WindowOver, Ancient
  <2>6. RowFacts(k, NoRow, c)
    BY <1>1, <1>3, <2>1, <2>2, TimesAssumption
       DEF RowFacts, NoRow, Books, Rows, Later, Over, WindowOver, Ancient
  <2> QED BY <1>1, <1>9, <2>4, <2>5, <2>6 DEF Sound, NoRow
<1> HIDE DEF v, c
<1> QED BY <1>4, <1>5, <1>6, <1>7, <1>8, <1>9 DEF Statement, v, c

\* Forgetting the token of r keeps all that.
LEMMA EffectSound ==
  ASSUME Inv, NEW r \in Requests, NEW k \in Keys, NEW w, NEW b, Effect(r, k, w, b)
  PROVE  Sound(r, k, w, b)
<1>1. CASE Statement(r, k, w, b)
  BY <1>1, StatementSound
<1>2. ASSUME NEW v, Statement(r, k, v, b), v.token = r, w = [v EXCEPT !.token = "gone"]
      PROVE  Sound(r, k, w, b)
  <2>1. Sound(r, k, v, b)
    BY <1>2, StatementSound
  <2>2. v \in Rows /\ b \in Books /\ RowFacts(k, v, b)
    BY <2>1 DEF Sound
  <2>3. w \in Rows
    BY <1>2, <2>2 DEF Rows
  <2>4. RowFacts(k, w, b)
    BY <1>2, <2>2, TokenNames DEF RowFacts, Rows
  <2>5. \A s \in Requests \ {r} : ~(lease[s][k] > 0)
    <3> SUFFICES ASSUME NEW s \in Requests \ {r}, lease[s][k] > 0 PROVE FALSE
      BY TimesAssumption DEF Inv, TypeOK
    <3>1. v = row[k]
      BY <2>1 DEF Sound
    <3>2. row[k].token = s
      BY DEF Inv, LeaseInv, LeaseFacts
    <3> QED BY <1>2, <3>1, <3>2
  <2>6. w.token = "gone"
    BY <1>2, <2>2 DEF Rows
  <2> QED BY <2>2, <2>3, <2>4, <2>5, <2>6 DEF Sound
<1> QED BY <1>1, <1>2 DEF Effect

-----------------------------------------------------------------------------
(* What a step of one handler has to establish.                             *)

LEMMA StepKeeps ==
  ASSUME Inv, NEW r \in Requests, NEW s, NEW l,
         slot' = [slot EXCEPT ![r] = s], s \in Slots, SlotFacts(s),
         lease' = [lease EXCEPT ![r] = l], l \in [Keys -> 0..Reservation],
         \A k \in Keys : LeaseFacts(k, row'[k], l[k], r) /\ (s.pc = "release" => l[k] = 0),
         row' = [k \in Keys |-> row'[k]], book' = [k \in Keys |-> book'[k]],
         \A k \in Keys : Effect(r, k, row'[k], book'[k]),
         faults' \in 0..MaxFaults, faults <= faults', scope' = scope,
         faults' = 0 => \A k \in Keys : /\ row'[k].token # "gone"
                                        /\ row'[k].token = r => k \in HeldBy(s)
  PROVE  Inv'
<1>1. \A k \in Keys : Sound(r, k, row'[k], book'[k])
  BY EffectSound
<1>2. TypeOK'
  <2>1. row' \in [Keys -> Rows] /\ book' \in [Keys -> Books]
    BY <1>1 DEF Sound
  <2>2. slot' \in [Requests -> Slots] /\ lease' \in [Requests -> [Keys -> 0..Reservation]]
    BY DEF Inv, TypeOK
  <2> QED BY <2>1, <2>2 DEF Inv, TypeOK, Books
<1>3. SlotInv'
  <2> SUFFICES ASSUME NEW q \in Requests PROVE SlotFacts(slot'[q])
    BY DEF SlotInv, SlotFacts
  <2>1. CASE q = r
    BY <2>1 DEF Inv, TypeOK
  <2>2. CASE q # r
    BY <2>2 DEF Inv, TypeOK, SlotInv
  <2> QED BY <2>1, <2>2
<1>4. RowInv'
  <2>1. \A k \in Keys : RowFacts(k, row'[k], book'[k])
    BY <1>1 DEF Sound
  <2> QED BY <2>1 DEF RowInv, RowFacts
<1>5. LeaseInv'
  <2> SUFFICES ASSUME NEW q \in Requests, NEW k \in Keys
               PROVE  /\ LeaseFacts(k, row'[k], lease'[q][k], q)
                      /\ slot'[q].pc = "release" => lease'[q][k] = 0
    BY DEF LeaseInv, LeaseFacts
  <2>1. CASE q = r
    BY <2>1 DEF Inv, TypeOK
  <2>2. CASE q # r
    <3>1. lease'[q][k] = lease[q][k] /\ slot'[q] = slot[q]
      BY <2>2 DEF Inv, TypeOK
    <3>2. lease[q][k] > 0 => row'[k] = row[k]
      BY <1>1, <2>2 DEF Sound
    <3>3. LeaseFacts(k, row[k], lease[q][k], q) /\ (slot[q].pc = "release" => lease[q][k] = 0)
      BY DEF Inv, LeaseInv
    <3> QED BY <3>1, <3>2, <3>3 DEF LeaseFacts
  <2> QED BY <2>1, <2>2
<1>6. HeldInv'
  <2> SUFFICES ASSUME faults' = 0, NEW k \in Keys
               PROVE  /\ row'[k].token # "gone"
                      /\ \A q \in Requests : row'[k].token = q => k \in HeldBy(slot'[q])
    BY DEF HeldInv, HeldBy
  <2>1. faults = 0
    BY FaultsAssumption DEF Inv, TypeOK
  <2>2. ASSUME NEW q \in Requests, row'[k].token = q
        PROVE  k \in HeldBy(slot'[q])
    <3>1. CASE q = r
      BY <2>2, <3>1 DEF Inv, TypeOK
    <3>2. CASE q # r
      <4>1. row[k].token = q
        BY <1>1, <2>2, <3>2, TokenNames DEF Sound
      <4>2. slot'[q] = slot[q]
        BY <3>2 DEF Inv, TypeOK
      <4>3. k \in HeldBy(slot[q])
        BY <2>1, <4>1 DEF Inv, HeldInv
      <4> QED BY <4>2, <4>3
    <3> QED BY <3>1, <3>2
  <2> QED BY <2>2
<1> QED BY <1>2, <1>3, <1>4, <1>5, <1>6 DEF Inv

\* What an action that leaves `rows` and the book has to establish.
Moves(r, rows) ==
  /\ rows = [k \in Keys |-> rows[k]] /\ book' = [k \in Keys |-> book'[k]]
  /\ \A k \in Keys : Statement(r, k, rows[k], book'[k])
  /\ faults' \in 0..MaxFaults /\ faults <= faults' /\ scope' = scope

\* Without a fault so far, the handler's reservations are among `keys`.
Among(r, rows, keys) ==
  faults' = 0 => \A k \in Keys : rows[k].token # "gone" /\ (rows[k].token = r => k \in keys)

LEMMA EndKeeps ==
  ASSUME Inv, NEW r \in Requests, NEW rows, End(r, rows), Moves(r, rows), Among(r, rows, {})
  PROVE  Inv'
<1>1. Idle \in Slots /\ SlotFacts(Idle) /\ HeldBy(Idle) = {} /\ Idle.pc = "idle"
  BY TimesAssumption DEF Idle, Slots, Phases, SlotFacts, HeldBy
<1>2. NoLease \in [Keys -> 0..Reservation] /\ \A k \in Keys : NoLease[k] = 0
  BY TimesAssumption DEF NoLease
<1>3. ASSUME NEW k \in Keys
      PROVE  Effect(r, k, row'[k], book'[k]) /\ LeaseFacts(k, row'[k], NoLease[k], r)
  <2>1. row'[k] = IF rows[k].token = r THEN [rows[k] EXCEPT !.token = "gone"] ELSE rows[k]
    BY DEF End, Forgotten
  <2>2. Statement(r, k, rows[k], book'[k])
    BY DEF Moves
  <2> QED BY <1>2, <2>1, <2>2 DEF Effect, LeaseFacts
<1>4. row' = [k \in Keys |-> row'[k]]
  BY DEF End, Forgotten
<1>5. faults' = 0 => \A k \in Keys : row'[k].token # "gone" /\ row'[k].token # r
  BY DEF End, Forgotten, Among
<1>6. /\ slot' = [slot EXCEPT ![r] = Idle] /\ lease' = [lease EXCEPT ![r] = NoLease]
      /\ book' = [k \in Keys |-> book'[k]]
      /\ faults' \in 0..MaxFaults /\ faults <= faults' /\ scope' = scope
  BY DEF End, Moves
<1> QED BY <1>1, <1>2, <1>3, <1>4, <1>5, <1>6, StepKeeps

LEMMA UnwindKeeps ==
  ASSUME Inv, NEW r \in Requests, NEW rows, NEW keys \in SUBSET Keys, NEW again \in BOOLEAN,
         ~At(r, "idle"), Unwind(r, keys, again, rows), Moves(r, rows), Among(r, rows, keys)
  PROVE  Inv'
<1> DEFINE s == [slot[r] EXCEPT !.pc = "release", !.rel = keys, !.again = again,
                                !.at = 1, !.lag = 0]
<1>1. slot[r] \in Slots /\ slot[r].kind \in Kinds
  BY DEF Inv, TypeOK, SlotInv, SlotFacts, At
<1>2. s \in Slots /\ s.pc = "release" /\ s.rel = keys /\ s.kind = slot[r].kind /\ s.at = 1
  <2>1. 1 \in 1..2 /\ 0 \in 0..MaxDelay /\ "release" \in Phases
    BY TimesAssumption DEF Phases
  <2>2. ASSUME NEW x \in Slots
        PROVE  LET y == [x EXCEPT !.pc = "release", !.rel = keys, !.again = again,
                                  !.at = 1, !.lag = 0]
               IN  /\ y \in Slots /\ y.pc = "release" /\ y.rel = keys
                   /\ y.kind = x.kind /\ y.at = 1
    BY <2>1 DEF Slots
  <2> QED BY <1>1, <2>2
<1>3. SlotFacts(s) /\ HeldBy(s) = keys
  <2> HIDE DEF s
  <2>1. 1 <= Len(KeysOf(s.kind))
    BY <1>1, <1>2, KeysFacts
  <2> QED BY <1>1, <1>2, <2>1 DEF SlotFacts, HeldBy
<1>4. NoLease \in [Keys -> 0..Reservation] /\ \A k \in Keys : NoLease[k] = 0
  BY TimesAssumption DEF NoLease
<1>5. /\ slot' = [slot EXCEPT ![r] = s] /\ lease' = [lease EXCEPT ![r] = NoLease] /\ row' = rows
  BY DEF Unwind
<1> HIDE DEF s
<1>6. \A k \in Keys : Effect(r, k, row'[k], book'[k]) /\ LeaseFacts(k, row'[k], NoLease[k], r)
  BY <1>4, <1>5 DEF Effect, Moves, LeaseFacts
<1>7. faults' = 0 => \A k \in Keys : /\ row'[k].token # "gone"
                                     /\ row'[k].token = r => k \in HeldBy(s)
  BY <1>3, <1>5 DEF Among
<1>8. /\ row' = [k \in Keys |-> row'[k]] /\ book' = [k \in Keys |-> book'[k]]
      /\ faults' \in 0..MaxFaults /\ faults <= faults' /\ scope' = scope
  BY <1>5 DEF Moves
<1> QED BY <1>2, <1>3, <1>4, <1>5, <1>6, <1>7, <1>8, StepKeeps

\* The handler goes on, and its reservations are as before.
LEMMA GotoKeeps ==
  ASSUME Inv, NEW r \in Requests, NEW rows, NEW s \in Slots, SlotFacts(s),
         Goto(r, s, rows), Moves(r, rows), Among(r, rows, HeldBy(s)),
         \A k \in Keys : /\ LeaseFacts(k, rows[k], lease[r][k], r)
                         /\ s.pc = "release" => lease[r][k] = 0
  PROVE  Inv'
<1>1. /\ slot' = [slot EXCEPT ![r] = s] /\ lease' = [lease EXCEPT ![r] = lease[r]] /\ row' = rows
      /\ lease[r] \in [Keys -> 0..Reservation]
  BY DEF Goto, Inv, TypeOK
<1>2. \A k \in Keys : Effect(r, k, row'[k], book'[k])
  BY <1>1 DEF Effect, Moves
<1>3. faults' = 0 => \A k \in Keys : /\ row'[k].token # "gone"
                                     /\ row'[k].token = r => k \in HeldBy(s)
  BY <1>1 DEF Among
<1>4. /\ row' = [k \in Keys |-> row'[k]] /\ book' = [k \in Keys |-> book'[k]]
      /\ faults' \in 0..MaxFaults /\ faults <= faults' /\ scope' = scope
  BY <1>1 DEF Moves
<1> QED BY <1>1, <1>2, <1>3, <1>4, StepKeeps

\* A handler that does nothing to the rows moves.
LEMMA StaysMoves ==
  ASSUME Inv, NEW r \in Requests, UNCHANGED <<book, scope>>, faults' \in 0..MaxFaults,
         faults <= faults'
  PROVE  Moves(r, row)
BY DEF Moves, Statement, Inv, TypeOK

\* A statement on one key moves.
PutBook(k, b) == [book EXCEPT ![k] = b]
LEMMA PutMoves ==
  ASSUME Inv, NEW r \in Requests, NEW j \in Keys, NEW w, NEW b,
         Statement(r, j, w, b), book' = PutBook(j, b), UNCHANGED scope,
         faults' \in 0..MaxFaults, faults <= faults'
  PROVE  Moves(r, Put(j, w)) /\ \A k \in Keys : Put(j, w)[k] = IF k = j THEN w ELSE row[k]
<1>1. row \in [Keys -> Rows] /\ book \in [Keys -> Books]
  BY DEF Inv, TypeOK, Books
<1>2. \A k \in Keys : Put(j, w)[k] = IF k = j THEN w ELSE row[k]
  BY <1>1 DEF Put
<1>3. \A k \in Keys : book'[k] = IF k = j THEN b ELSE book[k]
  BY <1>1 DEF PutBook
<1>4. \A k \in Keys : Statement(r, k, Put(j, w)[k], book'[k])
  BY <1>2, <1>3 DEF Statement
<1> QED BY <1>1, <1>2, <1>4 DEF Moves, Put, PutBook

\* A fault leaves a trace; without one, nothing is said about it.
LEMMA FaultFacts ==
  ASSUME Inv, Fault
  PROVE  faults' \in 0..MaxFaults /\ faults <= faults' /\ faults' # 0
BY FaultsAssumption DEF Inv, TypeOK, Fault

\* Where a handler is at work: its slot, its keys and its clock reading.
LEMMA AtWork ==
  ASSUME Inv, NEW r \in Requests, ~At(r, "idle")
  PROVE  /\ slot[r] \in Slots /\ slot[r].kind \in Kinds
         /\ slot[r].at \in 1..Len(KeysOf(slot[r].kind))
         /\ KeyOf(r) \in Keys
         /\ ClockOf(r) \in Over..0
         /\ Remaining(r) \subseteq Keys /\ Before(r) \subseteq Keys
<1>1. /\ slot[r] \in Slots /\ slot[r].kind \in Kinds
      /\ slot[r].at \in 1..Len(KeysOf(slot[r].kind))
  BY KeysFacts DEF Inv, TypeOK, SlotInv, SlotFacts, At, Slots
<1>2. ClockOf(r) \in Over..0
  BY <1>1, TimesAssumption DEF ClockOf, Slots, Over
<1>3. KeyOf(r) \in Keys /\ Remaining(r) \subseteq Keys /\ Before(r) \subseteq Keys
  BY <1>1, KeysFacts DEF KeyOf, Remaining, Before
<1> QED BY <1>1, <1>2, <1>3

\* The step to the next key, or past the last one.
LEMMA FurtherFacts ==
  ASSUME Inv, NEW r \in Requests, ~At(r, "idle"), ~At(r, "verify"), ~At(r, "upgrade"),
         NEW after \in Phases
  PROVE  /\ Further(r, after) \in Slots /\ SlotFacts(Further(r, after))
         /\ Further(r, after).kind = slot[r].kind
         /\ IsLast(r) => Further(r, after).pc = after /\ Further(r, after).at = 1
         /\ ~IsLast(r) => /\ Further(r, after).pc = slot[r].pc
                          /\ Further(r, after).at = slot[r].at + 1
                          /\ slot[r].at + 1 <= Len(KeysOf(slot[r].kind))
<1>1. /\ slot[r] \in Slots /\ slot[r].kind \in Kinds
      /\ slot[r].at \in 1..Len(KeysOf(slot[r].kind)) /\ Len(KeysOf(slot[r].kind)) \in 1..2
  BY AtWork, KeysFacts
<1>2. 0 \in 0..MaxDelay /\ 1 \in 1..2
  BY TimesAssumption
<1>3. CASE IsLast(r)
  <2> DEFINE s == [slot[r] EXCEPT !.pc = after, !.at = 1, !.lag = 0]
  <2>1. Further(r, after) = s
    BY <1>3 DEF Further
  <2>2. s \in Slots /\ s.pc = after /\ s.at = 1 /\ s.kind = slot[r].kind
    BY <1>1, <1>2 DEF Slots
  <2> HIDE DEF s
  <2> QED BY <1>1, <1>3, <2>1, <2>2 DEF SlotFacts
<1>4. CASE ~IsLast(r)
  <2> DEFINE s == [slot[r] EXCEPT !.at = @ + 1, !.lag = 0]
  <2>1. Further(r, after) = s
    BY <1>4 DEF Further
  <2>2. slot[r].at + 1 <= Len(KeysOf(slot[r].kind)) /\ slot[r].at + 1 \in 1..2
    <3>1. \A n \in 1..2 : \A i \in 1..n : i # n => i + 1 <= n /\ i + 1 \in 1..2
      OBVIOUS
    <3>2. slot[r].at # Len(KeysOf(slot[r].kind))
      BY <1>4 DEF IsLast
    <3> QED BY <1>1, <3>1, <3>2
  <2>3. s \in Slots /\ s.pc = slot[r].pc /\ s.at = slot[r].at + 1 /\ s.kind = slot[r].kind
    BY <1>1, <1>2, <2>2 DEF Slots
  <2> HIDE DEF s
  <2> QED BY <1>1, <1>4, <2>1, <2>2, <2>3 DEF SlotFacts, At
<1> QED BY <1>3, <1>4

-----------------------------------------------------------------------------
(* The actions, one by one.                                                 *)

LEMMA StartKeeps == ASSUME Inv, NEW r \in Requests, Start(r) PROVE Inv'
<1> PICK kind \in scope : slot' = [slot EXCEPT ![r] = [Idle EXCEPT !.pc = "reserve", !.kind = kind]]
  BY DEF Start
<1> DEFINE s == [Idle EXCEPT !.pc = "reserve", !.kind = kind]
<1>1. kind \in Kinds
  BY DEF Inv, TypeOK, Kinds
<1>2. s \in Slots /\ s.pc = "reserve" /\ s.kind = kind /\ s.at = 1
  <2>1. /\ 0 \in 0..MaxDelay /\ 1 \in 1..2 /\ "reserve" \in Phases
        /\ kind \in Kinds \cup {"none"} /\ {} \in SUBSET Keys /\ FALSE \in BOOLEAN
    BY <1>1, TimesAssumption DEF Phases
  <2>2. Idle \in Slots /\ Idle.at = 1
    BY <2>1 DEF Idle, Slots, Phases
  <2>3. ASSUME NEW x \in Slots
        PROVE  LET y == [x EXCEPT !.pc = "reserve", !.kind = kind]
               IN  y \in Slots /\ y.pc = "reserve" /\ y.kind = kind /\ y.at = x.at
    BY <2>1 DEF Slots
  <2> QED BY <2>2, <2>3
<1>3. SlotFacts(s) /\ HeldBy(s) = {}
  <2> HIDE DEF s
  <2> QED BY <1>1, <1>2, KeysFacts DEF SlotFacts, HeldBy
<1>4. Goto(r, s, row) /\ UNCHANGED <<book, scope, faults>>
  BY DEF Goto, Start
<1>5. HeldBy(slot[r]) = {}
  BY DEF Start, At, HeldBy
<1>6. Among(r, row, HeldBy(s))
  BY <1>3, <1>4, <1>5 DEF Among, Inv, HeldInv
<1>7. Moves(r, row)
  BY <1>4, StaysMoves, FaultsAssumption DEF Inv, TypeOK
<1>8. \A k \in Keys : LeaseFacts(k, row[k], lease[r][k], r)
  BY DEF Inv, LeaseInv
<1> HIDE DEF s
<1> QED BY <1>2, <1>3, <1>4, <1>6, <1>7, <1>8, GotoKeeps

\* What is reserved while keys are reserved, or ended.
LEMMA HeldFacts ==
  ASSUME Inv, NEW r \in Requests, faults = 0, NEW k \in Keys, row[k].token = r
  PROVE  /\ row[k].token # "gone"
         /\ slot[r].pc \in {"reserve", "read"} => k \in Before(r)
         /\ slot[r].pc \in {"verify", "upgrade", "record", "clear"} => k \in Remaining(r)
         /\ slot[r].pc = "release" => k \in slot[r].rel
         /\ slot[r].pc \notin {"idle", "admit"}
<1>1. k \in HeldBy(slot[r]) /\ row[k].token # "gone"
  BY DEF Inv, HeldInv
<1>2. slot[r].pc \in Phases
  BY DEF Inv, TypeOK, Slots
<1> QED BY <1>1, <1>2 DEF HeldBy, Before, Remaining, Phases

LEMMA NothingGone ==
  ASSUME Inv, faults = 0 PROVE \A k \in Keys : row[k].token # "gone"
BY DEF Inv, HeldInv

\* A refusal, or an error, on the way.
LEMMA RefusesKeeps ==
  ASSUME Inv, NEW r \in Requests, ~At(r, "idle"), NEW rows, Refuses(r, rows), Moves(r, rows),
         Among(r, rows, Before(r))
  PROVE  Inv'
<1>1. CASE Before(r) = {}
  BY <1>1, EndKeeps DEF Refuses
<1>2. CASE Before(r) # {}
  <2>1. Unwind(r, Before(r), FALSE, rows)
    BY <1>2 DEF Refuses
  <2>2. Before(r) \in SUBSET Keys
    BY AtWork
  <2> QED BY <2>1, <2>2, UnwindKeeps
<1> QED BY <1>1, <1>2

LEMMA FailsKeeps ==
  ASSUME Inv, NEW r \in Requests, ~At(r, "idle"), NEW rows, Fails(r, rows), Moves(r, rows),
         Among(r, rows, Remaining(r))
  PROVE  Inv'
<1>1. Remaining(r) \in SUBSET Keys
  BY AtWork
<1> QED BY <1>1, UnwindKeeps DEF Fails

LEMMA ReserveKeeps == ASSUME Inv, NEW r \in Requests, Reserve(r), UNCHANGED scope PROVE Inv'
<1> DEFINE j == KeyOf(r)
           t == ClockOf(r)
<1>1. ~At(r, "idle") /\ At(r, "reserve") /\ UNCHANGED faults
  BY DEF Reserve, At
<1>2. /\ slot[r] \in Slots /\ slot[r].kind \in Kinds
      /\ slot[r].at \in 1..Len(KeysOf(slot[r].kind))
      /\ j \in Keys /\ t \in Over..0 /\ faults' \in 0..MaxFaults /\ faults <= faults'
  BY <1>1, AtWork, FaultsAssumption DEF Inv, TypeOK
<1>3. CASE /\ Reservable(j, t)
           /\ row' = Put(j, Reserved(row[j], r, t))
           /\ slot' = [slot EXCEPT ![r] = Further(r, "verify")]
           /\ lease' = [lease EXCEPT ![r][j] = Later(t + Reservation, 0)]
           /\ book' = [book EXCEPT ![j] = Opened(@, t)]
  <2> DEFINE w == Reserved(row[j], r, t)
             b == Opened(book[j], t)
             l == [lease[r] EXCEPT ![j] = Later(t + Reservation, 0)]
             s == Further(r, "verify")
  <2>1. Statement(r, j, w, b)
    BY <1>2, <1>3 DEF Statement
  <2>2. book' = PutBook(j, b)
    BY <1>3 DEF PutBook
  <2>3. Moves(r, Put(j, w)) /\ \A k \in Keys : row'[k] = IF k = j THEN w ELSE row[k]
    <3>1. row' = Put(j, w)
      BY <1>3
    <3> HIDE DEF w, b, j, t
    <3>2. Moves(r, Put(j, w)) /\ \A k \in Keys : Put(j, w)[k] = IF k = j THEN w ELSE row[k]
      BY <1>1, <1>2, <2>1, <2>2, PutMoves
    <3> QED BY <3>1, <3>2
  <2>4. /\ s \in Slots /\ SlotFacts(s) /\ s.kind = slot[r].kind
        /\ IsLast(r) => s.pc = "verify" /\ s.at = 1
        /\ ~IsLast(r) => s.pc = "reserve" /\ s.at = slot[r].at + 1
    BY <1>1, FurtherFacts DEF At, Phases
  <2>5. lease[r] \in [Keys -> 0..Reservation]
    BY DEF Inv, TypeOK
  <2>6. Later(t + Reservation, 0) \in 0..Reservation
    BY <1>2, TimesAssumption DEF Later, Over
  <2>7. /\ l \in [Keys -> 0..Reservation] /\ lease' = [lease EXCEPT ![r] = l]
        /\ \A k \in Keys : l[k] = IF k = j THEN Later(t + Reservation, 0) ELSE lease[r][k]
    BY <1>3, <2>5, <2>6 DEF Inv, TypeOK
  <2>8. w.present /\ w.token = r /\ w.until = t + Reservation
    BY DEF Reserved
  <2>9. ASSUME NEW k \in Keys
        PROVE  LeaseFacts(k, row'[k], l[k], r) /\ (s.pc = "release" => l[k] = 0)
    <3>1. LeaseFacts(k, row[k], lease[r][k], r)
      BY DEF Inv, LeaseInv
    <3>2. s.pc # "release"
      BY <2>4
    <3>3. Later(t + Reservation, 0) > 0 => Later(t + Reservation, 0) = t + Reservation
      BY <1>2, TimesAssumption DEF Later, Over
    <3> HIDE DEF w, l, s, j, t
    <3> QED BY <2>3, <2>7, <2>8, <3>1, <3>2, <3>3 DEF LeaseFacts
  <2>10. ASSUME faults' = 0, NEW k \in Keys
         PROVE  row'[k].token # "gone" /\ (row'[k].token = r => k \in HeldBy(s))
    <3>1. row'[k].token # "gone"
      BY <1>1, <2>3, <2>8, <2>10, NothingGone, TokenNames
    <3>2. ASSUME row'[k].token = r PROVE k \in HeldBy(s)
      <4>1. k = j \/ k \in Before(r)
        BY <1>1, <2>3, <2>10, <3>2, HeldFacts DEF At
      <4>2. PICK i \in 1..slot[r].at : k = KeysOf(slot[r].kind)[i]
        BY <1>2, <4>1 DEF KeyOf, Before
      <4>3. IsLast(r) => i \in 1..Len(KeysOf(s.kind))
        BY <2>4 DEF IsLast
      <4>4. ~IsLast(r) => i \in 1..(s.at - 1)
        BY <1>2, <2>4 DEF Slots
      <4> HIDE DEF s
      <4> QED BY <2>4, <4>2, <4>3, <4>4 DEF HeldBy
    <3> QED BY <3>1, <3>2
  <2>11. /\ row' = [k \in Keys |-> row'[k]] /\ book' = [k \in Keys |-> book'[k]]
         /\ \A k \in Keys : Effect(r, k, row'[k], book'[k])
    BY <1>3, <2>3 DEF Moves, Effect
  <2> HIDE DEF w, b, l, s
  <2> QED BY <1>1, <1>2, <1>3, <2>4, <2>7, <2>9, <2>10, <2>11, StepKeeps DEF s
<1>4. CASE Goto(r, [slot[r] EXCEPT !.pc = "read", !.lag = 0], row) /\ UNCHANGED book
  <2> DEFINE s == [slot[r] EXCEPT !.pc = "read", !.lag = 0]
  <2>1. s \in Slots /\ s.pc = "read" /\ s.kind = slot[r].kind /\ s.at = slot[r].at
    <3>1. 0 \in 0..MaxDelay /\ "read" \in Phases
      BY TimesAssumption DEF Phases
    <3>2. ASSUME NEW x \in Slots
          PROVE  LET y == [x EXCEPT !.pc = "read", !.lag = 0]
                 IN  y \in Slots /\ y.pc = "read" /\ y.kind = x.kind /\ y.at = x.at
      BY <3>1 DEF Slots
    <3> QED BY <1>2, <3>2
  <2>2. SlotFacts(s) /\ HeldBy(s) = Before(r)
    <3> HIDE DEF s
    <3> QED BY <1>2, <2>1, KeysFacts DEF SlotFacts, HeldBy, Before
  <2>3. Moves(r, row)
    BY <1>1, <1>2, <1>4, StaysMoves
  <2>4. Among(r, row, HeldBy(s))
    BY <1>1, <2>2, HeldFacts, NothingGone DEF Among, At
  <2>5. \A k \in Keys : LeaseFacts(k, row[k], lease[r][k], r)
    BY DEF Inv, LeaseInv
  <2> HIDE DEF s
  <2> QED BY <1>4, <2>1, <2>2, <2>3, <2>4, <2>5, GotoKeeps DEF s
<1> QED BY <1>3, <1>4 DEF Reserve

LEMMA ReserveFailsKeeps == ASSUME Inv, NEW r \in Requests, ReserveFails(r), UNCHANGED scope PROVE Inv'
<1> DEFINE j == KeyOf(r)
           t == ClockOf(r)
           w == Reserved(row[j], "gone", t)
           b == Opened(book[j], t)
<1>1. /\ ~At(r, "idle") /\ faults' \in 0..MaxFaults /\ faults <= faults' /\ faults' # 0
      /\ j \in Keys /\ t \in Over..0
  BY FaultFacts, AtWork DEF ReserveFails, At
<1>2. CASE Refuses(r, row) /\ UNCHANGED book
  <2>1. Moves(r, row) /\ Among(r, row, Before(r))
    BY <1>1, <1>2, StaysMoves DEF Among
  <2> QED BY <1>1, <1>2, <2>1, RefusesKeeps
<1>3. CASE /\ Reservable(j, t) /\ Refuses(r, Put(j, w))
           /\ book' = [book EXCEPT ![j] = Opened(@, t)]
  <2>1. Statement(r, j, w, b)
    BY <1>1, <1>3 DEF Statement
  <2>2. book' = PutBook(j, b)
    BY <1>3 DEF PutBook
  <2> HIDE DEF j, t, w, b
  <2>3. Moves(r, Put(j, w)) /\ Among(r, Put(j, w), Before(r))
    BY <1>1, <2>1, <2>2, PutMoves DEF Among
  <2> QED BY <1>1, <1>3, <2>3, RefusesKeeps
<1> QED BY <1>2, <1>3 DEF ReserveFails

LEMMA ReadKeeps == ASSUME Inv, NEW r \in Requests, Read(r), UNCHANGED scope PROVE Inv'
<1>1. /\ ~At(r, "idle") /\ At(r, "read") /\ UNCHANGED <<faults, book>>
      /\ faults' \in 0..MaxFaults /\ faults <= faults'
  BY FaultsAssumption DEF Read, At, Inv, TypeOK
<1>2. Moves(r, row) /\ Among(r, row, Before(r))
  BY <1>1, StaysMoves, HeldFacts, NothingGone DEF Among, At
<1> QED BY <1>1, <1>2, RefusesKeeps DEF Read

\* A handler that goes on without a statement.
LEMMA OnlyGoto ==
  ASSUME Inv, NEW r \in Requests, NEW pc \in {"record", "clear", "upgrade"},
         slot[r].pc \in {"verify", "upgrade"}, slot[r].at = 1,
         Goto(r, [slot[r] EXCEPT !.pc = pc], row), UNCHANGED <<faults, book, scope>>
  PROVE  Inv'
<1> DEFINE s == [slot[r] EXCEPT !.pc = pc]
<1>1. ~At(r, "idle")
  BY DEF At
<1>2. slot[r] \in Slots /\ slot[r].kind \in Kinds /\ slot[r].at \in 1..Len(KeysOf(slot[r].kind))
  BY <1>1, AtWork
<1>3. s \in Slots /\ s.pc = pc /\ s.kind = slot[r].kind /\ s.at = slot[r].at
  <2>1. pc \in Phases
    BY DEF Phases
  <2>2. \A x \in Slots : LET y == [x EXCEPT !.pc = pc]
                         IN  y \in Slots /\ y.pc = pc /\ y.kind = x.kind /\ y.at = x.at
    BY <2>1 DEF Slots
  <2> QED BY <1>2, <2>2
<1> HIDE DEF s
<1>4. SlotFacts(s) /\ HeldBy(s) = Remaining(r)
  BY <1>2, <1>3, KeysFacts DEF SlotFacts, HeldBy, Remaining
<1>5. Moves(r, row) /\ Among(r, row, HeldBy(s))
  BY <1>4, StaysMoves, HeldFacts, NothingGone, FaultsAssumption DEF Among, Inv, TypeOK
<1>6. \A k \in Keys : LeaseFacts(k, row[k], lease[r][k], r)
  BY DEF Inv, LeaseInv
<1> QED BY <1>3, <1>4, <1>5, <1>6, GotoKeeps DEF s

\* A handler that goes on to release what it holds, without a statement.
LEMMA OnlyUnwind ==
  ASSUME Inv, NEW r \in Requests, slot[r].pc \in {"verify", "upgrade", "record", "clear"},
         NEW again \in BOOLEAN, Unwind(r, Remaining(r), again, row),
         faults' \in 0..MaxFaults, faults <= faults', UNCHANGED <<book, scope>>
  PROVE  Inv'
<1>1. ~At(r, "idle")
  BY DEF At
<1>2. Remaining(r) \in SUBSET Keys
  BY <1>1, AtWork
<1>3. Moves(r, row)
  BY StaysMoves
<1>4. faults' = 0 => faults = 0
  BY FaultsAssumption DEF Inv, TypeOK
<1>5. Among(r, row, Remaining(r))
  BY <1>4, HeldFacts, NothingGone DEF Among
<1> QED BY <1>1, <1>2, <1>3, <1>5, UnwindKeeps

LEMMA VerifyKeeps == ASSUME Inv, NEW r \in Requests, Verify(r), UNCHANGED scope PROVE Inv'
<1> PICK pc \in Verdicts(slot[r].kind) : Goto(r, [slot[r] EXCEPT !.pc = pc], row)
  BY DEF Verify
<1>1. slot[r].pc = "verify" /\ ~At(r, "idle") /\ UNCHANGED <<faults, book>>
  BY DEF Verify, At
<1>2. slot[r].kind \in {"login", "stranger", "share"}
  BY <1>1, AtWork, ScopesAssumption DEF Kinds, AllKinds
<1>3. pc \in {"record", "clear", "upgrade"}
  BY <1>2 DEF Verdicts
<1>4. slot[r].at = 1
  BY <1>1 DEF Inv, SlotInv, SlotFacts
<1> QED BY <1>1, <1>3, <1>4, OnlyGoto

LEMMA VerifyFailsKeeps == ASSUME Inv, NEW r \in Requests, VerifyFails(r), UNCHANGED scope PROVE Inv'
BY FaultFacts, OnlyUnwind DEF VerifyFails, At

LEMMA UpgradeKeeps == ASSUME Inv, NEW r \in Requests, Upgrade(r), UNCHANGED scope PROVE Inv'
<1>1. slot[r].pc = "upgrade" /\ UNCHANGED <<faults, book>>
  BY DEF Upgrade, At
<1>2. slot[r].at = 1
  BY <1>1 DEF Inv, SlotInv, SlotFacts
<1>3. faults' \in 0..MaxFaults /\ faults <= faults'
  BY <1>1, FaultsAssumption DEF Inv, TypeOK
<1>4. CASE Goto(r, [slot[r] EXCEPT !.pc = "clear"], row)
  BY <1>1, <1>2, <1>4, OnlyGoto
<1>5. CASE Unwind(r, Remaining(r), FALSE, row)
  BY <1>1, <1>3, <1>5, OnlyUnwind
<1> QED BY <1>4, <1>5 DEF Upgrade

\* The handler goes on to the next key, and the reservation of this one has ended.
GoesOn(r, after) ==
  /\ slot' = [slot EXCEPT ![r] = Further(r, after)]
  /\ lease' = [lease EXCEPT ![r][KeyOf(r)] = 0]

\* The last statement on a key, which ends its reservation, in recordAuthFailures and
\* clearAuthFailureContexts: the handler goes on to the next key.
LEMMA NextKeyKeeps ==
  ASSUME Inv, NEW r \in Requests, NEW after \in {"record", "admit"}, NEW rows,
         slot[r].pc \in {"record", "clear"},
         ~IsLast(r) \/ after = "admit",
         GoesOn(r, after), row' = rows,
         Moves(r, rows), rows[KeyOf(r)].token # r, UNCHANGED faults,
         \A k \in Keys : k # KeyOf(r) => rows[k] = row[k],
         rows[KeyOf(r)].token \in {"none", row[KeyOf(r)].token}
  PROVE  Inv'
<1> DEFINE s == Further(r, after)
           j == KeyOf(r)
           l == [lease[r] EXCEPT ![j] = 0]
<1>1. ~At(r, "idle") /\ ~At(r, "verify") /\ ~At(r, "upgrade") /\ after \in Phases
  BY DEF At, Phases
<1>2. /\ slot[r] \in Slots /\ slot[r].kind \in Kinds
      /\ slot[r].at \in 1..Len(KeysOf(slot[r].kind)) /\ Len(KeysOf(slot[r].kind)) \in 1..2
      /\ j \in Keys
  BY <1>1, AtWork, KeysFacts
<1>3. /\ s \in Slots /\ SlotFacts(s) /\ s.kind = slot[r].kind
      /\ IsLast(r) => s.pc = "admit" /\ s.at = 1
      /\ ~IsLast(r) => s.pc = slot[r].pc /\ s.at = slot[r].at + 1
  BY <1>1, FurtherFacts
<1>4. lease[r] \in [Keys -> 0..Reservation] /\ 0 \in 0..Reservation
  BY TimesAssumption DEF Inv, TypeOK
<1>5. /\ l \in [Keys -> 0..Reservation] /\ lease' = [lease EXCEPT ![r] = l]
      /\ \A k \in Keys : l[k] = IF k = j THEN 0 ELSE lease[r][k]
  BY <1>4 DEF Inv, TypeOK, GoesOn
<1>6. ASSUME NEW k \in Keys
      PROVE  LeaseFacts(k, row'[k], l[k], r) /\ (s.pc = "release" => l[k] = 0)
  <2>1. LeaseFacts(k, row[k], lease[r][k], r)
    BY DEF Inv, LeaseInv
  <2>2. s.pc # "release"
    BY <1>3
  <2> HIDE DEF l, s, j
  <2> QED BY <1>5, <2>1, <2>2 DEF LeaseFacts, j
<1>7. ASSUME faults' = 0, NEW k \in Keys
      PROVE  row'[k].token # "gone" /\ (row'[k].token = r => k \in HeldBy(s))
  <2>1. row'[k].token # "gone"
    BY <1>2, <1>7, NothingGone
  <2>2. ASSUME row'[k].token = r PROVE k \in HeldBy(s)
    <3>1. k # j /\ row[k].token = r
      BY <2>2
    <3>2. k \in Remaining(r)
      BY <1>7, <3>1, HeldFacts
    <3>3. PICK i \in slot[r].at..Len(KeysOf(slot[r].kind)) : k = KeysOf(slot[r].kind)[i]
      BY <3>2 DEF Remaining
    <3>4. i # slot[r].at
      BY <3>1, <3>3 DEF KeyOf
    <3>5. ~IsLast(r) /\ i \in (slot[r].at + 1)..Len(KeysOf(slot[r].kind))
      BY <1>2, <3>3, <3>4 DEF IsLast
    <3> HIDE DEF s
    <3> QED BY <1>3, <3>3, <3>5 DEF HeldBy
  <2> QED BY <2>1, <2>2
<1>8. /\ row' = [k \in Keys |-> row'[k]] /\ book' = [k \in Keys |-> book'[k]]
      /\ \A k \in Keys : Effect(r, k, row'[k], book'[k])
      /\ faults' \in 0..MaxFaults /\ faults <= faults' /\ scope' = scope
  BY DEF Moves, Effect
<1>9. slot' = [slot EXCEPT ![r] = s]
  BY DEF GoesOn
<1> HIDE DEF l, s
<1> QED BY <1>3, <1>5, <1>6, <1>7, <1>8, <1>9, StepKeeps

\* A reservation that is in force is owned.
LEMMA InForceOwned ==
  ASSUME Inv, NEW r \in Requests, NEW k \in Keys, lease[r][k] > 0 PROVE Owns(r, k)
BY DEF Inv, LeaseInv, LeaseFacts, Owns

LEMMA RecordKeeps == ASSUME Inv, NEW r \in Requests, Record(r), UNCHANGED scope PROVE Inv'
<1> DEFINE j == KeyOf(r)
           t == ClockOf(r)
           rows == IF Owns(r, j) THEN Put(j, Recorded(row[j], t)) ELSE row
<1>1. /\ slot[r].pc = "record" /\ ~At(r, "idle") /\ UNCHANGED faults
      /\ j \in Keys /\ t \in Over..0 /\ faults' \in 0..MaxFaults /\ faults <= faults'
  BY AtWork, FaultsAssumption DEF Record, At, Inv, TypeOK
<1>2. book' = [book EXCEPT ![j] = Booked(r, j, t)]
  BY DEF Record
<1>3. /\ Moves(r, rows) /\ rows[j].token # r /\ rows[j].token \in {"none", row[j].token}
      /\ \A k \in Keys : k # j => rows[k] = row[k]
  <2>1. CASE Owns(r, j)
    <3> DEFINE w == Recorded(row[j], t)
               b == [Opened(book[j], t) EXCEPT !.told = @ + 1]
    <3>1. Statement(r, j, w, b)
      BY <1>1, <2>1 DEF Statement
    <3>2. book' = PutBook(j, b)
      BY <1>2, <2>1 DEF PutBook, Booked
    <3>3. w.token = "none"
      BY DEF Recorded
    <3>4. rows = Put(j, w)
      BY <2>1
    <3> HIDE DEF j, t, w, b, rows
    <3>5. Moves(r, Put(j, w)) /\ \A k \in Keys : Put(j, w)[k] = IF k = j THEN w ELSE row[k]
      BY <1>1, <3>1, <3>2, PutMoves
    <3> QED BY <1>1, <3>3, <3>4, <3>5, TokenNames
  <2>2. CASE ~Owns(r, j)
    <3>1. ~(lease[r][j] > 0)
      BY <1>1, <2>2, InForceOwned
    <3>2. book' = book
      BY <1>1, <1>2, <2>2, <3>1 DEF Booked, Inv, TypeOK
    <3>3. Moves(r, row)
      BY <1>1, <3>2, StaysMoves
    <3>4. row[j].token # r
      BY <1>1, <2>2, TokenNames DEF Owns, Inv, RowInv, RowFacts
    <3> QED BY <2>2, <3>3, <3>4
  <2> QED BY <2>1, <2>2
<1>4. CASE IsLast(r)
  <2>1. End(r, rows)
    BY <1>4 DEF Record
  <2>2. Among(r, rows, {})
    <3> SUFFICES ASSUME faults' = 0, NEW k \in Keys
                 PROVE  rows[k].token # "gone" /\ rows[k].token # r
      BY DEF Among
    <3> HIDE DEF rows
    <3>1. rows[k].token # "gone"
      BY <1>1, <1>3, NothingGone
    <3>2. ASSUME rows[k].token = r PROVE FALSE
      <4>1. k # j /\ row[k].token = r
        BY <1>3, <3>2
      <4>2. k \in Remaining(r)
        BY <1>1, <4>1, HeldFacts
      <4>3. slot[r].at \in 1..Len(KeysOf(slot[r].kind)) /\ Len(KeysOf(slot[r].kind)) \in 1..2
        BY <1>1, AtWork, KeysFacts
      <4>4. PICK i \in slot[r].at..Len(KeysOf(slot[r].kind)) : k = KeysOf(slot[r].kind)[i]
        BY <4>2 DEF Remaining
      <4>5. i = slot[r].at
        BY <1>4, <4>3, <4>4 DEF IsLast
      <4> QED BY <4>1, <4>4, <4>5 DEF KeyOf
    <3> QED BY <3>1, <3>2
  <2> HIDE DEF rows
  <2> QED BY <1>3, <2>1, <2>2, EndKeeps
<1>5. CASE ~IsLast(r)
  <2>1. row' = rows /\ GoesOn(r, "record")
    BY <1>5 DEF Record, GoesOn
  <2> HIDE DEF rows
  <2> QED BY <1>1, <1>3, <1>5, <2>1, NextKeyKeeps
<1> QED BY <1>4, <1>5

LEMMA RecordFailsKeeps == ASSUME Inv, NEW r \in Requests, RecordFails(r), UNCHANGED scope PROVE Inv'
<1> DEFINE j == KeyOf(r)
           t == ClockOf(r)
           w == Recorded(row[j], t)
           b == [Opened(book[j], t) EXCEPT !.told = @ + 1]
<1>1. /\ ~At(r, "idle") /\ faults' \in 0..MaxFaults /\ faults <= faults' /\ faults' # 0
      /\ j \in Keys /\ t \in Over..0
  BY FaultFacts, AtWork DEF RecordFails, At
<1>2. CASE Fails(r, row) /\ UNCHANGED book
  <2>1. Moves(r, row) /\ Among(r, row, Remaining(r))
    BY <1>1, <1>2, StaysMoves DEF Among
  <2> QED BY <1>1, <1>2, <2>1, FailsKeeps
<1>3. CASE /\ Owns(r, j) /\ Fails(r, Put(j, w))
           /\ book' = [book EXCEPT ![j] = Booked(r, j, t)]
  <2>1. Statement(r, j, w, b)
    BY <1>1, <1>3 DEF Statement
  <2>2. book' = PutBook(j, b)
    BY <1>3 DEF PutBook, Booked
  <2> HIDE DEF j, t, w, b
  <2>3. Moves(r, Put(j, w)) /\ Among(r, Put(j, w), Remaining(r))
    BY <1>1, <2>1, <2>2, PutMoves DEF Among
  <2> QED BY <1>1, <1>3, <2>3, FailsKeeps
<1> QED BY <1>2, <1>3 DEF RecordFails

LEMMA ClearKeeps == ASSUME Inv, NEW r \in Requests, Clear(r), UNCHANGED scope PROVE Inv'
<1> DEFINE j == KeyOf(r)
           w == Cleared(row[j])
<1>1. /\ slot[r].pc = "clear" /\ ~At(r, "idle") /\ UNCHANGED faults
      /\ j \in Keys /\ faults' \in 0..MaxFaults /\ faults <= faults'
  BY AtWork, FaultsAssumption DEF Clear, At, Inv, TypeOK
<1>2. CASE Owns(r, j) /\ row' = Put(j, w) /\ GoesOn(r, "admit") /\ book' = PutBook(j, NoBook)
  <2>1. Statement(r, j, w, NoBook)
    BY <1>2 DEF Statement
  <2>2. w.token = "none"
    BY DEF Cleared, NoRow
  <2> HIDE DEF j, w
  <2>3. Moves(r, Put(j, w)) /\ \A k \in Keys : Put(j, w)[k] = IF k = j THEN w ELSE row[k]
    BY <1>1, <1>2, <2>1, PutMoves
  <2> DEFINE rows == Put(j, w)
  <2>4. /\ Moves(r, rows) /\ rows[j].token # r /\ rows[j].token \in {"none", row[j].token}
        /\ \A k \in Keys : k # j => rows[k] = row[k]
    BY <1>1, <2>2, <2>3, TokenNames
  <2>5. row' = rows
    BY <1>2
  <2> HIDE DEF rows
  <2> QED BY <1>1, <1>2, <2>4, <2>5, NextKeyKeeps DEF j
<1>3. CASE Fails(r, row) /\ UNCHANGED book
  <2>1. Moves(r, row) /\ Among(r, row, Remaining(r))
    BY <1>1, <1>3, StaysMoves, HeldFacts, NothingGone DEF Among
  <2> QED BY <1>1, <1>3, <2>1, FailsKeeps
<1> QED BY <1>2, <1>3 DEF Clear, GoesOn, PutBook

LEMMA ClearFailsKeeps == ASSUME Inv, NEW r \in Requests, ClearFails(r), UNCHANGED scope PROVE Inv'
<1> DEFINE j == KeyOf(r)
           w == Cleared(row[j])
<1>1. /\ ~At(r, "idle") /\ faults' \in 0..MaxFaults /\ faults <= faults' /\ faults' # 0
      /\ j \in Keys
  BY FaultFacts, AtWork DEF ClearFails, At
<1>2. CASE Fails(r, row) /\ UNCHANGED book
  <2>1. Moves(r, row) /\ Among(r, row, Remaining(r))
    BY <1>1, <1>2, StaysMoves DEF Among
  <2> QED BY <1>1, <1>2, <2>1, FailsKeeps
<1>3. CASE Owns(r, j) /\ Fails(r, Put(j, w)) /\ book' = PutBook(j, NoBook)
  <2>1. Statement(r, j, w, NoBook)
    BY <1>3 DEF Statement
  <2> HIDE DEF j, w
  <2>2. Moves(r, Put(j, w)) /\ Among(r, Put(j, w), Remaining(r))
    BY <1>1, <1>3, <2>1, PutMoves DEF Among
  <2> QED BY <1>1, <1>3, <2>2, FailsKeeps
<1> QED BY <1>2, <1>3 DEF ClearFails, PutBook

\* The release of one key after another.
LEMMA AfterReleaseKeeps ==
  ASSUME Inv, NEW r \in Requests, slot[r].pc = "release", NEW k \in slot[r].rel, NEW rows,
         AfterRelease(r, k, rows), Moves(r, rows), Among(r, rows, slot[r].rel \ {k})
  PROVE  Inv'
<1>1. ~At(r, "idle")
  BY DEF At
<1>2. /\ slot[r] \in Slots /\ slot[r].kind \in Kinds
      /\ slot[r].at \in 1..Len(KeysOf(slot[r].kind)) /\ AllOf(slot[r].kind) \in SUBSET Keys
  BY <1>1, AtWork, KeysFacts
<1>3. \A s \in Slots : slot[r].rel \ {k} \in SUBSET Keys
  BY <1>2 DEF Slots
<1>4. ASSUME NEW s \in Slots, s.pc = "release", s.kind = slot[r].kind, s.at = slot[r].at,
             Goto(r, s, rows), slot[r].rel \ {k} \subseteq s.rel
      PROVE  Inv'
  <2>1. SlotFacts(s) /\ HeldBy(s) = s.rel
    BY <1>2, <1>4 DEF SlotFacts, HeldBy
  <2>2. Among(r, rows, HeldBy(s))
    BY <1>4, <2>1 DEF Among
  <2>3. \A j \in Keys : LeaseFacts(j, rows[j], lease[r][j], r) /\ lease[r][j] = 0
    BY DEF Inv, LeaseInv, LeaseFacts
  <2> QED BY <1>4, <2>1, <2>2, <2>3, GotoKeeps
<1>5. CASE Goto(r, [slot[r] EXCEPT !.rel = slot[r].rel \ {k}], rows)
  <2>1. \A x \in Slots : \A keys \in SUBSET Keys :
          LET y == [x EXCEPT !.rel = keys]
          IN  y \in Slots /\ y.pc = x.pc /\ y.kind = x.kind /\ y.at = x.at /\ y.rel = keys
    BY DEF Slots
  <2> DEFINE s == [slot[r] EXCEPT !.rel = slot[r].rel \ {k}]
  <2>2. /\ s \in Slots /\ s.pc = "release" /\ s.kind = slot[r].kind /\ s.at = slot[r].at
        /\ s.rel = slot[r].rel \ {k}
    BY <1>2, <1>3, <2>1
  <2>3. Goto(r, s, rows)
    BY <1>5
  <2> HIDE DEF s
  <2> QED BY <1>4, <2>2, <2>3
<1>6. CASE /\ slot[r].rel \ {k} = {}
           /\ Goto(r, [slot[r] EXCEPT !.rel = AllOf(slot[r].kind), !.again = FALSE], rows)
  <2>1. \A x \in Slots : \A keys \in SUBSET Keys :
          LET y == [x EXCEPT !.rel = keys, !.again = FALSE]
          IN  y \in Slots /\ y.pc = x.pc /\ y.kind = x.kind /\ y.at = x.at
    BY DEF Slots
  <2> DEFINE s == [slot[r] EXCEPT !.rel = AllOf(slot[r].kind), !.again = FALSE]
  <2>2. s \in Slots /\ s.pc = "release" /\ s.kind = slot[r].kind /\ s.at = slot[r].at
    BY <1>2, <2>1
  <2>3. Goto(r, s, rows)
    BY <1>6
  <2> HIDE DEF s
  <2> QED BY <1>4, <1>6, <2>2, <2>3
<1>7. CASE slot[r].rel \ {k} = {} /\ End(r, rows)
  BY <1>7, EndKeeps
<1> QED BY <1>5, <1>6, <1>7 DEF AfterRelease

LEMMA ReleaseKeeps == ASSUME Inv, NEW r \in Requests, Release(r), UNCHANGED scope PROVE Inv'
<1>1. /\ slot[r].pc = "release" /\ ~At(r, "idle") /\ UNCHANGED <<faults, book>>
      /\ faults' \in 0..MaxFaults /\ faults <= faults'
  BY FaultsAssumption DEF Release, At, Inv, TypeOK
<1>2. PICK k \in slot[r].rel :
        AfterRelease(r, k, IF Owns(r, k) THEN Put(k, Released(row[k])) ELSE row)
  BY DEF Release
<1>3. k \in Keys
  BY <1>1, AtWork DEF Slots
<1>4. CASE Owns(r, k)
  <2> DEFINE w == Released(row[k])
  <2>1. Statement(r, k, w, book[k])
    BY <1>4 DEF Statement
  <2>2. book' = PutBook(k, book[k])
    BY <1>1 DEF PutBook, Inv, TypeOK
  <2>3. w.token = "none"
    BY <1>3 DEF Released, Inv, TypeOK, Rows
  <2> HIDE DEF w
  <2>4. Moves(r, Put(k, w)) /\ \A j \in Keys : Put(k, w)[j] = IF j = k THEN w ELSE row[j]
    BY <1>1, <1>3, <2>1, <2>2, PutMoves
  <2>5. Among(r, Put(k, w), slot[r].rel \ {k})
    BY <1>1, <2>3, <2>4, HeldFacts, NothingGone, TokenNames DEF Among
  <2>6. AfterRelease(r, k, Put(k, w))
    BY <1>2, <1>4 DEF w
  <2> QED BY <1>1, <2>4, <2>5, <2>6, AfterReleaseKeeps
<1>5. CASE ~Owns(r, k)
  <2>1. row[k].token # r
    BY <1>3, <1>5, TokenNames DEF Owns, Inv, RowInv, RowFacts
  <2>2. Moves(r, row) /\ Among(r, row, slot[r].rel \ {k})
    BY <1>1, <2>1, StaysMoves, HeldFacts, NothingGone DEF Among
  <2>3. AfterRelease(r, k, row)
    BY <1>2, <1>5
  <2> QED BY <1>1, <2>2, <2>3, AfterReleaseKeeps
<1> QED BY <1>4, <1>5

LEMMA ReleaseFailsKeeps == ASSUME Inv, NEW r \in Requests, ReleaseFails(r), UNCHANGED scope PROVE Inv'
<1>1. /\ slot[r].pc = "release" /\ UNCHANGED book
      /\ faults' \in 0..MaxFaults /\ faults <= faults' /\ faults' # 0
  BY FaultFacts DEF ReleaseFails, At
<1>2. PICK k \in slot[r].rel : AfterRelease(r, k, row)
  BY DEF ReleaseFails
<1>3. Moves(r, row) /\ Among(r, row, slot[r].rel \ {k})
  BY <1>1, StaysMoves DEF Among
<1> QED BY <1>1, <1>2, <1>3, AfterReleaseKeeps

LEMMA AdmitKeeps == ASSUME Inv, NEW r \in Requests, Admit(r), UNCHANGED scope PROVE Inv'
<1>1. /\ slot[r].pc = "admit" /\ ~At(r, "idle") /\ UNCHANGED <<faults, book>>
      /\ faults' \in 0..MaxFaults /\ faults <= faults' /\ ClockOf(r) \in Over..0
  BY AtWork, FaultsAssumption DEF Admit, At, Inv, TypeOK
<1>2. PICK old \in SUBSET Outdated(ClockOf(r)) :
        End(r, [k \in Keys |-> IF k \in old THEN NoRow ELSE row[k]])
  BY DEF Admit
<1> DEFINE rows == [k \in Keys |-> IF k \in old THEN NoRow ELSE row[k]]
<1>3. \A k \in Keys : Statement(r, k, rows[k], book'[k])
  BY <1>1 DEF Statement
<1>4. book' = [k \in Keys |-> book'[k]]
  BY <1>1 DEF Inv, TypeOK
<1>5. Moves(r, rows)
  BY <1>1, <1>3, <1>4 DEF Moves
<1>6. Among(r, rows, {})
  BY <1>1, HeldFacts, NothingGone, TokenNames DEF Among, NoRow
<1>7. End(r, rows)
  BY <1>2
<1> HIDE DEF rows
<1> QED BY <1>5, <1>6, <1>7, EndKeeps

LEMMA EvictKeeps == ASSUME Inv, NEW r \in Requests, Evict(r), UNCHANGED scope PROVE Inv'
<1>1. /\ End(r, row) /\ UNCHANGED book
      /\ faults' \in 0..MaxFaults /\ faults <= faults' /\ faults' # 0
  BY FaultFacts DEF Evict
<1>2. Moves(r, row) /\ Among(r, row, {})
  BY <1>1, StaysMoves DEF Among
<1> QED BY <1>1, <1>2, EndKeeps

\* A second less, never below the floor.
LEMMA AgedFacts ==
  ASSUME NEW floor \in Int, NEW top \in Int, floor <= top
  PROVE  \A x \in floor..top : /\ Aged(x, floor) \in floor..top
                               /\ Aged(x, floor) = IF x > floor THEN x - 1 ELSE floor
BY DEF Aged, Later

\* A second passes: nobody's clock reading gets too old, and the times stay in step.
LEMMA TickKeeps == ASSUME Inv, Tick PROVE Inv'
<1>1. /\ row \in [Keys -> Rows] /\ book \in [Keys -> Books] /\ slot \in [Requests -> Slots]
      /\ lease \in [Requests -> [Keys -> 0..Reservation]]
  BY DEF Inv, TypeOK, Books
<1>2. ASSUME NEW w \in Rows
      PROVE  /\ Older(w) \in Rows
             /\ Older(w).present = w.present /\ Older(w).count = w.count
             /\ Older(w).token = w.token
             /\ Older(w).started = Aged(w.started, WindowOver)
             /\ Older(w).until = Aged(w.until, Over)
             /\ Older(w).updated = Aged(w.updated, Ancient)
  <2>1. /\ Aged(w.started, WindowOver) \in WindowOver..0
        /\ Aged(w.blocked, Over) \in Over..MaxBackoff
        /\ Aged(w.until, Over) \in Over..Reservation
        /\ Aged(w.updated, Ancient) \in Ancient..0
    BY TimesAssumption DEF Rows, Aged, Later, Over, WindowOver, Ancient
  <2> QED BY <2>1 DEF Older, Rows
<1>3. ASSUME NEW k \in Keys
      PROVE  /\ book'[k] \in Books /\ book'[k].told = book[k].told
             /\ book'[k].since = Aged(book[k].since, WindowOver)
  <2>1. Aged(book[k].since, WindowOver) \in WindowOver..0
    BY <1>1, TimesAssumption DEF Books, Aged, Later, WindowOver
  <2> QED BY <1>1, <2>1 DEF Tick, Books
<1>4. ASSUME NEW q \in Requests
      PROVE  /\ slot'[q] \in Slots /\ slot'[q].pc = slot[q].pc /\ slot'[q].kind = slot[q].kind
             /\ slot'[q].at = slot[q].at /\ slot'[q].rel = slot[q].rel
  <2>1. \A x \in Slots : x.lag < MaxDelay =>
          LET y == [x EXCEPT !.lag = @ + 1]
          IN  y \in Slots /\ y.pc = x.pc /\ y.kind = x.kind /\ y.at = x.at /\ y.rel = x.rel
    BY TimesAssumption DEF Slots
  <2>2. slot'[q] = IF slot[q].pc \in Timed THEN [slot[q] EXCEPT !.lag = @ + 1] ELSE slot[q]
    BY DEF Tick
  <2>3. slot[q].pc \in Timed => slot[q].lag < MaxDelay
    BY DEF Tick
  <2> QED BY <1>1, <2>1, <2>2, <2>3
<1>5. \A k \in Keys : row'[k] = Older(row[k])
  BY DEF Tick
<1>6. \A q \in Requests : \A k \in Keys :
        lease'[q][k] = Aged(lease[q][k], 0) /\ lease'[q][k] \in 0..Reservation
  BY <1>1, TimesAssumption DEF Tick, Aged, Later
<1>7. TypeOK'
  <2>1. row' \in [Keys -> Rows] /\ book' \in [Keys -> Books]
    BY <1>1, <1>2, <1>3, <1>5 DEF Tick
  <2>2. slot' \in [Requests -> Slots]
    BY <1>4 DEF Tick
  <2>3. lease' \in [Requests -> [Keys -> 0..Reservation]]
    <3>1. lease' = [q \in Requests |-> [k \in Keys |-> Aged(lease[q][k], 0)]]
      BY DEF Tick
    <3>2. \A q \in Requests : \A k \in Keys : Aged(lease[q][k], 0) \in 0..Reservation
      BY <1>1, TimesAssumption DEF Aged, Later
    <3> QED BY <3>1, <3>2
  <2>4. faults' \in 0..MaxFaults /\ scope' \in Scopes
    BY DEF Inv, TypeOK, Tick
  <2> QED BY <2>1, <2>2, <2>3, <2>4 DEF TypeOK, Books
<1>8. SlotInv'
  <2>1. \A q \in Requests : SlotFacts(slot'[q])
    BY <1>4 DEF Inv, SlotInv, SlotFacts
  <2> QED BY <2>1 DEF SlotInv, SlotFacts
<1>9. RowInv'
  <2>1. ASSUME NEW k \in Keys
        PROVE  RowFacts(k, row'[k], book'[k])
    <3>1. row[k] \in Rows /\ book[k] \in Books /\ RowFacts(k, row[k], book[k])
      BY <1>1 DEF Inv, RowInv
    <3>2. /\ row'[k].present = row[k].present /\ row'[k].count = row[k].count
          /\ row'[k].token = row[k].token
          /\ row'[k].started = Aged(row[k].started, WindowOver)
          /\ row'[k].until = Aged(row[k].until, Over)
          /\ row'[k].updated = Aged(row[k].updated, Ancient)
      BY <1>2, <1>5, <3>1
    <3>3. /\ row[k].started \in Int /\ row[k].until \in Int /\ row[k].updated \in Int
          /\ book[k].since \in Int
      BY <3>1, TimesAssumption DEF Rows, Books, Over, WindowOver, Ancient
    <3>4. row'[k].started <= Later(row'[k].updated + MaxDelay, WindowOver)
      BY <3>1, <3>2, <3>3, TimesAssumption
         DEF RowFacts, Aged, Later, WindowOver, Ancient
    <3>5. row'[k].until <= Later(row'[k].updated + Reservation, Over)
      BY <3>1, <3>2, <3>3, TimesAssumption DEF RowFacts, Aged, Later, Over, Ancient
    <3>6. book'[k].told = book[k].told /\ book'[k].since = Aged(book[k].since, WindowOver)
      BY <1>3
    <3>7. Aged(WindowOver, WindowOver) = WindowOver
      BY TimesAssumption DEF Aged, Later, WindowOver
    <3> QED BY <3>1, <3>2, <3>4, <3>5, <3>6, <3>7 DEF RowFacts
  <2> QED BY <2>1 DEF RowInv, RowFacts
<1>10. LeaseInv'
  <2>1. ASSUME NEW q \in Requests, NEW k \in Keys
        PROVE  /\ LeaseFacts(k, row'[k], lease'[q][k], q)
               /\ slot'[q].pc = "release" => lease'[q][k] = 0
    <3>1. /\ LeaseFacts(k, row[k], lease[q][k], q)
          /\ slot[q].pc = "release" => lease[q][k] = 0
      BY DEF Inv, LeaseInv
    <3>2. lease[q][k] \in Int /\ lease'[q][k] = Later(lease[q][k] - 1, 0)
      BY <1>1, <1>6, TimesAssumption DEF Aged
    <3>3. /\ row'[k].present = row[k].present /\ row'[k].token = row[k].token
          /\ row'[k].until = Aged(row[k].until, Over)
      BY <1>1, <1>2, <1>5
    <3>4. row[k].until \in Int
      BY <1>1, TimesAssumption DEF Rows, Over
    <3>5. slot'[q].pc = slot[q].pc
      BY <1>4
    <3>6. lease'[q][k] > 0 => lease[q][k] > 0 /\ lease'[q][k] = lease[q][k] - 1
      BY <3>2 DEF Later
    <3>7. slot[q].pc = "release" => lease'[q][k] = 0
      BY <3>1, <3>2 DEF Later
    <3>8. row[k].until > 1 => row'[k].until = row[k].until - 1
      <4>1. -MaxDelay <= 0 /\ -MaxDelay \in Int
        BY TimesAssumption
      <4> QED BY <3>3, <3>4, <4>1 DEF Aged, Later, Over
    <3>9. lease'[q][k] > 0 => row[k].until > 1
      BY <3>1, <3>2, <3>6 DEF LeaseFacts, Later
    <3>10. LeaseFacts(k, row'[k], lease'[q][k], q)
      BY <3>1, <3>3, <3>6, <3>8, <3>9 DEF LeaseFacts
    <3> QED BY <3>5, <3>7, <3>10
  <2> QED BY <2>1, Zenon DEF LeaseInv, LeaseFacts
<1>11. HeldInv'
  <2>1. faults' = faults
    BY DEF Tick
  <2>2. ASSUME NEW k \in Keys PROVE row'[k].token = row[k].token
    <3>1. row[k] \in Rows
      BY <1>1
    <3> QED BY <1>2, <1>5, <3>1
  <2>3. \A q \in Requests : HeldBy(slot'[q]) = HeldBy(slot[q])
    <3>1. \A x, y : x.pc = y.pc /\ x.kind = y.kind /\ x.at = y.at /\ x.rel = y.rel
                     => HeldBy(x) = HeldBy(y)
      BY DEF HeldBy
    <3> QED BY <1>4, <3>1
  <2>4. faults' = 0 => \A k \in Keys :
          /\ row'[k].token # "gone"
          /\ \A q \in Requests : row'[k].token = q => k \in HeldBy(slot'[q])
    BY <2>1, <2>2, <2>3 DEF Inv, HeldInv
  <2> QED BY <2>4 DEF HeldInv, HeldBy
<1> QED BY <1>7, <1>8, <1>9, <1>10, <1>11 DEF Inv

LEMMA InitInv == Init => Inv
<1> SUFFICES ASSUME Init PROVE Inv
  OBVIOUS
<1>1. NoRow \in Rows /\ NoBook \in Books /\ Idle \in Slots
  BY TimesAssumption DEF NoRow, Rows, NoBook, Books, Idle, Slots, Phases, Over, WindowOver, Ancient
<1>2. NoLease \in [Keys -> 0..Reservation] /\ \A k \in Keys : NoLease[k] = 0
  BY TimesAssumption DEF NoLease
<1>3. TypeOK
  BY <1>1, <1>2, FaultsAssumption DEF Init, TypeOK, Books
<1>4. SlotInv
  BY DEF Init, SlotInv, SlotFacts, Idle
<1>5. \A k \in Keys : MaxFailures[k] \in Nat \ {0} /\ RowFacts(k, NoRow, NoBook)
  BY MaxFailuresAssumption, TimesAssumption
     DEF RowFacts, NoRow, NoBook, Later, Over, WindowOver, Ancient
<1>6. RowInv
  BY <1>5 DEF Init, RowInv
<1>7. LeaseInv
  BY <1>2 DEF Init, LeaseInv, LeaseFacts, Idle
<1>8. HeldInv
  BY TokenNames DEF Init, HeldInv, NoRow
<1> QED BY <1>3, <1>4, <1>6, <1>7, <1>8 DEF Inv

-----------------------------------------------------------------------------
(* The theorems.                                                            *)

\* The invariant holds of every behaviour, whatever the handlers, the statements that
\* fail and the time do.
THEOREM InvHolds == Spec => []Inv
<1>1. Inv /\ [Next]_vars => Inv'
  <2> SUFFICES ASSUME Inv, [Next]_vars PROVE Inv'
    OBVIOUS
  <2>1. CASE Tick
    BY <2>1, TickKeeps
  <2>2. ASSUME NEW r \in Requests, Start(r) PROVE Inv'
    BY <2>2, StartKeeps
  <2>3. ASSUME NEW r \in Requests, Step(r) PROVE Inv'
    BY <2>3, ReserveKeeps, ReadKeeps, VerifyKeeps, UpgradeKeeps, RecordKeeps, ClearKeeps,
       ReleaseKeeps, AdmitKeeps DEF Step
  <2>4. ASSUME NEW r \in Requests, Failure(r) PROVE Inv'
    BY <2>4, ReserveFailsKeeps, VerifyFailsKeeps, RecordFailsKeeps, ClearFailsKeeps,
       ReleaseFailsKeeps, EvictKeeps DEF Failure
  <2>5. CASE UNCHANGED vars
    BY <2>5 DEF vars, Inv, TypeOK, SlotInv, RowInv, LeaseInv, HeldInv, SlotFacts, RowFacts,
       LeaseFacts, HeldBy
  <2> QED BY <2>1, <2>2, <2>3, <2>4, <2>5 DEF Next
<1> QED BY <1>1, InitInv, PTL DEF Spec

\* Every variable keeps its type: counts, times and tokens stay in the ranges of their
\* columns.
THEOREM TypeCorrect == Spec => []TypeOK
BY InvHolds, PTL DEF Inv

\* Two handlers never verify passwords for one key at a time while their reservations
\* are in force, however late their statements run.
THEOREM VerificationsAlternate == Spec => []OneVerificationAtATime
<1>1. Inv => OneVerificationAtATime
  BY DEF Inv, LeaseInv, LeaseFacts, OneVerificationAtATime
<1> QED BY <1>1, InvHolds, PTL

\* No more wrong passwords are found out in a window than the policy allows, whatever
\* the number of handlers that guess.
THEOREM GuessesAreLimited == Spec => []GuessesWithinLimit
<1>1. Inv => GuessesWithinLimit
  BY DEF Inv, RowInv, RowFacts, GuessesWithinLimit
<1> QED BY <1>1, InvHolds, PTL

\* Without evictions and failed statements every reservation belongs to a handler that
\* has yet to end it.
THEOREM ReservationsEnd == Spec => []NoReservationLeftBehind
<1>1. Inv => NoReservationLeftBehind
  BY DEF Inv, HeldInv, NoReservationLeftBehind
<1> QED BY <1>1, InvHolds, PTL

\* The time a refused client is told to wait is enough for its next attempt.
THEOREM WaitingIsEnough == Spec => []RetryAfterIsEnough
<1>1. Inv => RetryAfterIsEnough
  <2> SUFFICES ASSUME Inv, NEW r \in Requests, slot[r].pc \in {"reserve", "read"}
               PROVE  Reservable(KeyOf(r), RetryAt(KeyOf(r), ClockOf(r)))
    BY DEF RetryAfterIsEnough
  <2> DEFINE k == KeyOf(r)
             w == row[k]
             t == ClockOf(r)
             at == RetryAt(k, t)
  <2>1. k \in Keys /\ t \in Over..0
    BY AtWork DEF At
  <2>2. w \in Rows /\ MaxFailures[k] \in Nat
    BY <2>1, MaxFailuresAssumption DEF Inv, TypeOK
  <2>3. /\ w.count \in Nat /\ w.started \in Int /\ w.blocked \in Int /\ w.until \in Int
        /\ t \in Int /\ Over \in Int
    BY <2>1, <2>2, TimesAssumption DEF Rows, Over, WindowOver
  <2>4. /\ at \in Int /\ w.blocked <= at /\ w.until <= at
        /\ w.count >= MaxFailures[k] => w.started + Window <= at
    <3> HIDE DEF k, t
    <3> QED BY <2>2, <2>3, TimesAssumption DEF RetryAt, Later
  <2> HIDE DEF k, at, w, t
  <2>5. Reservable(k, at)
    BY <2>2, <2>3, <2>4 DEF Reservable, WindowEnded, w
  <2> QED BY <2>5 DEF k, at, t
<1> QED BY <1>1, InvHolds, PTL
=============================================================================

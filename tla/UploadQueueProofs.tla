-------------------------- MODULE UploadQueueProofs -------------------------
(***************************************************************************)
(* Type correctness and safety of the upload queue of the browser, for any *)
(* number of tasks, sessions, parts and slots, any versions of the files   *)
(* and any number of clicks, visits and faults.                            *)
(*                                                                         *)
(* A click, a render and the end of a transport do the same to a task, its *)
(* transport and its pause flag: they replace the three together.  So the  *)
(* heart of the invariant is Good, a predicate on the three records of one *)
(* task; an action is safe when what it puts in place of them is Good, and *)
(* does not claim for a session a file that nothing claimed for it before. *)
(*                                                                         *)
(* That no open session is forgotten is a property of steps.  It needs     *)
(* MemoryInv as well: which session a task shares with its transport       *)
(* (Linked), and that what they take to be complete is (Concluded).        *)
(***************************************************************************)
EXTENDS UploadQueue, FiniteSetTheorems, TLAPS

-----------------------------------------------------------------------------
(* Counting the tasks before a task in the queue.                          *)

Before(Q, i) == {j \in Q : j < i}

LEMMA Ranks ==
  ASSUME NEW Q, Q \subseteq Int, IsFiniteSet(Q)
  PROVE  /\ \A i \in Q : Cardinality(Before(Q, i)) \in Nat
         /\ \A i, j \in Q : i < j => Cardinality(Before(Q, i)) < Cardinality(Before(Q, j))
<1>1. \A i : IsFiniteSet(Before(Q, i))
  <2> SUFFICES ASSUME NEW i PROVE IsFiniteSet(Before(Q, i))
    OBVIOUS
  <2>1. Before(Q, i) \in SUBSET Q
    BY DEF Before
  <2> QED BY <2>1, FS_Subset
<1>2. \A i : Cardinality(Before(Q, i)) \in Nat
  BY <1>1, FS_CardinalityType
<1>3. ASSUME NEW i \in Q, NEW j \in Q, i < j
      PROVE  Cardinality(Before(Q, i)) < Cardinality(Before(Q, j))
  <2>0. \A k \in Q : k \in Int
    OBVIOUS
  <2>1. Before(Q, i) \in SUBSET Before(Q, j)
    <3> SUFFICES ASSUME NEW k \in Q, k < i PROVE k < j
      BY DEF Before
    <3>1. i \in Int /\ j \in Int /\ k \in Int
      BY <2>0
    <3> QED BY <1>3, <3>1
  <2>2. i \in Before(Q, j) /\ i \notin Before(Q, i)
    BY <1>3, <2>0 DEF Before
  <2>3. /\ Cardinality(Before(Q, i)) <= Cardinality(Before(Q, j))
        /\ Cardinality(Before(Q, j)) # Cardinality(Before(Q, i))
    BY <1>1, <2>1, <2>2, FS_Subset
  <2>4. Cardinality(Before(Q, i)) \in Nat /\ Cardinality(Before(Q, j)) \in Nat
    BY <1>2
  <2> QED BY <2>3, <2>4
<1> QED BY <1>2, <1>3

\* Different tasks of a queue have different numbers of tasks before them.
LEMMA RanksDiffer ==
  ASSUME NEW Q, Q \subseteq Int, IsFiniteSet(Q), NEW i \in Q, NEW j \in Q, i # j
  PROVE  Cardinality(Before(Q, i)) # Cardinality(Before(Q, j))
<1>1. i \in Int /\ j \in Int
  OBVIOUS
<1>2. i < j \/ j < i
  BY <1>1
<1>3. Cardinality(Before(Q, i)) \in Nat /\ Cardinality(Before(Q, j)) \in Nat
  BY Ranks
<1>4. CASE i < j
  <2>1. Cardinality(Before(Q, i)) < Cardinality(Before(Q, j))
    BY <1>4, Ranks
  <2> QED BY <1>3, <2>1
<1>5. CASE j < i
  <2>1. Cardinality(Before(Q, j)) < Cardinality(Before(Q, i))
    BY <1>5, Ranks
  <2> QED BY <1>3, <2>1
<1> QED BY <1>2, <1>4, <1>5

\* Of any queue, at most k have less than k before them.
LEMMA FirstOnes ==
  ASSUME NEW Q, Q \subseteq Int, IsFiniteSet(Q), NEW k \in Nat,
         NEW S \in SUBSET {i \in Q : Cardinality(Before(Q, i)) < k}
  PROVE  IsFiniteSet(S) /\ Cardinality(S) <= k
<1> DEFINE f == [i \in S |-> Cardinality(Before(Q, i))]
<1>1. f \in [S -> 0..(k - 1)]
  <2>1. \A i \in S : Cardinality(Before(Q, i)) \in Nat /\ Cardinality(Before(Q, i)) < k
    BY Ranks
  <2>2. \A i \in S : Cardinality(Before(Q, i)) \in 0..(k - 1)
    BY <2>1
  <2> QED BY <2>2
<1>2. \A i, j \in S : f[i] = f[j] => i = j
  BY RanksDiffer
<1>3. f \in Injection(S, 0..(k - 1))
  BY <1>1, <1>2 DEF Injection, IsInjective
<1>4. IsFiniteSet(0..(k - 1)) /\ Cardinality(0..(k - 1)) = k
  <2>1. 0 \in Int /\ k - 1 \in Int
    OBVIOUS
  <2>2. /\ IsFiniteSet(0..(k - 1))
        /\ Cardinality(0..(k - 1)) = IF 0 > k - 1 THEN 0 ELSE (k - 1) - 0 + 1
    BY <2>1, FS_Interval
  <2> QED BY <2>2
<1> HIDE DEF f
<1> QED BY <1>3, <1>4, FS_Injection

\* In a finite set of numbers that is not empty some number has none before it.
LEMMA FiniteMinimum ==
  ASSUME NEW Q, Q \subseteq Int, IsFiniteSet(Q), Q # {}
  PROVE  \E m \in Q : \A n \in Q : m <= n
<1> DEFINE c == Cardinality(Q)
           rank(i) == Cardinality(Before(Q, i))
<1>0. \A i \in Q : i \in Int /\ rank(i) \in Nat
  BY Ranks
<1>1. c \in Nat /\ c # 0
  BY FS_CardinalityType, FS_EmptySet
<1>2. \A i \in Q : rank(i) < c
  <2> SUFFICES ASSUME NEW i \in Q PROVE rank(i) < c
    OBVIOUS
  <2>1. Before(Q, i) \in SUBSET Q /\ i \notin Before(Q, i)
    BY <1>0 DEF Before
  <2>2. rank(i) <= c /\ c # rank(i)
    BY <2>1, FS_Subset
  <2>3. rank(i) \in Nat
    BY <1>0
  <2> HIDE DEF rank, c
  <2> QED BY <1>1, <2>2, <2>3
<1>3. ASSUME \A m \in Q : \E n \in Q : ~(m <= n) PROVE FALSE
  <2>1. \A i \in Q : rank(i) # 0
    <3> SUFFICES ASSUME NEW i \in Q PROVE rank(i) # 0
      OBVIOUS
    <3>1. PICK j \in Q : ~(i <= j)
      BY <1>3
    <3>2. j < i
      BY <1>0, <3>1
    <3>3. rank(j) < rank(i)
      BY <3>2, Ranks
    <3>4. rank(j) \in Nat /\ rank(i) \in Nat
      BY <1>0
    <3> HIDE DEF rank
    <3> QED BY <3>3, <3>4
  <2> DEFINE f == [i \in Q |-> rank(i)]
  <2>2. f \in [Q -> 1..(c - 1)]
    <3>1. \A i \in Q : rank(i) \in 1..(c - 1)
      <4> HIDE DEF rank, c
      <4> QED BY <1>0, <1>1, <1>2, <2>1
    <3> QED BY <3>1
  <2>3. IsFiniteSet(1..(c - 1)) /\ Cardinality(1..(c - 1)) < c
    <3> HIDE DEF c
    <3>1. c - 1 \in Int /\ 1 \in Int
      BY <1>1
    <3>2. /\ IsFiniteSet(1..(c - 1))
          /\ Cardinality(1..(c - 1)) = IF 1 > c - 1 THEN 0 ELSE (c - 1) - 1 + 1
      BY <3>1, FS_Interval
    <3> QED BY <1>1, <3>2
  <2>4. PICK x, y \in Q : x # y /\ f[x] = f[y]
    <3> HIDE DEF f
    <3> QED BY <2>2, <2>3, FS_PigeonHole
  <2> QED BY <2>4, RanksDiffer
<1> QED BY <1>3

\* Min chooses the least number of a set.
LEMMA Minimum ==
  ASSUME NEW Q, Q \subseteq Nat, Q # {}
  PROVE  Min(Q) \in Q
<1>0. \A n \in Q : n \in Nat
  OBVIOUS
<1>1. PICK k \in Q : TRUE
  OBVIOUS
<1> DEFINE L == {n \in Q : n <= k}
<1>2. L \subseteq Int /\ L # {}
  <2>1. k \in L /\ \A n \in L : n \in Int
    BY <1>0, <1>1
  <2> QED BY <2>1
<1>3. IsFiniteSet(L)
  <2>1. \A n \in L : n \in 0..k
    BY <1>0, <1>1
  <2>2. 0 \in Int /\ k \in Int
    BY <1>0, <1>1
  <2>3. IsFiniteSet(0..k)
    BY <2>2, FS_Interval
  <2> HIDE DEF L
  <2>4. L \in SUBSET (0..k)
    BY <2>1
  <2> QED BY <2>3, <2>4, FS_Subset
<1>4. PICK m \in L : \A n \in L : m <= n
  <2> HIDE DEF L
  <2> QED BY <1>2, <1>3, FiniteMinimum
<1>5. \A n \in Q : m <= n
  BY <1>0, <1>1, <1>4
<1> QED BY <1>5 DEF Min
-----------------------------------------------------------------------------
(* The invariant.                                                          *)

Busy == {"creating", "uploading", "completing"}

\* Tasks of which nothing more is expected.
Over == {"completed", "cancelled"}

\* A transport at work.
Alive(l) == l.pc # "none" /\ ~l.aborted

\* A task t, its transport l and its pause flag p agree: who occupies a slot has
\* a transport at work, a task that failed or waits for its file has let go of
\* its transport, and a paused transport was told so.
Seated(t, l, p) ==
  /\ t.status \in Busy <=> Alive(l)
  /\ t.rebind \/ t.status = "failed" => l.pc = "none"
  /\ p /\ l.pc # "none" => l.aborted /\ t.status \in {"paused", "gone"}

\* A request about a session has the session it is about.
Addressed(l) ==
  /\ l.pc \in {"get", "part", "complete", "finish", "undo"} => l.sid \in Sids
  /\ l.pc = "create" /\ l.reply = "ok" => l.sid \in Sids
  /\ l.pc = "part" => l.part \in Parts

\* A transport reads the file its task was enqueued with or bound to.
Filed(t, l) ==
  /\ l.pc \notin {"none", "undo"} =>
       l.stamp \in Stamps /\ (t.status # "gone" => t.stamp = l.stamp)
  /\ t.status # "gone" /\ t.stamp = NoStamp => t.rebind

Good(i, t, l, p, u) ==
  /\ t \in Tasks /\ l \in Transports /\ p \in BOOLEAN
  /\ Seated(t, l, p)
  /\ Addressed(l)
  /\ Filed(t, l)
  /\ t.status # "gone" \/ l.pc # "none" => i <= u

\* What the last render v of a task says of its transport l.
Shown(v, l) ==
  /\ v.rebind \/ v.status = "failed" => l.pc = "none"
  /\ v.status \in Over => ~Alive(l)

StrayOK(q) ==
  /\ q.pc # "create" => q.sid \in Sids
  /\ q.pc = "part" => q.stamp \in Stamps /\ q.part \in Parts

\* The files that anything of the browser or the server claims for session s.
Of(s, R) == {r.stamp : r \in {x \in R : x.sid = s}}

Sources(s) ==
  (origin[s] \cup Of(s, {tasks[i] : i \in Ids}) \cup Of(s, {live[i] : i \in Ids})
     \cup Of(s, strays) \cup Of(s, saved)) \ {NoStamp}

OneSource ==
  \A s \in Sids :
    /\ \A a, b \in Sources(s) : a = b
    /\ sessions[s].status = "absent" => Sources(s) = {}

QueueInv ==
  /\ UQTypeOK
  /\ \A i \in Ids : Good(i, tasks[i], live[i], paused[i], used) /\ Shown(view[i], live[i])
  /\ Cardinality(Running(tasks)) <= MaxConcurrent
  /\ \A q \in strays : StrayOK(q)
  /\ OneSource

-----------------------------------------------------------------------------
(* Claims.  A record that has a session and a file claims the file for the *)
(* session; one is backed when the claim is not new.                       *)

Backed(r) == r.sid \in Sids /\ r.stamp # NoStamp => r.stamp \in Sources(r.sid)

LEMMA Claims ==
  ASSUME NEW s, NEW f
  PROVE  f \in Sources(s) <=>
           /\ f # NoStamp
           /\ \/ f \in origin[s]
              \/ \E i \in Ids : tasks[i].sid = s /\ tasks[i].stamp = f
              \/ \E i \in Ids : live[i].sid = s /\ live[i].stamp = f
              \/ \E q \in strays : q.sid = s /\ q.stamp = f
              \/ \E r \in saved : r.sid = s /\ r.stamp = f
  BY DEF Sources, Of

LEMMA ClaimsNext ==
  ASSUME NEW s, NEW f
  PROVE  f \in Sources(s)' <=>
           /\ f # NoStamp
           /\ \/ f \in origin'[s]
              \/ \E i \in Ids : tasks'[i].sid = s /\ tasks'[i].stamp = f
              \/ \E i \in Ids : live'[i].sid = s /\ live'[i].stamp = f
              \/ \E q \in strays' : q.sid = s /\ q.stamp = f
              \/ \E r \in saved' : r.sid = s /\ r.stamp = f
  BY DEF Sources, Of, Ids

\* What there is, is backed.
LEMMA AllBacked ==
  /\ \A i \in Ids : Backed(tasks[i]) /\ Backed(live[i])
  /\ \A q \in strays : Backed(q)
  /\ \A r \in saved : Backed(r)
  BY Claims DEF Backed

\* A step that only makes backed claims makes no new one.
LEMMA NothingNew ==
  ASSUME \A i \in Ids : Backed(tasks'[i]) /\ Backed(live'[i]),
         \A q \in strays' : Backed(q),
         \A r \in saved' : Backed(r),
         NEW s \in Sids, \A f \in origin'[s] \ {NoStamp} : f \in Sources(s)
  PROVE  Sources(s)' \subseteq Sources(s)
<1> SUFFICES ASSUME NEW f, f \in Sources(s)' PROVE f \in Sources(s)
  OBVIOUS
<1> QED BY ClaimsNext DEF Backed

\* Every file claimed for s is in X, if whatever claims one says so.
LEMMA ClaimedFrom ==
  ASSUME NEW s, NEW X,
         \A f \in origin'[s] \ {NoStamp} : f \in X,
         \A i \in Ids : tasks'[i].sid = s => tasks'[i].stamp \in X \cup {NoStamp},
         \A i \in Ids : live'[i].sid = s => live'[i].stamp \in X \cup {NoStamp},
         \A q \in strays' : q.sid = s => q.stamp \in X \cup {NoStamp},
         \A r \in saved' : r.sid = s => r.stamp \in X \cup {NoStamp}
  PROVE  Sources(s)' \subseteq X
<1> SUFFICES ASSUME NEW f, f \in Sources(s)' PROVE f \in X
  OBVIOUS
<1> QED BY ClaimsNext

LEMMA SourcesStay ==
  ASSUME OneSource,
         \A s \in Sids : Sources(s)' \subseteq Sources(s),
         \A s \in Sids : sessions'[s].status = "absent" => sessions[s].status = "absent"
  PROVE  OneSource'
  BY DEF OneSource, Sids

LEMMA IdsAreFinite ==
  /\ Ids \subseteq Int /\ IsFiniteSet(Ids)
  /\ \A T \in SUBSET Ids : T \subseteq Int /\ IsFiniteSet(T) /\ Cardinality(T) \in Nat
<1>1. IsFiniteSet(Ids)
  BY BoundsAssumption, FS_Interval DEF Ids
<1>2. Ids \subseteq Int
  BY DEF Ids
<1> QED BY <1>1, <1>2, FS_Subset, FS_CardinalityType

-----------------------------------------------------------------------------
(* What is put in place of the tasks, their transports and their pause     *)
(* flags, before a commit: ts, lv and ps, with u task ids given out.       *)

Page(ts, lv, ps, u) ==
  /\ ts \in [Ids -> Tasks] /\ lv \in [Ids -> Transports] /\ ps \in [Ids -> BOOLEAN]
  /\ \A i \in Ids : Good(i, ts[i], lv[i], ps[i], u) /\ Backed(ts[i]) /\ Backed(lv[i])
  /\ Cardinality(Running(ts)) <= MaxConcurrent

SavedRecords == [sid : Sids, stamp : Stamps \cup {NoStamp}]

LEMMA PageNow ==
  ASSUME QueueInv
  PROVE  Page(tasks, live, paused, used)
  BY AllBacked DEF QueueInv, UQTypeOK, Page

\* A task that waits for a slot and gets one.
LEMMA Launches ==
  ASSUME NEW i \in Ids, NEW t, NEW l, NEW p, NEW u, Good(i, t, l, p, u), Backed(t),
         t.status = "queued", ~t.rebind
  PROVE  /\ Good(i, Started(t), Launched(t), FALSE, u)
         /\ Backed(Started(t)) /\ Backed(Launched(t))
         /\ Started(t).status \in Busy
<1> DEFINE st == Started(t)
           la == Launched(t)
<1>1. /\ st \in Tasks /\ st.status \in Busy /\ st.stamp = t.stamp /\ st.sid = t.sid
      /\ st.rebind = t.rebind
  BY DEF Good, Tasks, UploadStatuses, Started, Busy
<1>2. /\ la \in Transports
      /\ la.pc \in {"put", "create", "get"} /\ la.stamp = t.stamp /\ ~la.aborted
      /\ la.reply = "none" /\ la.sid \in {NoSid, t.sid}
      /\ la.pc = "get" => la.sid # NoSid
  <2> DEFINE sid == IF t.fresh THEN NoSid ELSE t.sid
             await == IF t.kind = "single" THEN "put" ELSE IF sid = NoSid THEN "create" ELSE "get"
  <2>1. t.stamp \in Stamps /\ t.sid \in Sids \cup {NoSid}
    BY DEF Good, Filed, Tasks
  <2>2. sid \in Sids \cup {NoSid} /\ sid \in {NoSid, t.sid}
    BY <2>1
  <2>3. await \in {"put", "create", "get"} /\ (await = "get" => sid # NoSid)
    OBVIOUS
  <2>4. la = [NoTransport EXCEPT !.pc = await, !.sid = sid, !.stamp = t.stamp]
    BY DEF Launched
  <2> HIDE DEF sid, await, la
  <2>5. la = [pc |-> await, sid |-> sid, got |-> {}, part |-> 0, stamp |-> t.stamp, aborted |-> FALSE, reply |-> "none"]
    BY <2>4 DEF NoTransport
  <2>6. await \in Awaits
    BY <2>3 DEF Awaits
  <2>7. la \in Transports
    BY <2>1, <2>2, <2>5, <2>6 DEF Transports
  <2> QED BY <2>2, <2>3, <2>5, <2>7
<1>3. t.stamp \in Stamps /\ t.sid \in Sids \cup {NoSid}
  BY DEF Good, Filed, Tasks
<1>4. NoSid \notin Sids
  BY DEF NoSid, Sids
<1> HIDE DEF st, la
<1>5. Seated(st, la, FALSE)
  BY <1>1, <1>2 DEF Seated, Alive, Busy
<1>6. Addressed(la)
  BY <1>2, <1>3 DEF Addressed
<1>7. Filed(st, la)
  BY <1>1, <1>2, <1>3, StampsAssumption DEF Filed, Busy, NoStamp
<1>8. i <= u
  BY DEF Good
<1>9. Good(i, st, la, FALSE, u)
  BY <1>1, <1>2, <1>5, <1>6, <1>7, <1>8 DEF Good
<1>10. Backed(st) /\ Backed(la)
  BY <1>1, <1>2, <1>4 DEF Backed
<1> QED BY <1>1, <1>9, <1>10 DEF st, la

\* No more are started than there are slots.
LEMMA SlotsSuffice ==
  ASSUME NEW ts, NEW lv, Cardinality(Running(ts)) <= MaxConcurrent
  PROVE  Cardinality(Running(ts) \cup Starting(ts, lv)) <= MaxConcurrent
<1> DEFINE R == Running(ts)
           S == Starting(ts, lv)
           Q == Queued(ts)
           k == MaxConcurrent - Cardinality(R)
<1>1. R \in SUBSET Ids /\ Q \in SUBSET Ids /\ S \in SUBSET Ids
  BY DEF Running, Queued, Starting
<1>2. IsFiniteSet(R) /\ IsFiniteSet(S) /\ Cardinality(R) \in Nat /\ Cardinality(S) \in Nat
  BY <1>1, IdsAreFinite
<1>3. k \in Nat
  BY <1>2, BoundsAssumption
<1>4. S \in SUBSET {i \in Q : Cardinality(Before(Q, i)) < k}
  BY DEF Starting, Before
<1>5. Q \subseteq Int /\ IsFiniteSet(Q)
  BY <1>1, IdsAreFinite
<1>6. Cardinality(S) <= k
  <2> HIDE DEF S, Q, k
  <2> QED BY <1>3, <1>4, <1>5, FirstOnes
<1>7. /\ Cardinality(R \cup S) = Cardinality(R) + Cardinality(S) - Cardinality(R \cap S)
      /\ IsFiniteSet(R \cup S)
  <2> HIDE DEF R, S
  <2> QED BY <1>2, FS_Union
<1>8. Cardinality(R \cap S) \in Nat
  <2>1. R \cap S \in SUBSET Ids
    BY <1>1
  <2> HIDE DEF R, S
  <2> QED BY <2>1, IdsAreFinite
<1> HIDE DEF R, S
<1> QED BY <1>2, <1>3, <1>6, <1>7, <1>8, BoundsAssumption DEF R, S

LEMMA Commits ==
  ASSUME NEW ts, NEW lv, NEW ps, NEW u, Page(ts, lv, ps, u), Commit(ts, lv, ps)
  PROVE  /\ Page(tasks', live', paused', u)
         /\ view' \in [Ids -> Tasks] /\ dirty' \in BOOLEAN /\ saved' \subseteq SavedRecords
         /\ \A i \in Ids : Shown(view'[i], live'[i])
         /\ \A r \in saved' : Backed(r)
<1> DEFINE S == Starting(ts, lv)
<1>0. /\ view' = ts /\ saved' = Persisted(ts) /\ dirty' = (S # {})
      /\ tasks' = [i \in Ids |-> IF i \in S THEN Started(ts[i]) ELSE ts[i]]
      /\ live' = [i \in Ids |-> IF i \in S THEN Launched(ts[i]) ELSE lv[i]]
      /\ paused' = [i \in Ids |-> ps[i] /\ i \notin S]
  BY DEF Commit
<1>1. \A i \in S : i \in Ids /\ ts[i].status = "queued" /\ ~ts[i].rebind
  BY DEF Starting, Queued
<1>2. \A i \in Ids : /\ ts[i] \in Tasks /\ lv[i] \in Transports /\ ps[i] \in BOOLEAN
                     /\ Good(i, ts[i], lv[i], ps[i], u) /\ Backed(ts[i]) /\ Backed(lv[i])
  BY DEF Page
<1>3. Cardinality(Running(ts) \cup S) <= MaxConcurrent
  BY SlotsSuffice DEF Page
<1> HIDE DEF S
<1>4. ASSUME NEW i \in Ids
      PROVE  /\ Good(i, tasks'[i], live'[i], paused'[i], u) /\ Backed(tasks'[i]) /\ Backed(live'[i])
             /\ tasks'[i].status \in Busy => i \in Running(ts) \cup S
  <2>1. CASE i \in S
    <3>1. tasks'[i] = Started(ts[i]) /\ live'[i] = Launched(ts[i]) /\ paused'[i] = FALSE
      BY <1>0, <2>1
    <3> QED BY <1>1, <1>2, <2>1, <3>1, Launches
  <2>2. CASE i \notin S
    <3>1. tasks'[i] = ts[i] /\ live'[i] = lv[i] /\ paused'[i] = ps[i]
      BY <1>0, <1>2, <2>2
    <3> QED BY <1>2, <3>1 DEF Running, Busy
  <2> QED BY <2>1, <2>2
<1>5. tasks' \in [Ids -> Tasks] /\ live' \in [Ids -> Transports] /\ paused' \in [Ids -> BOOLEAN]
  <2>1. \A i \in Ids : tasks'[i] \in Tasks /\ live'[i] \in Transports /\ paused'[i] \in BOOLEAN
    BY <1>4 DEF Good
  <2> QED BY <1>0, <2>1
<1>6. Cardinality(Running(tasks')) <= MaxConcurrent
  <2>1. Running(tasks') \in SUBSET (Running(ts) \cup S)
    BY <1>4 DEF Running, Busy
  <2>2. Running(ts) \cup S \in SUBSET Ids
    BY <1>1 DEF Running
  <2>3. /\ IsFiniteSet(Running(ts) \cup S) /\ Cardinality(Running(ts) \cup S) \in Nat
        /\ Cardinality(Running(tasks')) \in Nat
    BY <2>1, <2>2, IdsAreFinite
  <2>4. Cardinality(Running(tasks')) <= Cardinality(Running(ts) \cup S)
    BY <2>1, <2>3, FS_Subset
  <2> QED BY <1>3, <2>3, <2>4, BoundsAssumption
<1>7. Page(tasks', live', paused', u)
  BY <1>4, <1>5, <1>6 DEF Page
<1>8. ASSUME NEW i \in Ids PROVE Shown(view'[i], live'[i])
  <2>1. CASE i \in S
    <3>1. live'[i] = Launched(ts[i]) /\ ts[i].status = "queued" /\ ~ts[i].rebind
      BY <1>0, <1>1, <2>1
    <3> QED BY <1>0, <3>1 DEF Shown, Over
  <2>2. CASE i \notin S
    <3>1. live'[i] = lv[i] /\ view'[i] = ts[i]
      BY <1>0, <2>2
    <3> QED BY <1>2, <3>1 DEF Shown, Over, Good, Seated, Busy
  <2> QED BY <2>1, <2>2
<1>9. ASSUME NEW r \in saved' PROVE r \in SavedRecords /\ Backed(r)
  <2>1. PICK i \in Ids : r = [sid |-> ts[i].sid, stamp |-> ts[i].stamp] /\ ts[i].sid # NoSid
    BY <1>0 DEF Persisted
  <2>2. r.sid = ts[i].sid /\ r.stamp = ts[i].stamp
    BY <2>1
  <2> QED BY <1>2, <2>1, <2>2 DEF Tasks, SavedRecords, Backed
<1>10. view' \in [Ids -> Tasks] /\ dirty' \in BOOLEAN
  BY <1>0 DEF Page
<1> QED BY <1>7, <1>8, <1>9, <1>10

-----------------------------------------------------------------------------
(* Clicks.  A click of a task replaces its three records and commits.      *)

\* One task i is replaced: by the task t, the transport l and the flag p.
LEMMA Edits ==
  ASSUME QueueInv, NEW i \in Ids, NEW t, NEW l, NEW p, NEW u \in Nat, used <= u,
         Good(i, t, l, p, u), Backed(t), Backed(l),
         t.status \in Busy => tasks[i].status \in Busy
  PROVE  Page([tasks EXCEPT ![i] = t], [live EXCEPT ![i] = l], [paused EXCEPT ![i] = p], u)
<1> DEFINE ts == [tasks EXCEPT ![i] = t]
           lv == [live EXCEPT ![i] = l]
           ps == [paused EXCEPT ![i] = p]
<1>1. Page(tasks, live, paused, used)
  BY PageNow
<1>2. t \in Tasks /\ l \in Transports /\ p \in BOOLEAN
  BY DEF Good
<1>3. ts \in [Ids -> Tasks] /\ lv \in [Ids -> Transports] /\ ps \in [Ids -> BOOLEAN]
  BY <1>1, <1>2 DEF Page
<1>4. \A j \in Ids : Good(j, ts[j], lv[j], ps[j], u) /\ Backed(ts[j]) /\ Backed(lv[j])
  <2> SUFFICES ASSUME NEW j \in Ids PROVE Good(j, ts[j], lv[j], ps[j], u) /\ Backed(ts[j]) /\ Backed(lv[j])
    OBVIOUS
  <2>1. CASE j = i
    <3>1. ts[j] = t /\ lv[j] = l /\ ps[j] = p
      BY <1>1, <2>1 DEF Page
    <3> QED BY <2>1, <3>1
  <2>2. CASE j # i
    <3>1. ts[j] = tasks[j] /\ lv[j] = live[j] /\ ps[j] = paused[j]
      BY <1>1, <2>2 DEF Page
    <3>2. Good(j, tasks[j], live[j], paused[j], used) /\ Backed(tasks[j]) /\ Backed(live[j])
      BY <1>1 DEF Page
    <3>3. j \in Int /\ used \in Int
      BY DEF Ids, QueueInv, UQTypeOK
    <3> QED BY <3>1, <3>2, <3>3 DEF Good
  <2> QED BY <2>1, <2>2
<1>5. Running(ts) \in SUBSET Running(tasks)
  BY <1>1 DEF Running, Busy, Page
<1>6. Cardinality(Running(ts)) <= MaxConcurrent
  <2>1. Running(tasks) \in SUBSET Ids
    BY DEF Running
  <2>2. Cardinality(Running(ts)) <= Cardinality(Running(tasks))
    BY <1>5, <2>1, IdsAreFinite, FS_Subset
  <2>3. Running(ts) \in SUBSET Ids
    BY DEF Running
  <2>4. Cardinality(Running(ts)) \in Nat /\ Cardinality(Running(tasks)) \in Nat
    BY <2>1, <2>3, IdsAreFinite
  <2> HIDE DEF ts
  <2> QED BY <1>1, <2>2, <2>4, BoundsAssumption DEF Page
<1> QED BY <1>3, <1>4, <1>6 DEF Page

\* What a change of the status of a task leaves of it.
With(t, status) == IF t.status = "gone" THEN t ELSE [t EXCEPT !.status = status]

LEMMA Statuses ==
  ASSUME NEW ts \in [Ids -> Tasks], NEW i \in Ids, NEW status
  PROVE  SetStatus(ts, i, status) = [ts EXCEPT ![i] = With(ts[i], status)]
<1>1. [ts EXCEPT ![i] = ts[i]] = ts
  OBVIOUS
<1> QED BY <1>1 DEF SetStatus, Reduce, With

LEMMA WithFields ==
  ASSUME NEW t \in Tasks, NEW status \in UploadStatuses
  PROVE  /\ With(t, status) \in Tasks
         /\ With(t, status).sid = t.sid /\ With(t, status).stamp = t.stamp
         /\ With(t, status).rebind = t.rebind /\ With(t, status).kind = t.kind
         /\ With(t, status).fresh = t.fresh
         /\ t.status # "gone" => With(t, status).status = status
         /\ t.status = "gone" => With(t, status) = t
  BY DEF With, Tasks, UploadStatuses

\* Telling a transport to stop keeps everything else of it.
Stopped(l) == IF l.pc = "none" THEN l ELSE [l EXCEPT !.aborted = TRUE]

LEMMA StoppedFields ==
  ASSUME NEW l \in Transports
  PROVE  /\ Stopped(l) \in Transports
         /\ Stopped(l).pc = l.pc /\ Stopped(l).sid = l.sid /\ Stopped(l).stamp = l.stamp
         /\ Stopped(l).part = l.part /\ Stopped(l).reply = l.reply /\ Stopped(l).got = l.got
         /\ ~Alive(Stopped(l))
         /\ l.pc # "none" => Stopped(l).aborted
  BY DEF Stopped, Transports, Alive

LEMMA Abortions ==
  ASSUME QueueInv, NEW i \in Ids
  PROVE  Aborted(i) = [live EXCEPT ![i] = Stopped(live[i])]
<1>1. live \in [Ids -> Transports] /\ live[i] \in Transports
  BY DEF QueueInv, UQTypeOK
<1>2. [live EXCEPT ![i] = live[i]] = live
  BY <1>1
<1>3. [live EXCEPT ![i].aborted = TRUE] = [live EXCEPT ![i] = [live[i] EXCEPT !.aborted = TRUE]]
  BY <1>1
<1> QED BY <1>2, <1>3 DEF Aborted, Stopped

\* The rest of a task does not speak against a status that occupies no slot.
LEMMA QuietStatus ==
  ASSUME QueueInv, NEW i \in Ids, NEW status \in UploadStatuses \ (Busy \cup {"gone", "failed"}),
         NEW l, l = live[i] \/ l = Stopped(live[i]), ~Alive(l),
         NEW p \in BOOLEAN, p /\ l.pc # "none" => l.aborted /\ status = "paused"
  PROVE  /\ Good(i, With(tasks[i], status), l, p, used)
         /\ Backed(With(tasks[i], status)) /\ Backed(l)
         /\ With(tasks[i], status).status \in Busy => tasks[i].status \in Busy
<1> DEFINE t == With(tasks[i], status)
<1>1. /\ tasks[i] \in Tasks /\ live[i] \in Transports
      /\ Good(i, tasks[i], live[i], paused[i], used) /\ Backed(tasks[i]) /\ Backed(live[i])
  BY PageNow DEF Page
<1>2. /\ t \in Tasks /\ t.sid = tasks[i].sid /\ t.stamp = tasks[i].stamp
      /\ t.rebind = tasks[i].rebind
      /\ tasks[i].status # "gone" => t.status = status
      /\ tasks[i].status = "gone" => t = tasks[i]
  BY <1>1, WithFields
<1>3. l \in Transports /\ l.pc = live[i].pc /\ l.sid = live[i].sid /\ l.stamp = live[i].stamp
      /\ l.part = live[i].part /\ l.reply = live[i].reply
  BY <1>1, StoppedFields
<1> HIDE DEF t
<1>4. status \notin Busy /\ status \notin {"gone", "failed"}
  OBVIOUS
<1>5. Seated(t, l, p)
  BY <1>1, <1>2, <1>3, <1>4 DEF Good, Seated, Alive, Busy
<1>6. Addressed(l)
  BY <1>1, <1>3 DEF Good, Addressed
<1>7. Filed(t, l)
  BY <1>1, <1>2, <1>3, <1>4 DEF Good, Filed
<1>8. t.status # "gone" \/ l.pc # "none" => i <= used
  BY <1>1, <1>2, <1>3 DEF Good
<1>9. Good(i, t, l, p, used)
  BY <1>2, <1>3, <1>5, <1>6, <1>7, <1>8 DEF Good
<1>10. Backed(t) /\ Backed(l)
  BY <1>1, <1>2, <1>3 DEF Backed
<1> QED BY <1>2, <1>4, <1>9, <1>10 DEF t

\* What a click commits is a page that claims nothing new.
Committed(u) == \E ts, lv, ps : Page(ts, lv, ps, u) /\ Commit(ts, lv, ps)

LEMMA Unreplaced ==
  ASSUME QueueInv, NEW i \in Ids
  PROVE  /\ [tasks EXCEPT ![i] = tasks[i]] = tasks
         /\ [live EXCEPT ![i] = live[i]] = live
         /\ [paused EXCEPT ![i] = paused[i]] = paused
         /\ tasks[i] \in Tasks /\ view[i] \in Tasks /\ live[i] \in Transports /\ paused[i] \in BOOLEAN
         /\ Good(i, tasks[i], live[i], paused[i], used) /\ Shown(view[i], live[i])
         /\ Backed(tasks[i]) /\ Backed(live[i])
         /\ used \in Nat
<1>1. /\ [tasks EXCEPT ![i] = tasks[i]] = tasks
      /\ [live EXCEPT ![i] = live[i]] = live
      /\ [paused EXCEPT ![i] = paused[i]] = paused
  BY DEF QueueInv, UQTypeOK
<1>2. /\ tasks[i] \in Tasks /\ view[i] \in Tasks /\ live[i] \in Transports /\ paused[i] \in BOOLEAN
      /\ Good(i, tasks[i], live[i], paused[i], used) /\ Shown(view[i], live[i])
      /\ used \in Nat
  BY BoundsAssumption DEF QueueInv, UQTypeOK
<1> QED BY <1>1, <1>2, AllBacked

LEMMA OneStatus ==
  ASSUME QueueInv, NEW i \in Ids, NEW status \in UploadStatuses \ (Busy \cup {"gone", "failed"}),
         NEW l, l = live[i] \/ l = Stopped(live[i]), ~Alive(l),
         NEW p \in BOOLEAN, p /\ l.pc # "none" => l.aborted /\ status = "paused",
         NEW lv, lv = [live EXCEPT ![i] = l], NEW ps, ps = [paused EXCEPT ![i] = p]
  PROVE  Page(SetStatus(tasks, i, status), lv, ps, used)
<1>1. SetStatus(tasks, i, status) = [tasks EXCEPT ![i] = With(tasks[i], status)]
  BY Statuses DEF QueueInv, UQTypeOK
<1>2. /\ Good(i, With(tasks[i], status), l, p, used)
      /\ Backed(With(tasks[i], status)) /\ Backed(l)
      /\ With(tasks[i], status).status \in Busy => tasks[i].status \in Busy
  BY QuietStatus
<1>3. used \in Nat /\ used <= used
  BY Unreplaced
<1>4. Page([tasks EXCEPT ![i] = With(tasks[i], status)], [live EXCEPT ![i] = l],
            [paused EXCEPT ![i] = p], used)
  BY <1>2, <1>3, Edits
<1> QED BY <1>1, <1>4

LEMMA PauseCommits ==
  ASSUME QueueInv, NEW i \in Ids, Pause(i)
  PROVE  Committed(used)
<1>1. Commit(SetStatus(tasks, i, "paused"), Aborted(i), [paused EXCEPT ![i] = TRUE])
  BY DEF Pause
<1>2. /\ Aborted(i) = [live EXCEPT ![i] = Stopped(live[i])] /\ ~Alive(Stopped(live[i]))
      /\ live[i].pc # "none" => Stopped(live[i]).aborted
      /\ Stopped(live[i]).pc = live[i].pc
  BY Abortions, StoppedFields, Unreplaced
<1>3. Page(SetStatus(tasks, i, "paused"), Aborted(i), [paused EXCEPT ![i] = TRUE], used)
  BY <1>2, OneStatus DEF UploadStatuses, Busy
<1> QED BY <1>1, <1>3 DEF Committed

LEMMA ResumeCommits ==
  ASSUME QueueInv, NEW i \in Ids, Resume(i)
  PROVE  \/ Committed(used) /\ pending' = pending
         \/ UNCHANGED <<tasks, view, dirty, live, paused, saved>> /\ pending' = pending \cup {i}
<1>1. SUFFICES ASSUME live[i].pc = "none",
                      Commit(SetStatus(tasks, i, "queued"), live, [paused EXCEPT ![i] = FALSE]),
                      UNCHANGED pending
               PROVE  Committed(used)
  BY DEF Resume
<1>2. Page(SetStatus(tasks, i, "queued"), live, [paused EXCEPT ![i] = FALSE], used)
  BY <1>1, OneStatus, Unreplaced DEF UploadStatuses, Busy, Alive
<1> QED BY <1>1, <1>2 DEF Committed

LEMMA CancelCommits ==
  ASSUME QueueInv, NEW i \in Ids, Cancel(i)
  PROVE  Committed(used)
<1>1. Commit(SetStatus(tasks, i, "cancelled"), Aborted(i), [paused EXCEPT ![i] = FALSE])
  BY DEF Cancel
<1>2. Aborted(i) = [live EXCEPT ![i] = Stopped(live[i])] /\ ~Alive(Stopped(live[i]))
  BY Abortions, StoppedFields, Unreplaced
<1>3. Page(SetStatus(tasks, i, "cancelled"), Aborted(i), [paused EXCEPT ![i] = FALSE], used)
  BY <1>2, OneStatus DEF UploadStatuses, Busy
<1> QED BY <1>1, <1>3 DEF Committed

LEMMA RetryCommits ==
  ASSUME QueueInv, NEW i \in Ids, Retry(i)
  PROVE  Committed(used)
<1>1. /\ view[i].status = "failed"
      /\ Commit(IF tasks[i].rebind THEN tasks ELSE SetStatus(tasks, i, "queued"), live, paused)
  BY DEF Retry
<1>2. live[i].pc = "none"
  BY <1>1, Unreplaced DEF Shown
<1>3. Page(SetStatus(tasks, i, "queued"), live, paused, used)
  BY <1>2, OneStatus, Unreplaced DEF UploadStatuses, Busy, Alive
<1> QED BY <1>1, <1>3, PageNow DEF Committed

LEMMA RebindCommits ==
  ASSUME QueueInv, NEW i \in Ids, NEW f \in Stamps \cup {NoStamp}, Rebind(i, f)
  PROVE  Committed(used)
<1> DEFINE t == IF tasks[i].status = "gone" THEN tasks[i] ELSE Rebound(tasks[i], f)
<1>1. view[i].rebind /\ Commit(Reduce(tasks, i, Rebound(tasks[i], f)), live, paused)
  BY DEF Rebind
<1>2. live[i].pc = "none"
  BY <1>1, Unreplaced DEF Shown
<1>3. Reduce(tasks, i, Rebound(tasks[i], f)) = [tasks EXCEPT ![i] = t]
  BY Unreplaced DEF Reduce
<1>4. tasks[i] \in Tasks /\ Good(i, tasks[i], live[i], paused[i], used) /\ Backed(tasks[i])
  BY Unreplaced
<1>5. \/ t = tasks[i]
      \/ /\ f # NoStamp /\ t.stamp = f /\ ~t.rebind /\ t.status = "queued" /\ t \in Tasks
         /\ tasks[i].status # "gone"
         /\ tasks[i].stamp = NoStamp => t.sid = NoSid
         /\ tasks[i].stamp # NoStamp => t.sid = tasks[i].sid /\ t.stamp = tasks[i].stamp
  BY <1>4 DEF Rebound, Tasks, UploadStatuses
<1> HIDE DEF t
<1>6. Good(i, t, live[i], paused[i], used)
  BY <1>2, <1>4, <1>5 DEF Good, Seated, Alive, Busy, Filed
<1>7. Backed(t)
  BY <1>4, <1>5 DEF Backed, NoSid, Sids
<1>8. t.status \in Busy => tasks[i].status \in Busy
  BY <1>5 DEF Busy
<1>9. Page([tasks EXCEPT ![i] = t], live, paused, used)
  <2>1. used \in Nat /\ used <= used /\ Backed(live[i])
    BY Unreplaced
  <2>2. Page([tasks EXCEPT ![i] = t], [live EXCEPT ![i] = live[i]], [paused EXCEPT ![i] = paused[i]], used)
    BY <1>6, <1>7, <1>8, <2>1, Edits
  <2> QED BY <2>2, Unreplaced
<1> QED BY <1>1, <1>3, <1>9 DEF Committed

LEMMA GoneIsATask == Gone \in Tasks /\ Gone.status = "gone" /\ ~Gone.rebind /\ Backed(Gone)
  BY DEF Gone, Tasks, UploadStatuses, Backed

LEMMA RemoveCommits ==
  ASSUME QueueInv, NEW i \in Ids, Remove(i)
  PROVE  Committed(used)
<1>1. /\ view[i].status \in {"completed", "cancelled", "failed"}
      /\ Commit([tasks EXCEPT ![i] = Gone], live, paused)
  BY DEF Remove
<1>2. ~Alive(live[i])
  BY <1>1, Unreplaced DEF Shown, Over, Alive
<1>3. Good(i, Gone, live[i], paused[i], used)
  BY <1>2, Unreplaced, GoneIsATask DEF Good, Seated, Alive, Busy, Filed
<1>4. Page([tasks EXCEPT ![i] = Gone], live, paused, used)
  <2>1. used \in Nat /\ used <= used /\ Backed(live[i])
    BY Unreplaced
  <2>2. Page([tasks EXCEPT ![i] = Gone], [live EXCEPT ![i] = live[i]], [paused EXCEPT ![i] = paused[i]], used)
    BY <1>3, <2>1, GoneIsATask, Edits DEF Busy
  <2> QED BY <2>2, Unreplaced
<1> QED BY <1>1, <1>4 DEF Committed

LEMMA ClearCommits ==
  ASSUME QueueInv, ClearCompleted
  PROVE  Committed(used)
<1> DEFINE ts == [i \in Ids |-> IF tasks[i].status = "completed" THEN Gone ELSE tasks[i]]
<1>1. Commit(ts, live, paused)
  BY DEF ClearCompleted
<1>2. \A i \in Ids : ts[i] \in Tasks /\ Good(i, ts[i], live[i], paused[i], used) /\ Backed(ts[i]) /\ Backed(live[i])
  <2> SUFFICES ASSUME NEW i \in Ids
               PROVE  /\ ts[i] \in Tasks /\ Good(i, ts[i], live[i], paused[i], used)
                      /\ Backed(ts[i]) /\ Backed(live[i])
    OBVIOUS
  <2>1. CASE tasks[i].status = "completed"
    <3>1. ts[i] = Gone
      BY <2>1
    <3>2. Good(i, Gone, live[i], paused[i], used)
      BY <2>1, Unreplaced, GoneIsATask DEF Good, Seated, Alive, Busy, Filed
    <3> QED BY <3>1, <3>2, Unreplaced, GoneIsATask
  <2>2. CASE tasks[i].status # "completed"
    BY <2>2, Unreplaced
  <2> QED BY <2>1, <2>2
<1>3. Running(ts) = Running(tasks)
  BY GoneIsATask DEF Running
<1>4. ts \in [Ids -> Tasks]
  BY <1>2
<1> HIDE DEF ts
<1>5. Page(ts, live, paused, used)
  BY <1>2, <1>3, <1>4 DEF Page, QueueInv, UQTypeOK
<1> QED BY <1>1, <1>5 DEF Committed

LEMMA EnqueueCommits ==
  ASSUME QueueInv, NEW kind \in Kinds, NEW valid \in BOOLEAN, Enqueue(kind, Min(Stamps), valid)
  PROVE  used' \in 0..MaxTasks /\ Committed(used')
<1> DEFINE i == used + 1
           t == [Gone EXCEPT !.status = IF valid THEN "queued" ELSE "failed",
                             !.kind = kind, !.stamp = Min(Stamps)]
<1>1. /\ used < MaxTasks /\ used' = i
      /\ Commit([tasks EXCEPT ![i] = t], live, paused)
  BY DEF Enqueue
<1>2. Min(Stamps) \in Stamps
  <2>1. Stamps # {} /\ Stamps \subseteq Nat
    BY StampsAssumption
  <2> QED BY <2>1, Minimum
<1>3. used \in 0..MaxTasks /\ MaxTasks \in Nat
  BY BoundsAssumption DEF QueueInv, UQTypeOK
<1>4. i \in Ids /\ i \in Nat /\ i \in 0..MaxTasks /\ used <= i /\ ~(i <= used) /\ i <= i
  BY <1>1, <1>3 DEF Ids
<1>5. /\ t \in Tasks /\ t.status \in {"queued", "failed"} /\ ~t.rebind /\ t.stamp = Min(Stamps)
      /\ t.sid = NoSid
  BY <1>2, KindsAssumption DEF Gone, Tasks, UploadStatuses
<1> HIDE DEF i, t
<1>6. live[i].pc = "none"
  BY <1>4, Unreplaced DEF Good
<1>7. Good(i, t, live[i], paused[i], i)
  BY <1>2, <1>4, <1>5, <1>6, Unreplaced, StampsAssumption DEF Good, Seated, Alive, Busy, Filed, NoStamp
<1>8. Backed(t) /\ Backed(live[i])
  BY <1>4, <1>5, Unreplaced DEF Backed, NoSid, Sids
<1>9. Page([tasks EXCEPT ![i] = t], [live EXCEPT ![i] = live[i]], [paused EXCEPT ![i] = paused[i]], i)
  BY <1>4, <1>5, <1>7, <1>8, Edits DEF Busy
<1> QED BY <1>1, <1>4, <1>9, Unreplaced DEF Committed

-----------------------------------------------------------------------------
(* What a step does to the page, to the server, to the requests that       *)
(* nobody awaits and to the budget, and why the invariant follows.         *)

PageOK ==
  /\ Page(tasks', live', paused', used')
  /\ view' \in [Ids -> Tasks] /\ dirty' \in BOOLEAN /\ used' \in 0..MaxTasks
  /\ saved' \subseteq SavedRecords /\ \A r \in saved' : Backed(r)
  /\ \A i \in Ids : Shown(view'[i], live'[i])
  /\ pending' \subseteq Ids
  /\ restore' \in [state : {"sent", "answered", "done"}, seen : SUBSET Sids]

ServerOK ==
  /\ sessions' \in [Sids -> Sessions] /\ origin' \in [Sids -> SUBSET Stamps]
  /\ \A s \in Sids : /\ sessions'[s].status = "absent" => sessions[s].status = "absent"
                     /\ \A f \in origin'[s] : f \in Sources(s)

StraysOK == strays' \subseteq Requests /\ \A q \in strays' : StrayOK(q) /\ Backed(q)

Budgets == [clicks : 0..MaxClicks, visits : 0..MaxVisits, faults : 0..MaxFaults,
            events : 0..MaxEvents]

LEMMA Concludes ==
  ASSUME QueueInv, PageOK, ServerOK, StraysOK, budget' \in Budgets
  PROVE  QueueInv'
<1>1. UQTypeOK'
  BY DEF UQTypeOK, PageOK, Page, ServerOK, StraysOK, Budgets, SavedRecords, Ids, Sids, Requests,
         Tasks, Transports
<1>2. \A i \in Ids : Good(i, tasks'[i], live'[i], paused'[i], used') /\ Shown(view'[i], live'[i])
  BY DEF PageOK, Page
<1>3. Cardinality(Running(tasks')) <= MaxConcurrent
  BY DEF PageOK, Page
<1>4. \A q \in strays' : StrayOK(q)
  BY DEF StraysOK
<1>5. OneSource'
  <2>1. \A s \in Sids : Sources(s)' \subseteq Sources(s)
    BY NothingNew DEF PageOK, Page, StraysOK, ServerOK
  <2> QED BY <2>1, SourcesStay DEF QueueInv, ServerOK
<1> QED BY <1>1, <1>2, <1>3, <1>4, <1>5
        DEF QueueInv, Running, Ids, Good, Shown, Seated, Alive, Addressed, Filed, StrayOK, Sids,
            Busy, Over, Tasks, Transports

LEMMA PageStays ==
  ASSUME QueueInv, UNCHANGED page
  PROVE  PageOK
<1>1. /\ Page(tasks, live, paused, used)
      /\ view \in [Ids -> Tasks] /\ dirty \in BOOLEAN /\ used \in 0..MaxTasks
      /\ saved \subseteq SavedRecords /\ \A i \in Ids : Shown(view[i], live[i])
      /\ pending \subseteq Ids
      /\ restore \in [state : {"sent", "answered", "done"}, seen : SUBSET Sids]
  BY PageNow DEF QueueInv, UQTypeOK, SavedRecords
<1> QED BY <1>1, AllBacked DEF PageOK, page

LEMMA ServerStays ==
  ASSUME QueueInv, UNCHANGED server
  PROVE  ServerOK
<1>1. sessions \in [Sids -> Sessions] /\ origin \in [Sids -> SUBSET Stamps]
  BY DEF QueueInv, UQTypeOK
<1>2. \A s \in Sids : \A f \in origin[s] : f \in Sources(s)
  BY <1>1, Claims, StampsAssumption DEF NoStamp
<1> QED BY <1>1, <1>2 DEF ServerOK, server

LEMMA StraysStay ==
  ASSUME QueueInv, strays' \subseteq strays
  PROVE  StraysOK
  BY AllBacked DEF QueueInv, UQTypeOK, StraysOK

LEMMA BudgetNow ==
  ASSUME QueueInv
  PROVE  budget \in Budgets
  BY DEF QueueInv, UQTypeOK, Budgets

LEMMA Spends ==
  ASSUME QueueInv, NEW kind \in {"clicks", "visits", "faults"}, Spend(kind)
  PROVE  budget' \in Budgets /\ budget'[kind] # budget[kind]
<1>1. /\ MaxClicks \in Nat /\ MaxVisits \in Nat /\ MaxFaults \in Nat /\ MaxEvents \in Nat
  BY BoundsAssumption
<1>2. budget \in Budgets /\ budget[kind] > 0 /\ budget.events > 0
  BY BudgetNow DEF Spend
<1>3. budget' = [budget EXCEPT ![kind] = @ - 1, !.events = @ - 1]
  BY DEF Spend
<1>4. CASE kind = "clicks"
  <2>1. /\ budget.clicks \in 0..MaxClicks /\ budget.clicks > 0
        /\ budget.events \in 0..MaxEvents
    BY <1>2, <1>4 DEF Budgets
  <2>2. budget' = [budget EXCEPT !.clicks = budget.clicks - 1, !.events = budget.events - 1]
    BY <1>2, <1>3, <1>4 DEF Budgets
  <2>3. /\ budget.clicks - 1 \in 0..MaxClicks /\ budget.events - 1 \in 0..MaxEvents
        /\ budget.clicks - 1 # budget.clicks
    BY <1>1, <1>2, <2>1
  <2>4. budget' \in Budgets /\ budget'.clicks = budget.clicks - 1
    BY <1>2, <2>2, <2>3 DEF Budgets
  <2> QED BY <1>4, <2>3, <2>4
<1>5. CASE kind = "visits"
  <2>1. /\ budget.visits \in 0..MaxVisits /\ budget.visits > 0
        /\ budget.events \in 0..MaxEvents
    BY <1>2, <1>5 DEF Budgets
  <2>2. budget' = [budget EXCEPT !.visits = budget.visits - 1, !.events = budget.events - 1]
    BY <1>2, <1>3, <1>5 DEF Budgets
  <2>3. /\ budget.visits - 1 \in 0..MaxVisits /\ budget.events - 1 \in 0..MaxEvents
        /\ budget.visits - 1 # budget.visits
    BY <1>1, <1>2, <2>1
  <2>4. budget' \in Budgets /\ budget'.visits = budget.visits - 1
    BY <1>2, <2>2, <2>3 DEF Budgets
  <2> QED BY <1>5, <2>3, <2>4
<1>6. CASE kind = "faults"
  <2>1. /\ budget.faults \in 0..MaxFaults /\ budget.faults > 0
        /\ budget.events \in 0..MaxEvents
    BY <1>2, <1>6 DEF Budgets
  <2>2. budget' = [budget EXCEPT !.faults = budget.faults - 1, !.events = budget.events - 1]
    BY <1>2, <1>3, <1>6 DEF Budgets
  <2>3. /\ budget.faults - 1 \in 0..MaxFaults /\ budget.events - 1 \in 0..MaxEvents
        /\ budget.faults - 1 # budget.faults
    BY <1>1, <1>2, <2>1
  <2>4. budget' \in Budgets /\ budget'.faults = budget.faults - 1
    BY <1>2, <2>2, <2>3 DEF Budgets
  <2> QED BY <1>6, <2>3, <2>4
<1> QED BY <1>4, <1>5, <1>6

LEMMA CommittedOK ==
  ASSUME QueueInv, Committed(used'), used' \in 0..MaxTasks, pending' \subseteq Ids,
         UNCHANGED restore
  PROVE  PageOK
<1>1. PICK ts, lv, ps : Page(ts, lv, ps, used') /\ Commit(ts, lv, ps)
  BY DEF Committed
<1>2. restore' \in [state : {"sent", "answered", "done"}, seen : SUBSET Sids]
  BY DEF QueueInv, UQTypeOK
<1> QED BY <1>1, <1>2, Commits DEF PageOK

\* A step of the transport of task i.
LEMMA TransportOK ==
  ASSUME QueueInv, NEW i \in Ids, NEW t, NEW l, NEW p,
         Good(i, t, l, p, used), Backed(t), Backed(l),
         t.status \in Busy => tasks[i].status \in Busy,
         l.pc = "none" \/ (live[i].pc # "none" /\ l.aborted = live[i].aborted),
         tasks' = [tasks EXCEPT ![i] = t], live' = [live EXCEPT ![i] = l],
         paused' = [paused EXCEPT ![i] = p],
         UNCHANGED <<view, used, restore, saved>>,
         pending' \subseteq Ids, dirty' \in BOOLEAN
  PROVE  PageOK
<1>1. used \in Nat /\ used <= used
  BY Unreplaced
<1>2. Page([tasks EXCEPT ![i] = t], [live EXCEPT ![i] = l], [paused EXCEPT ![i] = p], used)
  BY <1>1, Edits
<1>3. \A j \in Ids : Shown(view[j], live'[j])
  <2> SUFFICES ASSUME NEW j \in Ids PROVE Shown(view[j], live'[j])
    OBVIOUS
  <2>1. live \in [Ids -> Transports] /\ Shown(view[j], live[j])
    BY DEF QueueInv, UQTypeOK
  <2>2. live'[j] = IF j = i THEN l ELSE live[j]
    BY <2>1
  <2> QED BY <2>1, <2>2 DEF Shown, Alive
<1>4. /\ view \in [Ids -> Tasks] /\ used \in 0..MaxTasks /\ saved \subseteq SavedRecords
      /\ restore \in [state : {"sent", "answered", "done"}, seen : SUBSET Sids]
  BY DEF QueueInv, UQTypeOK, SavedRecords
<1> QED BY <1>2, <1>3, <1>4, AllBacked DEF PageOK

-----------------------------------------------------------------------------
(* Clicks keep the invariant.                                              *)

LEMMA UndoIsAStray ==
  ASSUME NEW sid \in Sids
  PROVE  Undo(sid) \in Requests /\ StrayOK(Undo(sid)) /\ Backed(Undo(sid))
  BY DEF Undo, Requests, StrayOK, Backed

\* A click of a task sends at most a cancellation of the session it shows.
LEMMA Cancellations ==
  ASSUME QueueInv, NEW i \in Ids,
         strays' \subseteq strays \cup {q \in {Undo(view[i].sid)} : view[i].sid # NoSid}
  PROVE  StraysOK
<1>1. view[i] \in Tasks
  BY Unreplaced
<1>2. view[i].sid # NoSid => view[i].sid \in Sids
  BY <1>1 DEF Tasks
<1>3. \A q \in strays : q \in Requests /\ StrayOK(q) /\ Backed(q)
  BY StraysStay, AllBacked DEF QueueInv, UQTypeOK
<1>4. \A q \in strays' : q \in Requests /\ StrayOK(q) /\ Backed(q)
  BY <1>2, <1>3, UndoIsAStray
<1> QED BY <1>4 DEF StraysOK

LEMMA ClickSafe ==
  ASSUME QueueInv, Click
  PROVE  QueueInv'
<1>0. pending \subseteq Ids /\ used \in 0..MaxTasks
  BY DEF QueueInv, UQTypeOK
<1>1. ASSUME NEW k \in Kinds, NEW valid \in BOOLEAN, Enqueue(k, Min(Stamps), valid) PROVE QueueInv'
  <2>1. Spend("clicks") /\ UNCHANGED <<pending, restore, server, strays>>
    BY <1>1 DEF Enqueue
  <2>2. PageOK
    BY <1>0, <1>1, <2>1, EnqueueCommits, CommittedOK
  <2>3. ServerOK /\ StraysOK /\ budget' \in Budgets
    BY <2>1, ServerStays, StraysStay, Spends
  <2> QED BY <2>2, <2>3, Concludes
<1>2. ASSUME NEW i \in Ids, Pause(i) PROVE QueueInv'
  <2>1. Spend("clicks") /\ UNCHANGED <<used, pending, restore, server, strays>>
    BY <1>2 DEF Pause
  <2>2. PageOK
    BY <1>0, <1>2, <2>1, PauseCommits, CommittedOK
  <2>3. ServerOK /\ StraysOK /\ budget' \in Budgets
    BY <2>1, ServerStays, StraysStay, Spends
  <2> QED BY <2>2, <2>3, Concludes
<1>3. ASSUME NEW i \in Ids, Resume(i) PROVE QueueInv'
  <2>1. Spend("clicks") /\ UNCHANGED <<used, restore, server, strays>>
    BY <1>3 DEF Resume
  <2>2. PageOK
    <3>1. CASE Committed(used) /\ pending' = pending
      BY <1>0, <2>1, <3>1, CommittedOK
    <3>2. CASE UNCHANGED <<tasks, view, dirty, live, paused, saved>> /\ pending' = pending \cup {i}
      <4>1. /\ Page(tasks, live, paused, used)
            /\ view \in [Ids -> Tasks] /\ dirty \in BOOLEAN /\ used \in 0..MaxTasks
            /\ saved \subseteq SavedRecords /\ \A j \in Ids : Shown(view[j], live[j])
            /\ restore \in [state : {"sent", "answered", "done"}, seen : SUBSET Sids]
        BY PageNow DEF QueueInv, UQTypeOK, SavedRecords
      <4> QED BY <1>0, <2>1, <3>2, <4>1, AllBacked DEF PageOK
    <3> QED BY <1>3, <3>1, <3>2, ResumeCommits
  <2>3. ServerOK /\ StraysOK /\ budget' \in Budgets
    BY <2>1, ServerStays, StraysStay, Spends
  <2> QED BY <2>2, <2>3, Concludes
<1>4. ASSUME NEW i \in Ids, Cancel(i) PROVE QueueInv'
  <2>1. /\ Spend("clicks") /\ UNCHANGED <<used, restore, server>> /\ pending' = pending \ {i}
        /\ strays' = strays \cup {q \in {Undo(view[i].sid)} : CancelsHere(i)}
    BY <1>4 DEF Cancel
  <2>2. PageOK
    BY <1>0, <1>4, <2>1, CancelCommits, CommittedOK
  <2>3. CancelsHere(i) => view[i].sid # NoSid
    BY DEF CancelsHere
  <2>4. StraysOK
    BY <2>1, <2>3, Cancellations
  <2>5. ServerOK /\ budget' \in Budgets
    BY <2>1, ServerStays, Spends
  <2> QED BY <2>2, <2>4, <2>5, Concludes
<1>5. ASSUME NEW i \in Ids, Retry(i) PROVE QueueInv'
  <2>1. Spend("clicks") /\ UNCHANGED <<used, pending, restore, server, strays>>
    BY <1>5 DEF Retry
  <2>2. PageOK
    BY <1>0, <1>5, <2>1, RetryCommits, CommittedOK
  <2>3. ServerOK /\ StraysOK /\ budget' \in Budgets
    BY <2>1, ServerStays, StraysStay, Spends
  <2> QED BY <2>2, <2>3, Concludes
<1>6. ASSUME NEW i \in Ids, Remove(i) PROVE QueueInv'
  <2>1. /\ Spend("clicks") /\ UNCHANGED <<used, restore, server, strays>>
        /\ pending' = pending \ {i}
    BY <1>6 DEF Remove
  <2>2. PageOK
    BY <1>0, <1>6, <2>1, RemoveCommits, CommittedOK
  <2>3. ServerOK /\ StraysOK /\ budget' \in Budgets
    BY <2>1, ServerStays, StraysStay, Spends
  <2> QED BY <2>2, <2>3, Concludes
<1>7. ASSUME NEW i \in Ids, NEW f \in Stamps \cup {NoStamp}, Rebind(i, f) PROVE QueueInv'
  <2>1. /\ Spend("clicks") /\ UNCHANGED <<used, pending, restore, server>>
        /\ strays' = strays \cup
             {q \in {Undo(view[i].sid)} : view[i].sid # NoSid /\ view[i].stamp = NoStamp}
    BY <1>7 DEF Rebind
  <2>2. PageOK
    BY <1>0, <1>7, <2>1, RebindCommits, CommittedOK
  <2>3. StraysOK
    BY <2>1, Cancellations
  <2>4. ServerOK /\ budget' \in Budgets
    BY <2>1, ServerStays, Spends
  <2> QED BY <2>2, <2>3, <2>4, Concludes
<1>8. ASSUME ClearCompleted PROVE QueueInv'
  <2>1. Spend("clicks") /\ UNCHANGED <<used, pending, restore, server, strays>>
    BY <1>8 DEF ClearCompleted
  <2>2. PageOK
    BY <1>0, <1>8, <2>1, ClearCommits, CommittedOK
  <2>3. ServerOK /\ StraysOK /\ budget' \in Budgets
    BY <2>1, ServerStays, StraysStay, Spends
  <2> QED BY <2>2, <2>3, Concludes
<1> QED BY <1>1, <1>2, <1>3, <1>4, <1>5, <1>6, <1>7, <1>8 DEF Click

-----------------------------------------------------------------------------
(* Renders, visits and the list.                                           *)

LEMMA RenderSafe ==
  ASSUME QueueInv, Render
  PROVE  QueueInv'
<1>1. /\ Commit(tasks, live, paused)
      /\ UNCHANGED <<used, pending, restore, server, strays, budget>>
  BY DEF Render
<1>2. Committed(used)
  BY <1>1, PageNow DEF Committed
<1>3. pending \subseteq Ids /\ used \in 0..MaxTasks
  BY DEF QueueInv, UQTypeOK
<1>4. PageOK
  BY <1>1, <1>2, <1>3, CommittedOK
<1>5. ServerOK /\ StraysOK /\ budget' \in Budgets
  BY <1>1, ServerStays, StraysStay, BudgetNow
<1> QED BY <1>4, <1>5, Concludes

\* A new visit has no tasks, and its transports, if any, were told to stop.
LEMMA VisitPage ==
  ASSUME QueueInv, NewVisit, live' \in [Ids -> Transports],
         \A i \in Ids : live'[i] = NoTransport \/ live'[i] = Stopped(live[i])
  PROVE  PageOK
<1>1. /\ tasks' = [i \in Ids |-> Gone] /\ view' = tasks' /\ dirty' = FALSE
      /\ saved' = Persisted(tasks') /\ pending' = {} /\ restore' = [state |-> "sent", seen |-> {}]
      /\ used' = used /\ paused' = paused
  BY DEF NewVisit
<1>2. used \in 0..MaxTasks /\ paused \in [Ids -> BOOLEAN]
  BY DEF QueueInv, UQTypeOK
<1>3. saved' = {}
  BY <1>1, GoneIsATask DEF Persisted
<1>4. ASSUME NEW i \in Ids
      PROVE  /\ Good(i, Gone, live'[i], paused[i], used) /\ Backed(live'[i])
             /\ Shown(Gone, live'[i])
  <2>1. live[i] \in Transports /\ Good(i, tasks[i], live[i], paused[i], used) /\ Backed(live[i])
    BY Unreplaced
  <2>2. CASE live'[i] = NoTransport
    <3>1. live'[i].pc = "none" /\ live'[i].stamp = NoStamp
      BY <2>2 DEF NoTransport
    <3> QED BY <1>2, <2>1, <3>1, GoneIsATask
            DEF Good, Seated, Alive, Addressed, Filed, Shown, Over, Backed, Busy
  <2>3. CASE live'[i] = Stopped(live[i])
    <3> DEFINE l == Stopped(live[i])
    <3>1. /\ l \in Transports /\ l.pc = live[i].pc /\ l.sid = live[i].sid /\ l.stamp = live[i].stamp
          /\ l.part = live[i].part /\ l.reply = live[i].reply /\ ~Alive(l)
          /\ l.pc # "none" => l.aborted
      BY <2>1, StoppedFields
    <3> HIDE DEF l
    <3>2. Good(i, Gone, l, paused[i], used)
      BY <1>2, <2>1, <3>1, GoneIsATask DEF Good, Seated, Addressed, Filed, Busy
    <3>3. Shown(Gone, l)
      BY GoneIsATask DEF Shown, Over
    <3>4. Backed(l)
      BY <2>1, <3>1 DEF Backed
    <3> QED BY <2>3, <3>2, <3>3, <3>4 DEF l
  <2> QED BY <2>2, <2>3
<1>5. Cardinality(Running(tasks')) <= MaxConcurrent
  <2>1. Running(tasks') = {}
    BY <1>1, GoneIsATask DEF Running
  <2> QED BY <2>1, FS_EmptySet, BoundsAssumption
<1>6. tasks' \in [Ids -> Tasks] /\ \A i \in Ids : tasks'[i] = Gone
  BY <1>1, GoneIsATask
<1>7. Page(tasks', live', paused', used')
  BY <1>1, <1>2, <1>4, <1>5, <1>6, GoneIsATask DEF Page
<1> QED BY <1>1, <1>2, <1>3, <1>4, <1>6, <1>7 DEF PageOK

LEMMA LeaveSafe ==
  ASSUME QueueInv, Leave
  PROVE  QueueInv'
<1>1. NewVisit /\ live' = [i \in Ids |-> Aborted(i)[i]] /\ UNCHANGED strays
  BY DEF Leave
<1>2. \A i \in Ids : Aborted(i)[i] = Stopped(live[i]) /\ Stopped(live[i]) \in Transports
  <2> SUFFICES ASSUME NEW i \in Ids PROVE Aborted(i)[i] = Stopped(live[i]) /\ Stopped(live[i]) \in Transports
    OBVIOUS
  <2>1. live \in [Ids -> Transports]
    BY DEF QueueInv, UQTypeOK
  <2> QED BY <2>1, Abortions, StoppedFields
<1>3. PageOK
  <2>1. live' \in [Ids -> Transports] /\ \A i \in Ids : live'[i] = Stopped(live[i])
    BY <1>1, <1>2
  <2> QED BY <1>1, <2>1, VisitPage
<1>4. Spend("visits") /\ UNCHANGED server
  BY <1>1 DEF NewVisit
<1>5. ServerOK /\ StraysOK /\ budget' \in Budgets
  BY <1>1, <1>4, ServerStays, StraysStay, Spends
<1> QED BY <1>3, <1>5, Concludes

\* What a transport asks for may arrive without it.
LEMMA RequestIsAStray ==
  ASSUME QueueInv, NEW i \in Ids, live[i].pc \notin {"none", "put", "get"}
  PROVE  /\ RequestOf(live[i]) \in Requests
         /\ StrayOK(RequestOf(live[i])) /\ Backed(RequestOf(live[i]))
<1>1. live[i] \in Transports /\ Good(i, tasks[i], live[i], paused[i], used) /\ Backed(live[i])
  BY Unreplaced
<1>2. RequestOf(live[i]) \in Requests
  BY <1>1 DEF Transports, Awaits, Requests, RequestOf
<1>3. LET r == RequestOf(live[i])
      IN r.pc = live[i].pc /\ r.sid = live[i].sid /\ r.part = live[i].part /\ r.stamp = live[i].stamp
  BY DEF RequestOf
<1>4. StrayOK(RequestOf(live[i])) /\ Backed(RequestOf(live[i]))
  BY <1>1, <1>2, <1>3 DEF StrayOK, Backed, Good, Addressed, Filed, Requests
<1> QED BY <1>2, <1>4

LEMMA ReloadSafe ==
  ASSUME QueueInv, Reload
  PROVE  QueueInv'
<1>1. /\ NewVisit /\ live' = [i \in Ids |-> NoTransport]
      /\ strays' = strays \cup {RequestOf(live[i]) :
           i \in {j \in Ids : live[j].pc \notin {"none", "put", "get"} /\ live[j].reply = "none"}}
  BY DEF Reload
<1>2. NoTransport \in Transports
  BY DEF NoTransport, Transports, Awaits
<1>3. PageOK
  <2>1. live' \in [Ids -> Transports] /\ \A i \in Ids : live'[i] = NoTransport
    BY <1>1, <1>2
  <2> QED BY <1>1, <2>1, VisitPage
<1>4. Spend("visits") /\ UNCHANGED server
  BY <1>1 DEF NewVisit
<1>5. StraysOK
  <2>1. \A q \in strays : q \in Requests /\ StrayOK(q) /\ Backed(q)
    BY AllBacked DEF QueueInv, UQTypeOK
  <2>2. \A q \in strays' : q \in Requests /\ StrayOK(q) /\ Backed(q)
    BY <1>1, <2>1, RequestIsAStray
  <2> QED BY <2>2 DEF StraysOK
<1>6. ServerOK /\ budget' \in Budgets
  BY <1>4, ServerStays, Spends
<1> QED BY <1>3, <1>5, <1>6, Concludes

LEMMA ListServedSafe ==
  ASSUME QueueInv, ListServed
  PROVE  QueueInv'
<1>1. /\ restore' = [state |-> "answered", seen |-> {s \in Sids : sessions[s].status \in {"active", "completing"}}]
      /\ UNCHANGED <<tasks, view, dirty, used, live, paused, pending, saved, server, strays, budget>>
  BY DEF ListServed
<1>2. PageOK
  <2>1. /\ Page(tasks, live, paused, used)
        /\ view \in [Ids -> Tasks] /\ dirty \in BOOLEAN /\ used \in 0..MaxTasks
        /\ saved \subseteq SavedRecords /\ \A j \in Ids : Shown(view[j], live[j])
        /\ pending \subseteq Ids
    BY PageNow DEF QueueInv, UQTypeOK, SavedRecords
  <2>2. restore' \in [state : {"sent", "answered", "done"}, seen : SUBSET Sids]
    BY <1>1
  <2> QED BY <1>1, <2>1, <2>2, AllBacked DEF PageOK
<1>3. ServerOK /\ StraysOK /\ budget' \in Budgets
  BY <1>1, ServerStays, StraysStay, BudgetNow
<1> QED BY <1>2, <1>3, Concludes

\* A restored task waits for its file; what it claims, the browser had saved.
LEMMA Restores ==
  ASSUME QueueInv, NEW s \in Sids
  PROVE  /\ RestoredTask(s) \in Tasks /\ RestoredTask(s).status = "failed"
         /\ RestoredTask(s).rebind /\ Backed(RestoredTask(s))
<1> DEFINE stamp == IF \E r \in saved : r.sid = s
                    THEN (CHOOSE r \in saved : r.sid = s).stamp ELSE NoStamp
<1>1. stamp \in Stamps \cup {NoStamp} /\ (stamp # NoStamp => stamp \in Sources(s))
  <2>1. CASE \E r \in saved : r.sid = s
    <3>1. PICK r \in saved : r.sid = s /\ stamp = r.stamp
      BY <2>1
    <3>2. r \in SavedRecords /\ Backed(r)
      BY AllBacked DEF QueueInv, UQTypeOK, SavedRecords
    <3> HIDE DEF stamp
    <3> QED BY <3>1, <3>2 DEF SavedRecords, Backed
  <2>2. CASE ~\E r \in saved : r.sid = s
    BY <2>2
  <2> QED BY <2>1, <2>2
<1>2. RestoredTask(s) = [Gone EXCEPT !.status = "failed", !.kind = "multipart", !.sid = s,
                                     !.rebind = TRUE, !.stamp = stamp]
  BY DEF RestoredTask
<1> HIDE DEF stamp
<1> DEFINE t == [Gone EXCEPT !.status = "failed", !.kind = "multipart", !.sid = s,
                             !.rebind = TRUE, !.stamp = stamp]
<1>3. t \in Tasks /\ t.status = "failed" /\ t.rebind /\ t.sid = s /\ t.stamp = stamp
  BY <1>1 DEF Gone, Tasks, UploadStatuses
<1>4. Backed(t)
  <2> HIDE DEF t
  <2> QED BY <1>1, <1>3 DEF Backed
<1> QED BY <1>2, <1>3, <1>4

LEMMA ListAnsweredSafe ==
  ASSUME QueueInv, ListAnswered
  PROVE  QueueInv'
<1> DEFINE seen == restore.seen
           rank(s) == Cardinality({r \in seen : r <= s})
           n == Cardinality(seen)
<1>1. /\ used + n <= MaxTasks /\ used' = used + n
      /\ tasks' = [i \in Ids |-> IF \E s \in seen : used + rank(s) = i
                                 THEN RestoredTask(CHOOSE s \in seen : used + rank(s) = i)
                                 ELSE tasks[i]]
      /\ dirty' = (dirty \/ seen # {}) /\ restore' = [state |-> "done", seen |-> {}]
      /\ UNCHANGED <<view, live, paused, pending, saved, server, strays, budget>>
  BY DEF ListAnswered
<1>2. seen \subseteq Sids /\ used \in 0..MaxTasks /\ MaxTasks \in Nat
  BY BoundsAssumption DEF QueueInv, UQTypeOK
<1>3. IsFiniteSet(seen) /\ n \in Nat
  <2>1. IsFiniteSet(Sids)
    BY BoundsAssumption, FS_Interval DEF Sids
  <2> HIDE DEF seen
  <2> QED BY <1>2, <2>1, FS_Subset, FS_CardinalityType
<1>4. ASSUME NEW s \in seen PROVE rank(s) \in Nat /\ rank(s) # 0 /\ rank(s) <= n
  <2> DEFINE T == {r \in seen : r <= s}
  <2>1. T \in SUBSET seen /\ s \in T
    <3>1. s \in Int
      BY <1>2 DEF Sids
    <3> QED BY <3>1
  <2> HIDE DEF seen, T
  <2>2. IsFiniteSet(T) /\ Cardinality(T) <= n /\ Cardinality(T) \in Nat /\ Cardinality(T) # 0
    BY <1>3, <2>1, FS_Subset, FS_CardinalityType, FS_EmptySet
  <2> QED BY <2>2 DEF T
<1> HIDE DEF seen, rank, n
<1>5. ASSUME NEW i \in Ids
      PROVE  /\ Good(i, tasks'[i], live[i], paused[i], used') /\ Backed(tasks'[i])
             /\ tasks'[i].status \in Busy => tasks[i].status \in Busy
  <2>0. Good(i, tasks[i], live[i], paused[i], used) /\ Backed(tasks[i])
    BY Unreplaced
  <2>1. CASE \E s \in seen : used + rank(s) = i
    <3>1. PICK s \in seen : used + rank(s) = i /\ tasks'[i] = RestoredTask(s)
      BY <1>1, <2>1
    <3>2. ~(i <= used) /\ i <= used' /\ s \in Sids
      BY <1>1, <1>2, <1>3, <1>4, <3>1
    <3>3. live[i].pc = "none"
      BY <2>0, <3>2 DEF Good
    <3>4. /\ tasks'[i] \in Tasks /\ tasks'[i].status = "failed" /\ tasks'[i].rebind
          /\ Backed(tasks'[i])
      BY <3>1, <3>2, Restores
    <3> QED BY <2>0, <3>2, <3>3, <3>4 DEF Good, Seated, Alive, Busy, Filed
  <2>2. CASE ~\E s \in seen : used + rank(s) = i
    <3>1. tasks'[i] = tasks[i]
      BY <1>1, <2>2
    <3>2. i \in Int /\ used \in Int /\ used <= used' /\ used' \in Int
      BY <1>1, <1>2, <1>3 DEF Ids
    <3> QED BY <2>0, <3>1, <3>2 DEF Good
  <2> QED BY <2>1, <2>2
<1>6. tasks' \in [Ids -> Tasks]
  <2>1. \A i \in Ids : tasks'[i] \in Tasks
    BY <1>5 DEF Good
  <2> QED BY <1>1, <2>1
<1>7. Cardinality(Running(tasks')) <= MaxConcurrent
  <2>1. Running(tasks') \in SUBSET Running(tasks)
    BY <1>5 DEF Running, Busy
  <2>2. Running(tasks) \in SUBSET Ids
    BY DEF Running
  <2>3. /\ Cardinality(Running(tasks')) <= Cardinality(Running(tasks))
        /\ Cardinality(Running(tasks')) \in Nat /\ Cardinality(Running(tasks)) \in Nat
    BY <2>1, <2>2, IdsAreFinite, FS_Subset
  <2> QED BY <2>3, BoundsAssumption DEF QueueInv
<1>8. Page(tasks', live', paused', used')
  <2>1. live \in [Ids -> Transports] /\ paused \in [Ids -> BOOLEAN]
    BY DEF QueueInv, UQTypeOK
  <2> QED BY <1>1, <1>5, <1>6, <1>7, <2>1, AllBacked DEF Page
<1>9. PageOK
  <2>1. /\ view \in [Ids -> Tasks] /\ dirty \in BOOLEAN
        /\ saved \subseteq SavedRecords /\ \A j \in Ids : Shown(view[j], live[j])
        /\ pending \subseteq Ids
    BY DEF QueueInv, UQTypeOK, SavedRecords
  <2>2. used' \in 0..MaxTasks
    BY <1>1, <1>2, <1>3
  <2> QED BY <1>1, <1>8, <2>1, <2>2, AllBacked DEF PageOK
<1>10. ServerOK /\ StraysOK /\ budget' \in Budgets
  BY <1>1, ServerStays, StraysStay, BudgetNow
<1> QED BY <1>9, <1>10, Concludes

-----------------------------------------------------------------------------
(* The server.                                                             *)

LEMMA Changes ==
  ASSUME QueueInv, NEW sid \in Sids, NEW session \in Sessions, session.status # "absent",
         NEW from, from \subseteq Stamps, \A f \in from : f \in Sources(sid),
         Change(sid, session, from)
  PROVE  ServerOK
<1>1. /\ sessions \in [Sids -> Sessions] /\ origin \in [Sids -> SUBSET Stamps]
      /\ sessions' = [sessions EXCEPT ![sid] = session]
      /\ origin' = [origin EXCEPT ![sid] = @ \cup from]
  BY DEF QueueInv, UQTypeOK, Change
<1>2. \A s \in Sids : \A f \in origin[s] : f \in Sources(s)
  BY <1>1, Claims, StampsAssumption DEF NoStamp
<1> QED BY <1>1, <1>2 DEF ServerOK

LEMMA SessionTypes ==
  /\ OpenSession \in Sessions /\ OpenSession.status # "absent"
  /\ \A s \in Sessions :
       /\ \A n \in Parts : WithPart(s, n) \in Sessions /\ WithPart(s, n).status = s.status
       /\ Completing(s) \in Sessions /\ Completing(s).status # "absent"
       /\ Reopened(s) \in Sessions /\ Reopened(s).status # "absent"
       /\ Finished(s) \in Sessions /\ Finished(s).status # "absent"
       /\ Cancelled(s) \in Sessions /\ Cancelled(s).status # "absent"
  BY DEF Sessions, SessionStatuses, OpenSession, WithPart, Completing, Reopened, Finished, Cancelled

\* A create opens a session that was not there.
LEMMA NewSessions ==
  ASSUME QueueInv, Created # Sids
  PROVE  Min(Sids \ Created) \in Sids /\ sessions[Min(Sids \ Created)].status = "absent"
<1>1. Sids \ Created \subseteq Nat /\ Sids \ Created # {}
  BY DEF Created, Sids
<1>2. Min(Sids \ Created) \in Sids \ Created
  BY <1>1, Minimum
<1> QED BY <1>2 DEF Created

\* Whatever the server grants, no file is claimed that its request did not read.
LEMMA Executes ==
  ASSUME QueueInv, NEW q, q.pc \in Awaits, StrayOK(q) \/ q.pc \in {"put", "none"}, Backed(q),
         Grants(q), Execute(q)
  PROVE  ServerOK
<1> DEFINE sid == About(q)
           s == sessions[sid]
<1>0. \A x \in Sids : sessions[x] \in Sessions
  BY DEF QueueInv, UQTypeOK
<1>1. CASE q.pc = "create"
  <2>1. sid \in Sids
    BY <1>1, NewSessions DEF Grants, About
  <2>2. Change(sid, OpenSession, {})
    BY <1>1 DEF Execute
  <2> HIDE DEF sid
  <2> QED BY <2>1, <2>2, Changes, SessionTypes
<1>2. CASE q.pc \in {"get", "part", "complete", "finish", "undo"}
  <2>1. sid = q.sid /\ q.sid \in Sids /\ s \in Sessions
    BY <1>0, <1>2 DEF About, StrayOK
  <2>2. \/ UNCHANGED server
        \/ /\ q.pc = "part" /\ s.status = "active"
           /\ Change(sid, WithPart(s, q.part), {q.stamp})
        \/ Change(sid, Completing(s), {}) \/ Change(sid, Finished(s), {}) \/ Change(sid, Cancelled(s), {})
    BY <1>2, <2>1 DEF Execute, Grants, TakesParts
  <2> HIDE DEF sid, s
  <2>3. CASE UNCHANGED server
    BY <2>3, ServerStays
  <2>4. CASE /\ q.pc = "part" /\ s.status = "active"
             /\ Change(sid, WithPart(s, q.part), {q.stamp})
    <3>1. q.stamp \in Stamps /\ q.part \in Parts
      BY <2>4 DEF StrayOK
    <3>2. q.stamp \in Sources(q.sid)
      BY <2>1, <3>1, StampsAssumption DEF Backed, NoStamp
    <3>3. WithPart(s, q.part) \in Sessions /\ WithPart(s, q.part).status = s.status
      BY <2>1, <3>1, SessionTypes
    <3> QED BY <2>1, <2>4, <3>1, <3>2, <3>3, Changes
  <2>5. CASE Change(sid, Completing(s), {}) \/ Change(sid, Finished(s), {}) \/ Change(sid, Cancelled(s), {})
    BY <2>1, <2>5, Changes, SessionTypes
  <2> QED BY <2>2, <2>3, <2>4, <2>5
<1>3. CASE q.pc \in {"put", "none"}
  <2>1. UNCHANGED server
    BY <1>3 DEF Execute
  <2> QED BY <2>1, ServerStays
<1> QED BY <1>1, <1>2, <1>3 DEF Awaits

\* What is true of the request of a transport.
LEMMA RequestFacts ==
  ASSUME QueueInv, NEW i \in Ids, live[i].pc # "none"
  PROVE  LET q == RequestOf(live[i])
         IN /\ q.pc = live[i].pc /\ q.sid = live[i].sid /\ q.part = live[i].part /\ q.stamp = live[i].stamp
            /\ q.pc \in Awaits /\ Backed(q) /\ (StrayOK(q) \/ q.pc \in {"put", "none"})
<1>1. live[i] \in Transports /\ Good(i, tasks[i], live[i], paused[i], used) /\ Backed(live[i])
  BY Unreplaced
<1>2. LET r == RequestOf(live[i])
      IN r.pc = live[i].pc /\ r.sid = live[i].sid /\ r.part = live[i].part /\ r.stamp = live[i].stamp
  BY DEF RequestOf
<1> QED BY <1>1, <1>2 DEF StrayOK, Backed, Good, Addressed, Filed, Transports, Awaits

\* The answer of anything but a create that was granted is only noted.
LEMMA AnswerNoted ==
  ASSUME QueueInv, NEW i \in Ids, live[i].pc # "none", NEW l \in Transports,
         l.pc = live[i].pc \/ (l.pc = "finish" /\ live[i].pc = "complete"),
         l.sid = live[i].sid, l.stamp = live[i].stamp, l.part = live[i].part,
         l.aborted = live[i].aborted,
         l.pc = "create" => l.reply = "error",
         live' = [live EXCEPT ![i] = l],
         UNCHANGED <<tasks, view, dirty, used, paused, pending, restore, saved>>
  PROVE  PageOK
<1>1. /\ tasks[i] \in Tasks /\ Good(i, tasks[i], live[i], paused[i], used)
      /\ Backed(tasks[i]) /\ Backed(live[i])
  BY Unreplaced
<1>2. Good(i, tasks[i], l, paused[i], used)
  BY <1>1 DEF Good, Seated, Alive, Addressed, Filed
<1>3. Backed(l)
  BY <1>1 DEF Backed
<1>4. /\ tasks' = [tasks EXCEPT ![i] = tasks[i]] /\ paused' = [paused EXCEPT ![i] = paused[i]]
  BY Unreplaced
<1>5. pending' \subseteq Ids /\ dirty' \in BOOLEAN
  BY DEF QueueInv, UQTypeOK
<1> QED BY <1>1, <1>2, <1>3, <1>4, <1>5, TransportOK

\* A session is opened: its client claims the file it reads, and nobody else
\* claims another one.
LEMMA OpenedSafe ==
  ASSUME QueueInv, NEW i \in Ids, live[i].pc = "create", NEW sid \in Sids,
         sessions[sid].status = "absent",
         live' = [live EXCEPT ![i].reply = "ok", ![i].sid = sid],
         Change(sid, OpenSession, {}),
         UNCHANGED <<tasks, view, dirty, used, paused, pending, restore, saved, strays, budget>>
  PROVE  QueueInv'
<1> DEFINE l == [live[i] EXCEPT !.reply = "ok", !.sid = sid]
<1>1. /\ tasks[i] \in Tasks /\ live[i] \in Transports /\ live \in [Ids -> Transports]
      /\ Good(i, tasks[i], live[i], paused[i], used) /\ Shown(view[i], live[i])
  BY Unreplaced DEF QueueInv, UQTypeOK
<1>2. live' = [live EXCEPT ![i] = l]
  BY <1>1
<1>3. /\ l \in Transports /\ l.pc = "create" /\ l.reply = "ok" /\ l.sid = sid
      /\ l.stamp = live[i].stamp /\ l.aborted = live[i].aborted
  BY <1>1 DEF Transports
<1> HIDE DEF l
<1>4. Good(i, tasks[i], l, paused[i], used) /\ Shown(view[i], l)
  BY <1>1, <1>3 DEF Good, Seated, Alive, Addressed, Filed, Shown
<1>5. \A j \in Ids : live'[j] = IF j = i THEN l ELSE live[j]
  BY <1>1, <1>2
<1>6. \A j \in Ids : Good(j, tasks[j], live'[j], paused[j], used) /\ Shown(view[j], live'[j])
  BY <1>4, <1>5, Unreplaced
<1>7. /\ sessions \in [Sids -> Sessions] /\ origin \in [Sids -> SUBSET Stamps]
      /\ sessions' = [sessions EXCEPT ![sid] = OpenSession] /\ origin' = origin
  BY DEF QueueInv, UQTypeOK, Change
<1>8. UQTypeOK'
  <2>1. sessions' \in [Sids -> Sessions] /\ live' \in [Ids -> Transports]
    BY <1>1, <1>2, <1>3, <1>7, SessionTypes
  <2> QED BY <1>7, <2>1 DEF QueueInv, UQTypeOK, Ids, Sids, Requests, Tasks, Transports
<1>9. ASSUME NEW s \in Sids
      PROVE  Sources(s)' \subseteq Sources(s) \cup (IF s = sid THEN {l.stamp} ELSE {})
  <2> DEFINE X == Sources(s) \cup (IF s = sid THEN {l.stamp} ELSE {})
  <2>1. /\ \A f \in origin[s] \ {NoStamp} : f \in X
        /\ \A j \in Ids : tasks[j].sid = s => tasks[j].stamp \in X \cup {NoStamp}
        /\ \A j \in Ids : live[j].sid = s => live[j].stamp \in X \cup {NoStamp}
        /\ \A q \in strays : q.sid = s => q.stamp \in X \cup {NoStamp}
        /\ \A r \in saved : r.sid = s => r.stamp \in X \cup {NoStamp}
    BY Claims
  <2>2. \A j \in Ids : live'[j].sid = s => live'[j].stamp \in X \cup {NoStamp}
    <3> SUFFICES ASSUME NEW j \in Ids, live'[j].sid = s
                 PROVE  live'[j].stamp \in X \cup {NoStamp}
      OBVIOUS
    <3>1. CASE j = i
      <4>1. live'[j] = l
        BY <1>5, <3>1
      <4> QED BY <1>3, <4>1
    <3>2. CASE j # i
      <4>1. live'[j] = live[j]
        BY <1>5, <3>2
      <4> HIDE DEF X
      <4> QED BY <2>1, <4>1
    <3> QED BY <3>1, <3>2
  <2>3. origin' = origin /\ tasks' = tasks /\ strays' = strays /\ saved' = saved
    BY <1>7
  <2> HIDE DEF X
  <2>4. Sources(s)' \subseteq X
    BY <2>1, <2>2, <2>3, ClaimedFrom
  <2> QED BY <2>4 DEF X
<1>10. OneSource'
  <2>1. \A s \in Sids : /\ \A a, b \in Sources(s) : a = b
                        /\ sessions[s].status = "absent" => Sources(s) = {}
    BY DEF QueueInv, OneSource
  <2>2. \A s \in Sids : sessions'[s] = IF s = sid THEN OpenSession ELSE sessions[s]
    BY <1>7
  <2>3. ASSUME NEW s \in Sids
        PROVE  /\ \A a, b \in Sources(s)' : a = b
               /\ sessions'[s].status = "absent" => Sources(s)' = {}
    <3>1. CASE s = sid
      BY <1>9, <2>1, <2>2, <3>1, SessionTypes
    <3>2. CASE s # sid
      BY <1>9, <2>1, <2>2, <3>2
    <3> QED BY <3>1, <3>2
  <2> QED BY <2>3 DEF OneSource, Sids
<1>11. /\ Cardinality(Running(tasks')) <= MaxConcurrent /\ \A q \in strays' : StrayOK(q)
  BY DEF QueueInv
<1>12. \A j \in Ids : Good(j, tasks'[j], live'[j], paused'[j], used') /\ Shown(view'[j], live'[j])
  BY <1>6
<1> QED BY <1>8, <1>10, <1>11, <1>12
        DEF QueueInv, Running, Ids, Good, Shown, Seated, Alive, Addressed, Filed, StrayOK, Sids,
            Busy, Over, Tasks, Transports

LEMMA ServeSafe ==
  ASSUME QueueInv, NEW i \in Ids, Serve(i)
  PROVE  QueueInv'
<1> DEFINE q == RequestOf(live[i])
           granted == CASE q.pc = "create" -> [live[i] EXCEPT !.reply = "ok", !.sid = About(q)]
                        [] q.pc = "get" -> [live[i] EXCEPT !.reply = "ok", !.got = sessions[q.sid].parts]
                        [] q.pc = "complete" /\ sessions[q.sid].status = "active"
                                        -> [live[i] EXCEPT !.pc = "finish"]
                        [] OTHER        -> [live[i] EXCEPT !.reply = "ok"]
           t == IF Grants(q) THEN granted ELSE [live[i] EXCEPT !.reply = "error"]
<1>1. /\ live[i].pc # "none" /\ live' = [live EXCEPT ![i] = t]
      /\ IF Grants(q) THEN Execute(q) ELSE UNCHANGED server
      /\ UNCHANGED <<tasks, view, dirty, used, paused, pending, restore, saved, strays, budget>>
  BY DEF Serve
<1>2. /\ q.pc = live[i].pc /\ q.sid = live[i].sid /\ q.stamp = live[i].stamp
      /\ q.pc \in Awaits /\ Backed(q) /\ (StrayOK(q) \/ q.pc \in {"put", "none"})
  BY <1>1, RequestFacts
<1>3. /\ live[i] \in Transports /\ live \in [Ids -> Transports]
      /\ Good(i, tasks[i], live[i], paused[i], used)
      /\ \A s \in Sids : sessions[s] \in Sessions
  BY Unreplaced DEF QueueInv, UQTypeOK
<1>4. StraysOK /\ budget' \in Budgets
  BY <1>1, StraysStay, BudgetNow
<1>5. CASE Grants(q) /\ q.pc = "create"
  <2> DEFINE sid == Min(Sids \ Created)
  <2>1. sid \in Sids /\ sessions[sid].status = "absent"
    BY <1>5, NewSessions DEF Grants
  <2>2. Change(sid, OpenSession, {}) /\ About(q) = sid
    BY <1>1, <1>5 DEF Execute, About
  <2>3. t = [live[i] EXCEPT !.reply = "ok", !.sid = sid]
    BY <1>5, <2>2
  <2> HIDE DEF sid, q, t
  <2>4. live' = [live EXCEPT ![i].reply = "ok", ![i].sid = sid]
    BY <1>1, <1>3, <2>3
  <2> QED BY <1>1, <1>2, <1>5, <2>1, <2>2, <2>4, OpenedSafe
<1>6. CASE ~(Grants(q) /\ q.pc = "create")
  <2>1. ServerOK
    <3> HIDE DEF q, t
    <3> QED BY <1>1, <1>2, ServerStays, Executes
  <2>2. \/ t = [live[i] EXCEPT !.reply = "error"]
        \/ /\ q.pc = "get" /\ t = [live[i] EXCEPT !.reply = "ok", !.got = sessions[q.sid].parts]
        \/ /\ q.pc = "complete" /\ t = [live[i] EXCEPT !.pc = "finish"]
        \/ /\ q.pc # "create" /\ t = [live[i] EXCEPT !.reply = "ok"]
    <3> HIDE DEF q
    <3> QED BY <1>6
  <2> HIDE DEF t, q
  <2>3. q.pc = "get" => sessions[q.sid].parts \subseteq Parts
    BY <1>2, <1>3 DEF StrayOK, Sessions
  <2>4. /\ t \in Transports
        /\ t.pc = live[i].pc \/ (t.pc = "finish" /\ live[i].pc = "complete")
        /\ t.sid = live[i].sid /\ t.stamp = live[i].stamp /\ t.part = live[i].part
        /\ t.aborted = live[i].aborted
        /\ t.pc = "create" => t.reply = "error"
    BY <1>2, <1>3, <2>2, <2>3 DEF Transports, Awaits
  <2>5. PageOK
    BY <1>1, <2>4, AnswerNoted
  <2> QED BY <1>4, <2>1, <2>5, Concludes
<1> QED BY <1>5, <1>6

LEMMA ServeFailsSafe ==
  ASSUME QueueInv, NEW i \in Ids, ServeFails(i)
  PROVE  QueueInv'
<1> DEFINE q == RequestOf(live[i])
           t == [live[i] EXCEPT !.reply = "error"]
<1>1. /\ live[i].pc # "none" /\ live' = [live EXCEPT ![i].reply = "error"] /\ Spend("faults")
      /\ \/ Grants(q) /\ Execute(q)
         \/ q.pc = "finish" /\ Change(q.sid, Reopened(sessions[q.sid]), {})
         \/ UNCHANGED server
      /\ UNCHANGED <<tasks, view, dirty, used, paused, pending, restore, saved, strays>>
  BY DEF ServeFails
<1>2. /\ q.pc = live[i].pc /\ q.sid = live[i].sid /\ q.stamp = live[i].stamp
      /\ q.pc \in Awaits /\ Backed(q) /\ (StrayOK(q) \/ q.pc \in {"put", "none"})
  BY <1>1, RequestFacts
<1>3. live[i] \in Transports /\ live \in [Ids -> Transports] /\ \A s \in Sids : sessions[s] \in Sessions
  BY Unreplaced DEF QueueInv, UQTypeOK
<1>4. live' = [live EXCEPT ![i] = t]
  BY <1>1, <1>3
<1>5. /\ t \in Transports /\ t.pc = live[i].pc /\ t.sid = live[i].sid /\ t.stamp = live[i].stamp
      /\ t.part = live[i].part /\ t.aborted = live[i].aborted /\ t.reply = "error"
  BY <1>3 DEF Transports
<1> HIDE DEF q, t
<1>6. PageOK
  BY <1>1, <1>4, <1>5, AnswerNoted
<1>7. ServerOK
  <2>1. CASE q.pc = "finish" /\ Change(q.sid, Reopened(sessions[q.sid]), {})
    <3>1. q.sid \in Sids
      BY <1>2, <2>1 DEF StrayOK
    <3> QED BY <1>3, <2>1, <3>1, SessionTypes, Changes
  <2> QED BY <1>1, <1>2, <2>1, Executes, ServerStays
<1>8. StraysOK /\ budget' \in Budgets
  BY <1>1, StraysStay, Spends
<1> QED BY <1>6, <1>7, <1>8, Concludes

LEMMA StrayArrivesSafe ==
  ASSUME QueueInv, NEW q \in strays, StrayArrives(q)
  PROVE  QueueInv'
<1>1. /\ IF Grants(q) THEN Execute(q) ELSE UNCHANGED server
      /\ IF q.pc = "create" THEN Spend("faults") ELSE UNCHANGED budget
      /\ strays' = (strays \ {q}) \cup
           {r \in {[q EXCEPT !.pc = "finish"]} : q.pc = "complete" /\ MayComplete(sessions[q.sid])}
      /\ UNCHANGED page
  BY DEF StrayArrives
<1>2. \A r \in strays : r \in Requests /\ StrayOK(r) /\ Backed(r)
  BY AllBacked DEF QueueInv, UQTypeOK
<1>3. q.pc \in Awaits
  BY <1>2 DEF Requests, Awaits
<1>4. ServerOK
  BY <1>1, <1>2, <1>3, Executes, ServerStays
<1>5. StraysOK
  <2> DEFINE r == [q EXCEPT !.pc = "finish"]
  <2>1. r \in Requests /\ r.pc = "finish" /\ r.sid = q.sid /\ r.stamp = q.stamp
    BY <1>2 DEF Requests
  <2>2. q.pc = "complete" => StrayOK(r) /\ Backed(r)
    <3> HIDE DEF r
    <3> QED BY <1>2, <2>1 DEF StrayOK, Backed
  <2>3. \A p \in strays' : p \in strays \/ (p = r /\ q.pc = "complete")
    BY <1>1
  <2> HIDE DEF r
  <2>4. \A p \in strays' : p \in Requests /\ StrayOK(p) /\ Backed(p)
    BY <1>2, <2>1, <2>2, <2>3
  <2> QED BY <2>4 DEF StraysOK
<1>6. budget' \in Budgets
  BY <1>1, Spends, BudgetNow
<1>7. PageOK
  BY <1>1, PageStays
<1> QED BY <1>4, <1>5, <1>6, <1>7, Concludes

LEMMA SessionEndsSafe ==
  ASSUME QueueInv, NEW s \in Sids, SessionEnds(s)
  PROVE  QueueInv'
<1>1. Spend("faults") /\ Change(s, Cancelled(sessions[s]), {}) /\ UNCHANGED <<page, strays>>
  BY DEF SessionEnds
<1>2. ServerOK
  <2>1. sessions[s] \in Sessions
    BY DEF QueueInv, UQTypeOK
  <2> QED BY <1>1, <2>1, SessionTypes, Changes
<1> QED BY <1>1, <1>2, PageStays, StraysStay, Spends, Concludes

-----------------------------------------------------------------------------
(* uploadFile goes on.                                                     *)

\* A task whose session becomes known.
KnownTask(t, sid) ==
  IF t.status = "gone" THEN t
  ELSE [t EXCEPT !.status = IF @ = "paused" THEN @ ELSE "uploading", !.sid = sid, !.fresh = FALSE]

LEMMA Knowing ==
  ASSUME QueueInv, NEW i \in Ids, live[i].sid \in Sids, live[i].pc \notin {"none", "undo"}
  PROVE  LET t == KnownTask(tasks[i], live[i].sid)
         IN /\ SessionKnown(tasks, i, live[i].sid) = [tasks EXCEPT ![i] = t]
            /\ t \in Tasks /\ t.stamp = tasks[i].stamp /\ t.rebind = tasks[i].rebind /\ Backed(t)
            /\ tasks[i].status \in {"gone", "paused"} => t.status = tasks[i].status
            /\ tasks[i].status \notin {"gone", "paused"} => t.status = "uploading"
<1> DEFINE t == KnownTask(tasks[i], live[i].sid)
<1>1. /\ tasks[i] \in Tasks /\ Good(i, tasks[i], live[i], paused[i], used)
      /\ Backed(tasks[i]) /\ Backed(live[i])
  BY Unreplaced
<1>2. /\ t \in Tasks /\ t.stamp = tasks[i].stamp /\ t.rebind = tasks[i].rebind
      /\ tasks[i].status \in {"gone", "paused"} => t.status = tasks[i].status
      /\ tasks[i].status \notin {"gone", "paused"} => t.status = "uploading"
      /\ tasks[i].status = "gone" => t = tasks[i]
      /\ tasks[i].status # "gone" => t.sid = live[i].sid
  BY <1>1 DEF KnownTask, Tasks, UploadStatuses
<1>3. SessionKnown(tasks, i, live[i].sid) = [tasks EXCEPT ![i] = t]
  BY Unreplaced DEF SessionKnown, Reduce, KnownTask
<1> HIDE DEF t
<1>4. Backed(t)
  BY <1>1, <1>2 DEF Backed, Good, Filed
<1> QED BY <1>2, <1>3, <1>4 DEF t

\* The status of a task t whose transport ends.
Final(i, how, t) ==
  IF i \in pending THEN "queued"
  ELSE IF how = "done" THEN "completed"
  ELSE IF how = "paused" \/ paused[i] THEN t.status
  ELSE IF live[i].aborted THEN "cancelled" ELSE "failed"

\* The end of a transport replaces the status of the task and lets go of the rest.
LEMMA Settlements ==
  ASSUME QueueInv, NEW i \in Ids, NEW how, NEW t \in Tasks, NEW ts, ts = [tasks EXCEPT ![i] = t],
         Settle(i, how, ts)
  PROVE  \E b \in Tasks :
           /\ b.sid = t.sid /\ b.stamp = t.stamp /\ b.rebind = t.rebind /\ b.kind = t.kind
           /\ b.fresh = t.fresh
           /\ t.status = "gone" => b.status = "gone"
           /\ t.status # "gone" => b.status = Final(i, how, t)
           /\ tasks' = [tasks EXCEPT ![i] = b] /\ live' = [live EXCEPT ![i] = NoTransport]
           /\ paused' = [paused EXCEPT ![i] = paused[i] /\ i \notin pending]
           /\ pending' = pending \ {i} /\ dirty' = TRUE
           /\ UNCHANGED <<view, used, restore, saved>>
<1> DEFINE a == IF how = "done" THEN With(t, "completed")
                ELSE IF how = "paused" \/ paused[i] THEN t
                ELSE With(t, IF live[i].aborted THEN "cancelled" ELSE "failed")
           b == IF i \in pending THEN With(a, "queued") ELSE a
           settled == IF how = "done" THEN SetStatus(ts, i, "completed")
                      ELSE IF how = "paused" \/ paused[i] THEN ts
                      ELSE SetStatus(ts, i, IF live[i].aborted THEN "cancelled" ELSE "failed")
<1>1. /\ tasks' = IF i \in pending THEN SetStatus(settled, i, "queued") ELSE settled
      /\ paused' = [paused EXCEPT ![i] = @ /\ i \notin pending]
      /\ pending' = pending \ {i} /\ live' = [live EXCEPT ![i] = NoTransport] /\ dirty' = TRUE
      /\ UNCHANGED <<view, used, restore, saved>>
  BY DEF Settle
<1>2. tasks \in [Ids -> Tasks]
  BY DEF QueueInv, UQTypeOK
<1>3. ts \in [Ids -> Tasks] /\ ts[i] = t
  BY <1>2
<1>4. settled = [tasks EXCEPT ![i] = a]
  <2>1. \A status : SetStatus(ts, i, status) = [tasks EXCEPT ![i] = With(t, status)]
    <3> SUFFICES ASSUME NEW status
                 PROVE  SetStatus(ts, i, status) = [tasks EXCEPT ![i] = With(t, status)]
      OBVIOUS
    <3>1. SetStatus(ts, i, status) = [ts EXCEPT ![i] = With(t, status)]
      BY <1>3, Statuses
    <3>2. [ts EXCEPT ![i] = With(t, status)] = [tasks EXCEPT ![i] = With(t, status)]
      BY <1>2
    <3> QED BY <3>1, <3>2
  <2> QED BY <2>1
<1>5. /\ a \in Tasks /\ a.sid = t.sid /\ a.stamp = t.stamp /\ a.rebind = t.rebind /\ a.kind = t.kind
      /\ a.fresh = t.fresh
      /\ t.status = "gone" => a.status = "gone"
      /\ t.status # "gone" =>
           a.status = IF how = "done" THEN "completed"
                      ELSE IF how = "paused" \/ paused[i] THEN t.status
                      ELSE IF live[i].aborted THEN "cancelled" ELSE "failed"
  <2>1. /\ With(t, "completed") \in Tasks /\ With(t, "cancelled") \in Tasks /\ With(t, "failed") \in Tasks
        /\ \A status \in {"completed", "cancelled", "failed"} :
             /\ With(t, status).sid = t.sid /\ With(t, status).stamp = t.stamp
             /\ With(t, status).rebind = t.rebind /\ With(t, status).kind = t.kind
             /\ With(t, status).fresh = t.fresh
             /\ t.status # "gone" => With(t, status).status = status
             /\ t.status = "gone" => With(t, status) = t
    BY WithFields DEF UploadStatuses
  <2> QED BY <2>1
<1> HIDE DEF a, settled
<1>6. tasks' = [tasks EXCEPT ![i] = b]
  <2>1. [tasks EXCEPT ![i] = a] \in [Ids -> Tasks] /\ [tasks EXCEPT ![i] = a][i] = a
    BY <1>2, <1>5
  <2>2. SetStatus([tasks EXCEPT ![i] = a], i, "queued")
          = [[tasks EXCEPT ![i] = a] EXCEPT ![i] = With(a, "queued")]
    BY <2>1, Statuses
  <2>3. [[tasks EXCEPT ![i] = a] EXCEPT ![i] = With(a, "queued")] = [tasks EXCEPT ![i] = With(a, "queued")]
    BY <1>2
  <2> QED BY <1>1, <1>4, <2>2, <2>3
<1>7. /\ b \in Tasks /\ b.sid = t.sid /\ b.stamp = t.stamp /\ b.rebind = t.rebind /\ b.kind = t.kind
      /\ b.fresh = t.fresh
      /\ t.status = "gone" => b.status = "gone"
      /\ t.status # "gone" => b.status = Final(i, how, t)
  <2>1. /\ With(a, "queued") \in Tasks /\ With(a, "queued").sid = a.sid
        /\ With(a, "queued").stamp = a.stamp /\ With(a, "queued").rebind = a.rebind
        /\ With(a, "queued").kind = a.kind /\ With(a, "queued").fresh = a.fresh
        /\ a.status # "gone" => With(a, "queued").status = "queued"
        /\ a.status = "gone" => With(a, "queued") = a
    BY <1>5, WithFields DEF UploadStatuses
  <2> QED BY <1>5, <2>1 DEF Final
<1> HIDE DEF b
<1> QED BY <1>1, <1>6, <1>7

\* What becomes of the task of a transport that ends occupies no slot.
LEMMA Settles ==
  ASSUME QueueInv, NEW i \in Ids, NEW how, NEW t \in Tasks, NEW ts, ts = [tasks EXCEPT ![i] = t],
         Settle(i, how, ts), Backed(t),
         t.status = "gone" <=> tasks[i].status = "gone",
         t.stamp = tasks[i].stamp, t.rebind = tasks[i].rebind,
         how # "done" /\ (how = "paused" \/ paused[i]) => t.status \notin Busy
  PROVE  PageOK
<1>1. PICK b \in Tasks :
        /\ b.sid = t.sid /\ b.stamp = t.stamp /\ b.rebind = t.rebind /\ b.kind = t.kind
        /\ b.fresh = t.fresh
        /\ t.status = "gone" => b.status = "gone"
        /\ t.status # "gone" => b.status = Final(i, how, t)
        /\ tasks' = [tasks EXCEPT ![i] = b] /\ live' = [live EXCEPT ![i] = NoTransport]
        /\ paused' = [paused EXCEPT ![i] = paused[i] /\ i \notin pending]
        /\ pending' = pending \ {i} /\ dirty' = TRUE
        /\ UNCHANGED <<view, used, restore, saved>>
  BY Settlements
<1>2. /\ paused[i] \in BOOLEAN /\ pending \subseteq Ids
      /\ Good(i, tasks[i], live[i], paused[i], used)
  BY Unreplaced DEF QueueInv, UQTypeOK
<1> DEFINE p == paused[i] /\ i \notin pending
<1>3. p \in BOOLEAN
  BY <1>2
<1>4. paused' = [paused EXCEPT ![i] = p]
  BY <1>1
<1> HIDE DEF p
<1>5. b.status \notin Busy /\ (b.status # "gone" => tasks[i].status # "gone")
  BY <1>1 DEF Busy, Final
<1>6. NoTransport \in Transports /\ NoTransport.pc = "none" /\ NoTransport.stamp = NoStamp
  BY DEF NoTransport, Transports, Awaits
<1>7. Good(i, b, NoTransport, p, used)
  BY <1>1, <1>2, <1>3, <1>5, <1>6 DEF Good, Seated, Alive, Addressed, Filed
<1>8. Backed(b) /\ Backed(NoTransport)
  BY <1>1, <1>6 DEF Backed
<1>9. pending' \subseteq Ids /\ dirty' \in BOOLEAN
  BY <1>1, <1>2
<1> QED BY <1>1, <1>4, <1>5, <1>6, <1>7, <1>8, <1>9, TransportOK

\* A transport that is let go with its task as it is.
LEMMA SettlesAsItIs ==
  ASSUME QueueInv, NEW i \in Ids, NEW how, Settle(i, how, tasks), live[i].pc # "none",
         how # "paused"
  PROVE  PageOK
<1>1. /\ tasks[i] \in Tasks /\ Good(i, tasks[i], live[i], paused[i], used) /\ Backed(tasks[i])
      /\ tasks = [tasks EXCEPT ![i] = tasks[i]]
  BY Unreplaced
<1>2. paused[i] => tasks[i].status \notin Busy
  BY <1>1 DEF Good, Seated, Alive
<1> QED BY <1>1, <1>2, Settles

LEMMA Undoes ==
  ASSUME QueueInv, NEW i \in Ids, UndoSession(i), live[i].aborted, live[i].sid \in Sids, ~paused[i],
         live[i].pc # "none"
  PROVE  PageOK
<1> DEFINE l == [live[i] EXCEPT !.pc = "undo", !.part = 0, !.stamp = NoStamp, !.reply = "none"]
<1>1. /\ live' = [live EXCEPT ![i].pc = "undo", ![i].part = 0, ![i].stamp = NoStamp, ![i].reply = "none"]
      /\ UNCHANGED <<tasks, view, dirty, used, paused, pending, restore, saved>>
  BY DEF UndoSession
<1>2. /\ live \in [Ids -> Transports] /\ live[i] \in Transports
      /\ Good(i, tasks[i], live[i], paused[i], used) /\ Backed(tasks[i])
      /\ pending \subseteq Ids /\ dirty \in BOOLEAN
  BY Unreplaced DEF QueueInv, UQTypeOK
<1>3. live' = [live EXCEPT ![i] = l]
  BY <1>1, <1>2
<1>4. /\ l \in Transports /\ l.pc = "undo" /\ l.sid = live[i].sid /\ l.stamp = NoStamp
      /\ l.aborted = live[i].aborted
  BY <1>2 DEF Transports, Awaits
<1> HIDE DEF l
<1>5. Good(i, tasks[i], l, paused[i], used)
  BY <1>2, <1>4 DEF Good, Seated, Alive, Addressed, Filed
<1>6. Backed(l)
  BY <1>4 DEF Backed
<1>7. tasks' = [tasks EXCEPT ![i] = tasks[i]] /\ paused' = [paused EXCEPT ![i] = paused[i]]
  BY <1>1, Unreplaced
<1>8. pending' \subseteq Ids /\ dirty' \in BOOLEAN /\ UNCHANGED <<view, used, restore, saved>>
  BY <1>1, <1>2
<1> QED BY <1>2, <1>3, <1>4, <1>5, <1>6, <1>7, <1>8, TransportOK

LEMMA Proceeds ==
  ASSUME QueueInv, NEW i \in Ids, NEW got \in SUBSET Parts, Proceed(i, got), ~live[i].aborted,
         live[i].pc \in {"create", "get", "part"}, live[i].sid \in Sids
  PROVE  PageOK
<1> DEFINE missing == Parts \ got
           k == KnownTask(tasks[i], live[i].sid)
           t == IF missing = {} THEN With(k, "completing") ELSE k
           l == [live[i] EXCEPT !.got = got, !.pc = IF missing = {} THEN "complete" ELSE "part",
                                !.part = IF missing = {} THEN 0 ELSE Min(missing), !.reply = "none"]
<1>1. LET known == SessionKnown(tasks, i, live[i].sid)
      IN /\ tasks' = IF missing = {} THEN SetStatus(known, i, "completing") ELSE known
         /\ live' = [live EXCEPT ![i].got = got,
                                 ![i].pc = IF missing = {} THEN "complete" ELSE "part",
                                 ![i].part = IF missing = {} THEN 0 ELSE Min(missing),
                                 ![i].reply = "none"]
         /\ dirty' = TRUE
         /\ UNCHANGED <<view, used, paused, pending, restore, saved>>
  BY DEF Proceed
<1>2. /\ live \in [Ids -> Transports] /\ live[i] \in Transports /\ tasks \in [Ids -> Tasks]
      /\ tasks[i] \in Tasks /\ Good(i, tasks[i], live[i], paused[i], used)
      /\ Backed(live[i]) /\ pending \subseteq Ids
  BY Unreplaced DEF QueueInv, UQTypeOK
<1>3. tasks[i].status \in Busy
  BY <1>2 DEF Good, Seated, Alive
<1>4. /\ SessionKnown(tasks, i, live[i].sid) = [tasks EXCEPT ![i] = k]
      /\ k \in Tasks /\ k.stamp = tasks[i].stamp /\ k.rebind = tasks[i].rebind /\ Backed(k)
      /\ k.status = "uploading"
  BY <1>3, Knowing DEF Busy
<1>5. /\ t \in Tasks /\ t.stamp = tasks[i].stamp /\ t.rebind = tasks[i].rebind /\ t.sid = k.sid
      /\ t.status \in Busy
  BY <1>4, WithFields DEF UploadStatuses, Busy
<1>6. tasks' = [tasks EXCEPT ![i] = t]
  <2> HIDE DEF k
  <2>1. [tasks EXCEPT ![i] = k] \in [Ids -> Tasks] /\ [tasks EXCEPT ![i] = k][i] = k
    BY <1>2, <1>4
  <2>2. SetStatus([tasks EXCEPT ![i] = k], i, "completing")
          = [[tasks EXCEPT ![i] = k] EXCEPT ![i] = With(k, "completing")]
    BY <2>1, Statuses
  <2>3. [[tasks EXCEPT ![i] = k] EXCEPT ![i] = With(k, "completing")] = [tasks EXCEPT ![i] = With(k, "completing")]
    BY <1>2
  <2> QED BY <1>1, <1>4, <2>2, <2>3
<1>7. live' = [live EXCEPT ![i] = l]
  BY <1>1, <1>2
<1>8. missing # {} => Min(missing) \in Parts
  <2>1. missing \subseteq Nat
    BY PartsAssumption
  <2> QED BY <2>1, Minimum
<1>9. /\ l \in Transports /\ l.pc \in {"complete", "part"} /\ l.sid = live[i].sid
      /\ l.stamp = live[i].stamp /\ l.aborted = live[i].aborted
      /\ l.pc = "part" => l.part \in Parts
  BY <1>2, <1>8 DEF Transports, Awaits
<1> HIDE DEF k, t, l, missing
<1>10. Good(i, t, l, paused[i], used)
  BY <1>2, <1>3, <1>5, <1>9 DEF Good, Seated, Alive, Addressed, Filed, Busy
<1>11. Backed(t) /\ Backed(l)
  BY <1>2, <1>4, <1>5, <1>9 DEF Backed
<1>12. /\ paused' = [paused EXCEPT ![i] = paused[i]] /\ pending' \subseteq Ids /\ dirty' \in BOOLEAN
       /\ UNCHANGED <<view, used, restore, saved>>
  BY <1>1, <1>2, Unreplaced
<1>13. live[i].pc # "none"
  OBVIOUS
<1> QED BY <1>3, <1>6, <1>7, <1>9, <1>10, <1>11, <1>12, <1>13, TransportOK

LEMMA AnsweredSafe ==
  ASSUME QueueInv, NEW i \in Ids, Answered(i)
  PROVE  QueueInv'
<1>0. /\ live[i] \in Transports /\ Good(i, tasks[i], live[i], paused[i], used)
      /\ tasks[i] \in Tasks
  BY Unreplaced
<1>1. live[i].reply # "none" /\ ~(live[i].aborted /\ live[i].pc \in Abortable)
  BY DEF Answered
<1>2. ServerOK /\ StraysOK /\ budget' \in Budgets
  BY ServerStays, StraysStay, BudgetNow DEF Answered
<1>3. \/ live[i].pc = "undo" /\ Settle(i, "aborted", tasks)
      \/ live[i].pc # "undo" /\ live[i].reply = "error" /\ Settle(i, "failed", tasks)
      \/ live[i].pc \in {"put", "complete", "finish"} /\ Settle(i, "done", tasks)
      \/ /\ live[i].pc = "create" /\ live[i].reply = "ok" /\ live[i].aborted /\ paused[i]
         /\ Settle(i, "paused", SessionKnown(tasks, i, live[i].sid))
      \/ /\ live[i].pc = "create" /\ live[i].reply = "ok" /\ live[i].aborted /\ ~paused[i]
         /\ UndoSession(i)
      \/ /\ live[i].pc \in {"create", "get"} /\ live[i].reply = "ok" /\ ~live[i].aborted
         /\ Proceed(i, live[i].got)
      \/ live[i].pc = "part" /\ live[i].reply = "ok" /\ Proceed(i, live[i].got \cup {live[i].part})
  BY DEF Answered
<1>4. CASE live[i].pc = "undo" /\ Settle(i, "aborted", tasks)
  BY <1>2, <1>4, SettlesAsItIs, Concludes
<1>5. CASE live[i].pc # "undo" /\ live[i].reply = "error" /\ Settle(i, "failed", tasks)
  <2>1. CASE live[i].pc # "none"
    BY <1>2, <1>5, <2>1, SettlesAsItIs, Concludes
  <2>2. CASE live[i].pc = "none"
    <3>1. /\ tasks = [tasks EXCEPT ![i] = tasks[i]] /\ Backed(tasks[i])
          /\ tasks[i].status \notin Busy
      BY <1>0, <2>2, Unreplaced DEF Good, Seated, Alive
    <3>2. PageOK
      BY <1>0, <1>5, <3>1, Settles
    <3> QED BY <1>2, <3>2, Concludes
  <2> QED BY <2>1, <2>2
<1>6. CASE live[i].pc \in {"put", "complete", "finish"} /\ Settle(i, "done", tasks)
  BY <1>2, <1>6, SettlesAsItIs, Concludes
<1>7. CASE /\ live[i].pc = "create" /\ live[i].reply = "ok" /\ live[i].aborted /\ paused[i]
           /\ Settle(i, "paused", SessionKnown(tasks, i, live[i].sid))
  <2> DEFINE t == KnownTask(tasks[i], live[i].sid)
  <2>1. live[i].sid \in Sids /\ tasks[i].status \in {"paused", "gone"}
    BY <1>0, <1>7 DEF Good, Addressed, Seated
  <2>2. /\ SessionKnown(tasks, i, live[i].sid) = [tasks EXCEPT ![i] = t]
        /\ t \in Tasks /\ t.stamp = tasks[i].stamp /\ t.rebind = tasks[i].rebind /\ Backed(t)
        /\ t.status = tasks[i].status
    BY <1>7, <2>1, Knowing
  <2> HIDE DEF t
  <2>3. t.status \notin Busy
    BY <2>1, <2>2 DEF Busy
  <2>4. PageOK
    BY <1>7, <2>2, <2>3, Settles
  <2> QED BY <1>2, <2>4, Concludes
<1>8. CASE /\ live[i].pc = "create" /\ live[i].reply = "ok" /\ live[i].aborted /\ ~paused[i]
           /\ UndoSession(i)
  <2>1. live[i].sid \in Sids
    BY <1>0, <1>8 DEF Good, Addressed
  <2> QED BY <1>2, <1>8, <2>1, Undoes, Concludes
<1>9. CASE /\ live[i].pc \in {"create", "get"} /\ live[i].reply = "ok" /\ ~live[i].aborted
           /\ Proceed(i, live[i].got)
  <2>1. live[i].sid \in Sids /\ live[i].got \in SUBSET Parts
    BY <1>0, <1>9 DEF Good, Addressed, Transports
  <2> QED BY <1>2, <1>9, <2>1, Proceeds, Concludes
<1>10. CASE live[i].pc = "part" /\ live[i].reply = "ok" /\ Proceed(i, live[i].got \cup {live[i].part})
  <2>1. live[i].sid \in Sids /\ live[i].got \cup {live[i].part} \in SUBSET Parts /\ ~live[i].aborted
    BY <1>0, <1>1, <1>10 DEF Good, Addressed, Transports, Abortable
  <2> QED BY <1>2, <1>10, <2>1, Proceeds, Concludes
<1> QED BY <1>3, <1>4, <1>5, <1>6, <1>7, <1>8, <1>9, <1>10

LEMMA InterruptedSafe ==
  ASSUME QueueInv, NEW i \in Ids, Interrupted(i)
  PROVE  QueueInv'
<1>1. /\ live[i].aborted /\ live[i].pc \in Abortable
      /\ strays' = strays \cup
           {q \in {RequestOf(live[i])} : live[i].reply = "none" /\ live[i].pc \notin {"put", "get"}}
      /\ IF live[i].pc = "put" \/ paused[i] THEN Settle(i, "aborted", tasks) ELSE UndoSession(i)
      /\ UNCHANGED <<server, budget>>
  BY DEF Interrupted
<1>2. live[i].pc # "none"
  BY <1>1 DEF Abortable
<1>3. StraysOK
  <2>1. \A q \in strays : q \in Requests /\ StrayOK(q) /\ Backed(q)
    BY AllBacked DEF QueueInv, UQTypeOK
  <2>2. live[i].pc \notin {"put", "get"} =>
          /\ RequestOf(live[i]) \in Requests
          /\ StrayOK(RequestOf(live[i])) /\ Backed(RequestOf(live[i]))
    BY <1>2, RequestIsAStray
  <2>3. \A q \in strays' : q \in Requests /\ StrayOK(q) /\ Backed(q)
    BY <1>1, <2>1, <2>2
  <2> QED BY <2>3 DEF StraysOK
<1>4. PageOK
  <2>1. CASE live[i].pc = "put" \/ paused[i]
    BY <1>1, <1>2, <2>1, SettlesAsItIs
  <2>2. CASE ~(live[i].pc = "put" \/ paused[i])
    <3>1. live[i].sid \in Sids
      BY <1>1, <2>2, Unreplaced DEF Good, Addressed, Abortable
    <3> QED BY <1>1, <1>2, <2>2, <3>1, Undoes
  <2> QED BY <2>1, <2>2
<1>5. ServerOK /\ budget' \in Budgets
  BY <1>1, ServerStays, BudgetNow
<1> QED BY <1>3, <1>4, <1>5, Concludes

-----------------------------------------------------------------------------
(* No session is forgotten.  Beyond QueueInv this needs to know which      *)
(* session a task and its transport share.                                 *)

\* A task and its transport have the same session as soon as the task is told
\* of it, a transport that was told to stop by anything but a pause belongs to
\* a task that was cancelled or is gone, and a task that waits or is complete
\* has no transport.
Linked(t, l, p) ==
  /\ t.fresh \/ t.kind = "single" => t.sid = NoSid
  /\ l.pc \notin {"none", "put"} /\ t.status # "gone" => t.kind = "multipart"
  /\ l.pc \in {"get", "part", "complete", "finish"} /\ t.status # "gone" => t.sid = l.sid
  /\ l.pc \in {"put", "create"} /\ t.status # "gone" => t.sid = NoSid
  /\ l.pc = "put" \/ (l.pc = "create" /\ l.reply # "ok") => l.sid = NoSid
  /\ t.status \in {"queued", "completed"} => l.pc = "none"
  /\ t.status = "cancelled" => ~p
  /\ l.pc # "none" /\ l.aborted /\ ~p => t.status \in {"cancelled", "gone"}
  /\ l.pc = "undo" => l.aborted /\ ~p
  /\ l.pc = "none" => l.reply = "none"

\* What a task or a transport takes to be complete is, in the sessions ss.
Concluded(ss, t, l) ==
  /\ t.status = "completed" /\ t.sid \in Sids => ss[t.sid].status = "completed"
  /\ l.pc \in {"complete", "finish"} /\ l.reply = "ok" => ss[l.sid].status = "completed"

\* Nothing but a cancellation is left to do in the last render of a task whose
\* transport was told to stop for good.
Dismissed(v, l, p) == l.pc # "none" /\ l.aborted /\ ~p => v.status \in {"cancelled", "gone"}

MemoryInv ==
  /\ ~dirty => view = tasks
  /\ \A i \in Ids : /\ Linked(tasks[i], live[i], paused[i])
                    /\ Concluded(sessions, tasks[i], live[i])
                    /\ Dismissed(view[i], live[i], paused[i])

\* A task or its transport still knows session s.
Held(s, t, l, p) ==
  \/ t.sid = s /\ t.status \notin {"gone", "cancelled"}
  \/ /\ l.pc # "none" /\ l.sid = s
     /\ ~(l.pc = "undo" /\ l.reply # "none")
     /\ t.status # "gone" \/ (l.aborted /\ ~p)

\* What NoSessionForgotten asks of a step and of session s.
Remembers(s) ==
  /\ sessions[s].status = "active" /\ Known(s)
  /\ budget'.faults = budget.faults
  /\ dirty => budget'.clicks = budget.clicks
  => Known(s)' \/ sessions'[s].status # "active"

\* A completion is final.
Lasting == \A s \in Sids : sessions[s].status = "completed" => sessions'[s].status = "completed"

LEMMA Knows ==
  ASSUME NEW s
  PROVE  Known(s) <=> \/ \E i \in Ids : Held(s, tasks[i], live[i], paused[i])
                      \/ Undo(s) \in strays
                      \/ restore.state = "sent"
                      \/ restore.state = "answered" /\ s \in restore.seen
  BY DEF Known, Held

LEMMA KnowsNext ==
  ASSUME NEW s
  PROVE  Known(s)' <=> \/ \E i \in Ids : Held(s, tasks'[i], live'[i], paused'[i])
                       \/ Undo(s) \in strays'
                       \/ restore'.state = "sent"
                       \/ restore'.state = "answered" /\ s \in restore'.seen
  BY DEF Known, Held, Ids, Undo

LEMMA MemoryNext ==
  ASSUME ~dirty' => view' = tasks',
         \A i \in Ids : /\ Linked(tasks'[i], live'[i], paused'[i])
                        /\ Concluded(sessions', tasks'[i], live'[i])
                        /\ Dismissed(view'[i], live'[i], paused'[i])
  PROVE  MemoryInv'
  BY DEF MemoryInv, Linked, Concluded, Dismissed, Ids, Sids

\* Whoever held a session passes it on.
LEMMA PassedOn ==
  ASSUME NEW s \in Sids,
         \A i \in Ids : Held(s, tasks[i], live[i], paused[i]) =>
           \/ Held(s, tasks'[i], live'[i], paused'[i])
           \/ Undo(s) \in strays' \/ sessions'[s].status # "active",
         Undo(s) \in strays => Undo(s) \in strays' \/ sessions'[s].status # "active",
         UNCHANGED restore
  PROVE  Known(s) => Known(s)' \/ sessions'[s].status # "active"
  BY Knows, KnowsNext

LEMMA NoTransportIsNone ==
  /\ NoTransport \in Transports /\ NoTransport.pc = "none" /\ NoTransport.sid = NoSid
  /\ ~NoTransport.aborted /\ NoTransport.reply = "none" /\ NoTransport.stamp = NoStamp
  BY DEF NoTransport, Transports, Awaits

LEMMA CommitsRemember ==
  ASSUME NEW ts \in [Ids -> Tasks], NEW lv, NEW ps \in [Ids -> BOOLEAN], Commit(ts, lv, ps),
         UNCHANGED sessions,
         \A i \in Ids : Linked(ts[i], lv[i], ps[i]) /\ Concluded(sessions, ts[i], lv[i])
  PROVE  /\ MemoryInv'
         /\ \A s \in Sids : \A i \in Ids :
              Held(s, ts[i], lv[i], ps[i]) => Held(s, tasks'[i], live'[i], paused'[i])
<1> DEFINE S == Starting(ts, lv)
<1>0. /\ view' = ts /\ dirty' = (S # {})
      /\ tasks' = [i \in Ids |-> IF i \in S THEN Started(ts[i]) ELSE ts[i]]
      /\ live' = [i \in Ids |-> IF i \in S THEN Launched(ts[i]) ELSE lv[i]]
      /\ paused' = [i \in Ids |-> ps[i] /\ i \notin S]
  BY DEF Commit
<1>1. \A i \in S : i \in Ids /\ ts[i].status = "queued" /\ lv[i].pc = "none"
  BY DEF Starting, Queued
<1> HIDE DEF S
<1>2. ASSUME NEW i \in Ids
      PROVE  /\ Linked(tasks'[i], live'[i], paused'[i])
             /\ Concluded(sessions', tasks'[i], live'[i])
             /\ Dismissed(view'[i], live'[i], paused'[i])
             /\ \A s \in Sids : Held(s, ts[i], lv[i], ps[i]) => Held(s, tasks'[i], live'[i], paused'[i])
  <2>1. CASE i \in S
    <3> DEFINE t == Started(ts[i])
               l == Launched(ts[i])
    <3>1. tasks'[i] = t /\ live'[i] = l /\ paused'[i] = FALSE
      BY <1>0, <2>1
    <3>2. ts[i] \in Tasks /\ Linked(ts[i], lv[i], ps[i]) /\ ts[i].status = "queued" /\ lv[i].pc = "none"
      BY <1>1, <2>1
    <3>3. /\ t.status \in {"creating", "uploading"} /\ t.kind = ts[i].kind /\ t.sid = ts[i].sid
          /\ t.fresh = ts[i].fresh
      BY <3>2 DEF Started, Tasks
    <3>4. /\ l.pc = IF ts[i].kind = "single" THEN "put" ELSE IF ts[i].sid = NoSid THEN "create" ELSE "get"
          /\ l.sid = ts[i].sid /\ ~l.aborted /\ l.reply = "none"
      BY <3>2 DEF Launched, NoTransport, Linked
    <3>5. ts[i].kind \in {"single", "multipart"}
      BY <3>2 DEF Tasks
    <3> HIDE DEF t, l
    <3>6. Linked(t, l, FALSE)
      BY <3>2, <3>3, <3>4, <3>5 DEF Linked
    <3>7. Concluded(sessions', t, l) /\ Dismissed(view'[i], l, FALSE)
      BY <3>3, <3>4 DEF Concluded, Dismissed
    <3>8. \A s \in Sids : Held(s, ts[i], lv[i], ps[i]) => Held(s, t, l, FALSE)
      BY <3>2, <3>3 DEF Held
    <3> QED BY <3>1, <3>6, <3>7, <3>8
  <2>2. CASE i \notin S
    <3>1. tasks'[i] = ts[i] /\ live'[i] = lv[i] /\ paused'[i] = ps[i] /\ view'[i] = ts[i]
      BY <1>0, <2>2
    <3> QED BY <3>1 DEF Linked, Dismissed
  <2> QED BY <2>1, <2>2
<1>3. ~dirty' => view' = tasks'
  <2> SUFFICES ASSUME S = {} PROVE tasks' = ts
    BY <1>0
  <2> QED BY <1>0
<1> QED BY <1>2, <1>3, MemoryNext

\* What the invariants say of task i.
LEMMA Remembered ==
  ASSUME QueueInv, MemoryInv, NEW i \in Ids
  PROVE  /\ tasks[i] \in Tasks /\ view[i] \in Tasks /\ live[i] \in Transports /\ paused[i] \in BOOLEAN
         /\ Seated(tasks[i], live[i], paused[i]) /\ Addressed(live[i])
         /\ Shown(view[i], live[i])
         /\ Linked(tasks[i], live[i], paused[i])
         /\ Concluded(sessions, tasks[i], live[i])
         /\ Dismissed(view[i], live[i], paused[i])
         /\ ~dirty => view[i] = tasks[i]
  BY Unreplaced DEF MemoryInv, Good

LEMMA SidsAreNumbers == NoSid \notin Sids
  BY DEF NoSid, Sids

\* What was complete stays so.
LEMMA Lasts ==
  ASSUME QueueInv, MemoryInv, Lasting, NEW i \in Ids
  PROVE  Concluded(sessions', tasks[i], live[i])
<1>1. Addressed(live[i]) /\ Concluded(sessions, tasks[i], live[i])
  BY Remembered
<1> QED BY <1>1 DEF Addressed, Concluded, Lasting

\* What both sorts of steps share: a task and its transport are replaced.
LEMMA LinkedWith ==
  ASSUME NEW t \in Tasks, NEW l, NEW p, NEW status \in UploadStatuses \ {"gone"}, NEW m, NEW r,
         Linked(t, l, p),
         m.pc = l.pc /\ m.sid = l.sid /\ m.reply = l.reply,
         status \in {"queued", "completed"} /\ t.status # "gone" => m.pc = "none",
         status = "cancelled" => ~r,
         m.pc # "none" /\ m.aborted /\ ~r => status = "cancelled" \/ t.status = "gone",
         m.pc = "undo" => m.aborted /\ ~r
  PROVE  Linked(With(t, status), m, r)
<1> DEFINE w == With(t, status)
<1>1. /\ w.sid = t.sid /\ w.kind = t.kind /\ w.fresh = t.fresh
      /\ t.status # "gone" => w.status = status
      /\ t.status = "gone" => w.status = "gone"
  BY DEF With, Tasks, UploadStatuses
<1> HIDE DEF w
<1>2. Linked(w, m, r)
  BY <1>1 DEF Linked
<1> QED BY <1>2 DEF w

\* A click that replaces the records of task i.
LEMMA ClickRemembers ==
  ASSUME QueueInv, MemoryInv, NEW i \in Ids, NEW t \in Tasks, NEW l \in Transports, NEW p \in BOOLEAN,
         Commit([tasks EXCEPT ![i] = t], [live EXCEPT ![i] = l], [paused EXCEPT ![i] = p]),
         Spend("clicks"), UNCHANGED <<restore, sessions>>, strays \subseteq strays',
         Linked(t, l, p), Concluded(sessions, t, l),
         ~dirty => \A s \in Sids : sessions[s].status = "active" /\ Held(s, tasks[i], live[i], paused[i])
                                     => Held(s, t, l, p) \/ Undo(s) \in strays'
  PROVE  MemoryInv' /\ \A s \in Sids : Remembers(s)
<1> DEFINE ts == [tasks EXCEPT ![i] = t]
           lv == [live EXCEPT ![i] = l]
           ps == [paused EXCEPT ![i] = p]
<1>1. tasks \in [Ids -> Tasks] /\ live \in [Ids -> Transports] /\ paused \in [Ids -> BOOLEAN]
  BY DEF QueueInv, UQTypeOK
<1>2. \A j \in Ids : /\ ts[j] = IF j = i THEN t ELSE tasks[j]
                     /\ lv[j] = IF j = i THEN l ELSE live[j]
                     /\ ps[j] = IF j = i THEN p ELSE paused[j]
  BY <1>1
<1>3. ts \in [Ids -> Tasks] /\ lv \in [Ids -> Transports] /\ ps \in [Ids -> BOOLEAN]
  BY <1>1
<1>4. Commit(ts, lv, ps)
  OBVIOUS
<1> HIDE DEF ts, lv, ps
<1>5. \A j \in Ids : Linked(ts[j], lv[j], ps[j]) /\ Concluded(sessions, ts[j], lv[j])
  BY <1>2 DEF MemoryInv
<1>6. /\ MemoryInv'
      /\ \A s \in Sids : \A j \in Ids :
           Held(s, ts[j], lv[j], ps[j]) => Held(s, tasks'[j], live'[j], paused'[j])
  BY <1>3, <1>4, <1>5, CommitsRemember
<1>7. ASSUME NEW s \in Sids, sessions[s].status = "active", dirty => budget'.clicks = budget.clicks
      PROVE  Known(s) => Known(s)' \/ sessions'[s].status # "active"
  <2>1. budget'.clicks # budget.clicks
    BY Spends
  <2>3. ~dirty
    BY <1>7, <2>1
  <2>4. \A j \in Ids : Held(s, tasks[j], live[j], paused[j]) =>
          Held(s, ts[j], lv[j], ps[j]) \/ Undo(s) \in strays'
    BY <1>2, <1>7, <2>3
  <2>5. \A j \in Ids : Held(s, tasks[j], live[j], paused[j]) =>
          Held(s, tasks'[j], live'[j], paused'[j]) \/ Undo(s) \in strays'
    BY <1>6, <2>4
  <2> QED BY <2>5, PassedOn
<1> QED BY <1>6, <1>7 DEF Remembers

\* A step of the transport of task i.
Steps(i, t, l, p) ==
  /\ tasks' = [tasks EXCEPT ![i] = t] /\ live' = [live EXCEPT ![i] = l]
  /\ paused' = [paused EXCEPT ![i] = p] /\ UNCHANGED <<view, restore>>
  /\ dirty' \/ (dirty' = dirty /\ t = tasks[i])
  /\ l.pc = "none" \/ (live[i].pc # "none" /\ l.aborted = live[i].aborted /\ p = paused[i])

LEMMA StepKeeps ==
  ASSUME QueueInv, MemoryInv, NEW i \in Ids, NEW t, NEW l, NEW p, Steps(i, t, l, p), Lasting,
         Linked(t, l, p), Concluded(sessions', t, l)
  PROVE  MemoryInv'
<1>1. tasks \in [Ids -> Tasks] /\ live \in [Ids -> Transports] /\ paused \in [Ids -> BOOLEAN]
  BY DEF QueueInv, UQTypeOK
<1>2. \A j \in Ids : /\ tasks'[j] = IF j = i THEN t ELSE tasks[j]
                     /\ live'[j] = IF j = i THEN l ELSE live[j]
                     /\ paused'[j] = IF j = i THEN p ELSE paused[j]
  BY <1>1 DEF Steps
<1>3. \A j \in Ids : /\ Linked(tasks[j], live[j], paused[j])
                     /\ Dismissed(view[j], live[j], paused[j])
                     /\ Concluded(sessions', tasks[j], live[j])
  BY Lasts DEF MemoryInv
<1>4. Dismissed(view'[i], l, p)
  BY <1>3 DEF Dismissed, Steps
<1>5. \A j \in Ids : /\ Linked(tasks'[j], live'[j], paused'[j])
                     /\ Concluded(sessions', tasks'[j], live'[j])
                     /\ Dismissed(view'[j], live'[j], paused'[j])
  BY <1>2, <1>3, <1>4 DEF Steps
<1>6. ~dirty' => view' = tasks'
  <2> SUFFICES ASSUME ~dirty' PROVE view' = tasks'
    OBVIOUS
  <2>1. view = tasks /\ tasks' = tasks
    BY <1>1 DEF MemoryInv, Steps
  <2> QED BY <2>1 DEF Steps
<1> QED BY <1>5, <1>6, MemoryNext

LEMMA StepRemembers ==
  ASSUME QueueInv, NEW i \in Ids, NEW t, NEW l, NEW p, Steps(i, t, l, p), strays \subseteq strays',
         \A s \in Sids : sessions[s].status = "active" /\ Held(s, tasks[i], live[i], paused[i])
                           => Held(s, t, l, p) \/ sessions'[s].status # "active"
  PROVE  \A s \in Sids : Remembers(s)
<1>1. tasks \in [Ids -> Tasks] /\ live \in [Ids -> Transports] /\ paused \in [Ids -> BOOLEAN]
  BY DEF QueueInv, UQTypeOK
<1>2. \A j \in Ids : /\ tasks'[j] = IF j = i THEN t ELSE tasks[j]
                     /\ live'[j] = IF j = i THEN l ELSE live[j]
                     /\ paused'[j] = IF j = i THEN p ELSE paused[j]
  BY <1>1 DEF Steps
<1>3. ASSUME NEW s \in Sids, sessions[s].status = "active"
      PROVE  Known(s) => Known(s)' \/ sessions'[s].status # "active"
  BY <1>2, <1>3, PassedOn DEF Steps
<1> QED BY <1>3 DEF Remembers

\* The pause keeps the task in the list.
LEMMA PauseRemembers ==
  ASSUME QueueInv, MemoryInv, NEW i \in Ids, Pause(i)
  PROVE  MemoryInv' /\ \A s \in Sids : Remembers(s)
<1> DEFINE t == With(tasks[i], "paused")
           l == Stopped(live[i])
<1>1. /\ view[i].status \in {"creating", "uploading"} /\ Spend("clicks")
      /\ Commit(SetStatus(tasks, i, "paused"), Aborted(i), [paused EXCEPT ![i] = TRUE])
      /\ UNCHANGED <<used, pending, restore, server, strays>>
  BY DEF Pause
<1>2. /\ SetStatus(tasks, i, "paused") = [tasks EXCEPT ![i] = t]
      /\ Aborted(i) = [live EXCEPT ![i] = l]
  BY Statuses, Abortions DEF QueueInv, UQTypeOK
<1>3. /\ tasks[i] \in Tasks /\ live[i] \in Transports /\ paused[i] \in BOOLEAN
      /\ Linked(tasks[i], live[i], paused[i]) /\ Concluded(sessions, tasks[i], live[i])
      /\ Dismissed(view[i], live[i], paused[i])
      /\ ~dirty => view[i] = tasks[i]
  BY Remembered
<1>4. /\ t \in Tasks /\ t.sid = tasks[i].sid
      /\ tasks[i].status # "gone" => t.status = "paused"
      /\ tasks[i].status = "gone" => t.status = "gone"
  BY <1>3, WithFields DEF UploadStatuses
<1>5. /\ l \in Transports /\ l.pc = live[i].pc /\ l.sid = live[i].sid /\ l.reply = live[i].reply
      /\ l.pc # "none" => l.aborted
  BY <1>3, StoppedFields
<1>6. live[i].pc # "undo"
  BY <1>1, <1>3 DEF Linked, Dismissed
<1>7. Linked(t, l, TRUE)
  <2> HIDE DEF l
  <2> QED BY <1>3, <1>5, <1>6, LinkedWith DEF UploadStatuses
<1> HIDE DEF t, l
<1>8. Concluded(sessions, t, l)
  BY <1>3, <1>4, <1>5 DEF Concluded
<1>9. ~dirty => \A s \in Sids : Held(s, tasks[i], live[i], paused[i]) => Held(s, t, l, TRUE)
  <2> SUFFICES ASSUME ~dirty, NEW s \in Sids, Held(s, tasks[i], live[i], paused[i])
               PROVE  Held(s, t, l, TRUE)
    OBVIOUS
  <2>1. tasks[i].status # "gone" /\ t.status = "paused"
    BY <1>1, <1>3, <1>4
  <2> QED BY <1>4, <1>5, <2>1 DEF Held
<1> QED BY <1>1, <1>2, <1>4, <1>5, <1>7, <1>8, <1>9, ClickRemembers DEF server

\* A resumed or retried task goes back to the queue with its session.
LEMMA QueuedAgain ==
  ASSUME QueueInv, MemoryInv, NEW i \in Ids, live[i].pc = "none", NEW p \in BOOLEAN,
         view[i].status \in {"paused", "failed"},
         Commit(SetStatus(tasks, i, "queued"), live, [paused EXCEPT ![i] = p]),
         Spend("clicks"), UNCHANGED <<restore, sessions, strays>>
  PROVE  MemoryInv' /\ \A s \in Sids : Remembers(s)
<1> DEFINE t == With(tasks[i], "queued")
           l == live[i]
<1>1. /\ SetStatus(tasks, i, "queued") = [tasks EXCEPT ![i] = t]
      /\ live = [live EXCEPT ![i] = l]
  BY Statuses, Unreplaced DEF QueueInv, UQTypeOK
<1>2. /\ tasks[i] \in Tasks /\ live[i] \in Transports /\ paused[i] \in BOOLEAN
      /\ Linked(tasks[i], live[i], paused[i])
      /\ ~dirty => view[i] = tasks[i]
  BY Remembered
<1>3. /\ t \in Tasks /\ t.sid = tasks[i].sid
      /\ tasks[i].status # "gone" => t.status = "queued"
      /\ tasks[i].status = "gone" => t.status = "gone"
  BY <1>2, WithFields DEF UploadStatuses
<1>4. Linked(t, l, p)
  BY <1>2, LinkedWith DEF UploadStatuses
<1> HIDE DEF t
<1>5. Concluded(sessions, t, l)
  BY <1>3 DEF Concluded
<1>6. ~dirty => \A s \in Sids : Held(s, tasks[i], live[i], paused[i]) => Held(s, t, l, p)
  BY <1>2, <1>3 DEF Held
<1> QED BY <1>1, <1>2, <1>3, <1>4, <1>5, <1>6, ClickRemembers

LEMMA ResumeRemembers ==
  ASSUME QueueInv, MemoryInv, NEW i \in Ids, Resume(i)
  PROVE  MemoryInv' /\ \A s \in Sids : Remembers(s)
<1>1. /\ view[i].status = "paused" /\ Spend("clicks") /\ UNCHANGED <<used, restore, server, strays>>
      /\ \/ UNCHANGED <<tasks, view, dirty, live, paused, saved>>
         \/ /\ live[i].pc = "none"
            /\ Commit(SetStatus(tasks, i, "queued"), live, [paused EXCEPT ![i] = FALSE])
  BY DEF Resume
<1>2. CASE UNCHANGED <<tasks, view, dirty, live, paused, saved>>
  <2>1. MemoryInv'
    BY <1>1, <1>2, MemoryNext DEF MemoryInv, server
  <2>2. \A s \in Sids : Known(s) => Known(s)'
    BY <1>1, <1>2, Knows, KnowsNext
  <2> QED BY <2>1, <2>2 DEF Remembers
<1>3. CASE /\ live[i].pc = "none"
           /\ Commit(SetStatus(tasks, i, "queued"), live, [paused EXCEPT ![i] = FALSE])
  BY <1>1, <1>3, QueuedAgain DEF server
<1> QED BY <1>1, <1>2, <1>3

LEMMA RetryRemembers ==
  ASSUME QueueInv, MemoryInv, NEW i \in Ids, Retry(i)
  PROVE  MemoryInv' /\ \A s \in Sids : Remembers(s)
<1>1. /\ view[i].status = "failed" /\ Spend("clicks")
      /\ Commit(IF tasks[i].rebind THEN tasks ELSE SetStatus(tasks, i, "queued"), live, paused)
      /\ UNCHANGED <<used, pending, restore, server, strays>>
  BY DEF Retry
<1>2. /\ tasks[i] \in Tasks /\ live[i] \in Transports /\ paused[i] \in BOOLEAN
      /\ tasks = [tasks EXCEPT ![i] = tasks[i]] /\ live = [live EXCEPT ![i] = live[i]]
      /\ paused = [paused EXCEPT ![i] = paused[i]]
      /\ Linked(tasks[i], live[i], paused[i]) /\ Concluded(sessions, tasks[i], live[i])
      /\ live[i].pc = "none"
  BY <1>1, Remembered, Unreplaced DEF Shown
<1>3. CASE tasks[i].rebind
  BY <1>1, <1>2, <1>3, ClickRemembers DEF server
<1>4. CASE ~tasks[i].rebind
  BY <1>1, <1>2, <1>4, QueuedAgain DEF server
<1> QED BY <1>3, <1>4

\* The session of a cancelled task is cancelled by its transport, if it has one
\* that works, and by the queue otherwise.
LEMMA CancelRemembers ==
  ASSUME QueueInv, MemoryInv, NEW i \in Ids, Cancel(i)
  PROVE  MemoryInv' /\ \A s \in Sids : Remembers(s)
<1> DEFINE t == With(tasks[i], "cancelled")
           l == Stopped(live[i])
<1>1. /\ \/ view[i].status \in {"queued", "creating", "uploading", "paused", "completing"}
         \/ view[i].status = "failed" /\ view[i].sid # NoSid
      /\ Spend("clicks")
      /\ strays' = strays \cup {q \in {Undo(view[i].sid)} : CancelsHere(i)}
      /\ Commit(SetStatus(tasks, i, "cancelled"), Aborted(i), [paused EXCEPT ![i] = FALSE])
      /\ UNCHANGED <<used, restore, server>>
  BY DEF Cancel
<1>2. /\ SetStatus(tasks, i, "cancelled") = [tasks EXCEPT ![i] = t]
      /\ Aborted(i) = [live EXCEPT ![i] = l]
  BY Statuses, Abortions DEF QueueInv, UQTypeOK
<1>3. /\ tasks[i] \in Tasks /\ live[i] \in Transports /\ paused[i] \in BOOLEAN
      /\ Seated(tasks[i], live[i], paused[i])
      /\ Linked(tasks[i], live[i], paused[i]) /\ Concluded(sessions, tasks[i], live[i])
      /\ ~dirty => view[i] = tasks[i]
  BY Remembered
<1>4. /\ t \in Tasks /\ t.sid = tasks[i].sid
      /\ tasks[i].status # "gone" => t.status = "cancelled"
      /\ tasks[i].status = "gone" => t.status = "gone"
  BY <1>3, WithFields DEF UploadStatuses
<1>5. /\ l \in Transports /\ l.pc = live[i].pc /\ l.sid = live[i].sid /\ l.reply = live[i].reply
      /\ l.pc # "none" => l.aborted
  BY <1>3, StoppedFields
<1>6. Linked(t, l, FALSE)
  <2> HIDE DEF l
  <2> QED BY <1>3, <1>5, LinkedWith DEF UploadStatuses
<1> HIDE DEF t, l
<1>7. Concluded(sessions, t, l)
  BY <1>3, <1>4, <1>5 DEF Concluded
<1>8. ~dirty => \A s \in Sids : Held(s, tasks[i], live[i], paused[i])
                                  => Held(s, t, l, FALSE) \/ Undo(s) \in strays'
  <2> SUFFICES ASSUME ~dirty, NEW s \in Sids, Held(s, tasks[i], live[i], paused[i])
               PROVE  Held(s, t, l, FALSE) \/ Undo(s) \in strays'
    OBVIOUS
  <2>1. view[i] = tasks[i]
    BY <1>3
  <2>2. CASE /\ live[i].pc # "none" /\ live[i].sid = s
             /\ ~(live[i].pc = "undo" /\ live[i].reply # "none")
    BY <1>5, <2>2 DEF Held
  <2>3. CASE tasks[i].sid = s /\ CancelsHere(i)
    BY <1>1, <2>1, <2>3
  <2>4. CASE tasks[i].sid = s /\ ~CancelsHere(i)
    <3>1. s # NoSid
      BY SidsAreNumbers
    <3>2. live[i].pc # "none" /\ tasks[i].status \notin {"paused", "failed"}
      BY <2>1, <2>4, <3>1 DEF CancelsHere
    <3>3. tasks[i].status \in {"creating", "uploading", "completing"}
      BY <1>1, <1>3, <2>1, <3>2 DEF Linked
    <3>4. ~live[i].aborted
      BY <1>3, <3>3 DEF Seated, Alive, Busy
    <3>5. live[i].pc \in {"get", "part", "complete", "finish"} /\ live[i].sid = s
      BY <1>3, <2>4, <3>1, <3>2, <3>3, <3>4 DEF Linked, Transports, Awaits
    <3> QED BY <1>5, <3>5 DEF Held
  <2> QED BY <2>2, <2>3, <2>4 DEF Held
<1> QED BY <1>1, <1>2, <1>4, <1>5, <1>6, <1>7, <1>8, ClickRemembers DEF server

\* The session of a file that is not known is cancelled when a file is chosen.
LEMMA RebindRemembers ==
  ASSUME QueueInv, MemoryInv, NEW i \in Ids, NEW f \in Stamps \cup {NoStamp}, Rebind(i, f)
  PROVE  MemoryInv' /\ \A s \in Sids : Remembers(s)
<1> DEFINE t == IF tasks[i].status = "gone" THEN tasks[i] ELSE Rebound(tasks[i], f)
           l == live[i]
           p == paused[i]
<1>1. /\ view[i].rebind /\ Spend("clicks")
      /\ strays' = strays \cup
           {q \in {Undo(view[i].sid)} : view[i].sid # NoSid /\ view[i].stamp = NoStamp}
      /\ Commit(Reduce(tasks, i, Rebound(tasks[i], f)), live, paused)
      /\ UNCHANGED <<used, pending, restore, server>>
  BY DEF Rebind
<1>2. /\ tasks[i] \in Tasks /\ live[i] \in Transports /\ paused[i] \in BOOLEAN
      /\ live = [live EXCEPT ![i] = l] /\ paused = [paused EXCEPT ![i] = p]
      /\ Linked(tasks[i], live[i], paused[i]) /\ Concluded(sessions, tasks[i], live[i])
      /\ l.pc = "none"
      /\ ~dirty => view[i] = tasks[i]
  BY <1>1, Remembered, Unreplaced DEF Shown
<1>3. Reduce(tasks, i, Rebound(tasks[i], f)) = [tasks EXCEPT ![i] = t]
  BY Unreplaced DEF Reduce
<1>4. \/ t = tasks[i]
      \/ /\ t \in Tasks /\ t.status = "queued" /\ t.kind = tasks[i].kind
         /\ tasks[i].stamp = NoStamp /\ t.sid = NoSid
      \/ /\ t \in Tasks /\ t.status = "queued" /\ t.kind = tasks[i].kind
         /\ tasks[i].stamp # NoStamp /\ t.sid = tasks[i].sid /\ t.fresh = tasks[i].fresh
  BY <1>2 DEF Rebound, Tasks, UploadStatuses
<1> HIDE DEF t, l, p
<1>5. Linked(t, l, p)
  BY <1>2, <1>4 DEF Linked, l, p
<1>6. Concluded(sessions, t, l)
  BY <1>2, <1>4 DEF Concluded, l
<1>7. ~dirty => \A s \in Sids : Held(s, tasks[i], live[i], paused[i])
                                  => Held(s, t, l, p) \/ Undo(s) \in strays'
  <2> SUFFICES ASSUME ~dirty, NEW s \in Sids, Held(s, tasks[i], live[i], paused[i])
               PROVE  Held(s, t, l, p) \/ Undo(s) \in strays'
    OBVIOUS
  <2>1. tasks[i].sid = s /\ tasks[i].status \notin {"gone", "cancelled"}
    BY <1>2 DEF Held, l
  <2>2. CASE t = tasks[i] \/ (t.status = "queued" /\ t.sid = tasks[i].sid)
    BY <2>1, <2>2 DEF Held
  <2>3. CASE tasks[i].stamp = NoStamp
    BY <1>1, <1>2, <2>1, <2>3, SidsAreNumbers
  <2> QED BY <1>4, <2>2, <2>3
<1> QED BY <1>1, <1>2, <1>3, <1>4, <1>5, <1>6, <1>7, ClickRemembers DEF server, l, p

\* A task that can be removed has no session that is open, or a transport that
\* will cancel it.
LEMMA Removals ==
  ASSUME QueueInv, MemoryInv, NEW i \in Ids, NEW s \in Sids, sessions[s].status = "active",
         Held(s, tasks[i], live[i], paused[i]),
         \/ tasks[i].status \in {"completed", "cancelled"}
         \/ tasks[i].status = "failed" /\ tasks[i].sid = NoSid
  PROVE  Held(s, Gone, live[i], paused[i])
<1> DEFINE t == tasks[i]
           l == live[i]
           p == paused[i]
<1>0. Seated(t, l, p) /\ Linked(t, l, p) /\ Concluded(sessions, t, l) /\ Held(s, t, l, p)
  BY Remembered
<1>1. ~(t.sid = s /\ t.status \notin {"gone", "cancelled"})
  BY <1>0, SidsAreNumbers DEF Concluded
<1> HIDE DEF t, l, p
<1>2. /\ l.pc # "none" /\ l.sid = s /\ ~(l.pc = "undo" /\ l.reply # "none")
  BY <1>0, <1>1 DEF Held
<1>3. t.status = "cancelled"
  BY <1>0, <1>2 DEF Linked, Seated, t
<1>4. l.aborted /\ ~p
  BY <1>0, <1>2, <1>3 DEF Linked, Seated, Alive, Busy
<1>5. Held(s, Gone, l, p)
  BY <1>2, <1>4 DEF Held
<1> QED BY <1>5 DEF l, p

LEMMA GoneIsLinked ==
  ASSUME NEW t, NEW l, NEW p, Linked(t, l, p), Concluded(sessions, t, l)
  PROVE  Linked(Gone, l, p) /\ Concluded(sessions, Gone, l)
<1>1. Gone.status = "gone" /\ Gone.sid = NoSid
  BY DEF Gone
<1> QED BY <1>1 DEF Linked, Concluded

LEMMA RemoveRemembers ==
  ASSUME QueueInv, MemoryInv, NEW i \in Ids, Remove(i)
  PROVE  MemoryInv' /\ \A s \in Sids : Remembers(s)
<1>1. /\ \/ view[i].status \in {"completed", "cancelled"}
         \/ view[i].status = "failed" /\ view[i].sid = NoSid
      /\ Spend("clicks") /\ Commit([tasks EXCEPT ![i] = Gone], live, paused)
      /\ UNCHANGED <<used, restore, server, strays>>
  BY DEF Remove
<1>2. /\ live[i] \in Transports /\ paused[i] \in BOOLEAN
      /\ live = [live EXCEPT ![i] = live[i]] /\ paused = [paused EXCEPT ![i] = paused[i]]
      /\ Seated(tasks[i], live[i], paused[i])
      /\ Linked(tasks[i], live[i], paused[i]) /\ Concluded(sessions, tasks[i], live[i])
      /\ ~dirty => view[i] = tasks[i]
  BY Remembered, Unreplaced
<1>3. Linked(Gone, live[i], paused[i]) /\ Concluded(sessions, Gone, live[i])
  BY <1>2, GoneIsLinked
<1>4. ~dirty => \A s \in Sids : sessions[s].status = "active" /\ Held(s, tasks[i], live[i], paused[i])
                                  => Held(s, Gone, live[i], paused[i])
  <2> SUFFICES ASSUME ~dirty, NEW s \in Sids, sessions[s].status = "active",
                      Held(s, tasks[i], live[i], paused[i])
               PROVE  Held(s, Gone, live[i], paused[i])
    OBVIOUS
  <2>1. \/ tasks[i].status \in {"completed", "cancelled"}
        \/ tasks[i].status = "failed" /\ tasks[i].sid = NoSid
    BY <1>1, <1>2
  <2> QED BY <2>1, Removals
<1> QED BY <1>1, <1>2, <1>3, <1>4, GoneIsATask, ClickRemembers DEF server

LEMMA ClearRemembers ==
  ASSUME QueueInv, MemoryInv, ClearCompleted
  PROVE  MemoryInv' /\ \A s \in Sids : Remembers(s)
<1> DEFINE ts == [i \in Ids |-> IF tasks[i].status = "completed" THEN Gone ELSE tasks[i]]
<1>1. Commit(ts, live, paused) /\ UNCHANGED <<used, pending, restore, server, strays>>
  BY DEF ClearCompleted
<1>2. ASSUME NEW i \in Ids
      PROVE  /\ ts[i] \in Tasks /\ Linked(ts[i], live[i], paused[i]) /\ Concluded(sessions, ts[i], live[i])
             /\ \A s \in Sids : sessions[s].status = "active" /\ Held(s, tasks[i], live[i], paused[i])
                                  => Held(s, ts[i], live[i], paused[i])
  <2>1. /\ tasks[i] \in Tasks /\ Seated(tasks[i], live[i], paused[i])
        /\ Linked(tasks[i], live[i], paused[i]) /\ Concluded(sessions, tasks[i], live[i])
    BY Remembered
  <2>2. CASE tasks[i].status = "completed"
    <3>1. ts[i] = Gone
      BY <2>2
    <3>2. Linked(Gone, live[i], paused[i]) /\ Concluded(sessions, Gone, live[i])
      BY <2>1, GoneIsLinked
    <3>3. \A s \in Sids : sessions[s].status = "active" /\ Held(s, tasks[i], live[i], paused[i])
                            => Held(s, Gone, live[i], paused[i])
      <4> SUFFICES ASSUME NEW s \in Sids, sessions[s].status = "active",
                          Held(s, tasks[i], live[i], paused[i])
                   PROVE  Held(s, Gone, live[i], paused[i])
        OBVIOUS
      <4>1. \/ tasks[i].status \in {"completed", "cancelled"}
            \/ tasks[i].status = "failed" /\ tasks[i].sid = NoSid
        BY <2>2
      <4> QED BY <4>1, Removals
    <3> QED BY <3>1, <3>2, <3>3, GoneIsATask
  <2>3. CASE tasks[i].status # "completed"
    BY <2>1, <2>3
  <2> QED BY <2>2, <2>3
<1>3. ts \in [Ids -> Tasks] /\ live \in [Ids -> Transports] /\ paused \in [Ids -> BOOLEAN]
  BY <1>2 DEF QueueInv, UQTypeOK
<1> HIDE DEF ts
<1>4. /\ MemoryInv'
      /\ \A s \in Sids : \A i \in Ids :
           Held(s, ts[i], live[i], paused[i]) => Held(s, tasks'[i], live'[i], paused'[i])
  BY <1>1, <1>2, <1>3, CommitsRemember DEF server
<1>5. ASSUME NEW s \in Sids, sessions[s].status = "active"
      PROVE  Known(s) => Known(s)' \/ sessions'[s].status # "active"
  BY <1>1, <1>2, <1>4, <1>5, PassedOn
<1> QED BY <1>4, <1>5 DEF Remembers

\* A new task takes the place of nothing.
LEMMA EnqueueRemembers ==
  ASSUME QueueInv, MemoryInv, NEW kind \in Kinds, NEW valid \in BOOLEAN, Enqueue(kind, Min(Stamps), valid)
  PROVE  MemoryInv' /\ \A s \in Sids : Remembers(s)
<1> DEFINE i == used + 1
           t == [Gone EXCEPT !.status = IF valid THEN "queued" ELSE "failed",
                             !.kind = kind, !.stamp = Min(Stamps)]
<1>1. /\ used < MaxTasks /\ Spend("clicks") /\ Commit([tasks EXCEPT ![i] = t], live, paused)
      /\ UNCHANGED <<pending, restore, server, strays>>
  BY DEF Enqueue
<1>2. Min(Stamps) \in Stamps
  <2>1. Stamps # {} /\ Stamps \subseteq Nat
    BY StampsAssumption
  <2> QED BY <2>1, Minimum
<1>3. used \in 0..MaxTasks /\ MaxTasks \in Nat
  BY BoundsAssumption DEF QueueInv, UQTypeOK
<1>4. i \in Ids /\ ~(i <= used)
  BY <1>1, <1>3 DEF Ids
<1>5. /\ t \in Tasks /\ t.status \in {"queued", "failed"} /\ t.sid = NoSid /\ ~t.fresh
  BY <1>2, KindsAssumption DEF Gone, Tasks, UploadStatuses
<1> HIDE DEF i, t
<1>6. /\ live[i].pc = "none" /\ tasks[i].status = "gone"
      /\ live[i] \in Transports /\ paused[i] \in BOOLEAN
      /\ live = [live EXCEPT ![i] = live[i]] /\ paused = [paused EXCEPT ![i] = paused[i]]
  BY <1>4, Unreplaced DEF Good
<1>7. Linked(t, live[i], paused[i]) /\ Concluded(sessions, t, live[i])
  BY <1>4, <1>5, <1>6, Remembered DEF Linked, Concluded
<1>8. \A s \in Sids : ~Held(s, tasks[i], live[i], paused[i])
  BY <1>6 DEF Held
<1> QED BY <1>1, <1>4, <1>5, <1>6, <1>7, <1>8, ClickRemembers DEF server

LEMMA ClickKeeps ==
  ASSUME QueueInv, MemoryInv, Click
  PROVE  MemoryInv' /\ \A s \in Sids : Remembers(s)
<1>1. ASSUME NEW k \in Kinds, NEW valid \in BOOLEAN, Enqueue(k, Min(Stamps), valid)
      PROVE  MemoryInv' /\ \A s \in Sids : Remembers(s)
  BY <1>1, EnqueueRemembers
<1>2. ASSUME NEW i \in Ids, Pause(i) \/ Resume(i) \/ Cancel(i) \/ Retry(i) \/ Remove(i)
      PROVE  MemoryInv' /\ \A s \in Sids : Remembers(s)
  BY <1>2, PauseRemembers, ResumeRemembers, CancelRemembers, RetryRemembers, RemoveRemembers
<1>3. ASSUME NEW i \in Ids, NEW f \in Stamps \cup {NoStamp}, Rebind(i, f)
      PROVE  MemoryInv' /\ \A s \in Sids : Remembers(s)
  BY <1>3, RebindRemembers
<1>4. CASE ClearCompleted
  BY <1>4, ClearRemembers
<1> QED BY <1>1, <1>2, <1>3, <1>4 DEF Click

LEMMA RenderRemembers ==
  ASSUME QueueInv, MemoryInv, Render
  PROVE  MemoryInv' /\ \A s \in Sids : Remembers(s)
<1>1. /\ Commit(tasks, live, paused)
      /\ UNCHANGED <<used, pending, restore, server, strays, budget>>
  BY DEF Render
<1>2. tasks \in [Ids -> Tasks] /\ paused \in [Ids -> BOOLEAN]
  BY DEF QueueInv, UQTypeOK
<1>3. /\ MemoryInv'
      /\ \A s \in Sids : \A i \in Ids :
           Held(s, tasks[i], live[i], paused[i]) => Held(s, tasks'[i], live'[i], paused'[i])
  BY <1>1, <1>2, CommitsRemember DEF MemoryInv, server
<1>4. \A s \in Sids : Known(s) => Known(s)' \/ sessions'[s].status # "active"
  BY <1>1, <1>3, PassedOn
<1> QED BY <1>3, <1>4 DEF Remembers

\* A new visit asks for the list of what is open.
LEMMA VisitRemembers ==
  ASSUME QueueInv, MemoryInv, Leave \/ Reload
  PROVE  MemoryInv' /\ \A s \in Sids : Remembers(s)
<1>1. /\ tasks' = [i \in Ids |-> Gone] /\ view' = tasks' /\ restore'.state = "sent"
      /\ paused' = paused /\ UNCHANGED server
  BY DEF Leave, Reload, NewVisit
<1>2. \A i \in Ids : live'[i] = NoTransport \/ live'[i] = Stopped(live[i])
  <2>1. CASE Leave
    <3> SUFFICES ASSUME NEW i \in Ids PROVE live'[i] = Stopped(live[i])
      OBVIOUS
    <3>1. live'[i] = Aborted(i)[i]
      BY <2>1 DEF Leave
    <3> QED BY <3>1, Abortions DEF QueueInv, UQTypeOK
  <2>2. CASE Reload
    BY <2>2 DEF Reload
  <2> QED BY <2>1, <2>2
<1>3. ASSUME NEW i \in Ids
      PROVE  /\ Linked(tasks'[i], live'[i], paused'[i])
             /\ Concluded(sessions', tasks'[i], live'[i])
             /\ Dismissed(view'[i], live'[i], paused'[i])
  <2>1. /\ live[i] \in Transports /\ Linked(tasks[i], live[i], paused[i])
        /\ Concluded(sessions, tasks[i], live[i])
    BY Remembered
  <2>2. tasks'[i] = Gone /\ view'[i] = Gone /\ Gone.status = "gone" /\ Gone.sid = NoSid
    BY <1>1 DEF Gone
  <2>3. /\ Stopped(live[i]).pc = live[i].pc /\ Stopped(live[i]).sid = live[i].sid
        /\ Stopped(live[i]).reply = live[i].reply
        /\ live[i].pc # "none" => Stopped(live[i]).aborted
    BY <2>1, StoppedFields
  <2> DEFINE l == live'[i]
  <2>4. \/ l.pc = "none" /\ l.reply = "none"
        \/ /\ l.pc = live[i].pc /\ l.sid = live[i].sid /\ l.reply = live[i].reply
           /\ live[i].pc # "none" => l.aborted
    BY <1>2, <2>3, NoTransportIsNone
  <2> HIDE DEF l
  <2>5. Linked(Gone, l, paused[i])
    BY <2>1, <2>2, <2>4 DEF Linked
  <2>6. Concluded(sessions, Gone, l)
    BY <2>1, <2>2, <2>4 DEF Concluded
  <2>7. Dismissed(Gone, l, paused[i])
    BY <2>2 DEF Dismissed
  <2> QED BY <1>1, <2>2, <2>5, <2>6, <2>7 DEF l, server
<1>4. MemoryInv'
  BY <1>1, <1>3, MemoryNext
<1> QED BY <1>1, <1>4, KnowsNext DEF Remembers

\* The list has every session that is open.
LEMMA ListServedRemembers ==
  ASSUME QueueInv, MemoryInv, ListServed
  PROVE  MemoryInv' /\ \A s \in Sids : Remembers(s)
<1>1. /\ restore' = [state |-> "answered", seen |-> {s \in Sids : sessions[s].status \in {"active", "completing"}}]
      /\ UNCHANGED <<tasks, view, dirty, used, live, paused, pending, saved, server, strays, budget>>
  BY DEF ListServed
<1>2. MemoryInv'
  BY <1>1, MemoryNext DEF MemoryInv, server
<1>3. \A s \in Sids : sessions[s].status = "active" => Known(s)'
  BY <1>1, KnowsNext
<1> QED BY <1>2, <1>3 DEF Remembers

\* No two sessions of the list are restored as one task.
LEMMA SeenRanksDiffer ==
  ASSUME NEW Q, Q \subseteq Int, IsFiniteSet(Q), NEW i \in Q, NEW j \in Q, i # j
  PROVE  Cardinality({k \in Q : k <= i}) # Cardinality({k \in Q : k <= j})
<1>1. ASSUME NEW m \in Q
      PROVE  /\ Cardinality({k \in Q : k <= m}) = Cardinality(Before(Q, m)) + 1
             /\ Cardinality(Before(Q, m)) \in Nat
  <2>1. {k \in Q : k <= m} = Before(Q, m) \cup {m}
    <3>1. \A k \in Q : k <= m <=> k < m \/ k = m
      BY <1>1
    <3> QED BY <1>1, <3>1 DEF Before
  <2>2. m \notin Before(Q, m)
    BY <1>1 DEF Before
  <2>3. IsFiniteSet(Before(Q, m))
    <3>1. Before(Q, m) \in SUBSET Q
      BY DEF Before
    <3> QED BY <3>1, FS_Subset
  <2>4. Cardinality(Before(Q, m) \cup {m}) = Cardinality(Before(Q, m)) + 1
    BY <2>2, <2>3, FS_AddElement
  <2> QED BY <2>1, <2>3, <2>4, FS_CardinalityType
<1>2. Cardinality(Before(Q, i)) # Cardinality(Before(Q, j))
  BY RanksDiffer
<1> QED BY <1>1, <1>2

LEMMA ListAnsweredRemembers ==
  ASSUME QueueInv, MemoryInv, ListAnswered
  PROVE  MemoryInv' /\ \A s \in Sids : Remembers(s)
<1> DEFINE seen == restore.seen
           rank(s) == Cardinality({r \in seen : r <= s})
           n == Cardinality(seen)
<1>1. /\ restore.state = "answered" /\ used + n <= MaxTasks
      /\ tasks' = [i \in Ids |-> IF \E s \in seen : used + rank(s) = i
                                 THEN RestoredTask(CHOOSE s \in seen : used + rank(s) = i)
                                 ELSE tasks[i]]
      /\ dirty' = (dirty \/ seen # {})
      /\ UNCHANGED <<view, live, paused, pending, saved, server, strays, budget>>
  BY DEF ListAnswered
<1>2. seen \subseteq Sids /\ used \in 0..MaxTasks /\ MaxTasks \in Nat /\ dirty \in BOOLEAN
  BY BoundsAssumption DEF QueueInv, UQTypeOK
<1>3. IsFiniteSet(seen) /\ n \in Nat
  <2>1. IsFiniteSet(Sids)
    BY BoundsAssumption, FS_Interval DEF Sids
  <2> HIDE DEF seen
  <2> QED BY <1>2, <2>1, FS_Subset, FS_CardinalityType
<1>4. ASSUME NEW s \in seen PROVE rank(s) \in Nat /\ rank(s) # 0 /\ rank(s) <= n
  <2> DEFINE T == {r \in seen : r <= s}
  <2>1. T \in SUBSET seen /\ s \in T
    <3>1. s \in Int
      BY <1>2 DEF Sids
    <3> QED BY <3>1
  <2> HIDE DEF seen, T
  <2>2. IsFiniteSet(T) /\ Cardinality(T) <= n /\ Cardinality(T) \in Nat /\ Cardinality(T) # 0
    BY <1>3, <2>1, FS_Subset, FS_CardinalityType, FS_EmptySet
  <2> QED BY <2>2 DEF T
<1>5. ASSUME NEW s \in seen, NEW r \in seen, s # r PROVE rank(s) # rank(r)
  <2>1. seen \subseteq Int
    BY <1>2 DEF Sids
  <2> HIDE DEF seen
  <2> QED BY <1>3, <1>5, <2>1, SeenRanksDiffer
<1> HIDE DEF seen, rank, n
<1>6. \A s \in seen : used + rank(s) \in Ids /\ ~(used + rank(s) <= used) /\ rank(s) \in Nat
  BY <1>1, <1>2, <1>3, <1>4 DEF Ids
<1>7. \A s \in seen : tasks'[used + rank(s)] = RestoredTask(s)
  <2> SUFFICES ASSUME NEW s \in seen PROVE tasks'[used + rank(s)] = RestoredTask(s)
    OBVIOUS
  <2>1. \A r \in seen : used + rank(r) = used + rank(s) => r = s
    BY <1>2, <1>5, <1>6
  <2>2. (CHOOSE r \in seen : used + rank(r) = used + rank(s)) = s
    BY <2>1
  <2>3. used + rank(s) \in Ids
    BY <1>6
  <2> QED BY <1>1, <2>2, <2>3
<1>8. ASSUME NEW i \in Ids
      PROVE  \/ /\ tasks[i].status = "gone" /\ live[i].pc = "none"
                /\ \E s \in seen : tasks'[i] = RestoredTask(s)
             \/ tasks'[i] = tasks[i]
  <2>1. CASE \E s \in seen : used + rank(s) = i
    <3>1. PICK s \in seen : used + rank(s) = i
      BY <2>1
    <3>2. ~(i <= used)
      BY <1>6, <3>1
    <3> QED BY <1>7, <3>1, <3>2, Unreplaced DEF Good
  <2>2. CASE ~\E s \in seen : used + rank(s) = i
    BY <1>1, <2>2
  <2> QED BY <2>1, <2>2
<1>9. \A s : /\ RestoredTask(s).status = "failed" /\ RestoredTask(s).kind = "multipart"
             /\ RestoredTask(s).sid = s /\ ~RestoredTask(s).fresh
  BY DEF RestoredTask, Gone
<1>10. MemoryInv'
  <2>1. ASSUME NEW i \in Ids
        PROVE  /\ Linked(tasks'[i], live'[i], paused'[i])
               /\ Concluded(sessions', tasks'[i], live'[i])
               /\ Dismissed(view'[i], live'[i], paused'[i])
    <3>1. /\ Linked(tasks[i], live[i], paused[i]) /\ Concluded(sessions, tasks[i], live[i])
          /\ Dismissed(view[i], live[i], paused[i])
          /\ UNCHANGED <<view, live, paused, sessions>>
      BY <1>1, Remembered DEF server
    <3> DEFINE t == tasks'[i]
    <3>2. CASE tasks'[i] = tasks[i]
      BY <3>1, <3>2
    <3>3. CASE live[i].pc = "none" /\ \E s \in seen : tasks'[i] = RestoredTask(s)
      <4>1. t.status = "failed" /\ t.kind = "multipart" /\ ~t.fresh
        BY <1>9, <3>3
      <4> HIDE DEF t
      <4>2. Linked(t, live[i], paused[i]) /\ Concluded(sessions, t, live[i])
        BY <3>1, <3>3, <4>1 DEF Linked, Concluded
      <4> QED BY <3>1, <4>2 DEF t
    <3> QED BY <1>8, <3>2, <3>3
  <2>2. ~dirty' => view' = tasks'
    <3> SUFFICES ASSUME ~dirty' PROVE view' = tasks'
      OBVIOUS
    <3>1. ~dirty /\ seen = {}
      BY <1>1
    <3>2. tasks' = [i \in Ids |-> tasks[i]]
      BY <1>1, <3>1
    <3>3. tasks \in [Ids -> Tasks] /\ view = tasks
      BY <3>1 DEF MemoryInv, QueueInv, UQTypeOK
    <3> QED BY <1>1, <3>2, <3>3
  <2> QED BY <2>1, <2>2, MemoryNext
<1>11. ASSUME NEW s \in Sids, Known(s) PROVE Known(s)'
  <2>1. CASE s \in seen
    <3>1. /\ used + rank(s) \in Ids /\ tasks'[used + rank(s)].sid = s
          /\ tasks'[used + rank(s)].status = "failed"
      BY <1>6, <1>7, <1>9, <2>1
    <3> QED BY <3>1, KnowsNext DEF Held
  <2>2. CASE Undo(s) \in strays
    BY <1>1, <2>2, KnowsNext
  <2>3. CASE \E i \in Ids : Held(s, tasks[i], live[i], paused[i])
    <3>1. PICK i \in Ids : Held(s, tasks[i], live[i], paused[i])
      BY <2>3
    <3>2. tasks'[i] = tasks[i]
      BY <1>8, <3>1 DEF Held
    <3>3. Held(s, tasks'[i], live'[i], paused'[i])
      BY <1>1, <3>1, <3>2
    <3> QED BY <3>3, KnowsNext
  <2> QED BY <1>1, <1>11, <2>1, <2>2, <2>3, Knows DEF seen
<1> QED BY <1>10, <1>11 DEF Remembers

\* No request reopens what is complete, and a cancellation or the second half of
\* a completion does what it says.
LEMMA ExecutesLast ==
  ASSUME QueueInv, NEW q, q.pc \in Awaits, StrayOK(q) \/ q.pc \in {"put", "none"},
         Grants(q), Execute(q)
  PROVE  /\ Lasting
         /\ q.pc = "undo" => sessions'[q.sid].status = "aborted"
         /\ q.pc = "finish" => sessions'[q.sid].status = "completed"
<1> DEFINE sid == About(q)
           s == sessions[sid]
<1>0. sessions \in [Sids -> Sessions]
  BY DEF QueueInv, UQTypeOK
<1>1. CASE q.pc = "create"
  <2>1. sid \in Sids /\ s.status = "absent"
    BY <1>1, NewSessions DEF Grants, About
  <2>2. Change(sid, OpenSession, {})
    BY <1>1 DEF Execute
  <2> HIDE DEF sid
  <2> QED BY <1>0, <1>1, <2>1, <2>2 DEF Change, Lasting
<1>2. CASE q.pc \in {"get", "part", "complete", "finish", "undo"}
  <2>1. sid = q.sid /\ q.sid \in Sids /\ s \in Sessions
    BY <1>0, <1>2 DEF About, StrayOK
  <2>2. \/ UNCHANGED server /\ q.pc \notin {"finish", "undo"}
        \/ /\ q.pc = "part" /\ s.status = "active"
           /\ Change(sid, WithPart(s, q.part), {q.stamp})
        \/ q.pc = "complete" /\ s.status = "active" /\ Change(sid, Completing(s), {})
        \/ q.pc = "finish" /\ Change(sid, Finished(s), {})
        \/ q.pc = "undo" /\ s.status = "active" /\ Change(sid, Cancelled(s), {})
    BY <1>2, <2>1 DEF Execute, Grants, TakesParts
  <2> HIDE DEF sid
  <2>3. \/ UNCHANGED sessions /\ q.pc \notin {"finish", "undo"}
        \/ \E t : /\ sessions' = [sessions EXCEPT ![sid] = t]
                  /\ s.status = "completed" => t.status = "completed"
                  /\ q.pc = "undo" => t.status = "aborted"
                  /\ q.pc = "finish" => t.status = "completed"
    BY <2>1, <2>2 DEF Change, server, Finished, Cancelled, Sessions
  <2> QED BY <1>0, <2>1, <2>3 DEF Lasting
<1>3. CASE q.pc \in {"put", "none"}
  <2>1. UNCHANGED server
    BY <1>3 DEF Execute
  <2> QED BY <1>3, <2>1 DEF server, Lasting
<1> QED BY <1>1, <1>2, <1>3 DEF Awaits

\* A lost or refused request: the task keeps what it knows.
LEMMA ErrorKeeps ==
  ASSUME QueueInv, MemoryInv, NEW i \in Ids, NEW l, l = [live[i] EXCEPT !.reply = "error"],
         live[i].pc # "none", live[i].reply = "none"
  PROVE  /\ l.pc = live[i].pc /\ l.sid = live[i].sid /\ l.aborted = live[i].aborted /\ l.reply = "error"
         /\ Linked(tasks[i], l, paused[i])
         /\ Lasting => Concluded(sessions', tasks[i], l)
<1>1. /\ live[i] \in Transports /\ Linked(tasks[i], live[i], paused[i])
  BY Remembered
<1>2. l.pc = live[i].pc /\ l.sid = live[i].sid /\ l.aborted = live[i].aborted /\ l.reply = "error"
  BY <1>1 DEF Transports
<1>3. Linked(tasks[i], l, paused[i])
  BY <1>1, <1>2 DEF Linked
<1>4. Lasting => Concluded(sessions', tasks[i], l)
  BY <1>2, Lasts DEF Concluded
<1> QED BY <1>2, <1>3, <1>4

LEMMA ServeRemembers ==
  ASSUME QueueInv, MemoryInv, NEW i \in Ids, Serve(i)
  PROVE  MemoryInv' /\ \A s \in Sids : Remembers(s)
<1> DEFINE q == RequestOf(live[i])
           granted == CASE q.pc = "create" -> [live[i] EXCEPT !.reply = "ok", !.sid = About(q)]
                        [] q.pc = "get" -> [live[i] EXCEPT !.reply = "ok", !.got = sessions[q.sid].parts]
                        [] q.pc = "complete" /\ sessions[q.sid].status = "active"
                                        -> [live[i] EXCEPT !.pc = "finish"]
                        [] OTHER        -> [live[i] EXCEPT !.reply = "ok"]
           l == IF Grants(q) THEN granted ELSE [live[i] EXCEPT !.reply = "error"]
           t == tasks[i]
           p == paused[i]
<1>1. /\ live[i].pc # "none" /\ live[i].reply = "none" /\ live' = [live EXCEPT ![i] = l]
      /\ IF Grants(q) THEN Execute(q) ELSE UNCHANGED server
      /\ UNCHANGED <<tasks, view, dirty, used, paused, pending, restore, saved, strays, budget>>
  BY DEF Serve
<1>2. /\ q.pc = live[i].pc /\ q.sid = live[i].sid
      /\ q.pc \in Awaits /\ (StrayOK(q) \/ q.pc \in {"put", "none"})
  BY <1>1, RequestFacts
<1>3. /\ live[i] \in Transports /\ Linked(t, live[i], p)
      /\ tasks' = [tasks EXCEPT ![i] = t] /\ paused' = [paused EXCEPT ![i] = p]
  BY <1>1, Remembered, Unreplaced
<1>4. CASE ~Grants(q)
  <2>1. /\ l = [live[i] EXCEPT !.reply = "error"] /\ UNCHANGED server
    BY <1>1, <1>4
  <2>2. Lasting
    BY <2>1 DEF Lasting, server
  <2> HIDE DEF l, q
  <2>3. /\ l.pc = live[i].pc /\ l.sid = live[i].sid /\ l.aborted = live[i].aborted
        /\ Linked(t, l, p) /\ Concluded(sessions', t, l)
    BY <1>1, <2>1, <2>2, ErrorKeeps
  <2>4. Steps(i, t, l, p)
    BY <1>1, <1>3, <2>3 DEF Steps
  <2>5. \A s \in Sids : sessions[s].status = "active" /\ Held(s, t, live[i], p) => Held(s, t, l, p)
    <3> SUFFICES ASSUME NEW s \in Sids, sessions[s].status = "active", Held(s, t, live[i], p)
                 PROVE  Held(s, t, l, p)
      OBVIOUS
    <3>1. ~(live[i].pc = "undo" /\ live[i].sid = s)
      BY <1>2, <1>4 DEF Grants
    <3> QED BY <2>3, <3>1 DEF Held
  <2>6. MemoryInv'
    BY <2>2, <2>3, <2>4, StepKeeps
  <2>7. \A s \in Sids : Remembers(s)
    BY <1>1, <2>4, <2>5, StepRemembers
  <2> QED BY <2>6, <2>7
<1>5. CASE Grants(q)
  <2>1. /\ Lasting
        /\ q.pc = "undo" => sessions'[q.sid].status = "aborted"
        /\ q.pc = "finish" => sessions'[q.sid].status = "completed"
    <3> HIDE DEF q, l
    <3> QED BY <1>1, <1>2, <1>5, ExecutesLast
  <2>2. /\ l.aborted = live[i].aborted
        /\ \/ q.pc = "create" /\ l.pc = "create" /\ l.reply = "ok"
           \/ /\ q.pc # "create" /\ l.sid = live[i].sid
              /\ \/ q.pc = "complete" /\ l.pc = "finish" /\ l.reply = "none"
                 \/ /\ l.pc = live[i].pc /\ l.reply = "ok"
                    /\ q.pc = "complete" => sessions[q.sid].status # "active"
    <3>1. \/ q.pc = "create" /\ l = [live[i] EXCEPT !.reply = "ok", !.sid = About(q)]
          \/ q.pc = "get" /\ l = [live[i] EXCEPT !.reply = "ok", !.got = sessions[q.sid].parts]
          \/ q.pc = "complete" /\ l = [live[i] EXCEPT !.pc = "finish"]
          \/ /\ q.pc # "create" /\ l = [live[i] EXCEPT !.reply = "ok"]
             /\ q.pc = "complete" => sessions[q.sid].status # "active"
      <4> HIDE DEF q
      <4> QED BY <1>5
    <3> HIDE DEF l, q
    <3> QED BY <1>1, <1>2, <1>3, <3>1 DEF Transports
  <2>3. q.pc = "complete" /\ sessions[q.sid].status # "active" => sessions[q.sid].status = "completed"
    BY <1>5 DEF Grants, MayComplete
  <2>4. q.pc \in {"complete", "finish"} => q.sid \in Sids
    BY <1>2 DEF StrayOK
  <2> HIDE DEF l, q
  <2>5. Linked(t, l, p)
    BY <1>1, <1>2, <1>3, <2>2 DEF Linked
  <2>6. Concluded(sessions', t, l)
    BY <1>2, <2>1, <2>2, <2>3, <2>4, Lasts DEF Concluded, Lasting
  <2>7. Steps(i, t, l, p)
    BY <1>1, <1>3, <2>2 DEF Steps
  <2>8. \A s \in Sids : sessions[s].status = "active" /\ Held(s, t, live[i], p)
                          => Held(s, t, l, p) \/ sessions'[s].status # "active"
    <3> SUFFICES ASSUME NEW s \in Sids, Held(s, t, live[i], p), sessions'[s].status = "active"
                 PROVE  Held(s, t, l, p)
      OBVIOUS
    <3>1. ~(live[i].pc = "undo" /\ live[i].sid = s)
      BY <1>2, <2>1
    <3>2. live[i].pc = "create" => live[i].sid # s
      BY <1>1, <1>3, SidsAreNumbers DEF Linked
    <3> QED BY <1>1, <1>2, <2>2, <3>1, <3>2 DEF Held
  <2>9. MemoryInv'
    BY <2>1, <2>5, <2>6, <2>7, StepKeeps
  <2>10. \A s \in Sids : Remembers(s)
    BY <1>1, <2>7, <2>8, StepRemembers
  <2> QED BY <2>9, <2>10
<1> QED BY <1>4, <1>5

LEMMA FaultsAreExcused ==
  ASSUME QueueInv, Spend("faults")
  PROVE  \A s \in Sids : Remembers(s)
<1>1. budget'["faults"] # budget["faults"]
  BY Spends
<1> QED BY <1>1 DEF Remembers

LEMMA ServeFailsRemembers ==
  ASSUME QueueInv, MemoryInv, NEW i \in Ids, ServeFails(i)
  PROVE  MemoryInv' /\ \A s \in Sids : Remembers(s)
<1> DEFINE q == RequestOf(live[i])
           l == [live[i] EXCEPT !.reply = "error"]
           t == tasks[i]
           p == paused[i]
<1>1. /\ live[i].pc # "none" /\ live[i].reply = "none"
      /\ live' = [live EXCEPT ![i].reply = "error"] /\ Spend("faults")
      /\ \/ Grants(q) /\ Execute(q)
         \/ /\ q.pc = "finish" /\ sessions[q.sid].status = "completing"
            /\ Change(q.sid, Reopened(sessions[q.sid]), {})
         \/ UNCHANGED server
      /\ UNCHANGED <<tasks, view, dirty, used, paused, pending, restore, saved, strays>>
  BY DEF ServeFails
<1>2. /\ q.pc = live[i].pc /\ q.sid = live[i].sid
      /\ q.pc \in Awaits /\ (StrayOK(q) \/ q.pc \in {"put", "none"})
  BY <1>1, RequestFacts
<1>3. /\ tasks' = [tasks EXCEPT ![i] = t] /\ paused' = [paused EXCEPT ![i] = p]
      /\ live \in [Ids -> Transports] /\ sessions \in [Sids -> Sessions]
  BY <1>1, Unreplaced DEF QueueInv, UQTypeOK
<1>4. live' = [live EXCEPT ![i] = l]
  BY <1>1, <1>3
<1> HIDE DEF q, l
<1>5. Lasting
  <2>1. CASE Grants(q) /\ Execute(q)
    BY <1>2, <2>1, ExecutesLast
  <2>2. CASE /\ q.pc = "finish" /\ sessions[q.sid].status = "completing"
             /\ Change(q.sid, Reopened(sessions[q.sid]), {})
    BY <1>3, <2>2 DEF Change, Lasting
  <2>3. CASE UNCHANGED server
    BY <2>3 DEF Lasting, server
  <2> QED BY <1>1, <2>1, <2>2, <2>3
<1>6. /\ l.pc = live[i].pc /\ l.aborted = live[i].aborted
      /\ Linked(t, l, p) /\ Concluded(sessions', t, l)
  BY <1>1, <1>5, ErrorKeeps DEF l
<1>7. Steps(i, t, l, p)
  BY <1>1, <1>3, <1>4, <1>6 DEF Steps
<1>8. MemoryInv'
  BY <1>5, <1>6, <1>7, StepKeeps
<1> QED BY <1>1, <1>8, FaultsAreExcused

\* The page stays as it is while the server changes.
LEMMA PageKeeps ==
  ASSUME QueueInv, MemoryInv, Lasting, UNCHANGED page
  PROVE  MemoryInv'
<1>1. \A i \in Ids : Concluded(sessions', tasks[i], live[i])
  BY Lasts
<1> QED BY <1>1, MemoryNext DEF MemoryInv, page

LEMMA StrayArrivesRemembers ==
  ASSUME QueueInv, MemoryInv, NEW q \in strays, StrayArrives(q)
  PROVE  MemoryInv' /\ \A s \in Sids : Remembers(s)
<1>1. /\ IF Grants(q) THEN Execute(q) ELSE UNCHANGED server
      /\ strays \ {q} \subseteq strays' /\ UNCHANGED page
  BY DEF StrayArrives
<1>2. StrayOK(q) /\ q.pc \in Awaits
  BY DEF QueueInv, UQTypeOK, Requests, Awaits
<1>3. /\ Lasting
      /\ Grants(q) /\ q.pc = "undo" => sessions'[q.sid].status = "aborted"
  <2>1. CASE Grants(q)
    BY <1>1, <1>2, <2>1, ExecutesLast
  <2>2. CASE ~Grants(q)
    BY <1>1, <2>2 DEF Lasting, server
  <2> QED BY <2>1, <2>2
<1>4. ASSUME NEW s \in Sids, sessions[s].status = "active"
      PROVE  Known(s) => Known(s)' \/ sessions'[s].status # "active"
  <2>1. Undo(s).pc = "undo" /\ Undo(s).sid = s
    BY DEF Undo
  <2>2. q = Undo(s) => Grants(q)
    BY <1>4, <2>1 DEF Grants
  <2>3. Undo(s) \in strays => Undo(s) \in strays' \/ sessions'[s].status # "active"
    BY <1>1, <1>3, <2>1, <2>2
  <2> QED BY <1>1, <2>3, PassedOn DEF page
<1> QED BY <1>1, <1>3, <1>4, PageKeeps DEF Remembers

LEMMA SessionEndsRemembers ==
  ASSUME QueueInv, MemoryInv, NEW s \in Sids, SessionEnds(s)
  PROVE  MemoryInv' /\ \A r \in Sids : Remembers(r)
<1>1. /\ sessions[s].status = "active" /\ Spend("faults")
      /\ Change(s, Cancelled(sessions[s]), {}) /\ UNCHANGED <<page, strays>>
  BY DEF SessionEnds
<1>2. Lasting
  BY <1>1 DEF QueueInv, UQTypeOK, Change, Lasting
<1> QED BY <1>1, <1>2, PageKeeps, FaultsAreExcused

-----------------------------------------------------------------------------
(* The ends of a transport, and its cancellation of the session.           *)

LEMMA SettleRemembers ==
  ASSUME QueueInv, MemoryInv, NEW i \in Ids, NEW how, NEW t \in Tasks, NEW ts, ts = [tasks EXCEPT ![i] = t],
         Settle(i, how, ts), UNCHANGED sessions, strays \subseteq strays',
         t.fresh \/ t.kind = "single" => t.sid = NoSid,
         t.status = "cancelled" => ~paused[i],
         t.status # "completed",
         how = "done" /\ t.status # "gone" /\ t.sid \in Sids => sessions[t.sid].status = "completed",
         \A s \in Sids : sessions[s].status = "active" /\ Held(s, tasks[i], live[i], paused[i]) =>
           /\ t.sid = s /\ t.status \notin {"gone", "cancelled"} /\ how # "done"
           /\ how = "paused" \/ paused[i] \/ ~live[i].aborted
  PROVE  MemoryInv' /\ \A s \in Sids : Remembers(s)
<1>1. PICK b \in Tasks :
        /\ b.sid = t.sid /\ b.stamp = t.stamp /\ b.rebind = t.rebind /\ b.kind = t.kind
        /\ b.fresh = t.fresh
        /\ t.status = "gone" => b.status = "gone"
        /\ t.status # "gone" => b.status = Final(i, how, t)
        /\ tasks' = [tasks EXCEPT ![i] = b] /\ live' = [live EXCEPT ![i] = NoTransport]
        /\ paused' = [paused EXCEPT ![i] = paused[i] /\ i \notin pending]
        /\ pending' = pending \ {i} /\ dirty' = TRUE
        /\ UNCHANGED <<view, used, restore, saved>>
  BY Settlements
<1> DEFINE p == paused[i] /\ i \notin pending
<1>2. paused' = [paused EXCEPT ![i] = p] /\ (paused[i] = FALSE => p = FALSE)
  BY <1>1
<1>3. paused[i] \in BOOLEAN
  BY Remembered
<1> HIDE DEF p
<1>4. Linked(b, NoTransport, p)
  BY <1>1, <1>2, <1>3, NoTransportIsNone DEF Linked, Final
<1>5. Concluded(sessions', b, NoTransport)
  BY <1>1, NoTransportIsNone DEF Concluded, Final
<1>6. Steps(i, b, NoTransport, p)
  BY <1>1, <1>2, NoTransportIsNone DEF Steps
<1>7. Lasting
  BY DEF Lasting
<1>8. ASSUME NEW s \in Sids, sessions[s].status = "active", Held(s, tasks[i], live[i], paused[i])
      PROVE  Held(s, b, NoTransport, p)
  BY <1>1, <1>8 DEF Held, Final
<1>9. MemoryInv'
  BY <1>4, <1>5, <1>6, <1>7, StepKeeps
<1>10. \A s \in Sids : Remembers(s)
  BY <1>6, <1>8, StepRemembers
<1> QED BY <1>9, <1>10

\* The transport of a cancelled task holds the session until it is cancelled too.
LEMMA UndoRemembers ==
  ASSUME QueueInv, MemoryInv, NEW i \in Ids, UndoSession(i), live[i].aborted, ~paused[i],
         live[i].pc \notin {"none", "put"}, UNCHANGED sessions, strays \subseteq strays'
  PROVE  MemoryInv' /\ \A s \in Sids : Remembers(s)
<1> DEFINE l == [live[i] EXCEPT !.pc = "undo", !.part = 0, !.stamp = NoStamp, !.reply = "none"]
           t == tasks[i]
           p == paused[i]
<1>1. /\ live' = [live EXCEPT ![i].pc = "undo", ![i].part = 0, ![i].stamp = NoStamp, ![i].reply = "none"]
      /\ UNCHANGED <<tasks, view, dirty, used, paused, pending, restore, saved>>
  BY DEF UndoSession
<1>2. /\ live \in [Ids -> Transports] /\ live[i] \in Transports /\ Linked(t, live[i], p)
      /\ Concluded(sessions, t, live[i])
      /\ tasks' = [tasks EXCEPT ![i] = t] /\ paused' = [paused EXCEPT ![i] = p]
  BY <1>1, Remembered, Unreplaced DEF QueueInv, UQTypeOK
<1>3. live' = [live EXCEPT ![i] = l]
  BY <1>1, <1>2
<1>4. l.pc = "undo" /\ l.sid = live[i].sid /\ l.aborted = live[i].aborted /\ l.reply = "none"
  BY <1>2 DEF Transports
<1> HIDE DEF l
<1>5. Linked(t, l, p) /\ Concluded(sessions', t, l)
  BY <1>2, <1>4 DEF Linked, Concluded
<1>6. Steps(i, t, l, p)
  BY <1>1, <1>2, <1>3, <1>4 DEF Steps
<1>7. Lasting
  BY DEF Lasting
<1>8. \A s \in Sids : Held(s, t, live[i], p) => Held(s, t, l, p)
  BY <1>4 DEF Held
<1>9. MemoryInv'
  BY <1>5, <1>6, <1>7, StepKeeps
<1>10. \A s \in Sids : Remembers(s)
  BY <1>6, <1>8, StepRemembers
<1> QED BY <1>9, <1>10

\* The task learns the session its transport works on.
LEMMA ProceedRemembers ==
  ASSUME QueueInv, MemoryInv, NEW i \in Ids, NEW got, Proceed(i, got), ~live[i].aborted,
         live[i].pc \in {"create", "get", "part"}, live[i].sid \in Sids,
         UNCHANGED <<sessions, strays>>
  PROVE  MemoryInv' /\ \A s \in Sids : Remembers(s)
<1> DEFINE missing == Parts \ got
           k == KnownTask(tasks[i], live[i].sid)
           t == IF missing = {} THEN With(k, "completing") ELSE k
           l == [live[i] EXCEPT !.got = got, !.pc = IF missing = {} THEN "complete" ELSE "part",
                                !.part = IF missing = {} THEN 0 ELSE Min(missing), !.reply = "none"]
           p == paused[i]
<1>1. LET known == SessionKnown(tasks, i, live[i].sid)
      IN /\ tasks' = IF missing = {} THEN SetStatus(known, i, "completing") ELSE known
         /\ live' = [live EXCEPT ![i].got = got,
                                 ![i].pc = IF missing = {} THEN "complete" ELSE "part",
                                 ![i].part = IF missing = {} THEN 0 ELSE Min(missing),
                                 ![i].reply = "none"]
         /\ dirty' = TRUE
         /\ UNCHANGED <<view, used, paused, pending, restore, saved>>
  BY DEF Proceed
<1>2. /\ live \in [Ids -> Transports] /\ tasks \in [Ids -> Tasks]
      /\ live[i] \in Transports /\ tasks[i] \in Tasks
      /\ Linked(tasks[i], live[i], p) /\ tasks[i].status \in Busy
      /\ paused' = [paused EXCEPT ![i] = p]
  BY <1>1, Remembered, Unreplaced DEF QueueInv, UQTypeOK, Seated, Alive
<1>3. /\ SessionKnown(tasks, i, live[i].sid) = [tasks EXCEPT ![i] = k]
      /\ k \in Tasks /\ k.status = "uploading"
  BY <1>2, Knowing DEF Busy
<1>4. k.sid = live[i].sid /\ k.fresh = FALSE /\ k.kind = tasks[i].kind
  BY <1>2 DEF KnownTask, Tasks, Busy
<1> HIDE DEF k
<1>5. /\ t.sid = live[i].sid /\ t.fresh = FALSE /\ t.kind = tasks[i].kind
      /\ t.status \in {"uploading", "completing"}
  BY <1>3, <1>4, WithFields DEF UploadStatuses
<1>6. tasks' = [tasks EXCEPT ![i] = t]
  <2>1. [tasks EXCEPT ![i] = k] \in [Ids -> Tasks] /\ [tasks EXCEPT ![i] = k][i] = k
    BY <1>2, <1>3
  <2>2. SetStatus([tasks EXCEPT ![i] = k], i, "completing")
          = [[tasks EXCEPT ![i] = k] EXCEPT ![i] = With(k, "completing")]
    BY <2>1, Statuses
  <2>3. [[tasks EXCEPT ![i] = k] EXCEPT ![i] = With(k, "completing")] = [tasks EXCEPT ![i] = With(k, "completing")]
    BY <1>2
  <2> QED BY <1>1, <1>3, <2>2, <2>3
<1>7. live' = [live EXCEPT ![i] = l]
  BY <1>1, <1>2
<1>8. /\ l.pc \in {"complete", "part"} /\ l.sid = live[i].sid /\ l.aborted = live[i].aborted
      /\ l.reply = "none"
  BY <1>2 DEF Transports
<1> HIDE DEF t, l
<1>9. Linked(t, l, p) /\ Concluded(sessions', t, l)
  BY <1>2, <1>5, <1>8 DEF Linked, Concluded, Busy
<1>10. Steps(i, t, l, p)
  BY <1>1, <1>2, <1>6, <1>7, <1>8 DEF Steps
<1>11. Lasting
  BY DEF Lasting
<1>12. \A s \in Sids : Held(s, tasks[i], live[i], p) => Held(s, t, l, p)
  BY <1>2, <1>5, SidsAreNumbers DEF Held, Linked, Busy
<1>13. MemoryInv'
  BY <1>9, <1>10, <1>11, StepKeeps
<1>14. \A s \in Sids : Remembers(s)
  BY <1>10, <1>12, StepRemembers
<1> QED BY <1>13, <1>14

LEMMA AnsweredRemembers ==
  ASSUME QueueInv, MemoryInv, NEW i \in Ids, Answered(i)
  PROVE  MemoryInv' /\ \A s \in Sids : Remembers(s)
<1> DEFINE t == tasks[i]
           l == live[i]
           p == paused[i]
<1>0. /\ t \in Tasks /\ l \in Transports /\ tasks = [tasks EXCEPT ![i] = t]
      /\ Seated(t, l, p) /\ Addressed(l) /\ Linked(t, l, p) /\ Concluded(sessions, t, l)
  BY Remembered, Unreplaced
<1>1. /\ l.reply # "none" /\ ~(l.aborted /\ l.pc \in Abortable)
      /\ UNCHANGED <<sessions, strays>>
  BY DEF Answered, server
<1>2. l.pc # "none" /\ t.status # "completed" /\ (t.status = "cancelled" => ~p)
  BY <1>0, <1>1 DEF Linked
<1>3. \/ l.pc = "undo" /\ Settle(i, "aborted", tasks)
      \/ l.pc # "undo" /\ l.reply = "error" /\ Settle(i, "failed", tasks)
      \/ l.pc \in {"put", "complete", "finish"} /\ l.reply = "ok" /\ Settle(i, "done", tasks)
      \/ /\ l.pc = "create" /\ l.reply = "ok" /\ l.aborted /\ p
         /\ Settle(i, "paused", SessionKnown(tasks, i, l.sid))
      \/ l.pc = "create" /\ l.reply = "ok" /\ l.aborted /\ ~p /\ UndoSession(i)
      \/ l.pc \in {"create", "get"} /\ l.reply = "ok" /\ ~l.aborted /\ Proceed(i, l.got)
      \/ l.pc = "part" /\ l.reply = "ok" /\ Proceed(i, l.got \cup {l.part})
  BY DEF Answered
<1>4. t.fresh \/ t.kind = "single" => t.sid = NoSid
  BY <1>0 DEF Linked
<1>5. CASE l.pc = "undo" /\ Settle(i, "aborted", tasks)
  <2>1. \A s \in Sids : ~Held(s, t, l, p)
    BY <1>0, <1>1, <1>5 DEF Linked, Held
  <2> HIDE DEF t, l, p
  <2> QED BY <1>0, <1>1, <1>2, <1>4, <1>5, <2>1, SettleRemembers DEF t, l, p
<1>6. CASE l.pc # "undo" /\ l.reply = "error" /\ Settle(i, "failed", tasks)
  <2>1. \A s \in Sids : Held(s, t, l, p) =>
          t.sid = s /\ t.status \notin {"gone", "cancelled"} /\ (p \/ ~l.aborted)
    <3>1. CASE l.pc = "put" \/ l.pc = "create"
      BY <1>0, <1>2, <1>6, <3>1, SidsAreNumbers DEF Linked, Held
    <3>2. CASE l.pc \in {"get", "part", "complete", "finish"}
      <4>1. ~l.aborted
        BY <1>1, <3>2 DEF Abortable
      <4>2. t.status \in Busy
        BY <1>0, <1>2, <4>1 DEF Seated, Alive
      <4> QED BY <1>0, <3>2, <4>1, <4>2 DEF Linked, Held, Busy
    <3> QED BY <1>0, <1>2, <1>6, <3>1, <3>2 DEF Transports, Awaits
  <2> QED BY <1>0, <1>1, <1>2, <1>4, <1>6, <2>1, SettleRemembers
<1>7. CASE l.pc \in {"put", "complete", "finish"} /\ l.reply = "ok" /\ Settle(i, "done", tasks)
  <2>1. \A s \in Sids : sessions[s].status = "active" => ~Held(s, t, l, p)
    BY <1>0, <1>7, SidsAreNumbers DEF Linked, Concluded, Held
  <2>2. t.status # "gone" /\ t.sid \in Sids => sessions[t.sid].status = "completed"
    BY <1>0, <1>7, SidsAreNumbers DEF Linked, Concluded
  <2> QED BY <1>0, <1>1, <1>2, <1>4, <1>7, <2>1, <2>2, SettleRemembers
<1>8. CASE /\ l.pc = "create" /\ l.reply = "ok" /\ l.aborted /\ p
           /\ Settle(i, "paused", SessionKnown(tasks, i, l.sid))
  <2> DEFINE k == KnownTask(t, l.sid)
  <2>1. l.sid \in Sids /\ t.status \in {"paused", "gone"}
    BY <1>0, <1>8 DEF Addressed, Seated
  <2>2. SessionKnown(tasks, i, l.sid) = [tasks EXCEPT ![i] = k] /\ k \in Tasks /\ k.status = t.status
    BY <1>8, <2>1, Knowing
  <2>3. /\ t.status = "gone" => k = t
        /\ t.status # "gone" => k.sid = l.sid /\ k.fresh = FALSE /\ k.kind = t.kind
    BY <1>0 DEF KnownTask, Tasks
  <2> HIDE DEF k
  <2>4. k.fresh \/ k.kind = "single" => k.sid = NoSid
    BY <1>0, <1>4, <1>8, <2>3 DEF Linked
  <2>5. \A s \in Sids : Held(s, t, l, p) => k.sid = s /\ k.status \notin {"gone", "cancelled"}
    BY <1>0, <1>8, <2>1, <2>2, <2>3, SidsAreNumbers DEF Linked, Held
  <2> DEFINE ts == SessionKnown(tasks, i, l.sid)
  <2>6. ts = [tasks EXCEPT ![i] = k] /\ Settle(i, "paused", ts)
    BY <1>8, <2>2
  <2>7. k \in Tasks /\ k.status \notin {"completed", "cancelled"}
    BY <2>1, <2>2
  <2> HIDE DEF ts
  <2> QED BY <1>1, <2>4, <2>5, <2>6, <2>7, SettleRemembers
<1>9. CASE l.pc = "create" /\ l.reply = "ok" /\ l.aborted /\ ~p /\ UndoSession(i)
  BY <1>1, <1>9, UndoRemembers
<1>10. CASE l.pc \in {"create", "get"} /\ l.reply = "ok" /\ ~l.aborted /\ Proceed(i, l.got)
  <2>1. l.sid \in Sids
    BY <1>0, <1>10 DEF Addressed
  <2> QED BY <1>1, <1>10, <2>1, ProceedRemembers
<1>11. CASE l.pc = "part" /\ l.reply = "ok" /\ Proceed(i, l.got \cup {l.part})
  <2>1. l.sid \in Sids /\ ~l.aborted
    BY <1>0, <1>1, <1>11 DEF Addressed, Abortable
  <2> QED BY <1>1, <1>11, <2>1, ProceedRemembers
<1> QED BY <1>3, <1>5, <1>6, <1>7, <1>8, <1>9, <1>10, <1>11

LEMMA InterruptedRemembers ==
  ASSUME QueueInv, MemoryInv, NEW i \in Ids, Interrupted(i)
  PROVE  MemoryInv' /\ \A s \in Sids : Remembers(s)
<1> DEFINE t == tasks[i]
           l == live[i]
           p == paused[i]
<1>0. /\ t \in Tasks /\ tasks = [tasks EXCEPT ![i] = t] /\ p \in BOOLEAN
      /\ Linked(t, l, p)
  BY Remembered, Unreplaced
<1>1. /\ l.aborted /\ l.pc \in Abortable /\ strays \subseteq strays'
      /\ IF l.pc = "put" \/ p THEN Settle(i, "aborted", tasks) ELSE UndoSession(i)
      /\ UNCHANGED sessions
  BY DEF Interrupted, server
<1>2. CASE l.pc = "put" \/ p
  <2>1. /\ t.fresh \/ t.kind = "single" => t.sid = NoSid
        /\ t.status = "cancelled" => ~p
        /\ t.status # "completed"
    BY <1>0, <1>1 DEF Linked, Abortable
  <2>2. \A s \in Sids : Held(s, t, l, p) => t.sid = s /\ t.status \notin {"gone", "cancelled"} /\ p
    <3>1. CASE l.pc = "put"
      BY <1>0, <3>1, SidsAreNumbers DEF Linked, Held
    <3>2. CASE l.pc # "put"
      BY <1>0, <1>1, <1>2, <3>2 DEF Linked, Held, Abortable
    <3> QED BY <3>1, <3>2
  <2> QED BY <1>0, <1>1, <1>2, <2>1, <2>2, SettleRemembers
<1>3. CASE ~(l.pc = "put" \/ p)
  BY <1>1, <1>3, UndoRemembers DEF Abortable
<1> QED BY <1>2, <1>3

-----------------------------------------------------------------------------
(* The theorems.                                                           *)

LEMMA InitQueue == Init => QueueInv
<1> SUFFICES ASSUME Init PROVE QueueInv
  OBVIOUS
<1> USE DEF Init
<1>1. /\ Gone \in Tasks /\ Gone.status = "gone" /\ Gone.stamp = NoStamp /\ ~Gone.rebind
  BY DEF Gone, Tasks, UploadStatuses
<1>2. NoTransport \in Transports /\ NoTransport.pc = "none" /\ NoTransport.stamp = NoStamp
  BY DEF NoTransport, Transports, Awaits
<1>3. AbsentSession \in Sessions /\ AbsentSession.status = "absent"
  BY DEF AbsentSession, Sessions, SessionStatuses
<1>4. UQTypeOK
  <2>1. /\ tasks \in [Ids -> Tasks] /\ view \in [Ids -> Tasks] /\ live \in [Ids -> Transports]
        /\ paused \in [Ids -> BOOLEAN] /\ sessions \in [Sids -> Sessions]
        /\ origin \in [Sids -> SUBSET Stamps]
    BY <1>1, <1>2, <1>3
  <2>2. used \in 0..MaxTasks
    BY BoundsAssumption
  <2>3. budget \in [clicks : 0..MaxClicks, visits : 0..MaxVisits, faults : 0..MaxFaults,
                   events : 0..MaxEvents]
    BY BoundsAssumption
  <2>4. restore \in [state : {"sent", "answered", "done"}, seen : SUBSET Sids]
    OBVIOUS
  <2> QED BY <2>1, <2>2, <2>3, <2>4 DEF UQTypeOK
<1>5. \A i \in Ids : Good(i, tasks[i], live[i], paused[i], used) /\ Shown(view[i], live[i])
  BY <1>1, <1>2 DEF Good, Seated, Alive, Busy, Addressed, Filed, Shown, Over
<1>6. Cardinality(Running(tasks)) <= MaxConcurrent
  <2>1. Running(tasks) = {}
    BY <1>1 DEF Running
  <2> QED BY <2>1, FS_EmptySet, BoundsAssumption
<1>7. \A s \in Sids : Sources(s) = {}
  <2> SUFFICES ASSUME NEW s \in Sids, NEW f, f \in Sources(s) PROVE FALSE
    OBVIOUS
  <2> QED BY <1>1, <1>2, Claims
<1> QED BY <1>4, <1>5, <1>6, <1>7 DEF QueueInv, OneSource

LEMMA NextQueue == QueueInv /\ [Next]_vars => QueueInv'
<1> SUFFICES ASSUME QueueInv, [Next]_vars PROVE QueueInv'
  OBVIOUS
<1>1. CASE Click
  BY <1>1, ClickSafe
<1>2. CASE Render
  BY <1>2, RenderSafe
<1>3. CASE Leave
  BY <1>3, LeaveSafe
<1>4. CASE Reload
  BY <1>4, ReloadSafe
<1>5. CASE ListServed
  BY <1>5, ListServedSafe
<1>6. CASE ListAnswered
  BY <1>6, ListAnsweredSafe
<1>7. ASSUME NEW i \in Ids, Transport(i) \/ ServeFails(i) PROVE QueueInv'
  BY <1>7, ServeSafe, ServeFailsSafe, AnsweredSafe, InterruptedSafe DEF Transport
<1>8. ASSUME NEW q \in strays, StrayArrives(q) PROVE QueueInv'
  BY <1>8, StrayArrivesSafe
<1>9. ASSUME NEW s \in Sids, SessionEnds(s) PROVE QueueInv'
  BY <1>9, SessionEndsSafe
<1>10. CASE UNCHANGED vars
  BY <1>10, PageStays, ServerStays, StraysStay, BudgetNow, Concludes DEF vars
<1> QED BY <1>1, <1>2, <1>3, <1>4, <1>5, <1>6, <1>7, <1>8, <1>9, <1>10 DEF Next

\* The browser, the requests it left behind and the server stay in the states
\* the model declares.
THEOREM QueueTypes == Spec => []UQTypeOK
<1>1. QueueInv => UQTypeOK
  BY DEF QueueInv
<1> QED BY InitQueue, NextQueue, <1>1, PTL DEF Spec

\* Of any number of tasks no more than MAX_CONCURRENT_UPLOADS occupy a slot, and
\* each of them has a transport at work, whatever was clicked meanwhile.
THEOREM SlotsStayAlive == Spec => []SlotsAreAlive
<1>1. QueueInv => SlotsAreAlive
  <2> SUFFICES ASSUME QueueInv PROVE SlotsAreAlive
    OBVIOUS
  <2>1. \A i \in Ids : Seated(tasks[i], live[i], paused[i])
    BY DEF QueueInv, Good
  <2> QED BY <2>1 DEF QueueInv, SlotsAreAlive, Running, Seated, Busy, Alive
<1> QED BY InitQueue, NextQueue, <1>1, PTL DEF Spec

\* The parts the server has of a session come from one version of the file,
\* whatever was reloaded, chosen again, restarted or late.
THEOREM FilesAreNotMixed == Spec => []OneFilePerSession
<1>1. QueueInv => OneFilePerSession
  <2> SUFFICES ASSUME QueueInv, NEW s \in Sids PROVE Cardinality(origin[s]) <= 1
    BY DEF OneFilePerSession
  <2>1. origin[s] \subseteq Stamps
    BY DEF QueueInv, UQTypeOK
  <2>2. \A f \in origin[s] : f \in Sources(s)
    BY <2>1, Claims, StampsAssumption DEF NoStamp
  <2>3. \A a, b \in origin[s] : a = b
    BY <2>2 DEF QueueInv, OneSource
  <2>4. CASE origin[s] = {}
    BY <2>4, FS_EmptySet
  <2>5. CASE origin[s] # {}
    <3>1. PICK f : origin[s] = {f}
      BY <2>3, <2>5
    <3>2. Cardinality({f}) = 1
      BY FS_Singleton
    <3> QED BY <3>1, <3>2
  <2> QED BY <2>4, <2>5
<1> QED BY InitQueue, NextQueue, <1>1, PTL DEF Spec

LEMMA InitMemory == Init => MemoryInv
<1> SUFFICES ASSUME Init PROVE MemoryInv
  OBVIOUS
<1>1. \A i \in Ids : tasks[i] = Gone /\ live[i] = NoTransport /\ ~paused[i] /\ view = tasks
  BY DEF Init
<1>2. Gone.status = "gone" /\ ~Gone.fresh /\ Gone.sid = NoSid
  BY DEF Gone
<1> QED BY <1>1, <1>2, NoTransportIsNone DEF Init, MemoryInv, Linked, Concluded, Dismissed

LEMMA NextMemory ==
  ASSUME QueueInv, MemoryInv, [Next]_vars
  PROVE  MemoryInv' /\ \A s \in Sids : Remembers(s)
<1>1. CASE Click
  BY <1>1, ClickKeeps
<1>2. CASE Render
  BY <1>2, RenderRemembers
<1>3. CASE Leave \/ Reload
  BY <1>3, VisitRemembers
<1>4. CASE ListServed
  BY <1>4, ListServedRemembers
<1>5. CASE ListAnswered
  BY <1>5, ListAnsweredRemembers
<1>6. ASSUME NEW i \in Ids, Transport(i) \/ ServeFails(i)
      PROVE  MemoryInv' /\ \A s \in Sids : Remembers(s)
  BY <1>6, ServeRemembers, ServeFailsRemembers, AnsweredRemembers, InterruptedRemembers DEF Transport
<1>7. ASSUME NEW q \in strays, StrayArrives(q)
      PROVE  MemoryInv' /\ \A s \in Sids : Remembers(s)
  BY <1>7, StrayArrivesRemembers
<1>8. ASSUME NEW s \in Sids, SessionEnds(s)
      PROVE  MemoryInv' /\ \A r \in Sids : Remembers(r)
  BY <1>8, SessionEndsRemembers
<1>9. CASE UNCHANGED vars
  <2>1. UNCHANGED page /\ UNCHANGED server /\ UNCHANGED strays
    BY <1>9 DEF vars
  <2>2. Lasting
    BY <2>1 DEF Lasting, server
  <2>3. \A s \in Sids : Known(s) => Known(s)' \/ sessions'[s].status # "active"
    BY <2>1, PassedOn DEF page
  <2> QED BY <2>1, <2>2, <2>3, PageKeeps DEF Remembers
<1> QED BY <1>1, <1>2, <1>3, <1>4, <1>5, <1>6, <1>7, <1>8, <1>9 DEF Next

\* Unless a request is lost or refused, or a cancellation reads a render that
\* is out of date, no step forgets an open session of the server: a task, a
\* transport, a cancellation on its way or the list of this visit still has it.
THEOREM SessionsAreRemembered == Spec => NoSessionForgotten
<1> DEFINE Step == \A s \in Sids : Remembers(s)
<1>1. Init => QueueInv /\ MemoryInv
  BY InitQueue, InitMemory
<1>2. QueueInv /\ MemoryInv /\ [Next]_vars => (QueueInv /\ MemoryInv)' /\ Step
  BY NextQueue, NextMemory
<1>3. Step => (\A s \in Sids :
       /\ sessions[s].status = "active" /\ Known(s)
       /\ budget'.faults = budget.faults
       /\ dirty => budget'.clicks = budget.clicks
       => Known(s)' \/ sessions'[s].status # "active")
  BY DEF Remembers
<1> HIDE DEF Step
<1> QED BY <1>1, <1>2, <1>3, PTL DEF Spec, NoSessionForgotten
=============================================================================

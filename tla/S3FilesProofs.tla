---------------------------- MODULE S3FilesProofs ----------------------------
(***************************************************************************)
(* Proofs about S3Files, for any number of requests, any keys and batches. *)
(* ContentSurvives is not inductive: an object may be the only one with    *)
(* its content and yet be on the list of a relocation that will delete it. *)
(* The invariant says that every upload that was answered is held by a key *)
(* no running relocation is about to delete.                               *)
(***************************************************************************)
EXTENDS S3Files, TLAPS

\* A record with the fields of a task.
IsTask(t) ==
  t = [job |-> t.job, at |-> t.at, rest |-> t.rest, into |-> t.into, item |-> t.item,
       target |-> t.target, checks |-> t.checks, sources |-> t.sources, todo |-> t.todo]

\* Only what was listed is still to be done, and only removals and relocations delete.
Sound(t) ==
  /\ IsTask(t)
  /\ t.todo \subseteq t.sources
  /\ t.at = "delete" => t.job = "remove" \/ Relocates(t)

\* What the relocation t deletes in the end.
DoomedBy(t) ==
  IF ~Relocates(t) THEN {}
  ELSE IF t.at = "copy" THEN t.sources \ t.todo
  ELSE IF t.at = "delete" THEN t.todo
  ELSE {}

Handled ==
  /\ task = [s \in Handlers |-> task[s]]
  /\ fate = [c \in Contents |-> fate[c]]
  /\ \A s \in Handlers : Sound(task[s])

\* What was answered is held by a key that stays.
Held == \A c \in Contents : fate[c] = "kept" => \E k \in DOMAIN store : store[k] = c /\ ~Doomed(k)

Inv == Handled /\ Held

\* Handler s goes on and dooms at most the keys in D.
Turns(s, D) ==
  \E t : task' = [task EXCEPT ![s] = t] /\ Sound(t) /\ DoomedBy(t) \subseteq D

-----------------------------------------------------------------------------
(* The ways a step can end.                                                *)

\* A task with another field is a task.
LEMMA FieldsKeepTask ==
  ASSUME NEW t, IsTask(t), NEW x
  PROVE  /\ IsTask([t EXCEPT !.job = x]) /\ IsTask([t EXCEPT !.at = x])
         /\ IsTask([t EXCEPT !.rest = x]) /\ IsTask([t EXCEPT !.into = x])
         /\ IsTask([t EXCEPT !.item = x]) /\ IsTask([t EXCEPT !.target = x])
         /\ IsTask([t EXCEPT !.checks = x]) /\ IsTask([t EXCEPT !.sources = x])
         /\ IsTask([t EXCEPT !.todo = x])
<1>1. IsTask([t EXCEPT !.job = x]) /\ IsTask([t EXCEPT !.at = x]) /\ IsTask([t EXCEPT !.rest = x])
  BY DEF IsTask
<1>2. IsTask([t EXCEPT !.into = x]) /\ IsTask([t EXCEPT !.item = x]) /\ IsTask([t EXCEPT !.target = x])
  BY DEF IsTask
<1>3. IsTask([t EXCEPT !.checks = x]) /\ IsTask([t EXCEPT !.sources = x]) /\ IsTask([t EXCEPT !.todo = x])
  BY DEF IsTask
<1> QED BY <1>1, <1>2, <1>3

LEMMA IdleIsTask == IsTask(Idle) /\ Idle.todo = {} /\ Idle.at = "idle"
BY DEF Idle, IsTask

\* A handler that neither copies nor deletes dooms nothing.
LEMMA WaitingTurns ==
  ASSUME NEW s \in Handlers, NEW t, Go(s, t), IsTask(t), t.todo \subseteq t.sources,
         t.at \in {"idle", "stat", "check", "put", "list"}
  PROVE  Turns(s, {})
<1>1. Sound(t) /\ DoomedBy(t) = {}
  BY DEF Sound, DoomedBy
<1> QED BY <1>1 DEF Turns, Go

\* Done ends an item: the handler is idle or takes up the next.
LEMMA DoneTurns ==
  ASSUME NEW s \in Handlers, NEW t, Done(s, t)
  PROVE  Turns(s, {})
<1> DEFINE u == [Idle EXCEPT !.job = t.job, !.at = "stat", !.rest = t.rest, !.into = t.into]
<1>1. IsTask(u)
  BY IdleIsTask, FieldsKeepTask
<1>2. u.todo = {} /\ u.at = "stat"
  BY DEF Idle
<1>3. Go(s, Idle) \/ Go(s, u)
  BY DEF Done
<1> HIDE DEF u
<1> QED BY <1>1, <1>2, <1>3, IdleIsTask, WaitingTurns

\* A loop over keys begins: copying dooms nothing yet, and so does a removal.
LEMMA LoopTurns ==
  ASSUME NEW s \in Handlers, NEW t, IsTask(t), NEW step \in {"copy", "delete"}, NEW keys,
         step = "delete" => t.job = "remove" \/ Relocates(t), Loop(s, t, step, keys)
  PROVE  Turns(s, IF step = "delete" /\ Relocates(t) THEN keys ELSE {})
<1> DEFINE D == IF step = "delete" /\ Relocates(t) THEN keys ELSE {}
           u == [t EXCEPT !.at = step, !.checks = {}, !.sources = keys, !.todo = keys]
<1>1. CASE keys = {}
  <2>1. Done(s, t)
    BY <1>1 DEF Loop
  <2> QED BY <1>1, <2>1, DoneTurns
<1>2. CASE keys # {}
  <2>1. Go(s, u)
    BY <1>2 DEF Loop
  <2>2. IsTask(u) /\ u.job = t.job /\ u.at = step /\ u.sources = keys /\ u.todo = keys
    <3>1. IsTask(u)
      BY FieldsKeepTask
    <3>2. u.job = t.job /\ u.at = step /\ u.sources = keys /\ u.todo = keys
      BY DEF IsTask
    <3> QED BY <3>1, <3>2
  <2> HIDE DEF u
  <2>3. Sound(u)
    BY <2>2 DEF Sound, Relocates
  <2>4. DoomedBy(u) \subseteq D
    BY <2>2 DEF DoomedBy, Relocates
  <2> QED BY <2>1, <2>3, <2>4 DEF Turns, Go
<1> QED BY <1>1, <1>2

\* After key k of a loop: a relocation dooms what it has copied, a deletion has one less.
LEMMA AfterTurns ==
  ASSUME NEW s \in Handlers, NEW k, Sound(task[s]), k \in task[s].todo,
         task[s].at \in {"copy", "delete"}, After(s, k)
  PROVE  Turns(s, DoomedBy(task[s]) \cup (IF task[s].at = "copy" /\ Relocates(task[s]) THEN {k} ELSE {}))
<1> DEFINE t == task[s]
           D == DoomedBy(t) \cup (IF t.at = "copy" /\ Relocates(t) THEN {k} ELSE {})
           u == [t EXCEPT !.todo = @ \ {k}]
<1>1. CASE t.todo # {k}
  <2>1. Go(s, u)
    BY <1>1 DEF After
  <2>2. IsTask(u) /\ u.job = t.job /\ u.at = t.at /\ u.sources = t.sources /\ u.todo = t.todo \ {k}
    BY DEF IsTask, Sound
  <2>3. t.todo \subseteq t.sources /\ (t.at = "delete" => t.job = "remove" \/ Relocates(t))
    BY DEF Sound
  <2> HIDE DEF u
  <2>4. Sound(u)
    BY <2>2, <2>3 DEF Sound, Relocates
  <2>5. DoomedBy(u) \subseteq D
    BY <2>2, <2>3 DEF DoomedBy, Relocates
  <2> QED BY <2>1, <2>4, <2>5 DEF Turns, Go
<1>2. CASE t.todo = {k} /\ Relocates(t) /\ t.at = "copy"
  <2>1. Loop(s, t, "delete", t.sources)
    BY <1>2 DEF After
  <2>2. IsTask(t) /\ t.todo \subseteq t.sources
    BY DEF Sound
  <2>3. Turns(s, t.sources)
    BY <1>2, <2>1, <2>2, LoopTurns
  <2>4. t.sources \subseteq D
    BY <1>2, <2>2 DEF DoomedBy
  <2> QED BY <2>3, <2>4 DEF Turns
<1>3. CASE t.todo = {k} /\ ~(Relocates(t) /\ t.at = "copy")
  <2>1. Done(s, t)
    BY <1>3 DEF After
  <2> QED BY <2>1, DoneTurns DEF Turns
<1> QED BY <1>1, <1>2, <1>3

\* Whatever fails, the handler dooms nothing any more.
LEMMA AbandonsTurns ==
  ASSUME NEW s \in Handlers, Abandons(s)
  PROVE  Turns(s, {})
<1>1. CASE Go(s, Idle)
  BY <1>1, IdleIsTask, WaitingTurns
<1>2. CASE \E t : Done(s, t)
  BY <1>2, DoneTurns
<1> QED BY <1>1, <1>2 DEF Abandons

-----------------------------------------------------------------------------
(* The invariant.                                                          *)

\* Doomed, handler by handler.
LEMMA DoomedByHandlers ==
  ASSUME NEW k
  PROVE  Doomed(k) <=> \E s \in Handlers : k \in DoomedBy(task[s])
BY DEF Doomed, DoomedBy

\* A turn keeps the handlers sound, and dooms no key outside of D.
LEMMA TurnsDoom ==
  ASSUME Handled, NEW s \in Handlers, NEW D, Turns(s, D)
  PROVE  /\ task' = [r \in Handlers |-> task'[r]]
         /\ \A r \in Handlers : Sound(task'[r])
         /\ \A k : Doomed(k)' => Doomed(k) \/ k \in D
<1>1. PICK t : task' = [task EXCEPT ![s] = t] /\ Sound(t) /\ DoomedBy(t) \subseteq D
  BY DEF Turns
<1>2. task = [r \in Handlers |-> task[r]] /\ \A r \in Handlers : Sound(task[r])
  BY DEF Handled
<1>3. task' = [r \in Handlers |-> task'[r]]
  BY <1>1, <1>2
<1>4. task'[s] = t /\ \A r \in Handlers \ {s} : task'[r] = task[r]
  BY <1>1, <1>2
<1>5. \A r \in Handlers : Sound(task'[r])
  BY <1>1, <1>2, <1>4
<1>6. ASSUME NEW k, Doomed(k)'
      PROVE  Doomed(k) \/ k \in D
  <2>1. PICK r \in Handlers : /\ Relocates(task'[r])
                              /\ \/ task'[r].at = "copy" /\ k \in task'[r].sources \ task'[r].todo
                                 \/ task'[r].at = "delete" /\ k \in task'[r].todo
    BY <1>6 DEF Doomed, Relocates
  <2>2. k \in DoomedBy(task'[r])
    BY <2>1 DEF DoomedBy
  <2>3. CASE r = s
    BY <1>1, <1>4, <2>2, <2>3
  <2>4. CASE r # s
    <3>1. k \in DoomedBy(task[r])
      BY <1>4, <2>2, <2>4
    <3> QED BY <3>1, DoomedByHandlers
  <2> QED BY <2>3, <2>4
<1> QED BY <1>3, <1>5, <1>6

\* A turn that dooms nothing more and leaves the bucket alone.
LEMMA QuietTurns ==
  ASSUME Inv, NEW s \in Handlers, Turns(s, {}), UNCHANGED <<store, fate>>
  PROVE  Inv'
<1>1. Handled /\ Held
  BY DEF Inv
<1>2. /\ task' = [r \in Handlers |-> task'[r]]
      /\ \A r \in Handlers : Sound(task'[r])
      /\ \A k : Doomed(k)' => Doomed(k)
  BY <1>1, TurnsDoom
<1>3. Handled'
  BY <1>1, <1>2 DEF Handled
<1>4. Held'
  BY <1>1, <1>2 DEF Held
<1> QED BY <1>3, <1>4 DEF Inv

\* New requests: what they are is of no importance yet.
LEMMA RequestsKeepInv ==
  ASSUME Inv, NEW s \in Handlers,
         CreateFolder(s) \/ UploadFile(s) \/ Rename(s) \/ Move(s) \/ Copy(s) \/ Remove(s)
  PROVE  Inv'
<1> DEFINE Fresh(t) == IsTask(t) /\ t.todo = {} /\ t.at = "stat"
<1>2. ASSUME NEW j, NEW r, NEW k
      PROVE  Fresh([Idle EXCEPT !.job = j, !.at = "stat", !.rest = r, !.target = k])
  <2> DEFINE u == [Idle EXCEPT !.job = j, !.at = "stat", !.rest = r, !.target = k]
  <2>1. IsTask(u)
    BY IdleIsTask, FieldsKeepTask
  <2>2. u.todo = {} /\ u.at = "stat"
    BY DEF Idle
  <2> QED BY <2>1, <2>2
<1>3. ASSUME NEW j, NEW r, NEW f
      PROVE  Fresh([Idle EXCEPT !.job = j, !.at = "stat", !.rest = r, !.into = f])
  <2> DEFINE u == [Idle EXCEPT !.job = j, !.at = "stat", !.rest = r, !.into = f]
  <2>1. IsTask(u)
    BY IdleIsTask, FieldsKeepTask
  <2>2. u.todo = {} /\ u.at = "stat"
    BY DEF Idle
  <2> QED BY <2>1, <2>2
<1>4. ASSUME NEW j, NEW r
      PROVE  Fresh([Idle EXCEPT !.job = j, !.at = "stat", !.rest = r])
  <2> DEFINE u == [Idle EXCEPT !.job = j, !.at = "stat", !.rest = r]
  <2>1. IsTask(u)
    BY IdleIsTask, FieldsKeepTask
  <2>2. u.todo = {} /\ u.at = "stat"
    BY DEF Idle
  <2> QED BY <2>1, <2>2
<1> HIDE DEF Fresh
<1>5. UNCHANGED <<store, fate>>
  BY DEF CreateFolder, UploadFile, New, Rename, Move, Copy, Batch, Remove
<1>6. \E t : Go(s, t) /\ Fresh(t)
  <2>1. CASE CreateFolder(s) \/ UploadFile(s) \/ Rename(s)
    BY <1>2, <2>1 DEF CreateFolder, UploadFile, New, Rename
  <2>2. CASE Move(s) \/ Copy(s)
    BY <1>3, <2>2 DEF Move, Copy, Batch
  <2>3. CASE Remove(s)
    BY <1>4, <2>3 DEF Remove
  <2> QED BY <2>1, <2>2, <2>3
<1>7. Turns(s, {})
  BY <1>6, WaitingTurns DEF Fresh
<1> QED BY <1>5, <1>7, QuietTurns

\* The checks doom nothing; a removal begins to delete, which dooms nothing either.
LEMMA StatKeepsInv ==
  ASSUME Inv, NEW s \in Handlers, Stat(s)
  PROVE  Inv'
<1>1. IsTask(task[s]) /\ task[s].todo \subseteq task[s].sources /\ UNCHANGED <<store, fate>>
  BY DEF Inv, Handled, Sound, Stat
<1> DEFINE Picked(item) ==
             [task[s] EXCEPT !.rest = @ \ {item}, !.item = item,
                             !.target = IF task[s].job \in {"move", "copy"} THEN Into(task[s].into, item) ELSE @]
<1>2. PICK item \in task[s].rest :
        \/ Done(s, Picked(item))
        \/ Go(s, [Picked(item) EXCEPT !.at = "check", !.checks = Kinds])
        \/ Go(s, [Picked(item) EXCEPT !.at = "list"])
        \/ Picked(item).job = "remove" /\ Loop(s, Picked(item), "delete", {item})
  BY DEF Stat
<1> DEFINE t == Picked(item)
           u == [t EXCEPT !.at = "check", !.checks = Kinds]
           v == [t EXCEPT !.at = "list"]
<1>3. IsTask(t)
  BY <1>1, FieldsKeepTask
<1>4. t.todo = task[s].todo /\ t.sources = task[s].sources
  BY <1>1 DEF IsTask
<1> HIDE DEF Picked
<1>5. IsTask(u) /\ IsTask(v)
  BY <1>3, FieldsKeepTask
<1>6. u.todo = t.todo /\ u.sources = t.sources /\ v.todo = t.todo /\ v.sources = t.sources
  BY <1>3 DEF IsTask
<1>7. u.at = "check" /\ v.at = "list"
  BY <1>3 DEF IsTask
<1> HIDE DEF t, u, v
<1>8. Turns(s, {})
  <2>1. CASE Done(s, t)
    BY <2>1, DoneTurns
  <2>2. CASE Go(s, u) \/ Go(s, v)
    BY <1>1, <1>4, <1>5, <1>6, <1>7, <2>2, WaitingTurns
  <2>3. CASE t.job = "remove" /\ Loop(s, t, "delete", {item})
    <3>1. ~Relocates(t)
      BY <2>3 DEF Relocates
    <3> QED BY <1>3, <2>3, <3>1, LoopTurns
  <2> QED BY <1>2, <2>1, <2>2, <2>3 DEF t, u, v
<1> QED BY <1>1, <1>8, QuietTurns

\* The answers of the name check: on to a PUT, a listing, or the copy of one file.
LEMMA CheckKeepsInv ==
  ASSUME Inv, NEW s \in Handlers, AssertNameAvailable(s)
  PROVE  Inv'
<1> DEFINE t == task[s]
<1>1. IsTask(t) /\ t.todo \subseteq t.sources /\ t.at = "check" /\ UNCHANGED <<store, fate>>
  BY DEF Inv, Handled, Sound, AssertNameAvailable
<1>2. PICK kind \in t.checks :
        \/ Done(s, t)
        \/ Go(s, [t EXCEPT !.checks = @ \ {kind}])
        \/ Go(s, [t EXCEPT !.at = "put", !.checks = {}])
        \/ Go(s, [t EXCEPT !.at = "list", !.checks = {}])
        \/ Loop(s, t, "copy", {t.item})
  BY DEF AssertNameAvailable
<1> DEFINE a == [t EXCEPT !.checks = @ \ {kind}]
           b == [t EXCEPT !.at = "put", !.checks = {}]
           c == [t EXCEPT !.at = "list", !.checks = {}]
<1>3. IsTask(a) /\ IsTask(b) /\ IsTask(c)
  BY <1>1, FieldsKeepTask
<1>4. a.todo = t.todo /\ a.sources = t.sources /\ a.at = "check"
  BY <1>1 DEF IsTask
<1>5. b.todo = t.todo /\ b.sources = t.sources /\ b.at = "put"
  BY <1>1 DEF IsTask
<1>6. c.todo = t.todo /\ c.sources = t.sources /\ c.at = "list"
  BY <1>1 DEF IsTask
<1> HIDE DEF a, b, c
<1>7. Turns(s, {})
  <2>1. CASE Done(s, t)
    BY <2>1, DoneTurns
  <2>2. CASE Go(s, a) \/ Go(s, b) \/ Go(s, c)
    BY <1>1, <1>3, <1>4, <1>5, <1>6, <2>2, WaitingTurns
  <2>3. CASE Loop(s, t, "copy", {t.item})
    BY <1>1, <2>3, LoopTurns
  <2> QED BY <1>2, <2>1, <2>2, <2>3 DEF a, b, c
<1> QED BY <1>1, <1>7, QuietTurns

\* What a listing found is copied, or deleted by a removal.
LEMMA ListingKeepsInv ==
  ASSUME Inv, NEW s \in Handlers, ListAllKeys(s)
  PROVE  Inv'
<1> DEFINE t == task[s]
<1>1. IsTask(t) /\ UNCHANGED <<store, fate>>
  BY DEF Inv, Handled, Sound, ListAllKeys
<1>2. CASE t.job = "remove" /\ Loop(s, t, "delete", Subtree(t.item))
  <2>1. ~Relocates(t)
    BY <1>2 DEF Relocates
  <2> QED BY <1>1, <1>2, <2>1, LoopTurns, QuietTurns
<1>3. CASE Loop(s, t, "copy", Subtree(t.item))
  BY <1>1, <1>3, LoopTurns, QuietTurns
<1> QED BY <1>2, <1>3 DEF ListAllKeys

-----------------------------------------------------------------------------
(* What happens to the bucket.                                             *)

\* A key that is written was free; the rest stays.
LEMMA WrittenFacts ==
  ASSUME NEW k, NEW c, k \notin DOMAIN store, store' = Written(k, c)
  PROVE  /\ DOMAIN store' = DOMAIN store \cup {k} /\ store'[k] = c
         /\ \A j \in DOMAIN store : j # k /\ store'[j] = store[j]
BY DEF Written

LEMMA WithoutFacts ==
  ASSUME NEW k, store' = Without(k)
  PROVE  DOMAIN store' = DOMAIN store \ {k} /\ \A j \in DOMAIN store' : store'[j] = store[j]
BY DEF Without

LEMMA BecomesFacts ==
  ASSUME Handled, NEW c \in Contents, NEW what, fate' = Becomes(c, what)
  PROVE  /\ fate' = [d \in Contents |-> fate'[d]]
         /\ fate'[c] = what
         /\ \A d \in Contents \ {c} : fate'[d] = fate[d]
BY DEF Handled, Becomes

\* A PUT at its end: the new object is at a key that is not doomed, or its content
\* was not answered for.
LEMMA UploadedKeepsInv ==
  ASSUME Inv, NEW s \in Handlers, Turns(s, {}), NEW known \in BOOLEAN,
         Vacant(task[s].target), Uploaded(s, known)
  PROVE  Inv'
<1> DEFINE k == task[s].target
<1>1. Handled /\ Held
  BY DEF Inv
<1>2. /\ task' = [r \in Handlers |-> task'[r]]
      /\ \A r \in Handlers : Sound(task'[r])
      /\ \A j : Doomed(j)' => Doomed(j)
  BY <1>1, TurnsDoom
<1>3. CASE IsFolder(k)
  <2>1. store' = Written(k, Marker) /\ fate' = fate
    BY <1>3 DEF Uploaded
  <2>2. DOMAIN store' = DOMAIN store \cup {k} /\ \A j \in DOMAIN store : j # k /\ store'[j] = store[j]
    BY <2>1, WrittenFacts DEF Vacant
  <2>3. Handled'
    BY <1>1, <1>2, <2>1 DEF Handled
  <2>4. Held'
    BY <1>1, <1>2, <2>1, <2>2 DEF Held
  <2> QED BY <2>3, <2>4 DEF Inv
<1>4. CASE ~IsFolder(k)
  <2>1. PICK c \in Contents :
          /\ store' = Written(k, c)
          /\ fate' = Becomes(c, IF ~known THEN "uncertain" ELSE IF Doomed(k) THEN "forfeited" ELSE "kept")
    BY <1>4 DEF Uploaded
  <2>2. /\ DOMAIN store' = DOMAIN store \cup {k} /\ store'[k] = c
        /\ \A j \in DOMAIN store : j # k /\ store'[j] = store[j]
    BY <2>1, WrittenFacts DEF Vacant
  <2>3. /\ fate' = [d \in Contents |-> fate'[d]]
        /\ fate'[c] = "kept" => ~Doomed(k)
        /\ \A d \in Contents \ {c} : fate'[d] = fate[d]
    BY <1>1, <2>1, BecomesFacts
  <2>4. Handled'
    BY <1>2, <2>3 DEF Handled
  <2>5. ASSUME NEW d \in Contents, fate'[d] = "kept"
        PROVE  \E j \in DOMAIN store' : store'[j] = d /\ ~Doomed(j)'
    <3>1. CASE d = c
      BY <1>2, <2>2, <2>3, <2>5, <3>1
    <3>2. CASE d # c
      BY <1>1, <1>2, <2>2, <2>3, <2>5, <3>2 DEF Held
    <3> QED BY <3>1, <3>2
  <2> QED BY <2>4, <2>5 DEF Inv, Held
<1> QED BY <1>3, <1>4

\* A copy of k, after which k may be doomed, but its copy is not.
LEMMA CopiedKeepsInv ==
  ASSUME Inv, NEW s \in Handlers, NEW k, Turns(s, DoomedBy(task[s]) \cup {k}),
         Copies(s, k), Copied(s, k)
  PROVE  Inv'
<1> DEFINE to == Mapped(k, task[s].item, task[s].target)
           c == store[k]
<1>1. Handled /\ Held
  BY DEF Inv
<1>2. /\ task' = [r \in Handlers |-> task'[r]]
      /\ \A r \in Handlers : Sound(task'[r])
      /\ \A j : Doomed(j)' => Doomed(j) \/ j = k
  BY <1>1, TurnsDoom, DoomedByHandlers
<1>3. k \in DOMAIN store /\ to \notin DOMAIN store
  BY DEF Copies, Vacant
<1>4. /\ store' = Written(to, c)
      /\ fate' = IF c \in Contents /\ Doomed(to) THEN Becomes(c, "forfeited") ELSE fate
  BY DEF Copied
<1> HIDE DEF to, c
<1>5. /\ DOMAIN store' = DOMAIN store \cup {to} /\ store'[to] = c /\ to # k
      /\ \A j \in DOMAIN store : store'[j] = store[j]
  BY <1>3, <1>4, WrittenFacts
<1>6. /\ fate' = [d \in Contents |-> fate'[d]]
      /\ c \in Contents /\ fate'[c] = "kept" => ~Doomed(to)
      /\ \A d \in Contents : fate'[d] = "kept" => fate[d] = "kept"
  <2>1. CASE c \in Contents /\ Doomed(to)
    BY <1>1, <1>4, <2>1, BecomesFacts
  <2>2. CASE ~(c \in Contents /\ Doomed(to))
    BY <1>1, <1>4, <2>2 DEF Handled
  <2> QED BY <2>1, <2>2
<1>7. Handled'
  BY <1>2, <1>6 DEF Handled
<1>8. ASSUME NEW d \in Contents, fate'[d] = "kept"
      PROVE  \E j \in DOMAIN store' : store'[j] = d /\ ~Doomed(j)'
  <2>1. CASE d = c
    BY <1>2, <1>5, <1>6, <1>8, <2>1
  <2>2. CASE d # c
    <3>1. PICK j \in DOMAIN store : store[j] = d /\ ~Doomed(j)
      BY <1>1, <1>6, <1>8 DEF Held
    <3>2. j # k
      BY <2>2, <3>1 DEF c
    <3> QED BY <1>2, <1>5, <3>1, <3>2
  <2> QED BY <2>1, <2>2
<1> QED BY <1>7, <1>8 DEF Inv, Held

\* What is deleted was doomed, or its content is given up.
LEMMA DeletedKeepsInv ==
  ASSUME Inv, NEW s \in Handlers, NEW k \in task[s].todo, task[s].at = "delete",
         Turns(s, DoomedBy(task[s])), Deleted(s, k)
  PROVE  Inv'
<1>1. Handled /\ Held /\ Sound(task[s])
  BY DEF Inv, Handled
<1>2. /\ task' = [r \in Handlers |-> task'[r]]
      /\ \A r \in Handlers : Sound(task'[r])
      /\ \A j : Doomed(j)' => Doomed(j)
  BY <1>1, TurnsDoom, DoomedByHandlers
<1>3. DOMAIN store' = DOMAIN store \ {k} /\ \A j \in DOMAIN store' : store'[j] = store[j]
  BY WithoutFacts DEF Deleted
<1>4. CASE Relocates(task[s])
  <2>1. fate' = fate
    BY <1>4 DEF Deleted, Relocates
  <2>2. Doomed(k)
    BY <1>4 DEF Doomed
  <2>3. Handled'
    BY <1>1, <1>2, <2>1 DEF Handled
  <2>4. Held'
    BY <1>1, <1>2, <1>3, <2>1, <2>2 DEF Held
  <2> QED BY <2>3, <2>4 DEF Inv
<1>5. CASE ~Relocates(task[s])
  <2> DEFINE c == store[k]
  <2>1. task[s].job = "remove"
    BY <1>1, <1>5 DEF Sound
  <2>2. fate' = IF k \in DOMAIN store /\ c \in Contents THEN Becomes(c, "forfeited") ELSE fate
    BY <2>1 DEF Deleted
  <2>3. /\ fate' = [d \in Contents |-> fate'[d]]
        /\ \A d \in Contents : fate'[d] = "kept" => fate[d] = "kept" /\ ~(k \in DOMAIN store /\ d = c)
    <3>1. CASE k \in DOMAIN store /\ c \in Contents
      BY <1>1, <2>2, <3>1, BecomesFacts
    <3>2. CASE ~(k \in DOMAIN store /\ c \in Contents)
      BY <1>1, <2>2, <3>2 DEF Handled
    <3> QED BY <3>1, <3>2
  <2>4. Handled'
    BY <1>2, <2>3 DEF Handled
  <2>5. Held'
    BY <1>1, <1>2, <1>3, <2>3 DEF Held
  <2> QED BY <2>4, <2>5 DEF Inv
<1> QED BY <1>4, <1>5

LEMMA PutKeepsInv ==
  ASSUME Inv, NEW s \in Handlers, PutObject(s)
  PROVE  Inv'
<1>1. Turns(s, {})
  BY DoneTurns DEF PutObject
<1>2. CASE Vacant(task[s].target) /\ Uploaded(s, TRUE)
  BY <1>1, <1>2, UploadedKeepsInv
<1>3. CASE UNCHANGED <<store, fate>>
  BY <1>1, <1>3, QuietTurns
<1> QED BY <1>2, <1>3 DEF PutObject

LEMMA CopyKeepsInv ==
  ASSUME Inv, NEW s \in Handlers, CopyObject(s)
  PROVE  Inv'
<1>1. Sound(task[s]) /\ task[s].at = "copy"
  BY DEF Inv, Handled, CopyObject
<1>2. PICK k \in FirstOf(task[s].todo) :
        IF Copies(s, k) THEN Copied(s, k) /\ After(s, k)
        ELSE Done(s, task[s]) /\ UNCHANGED <<store, fate>>
  BY DEF CopyObject
<1>3. k \in task[s].todo
  BY DEF FirstOf
<1>4. CASE Copies(s, k) /\ Copied(s, k) /\ After(s, k)
  <2>1. Turns(s, DoomedBy(task[s]) \cup {k})
    BY <1>1, <1>3, <1>4, AfterTurns DEF Turns
  <2> QED BY <1>4, <2>1, CopiedKeepsInv
<1>5. CASE Done(s, task[s]) /\ UNCHANGED <<store, fate>>
  BY <1>5, DoneTurns, QuietTurns
<1> QED BY <1>2, <1>4, <1>5

LEMMA DeleteKeepsInv ==
  ASSUME Inv, NEW s \in Handlers, DeleteObject(s)
  PROVE  Inv'
<1>1. Sound(task[s]) /\ task[s].at = "delete"
  BY DEF Inv, Handled, DeleteObject
<1>2. PICK k \in LastOf(task[s].todo) : Deleted(s, k) /\ After(s, k)
  BY DEF DeleteObject
<1>3. k \in task[s].todo
  BY DEF LastOf
<1>4. Turns(s, DoomedBy(task[s]))
  BY <1>1, <1>2, <1>3, AfterTurns DEF Turns
<1> QED BY <1>1, <1>2, <1>3, <1>4, DeletedKeepsInv

\* A failure: with effect or without, the handler lets go of its keys.
LEMMA FailureKeepsInv ==
  ASSUME Inv, NEW s \in Handlers, RequestFails(s)
  PROVE  Inv'
<1>1. Turns(s, {}) /\ Sound(task[s])
  BY AbandonsTurns DEF RequestFails, Inv, Handled
<1>2. \A D : Turns(s, D)
  BY <1>1 DEF Turns
<1>3. CASE UNCHANGED <<store, fate>>
  BY <1>1, <1>3, QuietTurns
<1>4. CASE Unanswered(s)
  <2>1. CASE Vacant(task[s].target) /\ Uploaded(s, FALSE)
    BY <1>1, <2>1, UploadedKeepsInv
  <2>2. CASE \E k \in FirstOf(task[s].todo) : Copies(s, k) /\ Copied(s, k)
    BY <1>2, <2>2, CopiedKeepsInv
  <2>3. CASE task[s].at = "delete" /\ \E k \in LastOf(task[s].todo) : Deleted(s, k)
    BY <1>2, <2>3, DeletedKeepsInv DEF LastOf
  <2> QED BY <1>4, <2>1, <2>2, <2>3 DEF Unanswered
<1> QED BY <1>3, <1>4 DEF RequestFails

-----------------------------------------------------------------------------
(* The theorems.                                                           *)

LEMMA InitKeeps == Init => Inv
<1> SUFFICES ASSUME Init PROVE Inv
  OBVIOUS
<1>1. task = [s \in Handlers |-> task[s]] /\ \A s \in Handlers : task[s] = Idle
  BY DEF Init
<1>2. Sound(Idle)
  BY IdleIsTask DEF Sound
<1>3. fate = [c \in Contents |-> fate[c]]
  BY DEF Init
<1>4. Handled
  BY <1>1, <1>2, <1>3 DEF Handled
<1>5. \A k : ~Doomed(k)
  BY <1>1, IdleIsTask DEF Doomed
<1>6. \A c \in Contents : fate[c] = "kept" => \E k \in DOMAIN store : store[k] = c
  BY DEF Init
<1>7. Held
  BY <1>5, <1>6 DEF Held
<1> QED BY <1>4, <1>7 DEF Inv

LEMMA NextKeeps == Inv /\ [Next]_vars => Inv'
<1> SUFFICES ASSUME Inv, [Next]_vars PROVE Inv'
  OBVIOUS
<1>1. CASE Next
  <2>1. PICK s \in Handlers : Operate(s)
    BY <1>1 DEF Next
  <2>2. CASE CreateFolder(s) \/ UploadFile(s) \/ Rename(s) \/ Move(s) \/ Copy(s) \/ Remove(s)
    BY <2>2, RequestsKeepInv
  <2>3. CASE Stat(s) \/ AssertNameAvailable(s) \/ ListAllKeys(s)
    BY <2>3, StatKeepsInv, CheckKeepsInv, ListingKeepsInv
  <2>4. CASE PutObject(s) \/ CopyObject(s) \/ DeleteObject(s) \/ RequestFails(s)
    BY <2>4, PutKeepsInv, CopyKeepsInv, DeleteKeepsInv, FailureKeepsInv
  <2> QED BY <2>1, <2>2, <2>3, <2>4 DEF Operate
<1>2. CASE UNCHANGED vars
  BY <1>2 DEF vars, Inv, Handled, Held, Sound, Relocates, IsTask, Doomed
<1> QED BY <1>1, <1>2

\* No interleaving of uploads, renames, moves and copies, with any of their requests
\* failing, loses an upload that was answered.
THEOREM UploadsSurvive == Spec => []ContentSurvives
<1>1. Spec => []Inv
  BY InitKeeps, NextKeeps, PTL DEF Spec
<1>2. Inv => ContentSurvives
  BY DEF Inv, Held, ContentSurvives
<1> QED BY <1>1, <1>2, PTL

\* No request of the driver replaces an object: the condition of each write is
\* evaluated when it takes effect, not when the name was checked.
THEOREM WritesNeverReplace == Spec => NothingOverwritten
<1> DEFINE Kept == \A k \in DOMAIN store : k \in DOMAIN store' => store'[k] = store[k]
<1>1. ASSUME Next PROVE Kept
  <2>1. PICK s \in Handlers : Operate(s)
    BY <1>1 DEF Next
  <2>2. \/ UNCHANGED store
        \/ Vacant(task[s].target) /\ \E known \in BOOLEAN : Uploaded(s, known)
        \/ \E k : Copies(s, k) /\ Copied(s, k)
        \/ \E k : Deleted(s, k)
    BY <2>1 DEF Operate, CreateFolder, UploadFile, New, Rename, Move, Copy, Batch, Remove, Stat,
                AssertNameAvailable, ListAllKeys, PutObject, CopyObject, DeleteObject, RequestFails, Unanswered
  <2>3. \/ UNCHANGED store
        \/ \E k, c : k \notin DOMAIN store /\ store' = Written(k, c)
        \/ \E k : store' = Without(k)
    BY <2>2 DEF Uploaded, Copies, Copied, Deleted, Vacant
  <2> QED BY <2>3, WrittenFacts, WithoutFacts
<1>2. [Next]_vars => Kept \/ UNCHANGED store
  BY <1>1 DEF vars
<1> QED BY <1>2, PTL DEF Spec, NothingOverwritten
=============================================================================

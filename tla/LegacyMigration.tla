--------------------------- MODULE LegacyMigration ---------------------------
(***************************************************************************)
(* The legacy table `objects` and the script that turns its rows into      *)
(* entries of the tree (scripts/migrate-objects.mjs).  Requests that       *)
(* change the table reserve the right to do so in `settings` and renew it  *)
(* with heartbeats (router.ts); the script takes a lock in the same table, *)
(* waits until the reservations are gone, reads the rows and imports what  *)
(* it built from them; triggers of D1 refuse writes under the lock.        *)
(*                                                                         *)
(* Left out: the objects in R2 (a call that takes time and may fail) and   *)
(* the fields of a row that are only copied, for which `etag` stands.      *)
(* An import is one transaction.  All clocks agree, and a statement takes  *)
(* no time against a lease: requests and scripts may be late instead.      *)
(***************************************************************************)
EXTENDS Integers, Sequences, FiniteSets, SequencesExt

CONSTANTS
  Writers,          \* requests for /api/admin/objects/
  Scripts,          \* runs of the script, by their token
  Keys,             \* keys of objects: sequences of names
  Segments,         \* the names they are made of, and those others use
  Patches,          \* what a PATCH may ask for
  Etags,            \* contents of an object
  Stocks,           \* the tables of objects to start from
  Missing,             \* no row, no entry, a field left out of a request
  NoOwner,           \* the lock was never taken, or was released
  ReservationLease, \* LEGACY_OBJECT_MUTATION_LEASE_DURATION_MS
  LockLease,        \* migrationLeaseDuration(mode)
  Local,            \* the mode of the script: is the lock renewed during an import?
  MaxEvents         \* bound on failures of all kinds and on the changes of others

Rows == [name : Segments, public : BOOLEAN, etag : Etags]
Tables == [Keys -> Rows \cup {Missing}]
Changes == [name : Segments \cup {Missing}, public : BOOLEAN \cup {Missing}, etag : Etags \cup {Missing}]

ASSUME KeysAssumption == Keys # {} /\ Keys \subseteq Seq(Segments) \ {<<>>}
ASSUME PatchesAssumption == \A c \in Patches : c \in Changes /\ c.etag = Missing
ASSUME StocksAssumption == Stocks \subseteq Tables
ASSUME LeasesAssumption == ReservationLease \in Nat \ {0} /\ LockLease \in Nat \ {0}
ASSUME NoOwnerAssumption == NoOwner \notin Scripts
ASSUME LocalAssumption == Local \in BOOLEAN
ASSUME BudgetAssumption == MaxEvents \in Nat

VARIABLES
  objects,     \* the table objects
  nodes,       \* the table entries, without its root
  reservation, \* settings: the time left of each request's reservation; 0: none in force
  lock,        \* settings: the owner of the lock, and its time left
  writer,      \* the requests
  script,      \* the scripts
  budget       \* events left

legacyVars == <<objects, nodes, reservation, lock, writer, script, budget>>

\* idFor: ids are made of the path or the key.  Stranger is a folder of somebody else.
FolderId(p) == <<"folder", p>>
FileId(k) == <<"file", k>>
Top == FolderId(<<>>)
Stranger == <<"uuid", <<>>>>
PathsOver(k) == {SubSeq(k, 1, n) : n \in 1..(Len(k) - 1)}
Paths == UNION {PathsOver(k) : k \in Keys}
PathFolders == {FolderId(p) : p \in Paths}
NodeIds == PathFolders \cup {FileId(k) : k \in Keys} \cup {Stranger}
Nodes == [parent : PathFolders \cup {Top, Stranger}, name : Segments, public : BOOLEAN,
          etag : Etags \cup {Missing}]
Trees == [NodeIds -> Nodes \cup {Missing}]

ASSUME MissingAssumption == Missing \notin Nodes

Methods == {"put", "delete", "patch"}
Nothing == [name |-> Missing, public |-> Missing, etag |-> Missing]
WriterSlots ==
  [pc : {"idle", "store", "renew", "read", "write", "release", "done"},
   op : Methods, key : Keys,
   change : Changes,        \* what the request asks for
   row : Rows \cup {Missing},  \* existing
   lost : BOOLEAN]          \* ownershipLost
Slot(pc) == [pc |-> pc, op |-> "delete", key |-> CHOOSE k \in Keys : TRUE, change |-> Nothing,
             row |-> Missing, lost |-> FALSE]
ScriptSlots ==
  [pc : {"idle", "drain", "wait", "check", "renew", "select", "existing", "extend", "import",
         "release", "done"},
   rows : Tables,           \* the snapshot
   lapsed : BOOLEAN,        \* renewalFailure
   ok : BOOLEAN]            \* the run reported success

Process(pc) == [pc |-> pc, rows |-> [k \in Keys |-> Missing], lapsed |-> FALSE, ok |-> FALSE]

LegacyTypeOK ==
  /\ objects \in Tables
  /\ nodes \in Trees
  /\ reservation \in [Writers -> 0..ReservationLease]
  /\ lock \in [owner : Scripts \cup {NoOwner}, left : 0..LockLease]
  /\ writer \in [Writers -> WriterSlots]
  /\ script \in [Scripts -> ScriptSlots]
  /\ budget \in 0..MaxEvents

\* A table of objects, and a tree without entries.
LegacyInit ==
  /\ objects \in Stocks
  /\ nodes = [i \in NodeIds |-> Missing]
  /\ reservation = [w \in Writers |-> 0]
  /\ lock = [owner |-> NoOwner, left |-> 0]
  /\ writer = [w \in Writers |-> Slot("idle")]
  /\ script = [m \in Scripts |-> Process("idle")]
  /\ budget \in 0..MaxEvents

-----------------------------------------------------------------------------
(* The leases in settings, and the triggers that obey them.                 *)

Locked == lock.left > 0
Reserved == \E w \in Writers : reservation[w] > 0

\* objects_block_*_during_legacy_migration
Blocked == Locked /\ ~Reserved

\* Mutant: the statement does not ask whether the reservation has expired.
RenewedAnyway(w) == [reservation EXCEPT ![w] = ReservationLease]

\* renewLegacyObjectMutationReservation
Renewed(w) ==
  [reservation EXCEPT ![w] = IF reservation[w] > 0 THEN ReservationLease ELSE 0]

\* acquireLease and renewLease: the lock of m, and the conditions of the statements.
LockOf(m) == [owner |-> m, left |-> LockLease]
Holds(m) == Locked /\ lock.owner = m
Unlocked(m) == IF lock.owner = m THEN [owner |-> NoOwner, left |-> 0] ELSE lock

-----------------------------------------------------------------------------
(* Requests: withLegacyObjectMutationReservation around one operation.      *)

AtW(w, pc) == writer[w].pc = pc
GotoW(w, pc) == writer' = [writer EXCEPT ![w].pc = pc]
Event == budget > 0 /\ budget' = budget - 1
EndW(w) == writer' = [writer EXCEPT ![w] = Slot("done")]
Idling == UNCHANGED <<nodes, lock, script>>

\* reserveLegacyObjectMutation: only while nobody holds the lock.
Reservable == ~Locked
Taken(w) == [reservation EXCEPT ![w] = ReservationLease]
Reserve(w) ==
  /\ AtW(w, "idle")
  /\ \/ /\ Reservable
        /\ reservation' = Taken(w)
        /\ \E op \in Methods, k \in Keys :
             writer' = [writer EXCEPT ![w] = [@ EXCEPT !.pc = "store", !.op = op, !.key = k]]
     \/ ~Reservable /\ UNCHANGED reservation /\ EndW(w)
  /\ UNCHANGED <<objects, budget>>

\* The object is put into R2 or deleted there, or the body of a PATCH is read.
Asked(op) == CASE op = "put" -> [name : {Missing}, public : {Missing}, etag : Etags]
               [] op = "patch" -> Patches
               [] op = "delete" -> {Nothing}
Store(w) ==
  /\ AtW(w, "store")
  /\ \E c \in Asked(writer[w].op) :
       writer' = [writer EXCEPT ![w] = [@ EXCEPT !.pc = "renew", !.change = c]]
  /\ UNCHANGED <<objects, reservation, budget>>

\* The heartbeat, at any time while the operation runs; once it failed it stops.
Beating(w) == writer[w].pc \in {"store", "renew", "read", "write"} /\ ~writer[w].lost
Heartbeat(w) ==
  /\ Beating(w)
  /\ reservation' = Renewed(w)
  /\ writer' = [writer EXCEPT ![w].lost = reservation[w] = 0]
  /\ UNCHANGED <<objects, budget>>

HeartbeatFails(w) ==
  /\ Beating(w) /\ Event
  /\ reservation' \in {reservation, Renewed(w)}
  /\ writer' = [writer EXCEPT ![w].lost = TRUE]
  /\ UNCHANGED objects

\* renewBeforeIndexWrite
RenewBeforeWrite(w) ==
  /\ AtW(w, "renew")
  /\ reservation' = Renewed(w)
  /\ GotoW(w, IF writer[w].lost \/ reservation[w] = 0 THEN "release"
              ELSE IF writer[w].op = "delete" THEN "write" ELSE "read")
  /\ UNCHANGED <<objects, budget>>

\* upsertObject and patchObject first read the row they merge with.
ReadRow(w) ==
  LET row == objects[writer[w].key]
      missing == writer[w].op = "patch" /\ row = Missing
  IN  /\ AtW(w, "read")
      /\ writer' = [writer EXCEPT ![w] =
           [@ EXCEPT !.row = row, !.pc = IF missing THEN "release" ELSE "write"]]
      /\ UNCHANGED <<objects, reservation, budget>>

\* What upsertObject and patchObject write, from the request and the row they read.
Or(x, y) == IF x = Missing THEN y ELSE x
Merged(h) ==
  LET c == h.change
  IN  IF h.row = Missing THEN [name |-> Last(h.key), public |-> TRUE, etag |-> c.etag]
      ELSE [name |-> Or(c.name, h.row.name), public |-> Or(c.public, h.row.public),
            etag |-> Or(c.etag, h.row.etag)]

\* The statement, which changes a row (and fires its trigger) unless it finds none.
Finds(h) == h.op = "put" \/ objects[h.key] # Missing
Written(w) ==
  LET h == writer[w]
  IN  IF Finds(h) /\ ~Blocked
      THEN [objects EXCEPT ![h.key] = IF h.op = "delete" THEN Missing ELSE Merged(h)]
      ELSE objects
WriteRow(w) ==
  /\ AtW(w, "write")
  /\ objects' = Written(w)
  /\ GotoW(w, "release")
  /\ UNCHANGED <<reservation, budget>>

\* releaseLegacyObjectMutationReservation, in the end
Dropped(w) == [reservation EXCEPT ![w] = 0]
Release(w) ==
  /\ AtW(w, "release")
  /\ reservation' = Dropped(w)
  /\ EndW(w)
  /\ UNCHANGED <<objects, budget>>

\* A call throws, with or without effect, or the worker is evicted: then nothing is
\* released, as when the reservation itself throws.
WriterFails(w) ==
  /\ ~AtW(w, "done") /\ Event
  /\ \/ UNCHANGED <<objects, reservation>>
     \/ AtW(w, "idle") /\ Reservable /\ reservation' = Taken(w) /\ UNCHANGED objects
     \/ AtW(w, "renew") /\ reservation' = Renewed(w) /\ UNCHANGED objects
     \/ AtW(w, "write") /\ objects' = Written(w) /\ UNCHANGED reservation
     \/ AtW(w, "release") /\ reservation' = Dropped(w) /\ UNCHANGED objects
  /\ \/ EndW(w)
     \/ ~AtW(w, "idle") /\ ~AtW(w, "release") /\ GotoW(w, "release")

Request(w) ==
  /\ \/ Reserve(w) \/ Store(w) \/ Heartbeat(w) \/ HeartbeatFails(w) \/ RenewBeforeWrite(w)
     \/ ReadRow(w) \/ WriteRow(w) \/ Release(w) \/ WriterFails(w)
  /\ Idling

-----------------------------------------------------------------------------
(* legacy-entries.mjs: from rows to entries.                                *)

\* buildLegacyEntries: one folder for every path over a key, public if a row under it
\* is, and one file for every row.
Under(rows, p) == {k \in Keys : rows[k] # Missing /\ p \in PathsOver(k)}
\* Mutant: a folder is public when all rows under it are.
EveryPublic(rows, ks) == \A k \in ks : rows[k].public
AnyPublic(rows, ks) == \E k \in ks : rows[k].public
FolderOf(rows, p) ==
  IF Under(rows, p) = {} THEN Missing
  ELSE [parent |-> FolderId(Front(p)), name |-> Last(p), public |-> AnyPublic(rows, Under(rows, p)),
        etag |-> Missing]
FileOf(rows, k) ==
  IF rows[k] = Missing THEN Missing
  ELSE [parent |-> FolderId(Front(k)), name |-> rows[k].name, public |-> rows[k].public,
        etag |-> rows[k].etag]
Built(rows) ==
  [i \in NodeIds |-> IF i = Stranger THEN Missing
                 ELSE IF i[1] = "folder" THEN FolderOf(rows, i[2]) ELSE FileOf(rows, i[2])]

Siblings(a, b) == a # Missing /\ b # Missing /\ a.parent = b.parent /\ a.name = b.name
Clashes(t) == \E i, j \in NodeIds : i # j /\ Siblings(t[i], t[j])

\* assertExistingEntries: an entry with another id where one of these will be.
Collides(t) ==
  \E i, j \in NodeIds : t[i] = Missing /\ nodes[i] # Missing /\ Siblings(nodes[i], t[j])

\* entriesToSql: the import adds the entries whose ids do not exist, all or none of them.
Added(t) == [i \in NodeIds |-> IF nodes[i] = Missing THEN t[i] ELSE nodes[i]]

-----------------------------------------------------------------------------
(* The script.                                                              *)

AtM(m, pc) == script[m].pc = pc
GotoM(m, pc) == script' = [script EXCEPT ![m].pc = pc]
EndM(m) == script' = [script EXCEPT ![m] = Process("done")]
Resting == UNCHANGED <<objects, reservation, writer>>

Acquire(m) ==
  /\ AtM(m, "idle")
  /\ \/ ~Locked /\ lock' = LockOf(m) /\ GotoM(m, "drain")
     \/ Locked /\ UNCHANGED lock /\ EndM(m)
  /\ UNCHANGED <<nodes, budget>>

\* waitForReservationsToDrain: count; when some are left, give up after DRAIN_TIMEOUT_MS
\* or renew the lock and count again.
Drain(m) ==
  /\ AtM(m, "drain")
  /\ \/ ~Reserved /\ GotoM(m, "check")
     \/ Reserved /\ \E pc \in {"release", "wait"} : GotoM(m, pc)
  /\ UNCHANGED <<nodes, lock, budget>>

Check(m) ==
  /\ AtM(m, "check")
  /\ GotoM(m, IF Reserved THEN "release" ELSE "renew")
  /\ UNCHANGED <<nodes, lock, budget>>

\* renewLease, before each of the steps that rely on the lock.
Relying == [wait |-> "drain", renew |-> "select", extend |-> "import"]
RenewLock(m) ==
  /\ script[m].pc \in DOMAIN Relying
  /\ \/ Holds(m) /\ lock' = LockOf(m) /\ GotoM(m, Relying[script[m].pc])
     \/ ~Holds(m) /\ UNCHANGED lock /\ GotoM(m, "release")
  /\ UNCHANGED <<nodes, budget>>

Select(m) ==
  /\ AtM(m, "select")
  /\ script' = [script EXCEPT ![m] =
       [@ EXCEPT !.rows = objects, !.pc = IF Clashes(Built(objects)) THEN "release" ELSE "existing"]]
  /\ UNCHANGED <<nodes, lock, budget>>

Existing(m) ==
  LET t == Built(script[m].rows)
      none == \A i \in NodeIds : t[i] = Missing
  IN  /\ AtM(m, "existing")
      /\ script' = [script EXCEPT ![m] =
           [@ EXCEPT !.pc = IF Collides(t) \/ none THEN "release" ELSE "extend",
                     !.ok = none /\ ~Collides(t)]]
      /\ UNCHANGED <<nodes, lock, budget>>

\* executeImport.  A statement that meets a constraint undoes the whole import.
Imported(m) == Added(Built(script[m].rows))
Import(m) ==
  /\ AtM(m, "import")
  /\ LET done == ~Clashes(Imported(m))
     IN  /\ nodes' = IF done THEN Imported(m) ELSE nodes
         /\ script' = [script EXCEPT ![m] =
              [@ EXCEPT !.pc = "release", !.ok = done /\ ~script[m].lapsed]]
  /\ UNCHANGED <<lock, budget>>

\* importWithLeaseRenewal
RenewMeanwhile(m) ==
  /\ AtM(m, "import") /\ Local /\ ~script[m].lapsed
  /\ lock' = IF Holds(m) THEN LockOf(m) ELSE lock
  /\ script' = [script EXCEPT ![m].lapsed = ~Holds(m)]
  /\ UNCHANGED <<nodes, budget>>

ReleaseLock(m) ==
  /\ AtM(m, "release")
  /\ lock' = Unlocked(m)
  /\ EndM(m)
  /\ UNCHANGED <<nodes, budget>>

\* A statement throws, with or without effect, or the script is killed: then the lock
\* stays until it expires.
ScriptFails(m) ==
  /\ ~AtM(m, "done") /\ Event
  /\ \/ UNCHANGED <<nodes, lock>>
     \/ AtM(m, "idle") /\ ~Locked /\ lock' = LockOf(m) /\ UNCHANGED nodes
     \/ script[m].pc \in DOMAIN Relying /\ Holds(m) /\ lock' = LockOf(m) /\ UNCHANGED nodes
     \/ AtM(m, "import") /\ ~Clashes(Imported(m)) /\ nodes' = Imported(m) /\ UNCHANGED lock
     \/ AtM(m, "release") /\ lock' = Unlocked(m) /\ UNCHANGED nodes
  /\ \/ EndM(m)
     \/ ~AtM(m, "idle") /\ ~AtM(m, "release") /\ GotoM(m, "release")

Run(m) ==
  /\ \/ Acquire(m) \/ Drain(m) \/ Check(m) \/ RenewLock(m) \/ Select(m) \/ Existing(m) \/ Import(m)
     \/ RenewMeanwhile(m) \/ ReleaseLock(m) \/ ScriptFails(m)
  /\ Resting

-----------------------------------------------------------------------------

\* Others create a folder, rename an entry or move it to the root, or delete one without
\* children (file-system.ts); the schema keeps siblings apart and parents in place.
There == {i \in NodeIds : nodes[i] # Missing}
FolderIn(p, n) ==
  [parent |-> p, name |-> n, public |-> p \in {Top} \cup {i \in There : nodes[i].public},
   etag |-> Missing]
Additions ==
  {[nodes EXCEPT ![Stranger] = FolderIn(p, n)] :
     p \in {Top} \cup (There \cap PathFolders), n \in Segments}
Placed(i, p, n) == [nodes EXCEPT ![i] = [@ EXCEPT !.name = n, !.parent = p]]
Changed(i) == {Placed(i, p, n) : p \in {Top, nodes[i].parent}, n \in Segments}
Without(i) == [nodes EXCEPT ![i] = Missing]
Leaves == {i \in There : \A j \in There : nodes[j].parent # i}
Edit ==
  /\ Event
  /\ nodes' \in (IF nodes[Stranger] = Missing THEN Additions ELSE {})
               \cup (UNION {Changed(i) : i \in There})
               \cup {Without(i) : i \in Leaves}
  /\ ~Clashes(nodes')
  /\ UNCHANGED <<objects, reservation, lock, writer, script>>

\* Time passes.
Tick ==
  /\ reservation' = [w \in Writers |-> IF reservation[w] > 0 THEN reservation[w] - 1 ELSE 0]
  /\ lock' = [lock EXCEPT !.left = IF @ > 0 THEN @ - 1 ELSE 0]
  /\ UNCHANGED <<objects, nodes, writer, script, budget>>

LegacyNext ==
  \/ \E w \in Writers : Request(w)
  \/ \E m \in Scripts : Run(m)
  \/ Edit \/ Tick

LegacySpec == LegacyInit /\ [][LegacyNext]_legacyVars

-----------------------------------------------------------------------------
(* Properties.                                                              *)

\* From its snapshot until its import a script that still holds the lock knows every
\* row as it is: no request that was let in before, and none that lost its reservation,
\* writes meanwhile.
MigrationSeesEveryWrite ==
  \A m \in Scripts :
    script[m].pc \in {"existing", "extend", "import"} /\ Holds(m) => objects = script[m].rows

\* An import under the lock gives every object its entry, changes no entry that existed,
\* and makes new files public exactly if they were before, their new folders included.
Imports(m) ==
  /\ AtM(m, "import") /\ script'[m].pc # "import" /\ Holds(m)
  /\ nodes' # nodes \/ script'[m].ok
AsBefore(k) ==
  LET own == {FileId(k)} \cup {FolderId(p) : p \in PathsOver(k)}
  IN  (\A i \in own : nodes[i] = Missing)
        => /\ objects[k].public <=> \A i \in own : nodes'[i].public
           /\ nodes'[FileId(k)].etag = objects[k].etag
Faithful ==
  /\ \A i \in NodeIds : nodes[i] # Missing => nodes'[i] = nodes[i]
  /\ \A k \in Keys : objects[k] # Missing => nodes'[FileId(k)] # Missing /\ AsBefore(k)
ImportIsFaithful == [][\A m \in Scripts : Imports(m) => Faithful]_legacyVars
=============================================================================

------------------------ MODULE LegacyMigrationProofs ------------------------
(***************************************************************************)
(* What LegacyMigration promises, for all requests, runs of the script,    *)
(* keys, tables to start from, leases and numbers of failures.             *)
(***************************************************************************)
EXTENDS LegacyMigration, SequenceTheorems, TLAPS

-----------------------------------------------------------------------------
(* Types of what a request writes and of what the script builds.            *)

\* A key, and a path over one, end in a name under a folder or the root.
LEMMA KeyTypes ==
  ASSUME NEW k \in Keys
  PROVE  Last(k) \in Segments /\ FolderId(Front(k)) \in PathFolders \cup {Top}
<1>1. k \in Seq(Segments) /\ k # <<>> /\ Len(k) \in Nat \ {0}
  BY KeysAssumption
<1>2. Last(k) \in Segments
  BY <1>1 DEF Last
<1>3. CASE Len(k) = 1
  <2>1. Front(k) = <<>>
    BY <1>1, <1>3, SubSeqEmpty DEF Front
  <2> QED BY <1>2, <2>1 DEF Top
<1>4. CASE Len(k) # 1
  <2>1. \A n \in Nat \ {0, 1} : n - 1 \in 1..(n - 1)
    OBVIOUS
  <2>2. Front(k) = SubSeq(k, 1, Len(k) - 1)
    BY DEF Front
  <2>3. Front(k) \in PathsOver(k)
    BY <1>1, <1>4, <2>1, <2>2 DEF PathsOver
  <2> QED BY <1>2, <2>3 DEF PathFolders, Paths
<1> QED BY <1>3, <1>4

LEMMA PathTypes ==
  ASSUME NEW p \in Paths
  PROVE  Last(p) \in Segments /\ FolderId(Front(p)) \in PathFolders \cup {Top}
<1>1. PICK k \in Keys : p \in PathsOver(k)
  BY DEF Paths
<1>2. k \in Seq(Segments) /\ k # <<>> /\ Len(k) \in Nat \ {0}
  BY KeysAssumption
<1>3. PICK n \in 1..(Len(k) - 1) : p = SubSeq(k, 1, n)
  BY <1>1 DEF PathsOver
<1>4. p \in Seq(Segments) /\ Len(p) = n /\ n \in Nat \ {0}
  BY <1>2, <1>3, SubSeqProperties
<1>5. Last(p) \in Segments
  BY <1>4 DEF Last
<1>6. CASE n = 1
  <2>1. Front(p) = <<>>
    BY <1>4, <1>6, SubSeqEmpty DEF Front
  <2> QED BY <1>5, <2>1 DEF Top
<1>7. CASE n # 1
  <2>1. n - 1 \in 1..(Len(k) - 1)
    BY <1>2, <1>3, <1>4, <1>7
  <2>2. Front(p) = SubSeq(SubSeq(k, 1, n), 1, n - 1)
    BY <1>3, <1>4 DEF Front
  <2>3. SubSeq(SubSeq(k, 1, n), 1, n - 1) = SubSeq(k, 1, n - 1)
    BY <1>2, <1>3, <1>4, <1>7, SubSeqOfSubSeq
  <2>4. Front(p) \in PathsOver(k)
    BY <2>1, <2>2, <2>3 DEF PathsOver
  <2> QED BY <1>5, <2>4 DEF PathFolders, Paths
<1> QED BY <1>6, <1>7

\* NodeIds are told apart by their kind.
LEMMA IdKinds ==
  ASSUME NEW i \in NodeIds, i # Stranger
  PROVE  \/ i[1] = "folder" /\ i[2] \in Paths /\ i = FolderId(i[2])
         \/ i[1] # "folder" /\ i[2] \in Keys /\ i = FileId(i[2])
BY DEF NodeIds, PathFolders, FolderId, FileId

LEMMA BuiltTypes ==
  ASSUME NEW rows \in Tables
  PROVE  Built(rows) \in Trees
<1>1. ASSUME NEW p \in Paths PROVE FolderOf(rows, p) \in Nodes \cup {Missing}
  BY PathTypes DEF FolderOf, Nodes, AnyPublic
<1>2. ASSUME NEW k \in Keys PROVE FileOf(rows, k) \in Nodes \cup {Missing}
  <2>1. rows[k] # Missing => rows[k].name \in Segments /\ rows[k].public \in BOOLEAN /\ rows[k].etag \in Etags
    BY DEF Tables, Rows
  <2> QED BY <2>1, KeyTypes DEF FileOf, Nodes
<1>3. ASSUME NEW i \in NodeIds
      PROVE  (IF i = Stranger THEN Missing
              ELSE IF i[1] = "folder" THEN FolderOf(rows, i[2]) ELSE FileOf(rows, i[2]))
               \in Nodes \cup {Missing}
  BY <1>1, <1>2, IdKinds
<1> QED BY <1>3 DEF Built, Trees

LEMMA ImportedTypes ==
  ASSUME LegacyTypeOK, NEW m \in Scripts
  PROVE  Imported(m) \in Trees
<1>1. script[m].rows \in Tables /\ nodes \in Trees
  BY DEF LegacyTypeOK, ScriptSlots
<1>2. Built(script[m].rows) \in Trees
  BY <1>1, BuiltTypes
<1> QED BY <1>1, <1>2 DEF Imported, Added, Trees

-----------------------------------------------------------------------------
(* Types.                                                                   *)

\* What a request has gathered is enough for the row it will write.
Prepared(h) ==
  /\ h.pc \in {"renew", "read", "write"} /\ h.op = "put" => h.change.etag \in Etags
  /\ h.pc = "write" /\ h.op = "patch" => h.row # Missing

TypeInv == LegacyTypeOK /\ \A w \in Writers : Prepared(writer[w])

LEMMA MergedTypes ==
  ASSUME NEW h \in WriterSlots, Prepared(h), h.pc = "write", h.op # "delete"
  PROVE  Merged(h) \in Rows
<1>1. /\ h.key \in Keys /\ h.row \in Rows \cup {Missing}
      /\ h.change \in Changes /\ h.op \in {"put", "patch"}
  BY DEF WriterSlots, Methods
<1>2. Last(h.key) \in Segments
  BY <1>1, KeyTypes
<1>3. CASE h.row = Missing
  BY <1>1, <1>2, <1>3 DEF Prepared, Merged, Rows
<1>4. CASE h.row # Missing
  <2>1. h.row \in Rows
    BY <1>1, <1>4
  <2>2. /\ Or(h.change.name, h.row.name) \in Segments
        /\ Or(h.change.public, h.row.public) \in BOOLEAN
        /\ Or(h.change.etag, h.row.etag) \in Etags
    BY <1>1, <2>1 DEF Changes, Rows, Or
  <2> QED BY <1>4, <2>2 DEF Merged, Rows
<1> QED BY <1>3, <1>4

LEMMA WrittenTypes ==
  ASSUME TypeInv, NEW w \in Writers, AtW(w, "write")
  PROVE  Written(w) \in Tables
<1> DEFINE h == writer[w]
<1>1. h \in WriterSlots /\ Prepared(h) /\ h.pc = "write" /\ objects \in Tables
  BY DEF TypeInv, LegacyTypeOK, AtW
<1>2. h.op # "delete" => Merged(h) \in Rows
  BY <1>1, MergedTypes
<1>3. h.key \in Keys
  BY <1>1 DEF WriterSlots
<1> QED BY <1>1, <1>2, <1>3 DEF Written, Tables

LEMMA SlotTypes ==
  /\ Slot("idle") \in WriterSlots /\ Prepared(Slot("idle"))
  /\ Slot("done") \in WriterSlots /\ Prepared(Slot("done"))
  /\ Nothing \in Changes
<1>1. (CHOOSE k \in Keys : TRUE) \in Keys
  BY KeysAssumption
<1>2. Nothing \in Changes
  BY DEF Nothing, Changes
<1>3. Slot("idle") \in WriterSlots /\ Slot("done") \in WriterSlots
  BY <1>1, <1>2 DEF Slot, WriterSlots, Methods
<1> QED BY <1>2, <1>3 DEF Slot, Prepared

WritersFine == writer \in [Writers -> WriterSlots] /\ \A w \in Writers : Prepared(writer[w])

LEMMA SlotBecomes ==
  ASSUME TypeInv, NEW w \in Writers, NEW g \in WriterSlots, Prepared(g),
         writer' = [writer EXCEPT ![w] = g]
  PROVE  WritersFine'
<1>1. writer \in [Writers -> WriterSlots] /\ \A v \in Writers : Prepared(writer[v])
  BY DEF TypeInv, LegacyTypeOK
<1>2. writer' \in [Writers -> WriterSlots]
  BY <1>1
<1>3. ASSUME NEW v \in Writers PROVE Prepared(writer'[v])
  BY <1>1, <1>3
<1> QED BY <1>2, <1>3 DEF WritersFine

\* Going on to a point where the request owes nothing, or stays as prepared as it was.
LEMMA GoingOn ==
  ASSUME TypeInv, NEW w \in Writers,
         NEW pc \in {"store", "renew", "read", "write", "release", "done"}, GotoW(w, pc),
         \/ pc \in {"store", "release", "done"}
         \/ writer[w].pc = "renew" /\ pc \in {"read", "write"} /\ (pc = "write" => writer[w].op = "delete")
  PROVE  WritersFine'
<1> DEFINE h == writer[w]
           g == [h EXCEPT !.pc = pc]
<1>1. h \in WriterSlots /\ Prepared(h)
  BY DEF TypeInv, LegacyTypeOK
<1>2. g \in WriterSlots
  BY <1>1 DEF WriterSlots
<1>3. g.pc = pc /\ g.op = h.op /\ g.change = h.change /\ g.row = h.row
  BY <1>1 DEF WriterSlots
<1>4. writer' = [writer EXCEPT ![w] = g]
  BY DEF GotoW
<1>5. Prepared(g)
  <2> HIDE DEF g
  <2> QED BY <1>1, <1>3 DEF Prepared
<1> HIDE DEF g
<1> QED BY <1>2, <1>4, <1>5, SlotBecomes

LEMMA Ending ==
  ASSUME TypeInv, NEW w \in Writers, EndW(w)
  PROVE  WritersFine'
BY SlotTypes, SlotBecomes DEF EndW

LEMMA Losing ==
  ASSUME TypeInv, NEW w \in Writers, NEW b \in BOOLEAN, writer' = [writer EXCEPT ![w].lost = b]
  PROVE  WritersFine'
<1> DEFINE h == writer[w]
           g == [h EXCEPT !.lost = b]
<1>1. h \in WriterSlots /\ Prepared(h)
  BY DEF TypeInv, LegacyTypeOK
<1>2. g \in WriterSlots /\ g.pc = h.pc /\ g.op = h.op /\ g.change = h.change /\ g.row = h.row
  BY <1>1 DEF WriterSlots
<1>3. writer' = [writer EXCEPT ![w] = g]
  OBVIOUS
<1>4. Prepared(g)
  <2> HIDE DEF g
  <2> QED BY <1>1, <1>2 DEF Prepared
<1> HIDE DEF g
<1> QED BY <1>2, <1>3, <1>4, SlotBecomes

\* What a step of a request leaves.
RequestTypes ==
  objects \in Tables /\ reservation \in [Writers -> 0..ReservationLease] /\ WritersFine
    /\ budget \in 0..MaxEvents

LEMMA EventTypes ==
  ASSUME LegacyTypeOK, Event
  PROVE  budget' \in 0..MaxEvents
BY BudgetAssumption DEF LegacyTypeOK, Event

LEMMA Kept ==
  ASSUME TypeInv
  PROVE  /\ objects \in Tables /\ reservation \in [Writers -> 0..ReservationLease]
         /\ WritersFine /\ budget \in 0..MaxEvents
BY DEF TypeInv, LegacyTypeOK, WritersFine

LEMMA ReserveTypes ==
  ASSUME TypeInv, NEW w \in Writers, Reserve(w)
  PROVE  RequestTypes'
<1>1. objects' \in Tables /\ budget' \in 0..MaxEvents
  BY Kept DEF Reserve
<1>2. reservation' \in [Writers -> 0..ReservationLease]
  <2>1. Taken(w) \in [Writers -> 0..ReservationLease]
    BY Kept, LeasesAssumption DEF Taken
  <2>2. reservation' = Taken(w) \/ reservation' = reservation
    BY DEF Reserve
  <2> QED BY <2>1, <2>2, Kept
<1>3. WritersFine'
  <2>1. CASE EndW(w)
    BY <2>1, Ending
  <2>2. CASE \E op \in Methods, k \in Keys :
               writer' = [writer EXCEPT ![w] = [@ EXCEPT !.pc = "store", !.op = op, !.key = k]]
    <3>1. PICK op \in Methods, k \in Keys :
            writer' = [writer EXCEPT ![w] = [@ EXCEPT !.pc = "store", !.op = op, !.key = k]]
      BY <2>2
    <3> DEFINE h == writer[w]
               g == [h EXCEPT !.pc = "store", !.op = op, !.key = k]
    <3>2. h \in WriterSlots
      BY DEF TypeInv, LegacyTypeOK
    <3>3. g \in WriterSlots /\ g.pc = "store"
      BY <3>2 DEF WriterSlots
    <3>4. Prepared(g)
      <4> HIDE DEF g
      <4> QED BY <3>3 DEF Prepared
    <3>5. writer' = [writer EXCEPT ![w] = g]
      BY <3>1
    <3> HIDE DEF g
    <3> QED BY <3>3, <3>4, <3>5, SlotBecomes
  <2> QED BY <2>1, <2>2 DEF Reserve
<1> QED BY <1>1, <1>2, <1>3 DEF RequestTypes

LEMMA StoreTypes ==
  ASSUME TypeInv, NEW w \in Writers, Store(w)
  PROVE  RequestTypes'
<1> DEFINE h == writer[w]
<1>1. PICK c \in Asked(h.op) : writer' = [writer EXCEPT ![w] = [@ EXCEPT !.pc = "renew", !.change = c]]
  BY DEF Store
<1>2. h \in WriterSlots /\ h.op \in Methods
  BY DEF TypeInv, LegacyTypeOK, WriterSlots
<1>3. c \in Changes /\ (h.op = "put" => c.etag \in Etags)
  BY <1>1, <1>2, PatchesAssumption, SlotTypes DEF Asked, Changes, Methods
<1> DEFINE g == [h EXCEPT !.pc = "renew", !.change = c]
<1>4. g \in WriterSlots /\ g.pc = "renew" /\ g.op = h.op /\ g.change = c
  BY <1>2, <1>3 DEF WriterSlots
<1>5. Prepared(g)
  <2> HIDE DEF g
  <2> QED BY <1>3, <1>4 DEF Prepared
<1>6. writer' = [writer EXCEPT ![w] = g]
  BY <1>1
<1>7. WritersFine'
  <2> HIDE DEF g
  <2> QED BY <1>4, <1>5, <1>6, SlotBecomes
<1> QED BY <1>7, Kept DEF RequestTypes, Store

LEMMA HeartbeatTypes ==
  ASSUME TypeInv, NEW w \in Writers, Heartbeat(w) \/ HeartbeatFails(w)
  PROVE  RequestTypes'
<1>1. Renewed(w) \in [Writers -> 0..ReservationLease]
  BY Kept, LeasesAssumption DEF Renewed
<1>2. reservation' \in [Writers -> 0..ReservationLease] /\ objects' \in Tables
  BY <1>1, Kept DEF Heartbeat, HeartbeatFails
<1>3. budget' \in 0..MaxEvents
  BY Kept, EventTypes DEF Heartbeat, HeartbeatFails, TypeInv
<1>4. WritersFine'
  <2>1. CASE Heartbeat(w)
    <3>1. (reservation[w] = 0) \in BOOLEAN
      OBVIOUS
    <3> QED BY <2>1, <3>1, Losing DEF Heartbeat
  <2>2. CASE HeartbeatFails(w)
    BY <2>2, Losing DEF HeartbeatFails
  <2> QED BY <2>1, <2>2
<1> QED BY <1>2, <1>3, <1>4 DEF RequestTypes

LEMMA RenewTypes ==
  ASSUME TypeInv, NEW w \in Writers, RenewBeforeWrite(w)
  PROVE  RequestTypes'
<1>1. Renewed(w) \in [Writers -> 0..ReservationLease]
  BY Kept, LeasesAssumption DEF Renewed
<1> DEFINE pc == IF writer[w].lost \/ reservation[w] = 0 THEN "release"
                 ELSE IF writer[w].op = "delete" THEN "write" ELSE "read"
<1>2. /\ pc \in {"release", "read", "write"} /\ (pc = "write" => writer[w].op = "delete")
      /\ GotoW(w, pc) /\ writer[w].pc = "renew"
  BY DEF RenewBeforeWrite, AtW
<1>3. WritersFine'
  <2> HIDE DEF pc
  <2> QED BY <1>2, GoingOn
<1> QED BY <1>1, <1>3, Kept DEF RequestTypes, RenewBeforeWrite

LEMMA ReadRowTypes ==
  ASSUME TypeInv, NEW w \in Writers, ReadRow(w)
  PROVE  RequestTypes'
<1> DEFINE h == writer[w]
           r == objects[h.key]
           pc == IF h.op = "patch" /\ r = Missing THEN "release" ELSE "write"
           g == [h EXCEPT !.row = r, !.pc = pc]
<1>1. h \in WriterSlots /\ Prepared(h) /\ h.pc = "read" /\ h.key \in Keys /\ objects \in Tables
  BY DEF TypeInv, LegacyTypeOK, WriterSlots, ReadRow, AtW
<1>2. r \in Rows \cup {Missing}
  BY <1>1 DEF Tables
<1>3. pc \in {"release", "write"} /\ (pc = "write" /\ h.op = "patch" => r # Missing)
  OBVIOUS
<1>4. writer' = [writer EXCEPT ![w] = g]
  BY DEF ReadRow
<1>5. g \in WriterSlots /\ g.pc = pc /\ g.op = h.op /\ g.change = h.change /\ g.row = r
  <2> HIDE DEF pc, r
  <2> QED BY <1>1, <1>2, <1>3 DEF WriterSlots
<1>6. Prepared(g)
  <2> HIDE DEF g, pc, r
  <2> QED BY <1>1, <1>3, <1>5 DEF Prepared
<1>7. WritersFine'
  <2> HIDE DEF g
  <2> QED BY <1>4, <1>5, <1>6, SlotBecomes
<1> QED BY <1>7, Kept DEF RequestTypes, ReadRow

LEMMA WriteRowTypes ==
  ASSUME TypeInv, NEW w \in Writers, WriteRow(w)
  PROVE  RequestTypes'
<1>1. objects' \in Tables
  BY WrittenTypes DEF WriteRow
<1>2. WritersFine'
  BY GoingOn DEF WriteRow
<1> QED BY <1>1, <1>2, Kept DEF RequestTypes, WriteRow

LEMMA ReleaseTypes ==
  ASSUME TypeInv, NEW w \in Writers, Release(w)
  PROVE  RequestTypes'
<1>1. reservation' \in [Writers -> 0..ReservationLease]
  BY Kept, LeasesAssumption DEF Release, Dropped
<1>2. WritersFine'
  BY Ending DEF Release
<1> QED BY <1>1, <1>2, Kept DEF RequestTypes, Release

LEMMA WriterFailsTypes ==
  ASSUME TypeInv, NEW w \in Writers, WriterFails(w)
  PROVE  RequestTypes'
<1>1. /\ Taken(w) \in [Writers -> 0..ReservationLease] /\ Renewed(w) \in [Writers -> 0..ReservationLease]
      /\ Dropped(w) \in [Writers -> 0..ReservationLease]
  BY Kept, LeasesAssumption DEF Taken, Renewed, Dropped
<1>2. reservation' \in [Writers -> 0..ReservationLease]
  BY <1>1, Kept DEF WriterFails
<1>3. objects' \in Tables
  <2>1. CASE objects' = objects
    BY <2>1, Kept
  <2>2. CASE AtW(w, "write") /\ objects' = Written(w)
    BY <2>2, WrittenTypes
  <2> QED BY <2>1, <2>2 DEF WriterFails
<1>4. budget' \in 0..MaxEvents
  BY EventTypes DEF WriterFails, TypeInv
<1>5. WritersFine'
  <2>1. CASE EndW(w)
    BY <2>1, Ending
  <2>2. CASE GotoW(w, "release")
    BY <2>2, GoingOn
  <2> QED BY <2>1, <2>2 DEF WriterFails
<1> QED BY <1>2, <1>3, <1>4, <1>5 DEF RequestTypes

LEMMA RequestKeepsTypes ==
  ASSUME TypeInv, NEW w \in Writers, Request(w)
  PROVE  TypeInv'
<1>1. RequestTypes'
  BY ReserveTypes, StoreTypes, HeartbeatTypes, RenewTypes, ReadRowTypes, WriteRowTypes, ReleaseTypes,
     WriterFailsTypes DEF Request
<1>2. UNCHANGED <<nodes, lock, script>>
  BY DEF Request, Idling
<1> QED BY <1>1, <1>2 DEF TypeInv, LegacyTypeOK, RequestTypes, WritersFine

-----------------------------------------------------------------------------

\* What a step of the script leaves.
RunTypes ==
  /\ nodes \in Trees
  /\ lock \in [owner : Scripts \cup {NoOwner}, left : 0..LockLease]
  /\ script \in [Scripts -> ScriptSlots]
  /\ budget \in 0..MaxEvents

LEMMA KeptByRun ==
  ASSUME TypeInv
  PROVE  RunTypes /\ objects \in Tables
BY DEF TypeInv, LegacyTypeOK, RunTypes

LEMMA LockTypes ==
  ASSUME TypeInv, NEW m \in Scripts
  PROVE  /\ LockOf(m) \in [owner : Scripts \cup {NoOwner}, left : 0..LockLease]
         /\ Unlocked(m) \in [owner : Scripts \cup {NoOwner}, left : 0..LockLease]
<1>1. 0 \in 0..LockLease /\ LockLease \in 0..LockLease
  BY LeasesAssumption
<1> QED BY <1>1, KeptByRun DEF LockOf, Unlocked, RunTypes

LEMMA ProcessBecomes ==
  ASSUME TypeInv, NEW m \in Scripts, NEW h \in ScriptSlots, script' = [script EXCEPT ![m] = h]
  PROVE  script' \in [Scripts -> ScriptSlots]
BY KeptByRun DEF RunTypes

LEMMA ScriptEnds ==
  ASSUME TypeInv, NEW m \in Scripts, EndM(m)
  PROVE  script' \in [Scripts -> ScriptSlots]
<1>1. Process("done") \in ScriptSlots
  BY DEF Process, ScriptSlots, Tables
<1> QED BY <1>1, ProcessBecomes DEF EndM

LEMMA ScriptGoesOn ==
  ASSUME TypeInv, NEW m \in Scripts,
         NEW pc \in {"idle", "drain", "wait", "check", "renew", "select", "existing", "extend", "import",
                     "release", "done"},
         GotoM(m, pc)
  PROVE  script' \in [Scripts -> ScriptSlots]
<1>1. [script[m] EXCEPT !.pc = pc] \in ScriptSlots
  BY KeptByRun DEF RunTypes, ScriptSlots
<1>2. script' = [script EXCEPT ![m] = [script[m] EXCEPT !.pc = pc]]
  BY DEF GotoM
<1> QED BY <1>1, <1>2, ProcessBecomes

LEMMA AcquireTypes ==
  ASSUME TypeInv, NEW m \in Scripts, Acquire(m)
  PROVE  RunTypes'
<1>1. lock' = LockOf(m) \/ lock' = lock
  BY DEF Acquire
<1>2. GotoM(m, "drain") \/ EndM(m)
  BY DEF Acquire
<1>3. script' \in [Scripts -> ScriptSlots]
  BY <1>2, ScriptGoesOn, ScriptEnds
<1> QED BY <1>1, <1>3, LockTypes, KeptByRun DEF RunTypes, Acquire

LEMMA DrainTypes ==
  ASSUME TypeInv, NEW m \in Scripts, Drain(m) \/ Check(m)
  PROVE  RunTypes'
<1>1. \E pc \in {"check", "release", "wait", "renew"} : GotoM(m, pc)
  BY DEF Drain, Check
<1>2. script' \in [Scripts -> ScriptSlots]
  BY <1>1, ScriptGoesOn
<1> QED BY <1>2, KeptByRun DEF RunTypes, Drain, Check

LEMMA RenewLockTypes ==
  ASSUME TypeInv, NEW m \in Scripts, RenewLock(m)
  PROVE  RunTypes'
<1>1. \E pc \in {"drain", "select", "import", "release"} : GotoM(m, pc)
  BY DEF RenewLock, Relying
<1>2. script' \in [Scripts -> ScriptSlots]
  BY <1>1, ScriptGoesOn
<1>3. lock' = LockOf(m) \/ lock' = lock
  BY DEF RenewLock
<1> QED BY <1>2, <1>3, LockTypes, KeptByRun DEF RunTypes, RenewLock

LEMMA SelectTypes ==
  ASSUME TypeInv, NEW m \in Scripts, Select(m)
  PROVE  RunTypes'
<1> DEFINE pc == IF Clashes(Built(objects)) THEN "release" ELSE "existing"
           h == [script[m] EXCEPT !.rows = objects, !.pc = pc]
<1>1. script[m] \in ScriptSlots /\ objects \in Tables
  BY KeptByRun DEF RunTypes
<1>2. pc \in {"release", "existing"}
  OBVIOUS
<1>3. h \in ScriptSlots
  <2> HIDE DEF pc
  <2> QED BY <1>1, <1>2 DEF ScriptSlots
<1>4. script' = [script EXCEPT ![m] = h]
  BY DEF Select
<1>5. script' \in [Scripts -> ScriptSlots]
  <2> HIDE DEF h
  <2> QED BY <1>3, <1>4, ProcessBecomes
<1> QED BY <1>5, KeptByRun DEF RunTypes, Select

LEMMA ExistingTypes ==
  ASSUME TypeInv, NEW m \in Scripts, Existing(m)
  PROVE  RunTypes'
<1> DEFINE t == Built(script[m].rows)
           none == \A i \in NodeIds : t[i] = Missing
           pc == IF Collides(t) \/ none THEN "release" ELSE "extend"
           ok == none /\ ~Collides(t)
           h == [script[m] EXCEPT !.pc = pc, !.ok = ok]
<1>1. script[m] \in ScriptSlots
  BY KeptByRun DEF RunTypes
<1>2. pc \in {"release", "extend"} /\ ok \in BOOLEAN
  OBVIOUS
<1>3. h \in ScriptSlots
  <2> HIDE DEF pc, ok
  <2> QED BY <1>1, <1>2 DEF ScriptSlots
<1>4. script' = [script EXCEPT ![m] = h]
  BY DEF Existing
<1>5. script' \in [Scripts -> ScriptSlots]
  <2> HIDE DEF h
  <2> QED BY <1>3, <1>4, ProcessBecomes
<1> QED BY <1>5, KeptByRun DEF RunTypes, Existing

LEMMA ImportTypes ==
  ASSUME TypeInv, NEW m \in Scripts, Import(m)
  PROVE  RunTypes'
<1> DEFINE ok == ~Clashes(Imported(m)) /\ ~script[m].lapsed
           h == [script[m] EXCEPT !.pc = "release", !.ok = ok]
<1>1. script[m] \in ScriptSlots
  BY KeptByRun DEF RunTypes
<1>2. ok \in BOOLEAN
  OBVIOUS
<1>3. h \in ScriptSlots
  <2> HIDE DEF ok
  <2> QED BY <1>1, <1>2 DEF ScriptSlots
<1>4. script' = [script EXCEPT ![m] = h]
  BY DEF Import
<1>5. script' \in [Scripts -> ScriptSlots]
  <2> HIDE DEF h
  <2> QED BY <1>3, <1>4, ProcessBecomes
<1>6. nodes' \in Trees
  BY ImportedTypes, KeptByRun DEF Import, RunTypes, TypeInv
<1> QED BY <1>5, <1>6, KeptByRun DEF RunTypes, Import

LEMMA RenewMeanwhileTypes ==
  ASSUME TypeInv, NEW m \in Scripts, RenewMeanwhile(m)
  PROVE  RunTypes'
<1> DEFINE b == ~Holds(m)
           h == [script[m] EXCEPT !.lapsed = b]
<1>1. script[m] \in ScriptSlots
  BY KeptByRun DEF RunTypes
<1>2. b \in BOOLEAN
  OBVIOUS
<1>3. h \in ScriptSlots
  <2> HIDE DEF b
  <2> QED BY <1>1, <1>2 DEF ScriptSlots
<1>4. script' = [script EXCEPT ![m] = h]
  BY DEF RenewMeanwhile
<1>5. script' \in [Scripts -> ScriptSlots]
  <2> HIDE DEF h
  <2> QED BY <1>3, <1>4, ProcessBecomes
<1> QED BY <1>5, LockTypes, KeptByRun DEF RunTypes, RenewMeanwhile

LEMMA ReleaseLockTypes ==
  ASSUME TypeInv, NEW m \in Scripts, ReleaseLock(m)
  PROVE  RunTypes'
BY ScriptEnds, LockTypes, KeptByRun DEF RunTypes, ReleaseLock

LEMMA ScriptFailsTypes ==
  ASSUME TypeInv, NEW m \in Scripts, ScriptFails(m)
  PROVE  RunTypes'
<1>1. lock' \in {lock, LockOf(m), Unlocked(m)}
  BY DEF ScriptFails
<1>2. nodes' \in {nodes, Imported(m)}
  BY DEF ScriptFails
<1>3. EndM(m) \/ GotoM(m, "release")
  BY DEF ScriptFails
<1>4. script' \in [Scripts -> ScriptSlots]
  BY <1>3, ScriptEnds, ScriptGoesOn
<1>5. budget' \in 0..MaxEvents
  BY EventTypes DEF ScriptFails, TypeInv
<1>6. nodes' \in Trees
  BY <1>2, ImportedTypes, KeptByRun DEF RunTypes, TypeInv
<1> QED BY <1>1, <1>4, <1>5, <1>6, LockTypes, KeptByRun DEF RunTypes

LEMMA RunKeepsTypes ==
  ASSUME TypeInv, NEW m \in Scripts, Run(m)
  PROVE  TypeInv'
<1>1. RunTypes'
  BY AcquireTypes, DrainTypes, RenewLockTypes, SelectTypes, ExistingTypes, ImportTypes,
     RenewMeanwhileTypes, ReleaseLockTypes, ScriptFailsTypes DEF Run
<1>2. UNCHANGED <<objects, reservation, writer>>
  BY DEF Run, Resting
<1> QED BY <1>1, <1>2 DEF TypeInv, LegacyTypeOK, RunTypes

LEMMA EditKeepsTypes ==
  ASSUME TypeInv, Edit
  PROVE  TypeInv'
<1>1. nodes \in Trees /\ Stranger \in NodeIds
  BY DEF TypeInv, LegacyTypeOK, NodeIds
<1>2. ASSUME NEW t \in Additions PROVE t \in Trees
  <2>1. PICK p \in {Top} \cup (There \cap PathFolders), n \in Segments :
          t = [nodes EXCEPT ![Stranger] = FolderIn(p, n)]
    BY <1>2 DEF Additions
  <2>2. FolderIn(p, n) \in Nodes
    BY <2>1 DEF FolderIn, Nodes
  <2> QED BY <1>1, <2>1, <2>2 DEF Trees
<1>3. ASSUME NEW i \in There, NEW t \in Changed(i) PROVE t \in Trees
  <2>1. PICK p \in {Top, nodes[i].parent}, n \in Segments : t = Placed(i, p, n)
    BY <1>3 DEF Changed
  <2>2. i \in NodeIds /\ nodes[i] \in Nodes
    BY <1>1 DEF There, Trees
  <2>3. [nodes[i] EXCEPT !.name = n, !.parent = p] \in Nodes
    BY <2>1, <2>2 DEF Nodes
  <2> QED BY <1>1, <2>1, <2>2, <2>3 DEF Trees, Placed
<1>4. ASSUME NEW i \in Leaves PROVE Without(i) \in Trees
  BY <1>1 DEF Trees, Leaves, There, Without
<1>5. nodes' \in Trees
  <2>1. CASE nodes' \in Additions
    BY <2>1, <1>2
  <2>2. CASE nodes' \in UNION {Changed(i) : i \in There}
    <3>1. PICK i \in There : nodes' \in Changed(i)
      BY <2>2
    <3> QED BY <3>1, <1>3
  <2>3. CASE nodes' \in {Without(i) : i \in Leaves}
    BY <2>3, <1>4
  <2>4. \/ nodes' \in Additions
        \/ nodes' \in UNION {Changed(i) : i \in There}
        \/ nodes' \in {Without(i) : i \in Leaves}
    <3> HIDE DEF Additions, Changed, Leaves, There
    <3> QED BY DEF Edit
  <2> QED BY <2>1, <2>2, <2>3, <2>4
<1>6. budget' \in 0..MaxEvents
  BY EventTypes DEF Edit, TypeInv
<1> QED BY <1>5, <1>6 DEF TypeInv, LegacyTypeOK, Edit

LEMMA TickKeepsTypes ==
  ASSUME TypeInv, Tick
  PROVE  TypeInv'
<1>1. \A n \in Nat : \A x \in 0..n : (IF x > 0 THEN x - 1 ELSE 0) \in 0..n
  OBVIOUS
<1>2. reservation' \in [Writers -> 0..ReservationLease]
  BY <1>1, LeasesAssumption DEF Tick, TypeInv, LegacyTypeOK
<1>3. lock' \in [owner : Scripts \cup {NoOwner}, left : 0..LockLease]
  BY <1>1, LeasesAssumption DEF Tick, TypeInv, LegacyTypeOK
<1> QED BY <1>2, <1>3 DEF Tick, TypeInv, LegacyTypeOK

LEMMA InitTypes == LegacyInit => TypeInv
<1> SUFFICES ASSUME LegacyInit PROVE TypeInv
  OBVIOUS
<1>1. Process("idle") \in ScriptSlots
  BY DEF Process, ScriptSlots, Tables
<1>2. 0 \in 0..ReservationLease /\ 0 \in 0..LockLease
  BY LeasesAssumption
<1> QED BY <1>1, <1>2, SlotTypes, StocksAssumption DEF LegacyInit, TypeInv, LegacyTypeOK, Trees

\* One step.
LEMMA NextKeepsTypes == TypeInv /\ [LegacyNext]_legacyVars => TypeInv'
<1> SUFFICES ASSUME TypeInv, [LegacyNext]_legacyVars PROVE TypeInv'
  OBVIOUS
<1>1. CASE UNCHANGED legacyVars
  BY <1>1 DEF legacyVars, TypeInv, LegacyTypeOK
<1> QED BY <1>1, RequestKeepsTypes, RunKeepsTypes, EditKeepsTypes, TickKeepsTypes DEF LegacyNext

\* The tables, the leases, the requests and the scripts keep their types.
THEOREM TypeCorrect == LegacySpec => []LegacyTypeOK
<1>1. LegacySpec => []TypeInv
  BY InitTypes, NextKeepsTypes, PTL DEF LegacySpec
<1>2. TypeInv => LegacyTypeOK
  BY DEF TypeInv
<1> QED BY <1>1, <1>2, PTL

-----------------------------------------------------------------------------
(* Once a script that holds the lock has seen no reservation, none can come *)
(* back before it loses the lock: nobody is let in, expired reservations    *)
(* are not renewed, and the triggers refuse every write.                    *)

Drained(m) == script[m].pc \in {"check", "renew", "select", "existing", "extend", "import"}
HasRead(m) == script[m].pc \in {"existing", "extend", "import"}

LeaseInv ==
  /\ TypeInv
  /\ \A m \in Scripts : Drained(m) /\ Holds(m) => ~Reserved
  /\ MigrationSeesEveryWrite

LEMMA RequestsAreShutOut ==
  ASSUME TypeInv, NEW w \in Writers, Request(w), Locked, ~Reserved
  PROVE  ~Reserved' /\ objects' = objects
<1>1. reservation \in [Writers -> 0..ReservationLease] /\ Blocked
  BY Kept DEF Blocked
<1>2. reservation[w] = 0 /\ \A v \in Writers : ~(reservation[v] > 0)
  BY <1>1, LeasesAssumption DEF Reserved
<1>3. reservation' \in {reservation, Renewed(w), Dropped(w)}
  BY DEF Request, Reserve, Reservable, Store, Heartbeat, HeartbeatFails, RenewBeforeWrite, ReadRow, WriteRow, Release,
         WriterFails
<1>4. \A v \in Writers : ~(reservation'[v] > 0)
  BY <1>1, <1>2, <1>3 DEF Renewed, Dropped
<1>5. objects' \in {objects, Written(w)}
  BY DEF Request, Reserve, Store, Heartbeat, HeartbeatFails, RenewBeforeWrite, ReadRow, WriteRow, Release, WriterFails
<1> QED BY <1>1, <1>4, <1>5 DEF Reserved, Written

LEMMA OthersLeaveTheScript ==
  ASSUME TypeInv, NEW m \in Scripts, NEW n \in Scripts, n # m, Run(n)
  PROVE  script'[m] = script[m]
BY KeptByRun DEF RunTypes, Run, Acquire, Drain, Check, RenewLock, Select, Existing, Import, RenewMeanwhile,
   ReleaseLock, ScriptFails, GotoM, EndM

LEMMA OthersLeaveTheLock ==
  ASSUME TypeInv, NEW m \in Scripts, NEW n \in Scripts, n # m, Run(n), Holds(m)'
  PROVE  Holds(m)
<1>1. lock' \in {lock, LockOf(n), Unlocked(n)}
  BY DEF Run, Acquire, Drain, Check, RenewLock, Select, Existing, Import, RenewMeanwhile, ReleaseLock,
     ScriptFails
<1>2. lock' = lock
  BY <1>1, LeasesAssumption, NoOwnerAssumption DEF Holds, Locked, LockOf, Unlocked
<1> QED BY <1>2 DEF Holds, Locked

\* Where a script that is past the wait has come from.
Came(m) ==
  \/ /\ script[m].pc = "drain" /\ ~Reserved /\ UNCHANGED lock
     /\ script'[m].pc = "check"
  \/ /\ Drained(m)
     /\ script'[m].pc \in {"existing", "extend", "import"} /\ script[m].pc # "select"
          => HasRead(m) /\ script'[m].rows = script[m].rows
     /\ script'[m].pc \in {"existing", "extend", "import"} /\ script[m].pc = "select"
          => script'[m].rows = objects
     /\ Holds(m)' => Holds(m)

LEMMA OwnSteps ==
  ASSUME TypeInv, NEW m \in Scripts, Run(m), Drained(m)'
  PROVE  Came(m)
<1>1. script \in [Scripts -> ScriptSlots] /\ script[m] \in ScriptSlots
  BY KeptByRun DEF RunTypes
<1>2. \A pc : GotoM(m, pc) => script'[m].pc = pc /\ script'[m].rows = script[m].rows
  BY <1>1 DEF GotoM, ScriptSlots
<1>3. ~EndM(m)
  BY <1>1 DEF EndM, Process, Drained
<1>4. ~GotoM(m, "drain") /\ ~GotoM(m, "release") /\ ~GotoM(m, "wait")
  BY <1>2 DEF Drained
<1>5. ~Acquire(m) /\ ~ReleaseLock(m) /\ ~ScriptFails(m)
  BY <1>3, <1>4 DEF Acquire, ReleaseLock, ScriptFails
<1>6. CASE Drain(m)
  <2>1. GotoM(m, "check") /\ ~Reserved
    BY <1>4, <1>6 DEF Drain
  <2>2. script'[m].pc = "check"
    BY <1>2, <2>1
  <2> QED BY <1>6, <2>1, <2>2 DEF Drain, AtM, Came
<1>7. CASE Check(m)
  <2>1. GotoM(m, "renew")
    BY <1>4, <1>7 DEF Check
  <2>2. script'[m].pc = "renew"
    BY <1>2, <2>1
  <2> QED BY <1>7, <2>2 DEF Check, AtM, Came, Drained, Holds, Locked
<1>8. CASE RenewLock(m)
  <2>1. Holds(m) /\ GotoM(m, Relying[script[m].pc])
    BY <1>4, <1>8 DEF RenewLock
  <2>2. script'[m].pc = Relying[script[m].pc] /\ script'[m].rows = script[m].rows
    BY <1>2, <2>1
  <2>3. \/ script[m].pc = "wait" /\ script'[m].pc = "drain"
        \/ script[m].pc = "renew" /\ script'[m].pc = "select"
        \/ script[m].pc = "extend" /\ script'[m].pc = "import"
    BY <1>8, <2>2 DEF RenewLock, Relying
  <2> QED BY <2>1, <2>2, <2>3 DEF Came, Drained, HasRead
<1>9. CASE Select(m)
  <2>1. script'[m].rows = objects /\ script[m].pc = "select" /\ UNCHANGED lock
    BY <1>1, <1>9 DEF Select, AtM, ScriptSlots
  <2> QED BY <2>1 DEF Came, Drained, Holds, Locked
<1>10. CASE Existing(m)
  <2>1. script'[m].rows = script[m].rows /\ script[m].pc = "existing" /\ UNCHANGED lock
    BY <1>1, <1>10 DEF Existing, AtM, ScriptSlots
  <2> QED BY <2>1 DEF Came, Drained, HasRead, Holds, Locked
<1>11. CASE Import(m)
  <2>1. script'[m].pc = "release"
    BY <1>1, <1>11 DEF Import, ScriptSlots
  <2> QED BY <2>1 DEF Drained
<1>12. CASE RenewMeanwhile(m)
  <2>1. script'[m].rows = script[m].rows /\ script'[m].pc = script[m].pc /\ script[m].pc = "import"
    BY <1>1, <1>12 DEF RenewMeanwhile, AtM, ScriptSlots
  <2>2. Holds(m)' => Holds(m)
    BY <1>12 DEF RenewMeanwhile, Holds, Locked
  <2> QED BY <2>1, <2>2 DEF Came, Drained, HasRead
<1> QED BY <1>5, <1>6, <1>7, <1>8, <1>9, <1>10, <1>11, <1>12 DEF Run

LEMMA TickKeepsLeases ==
  ASSUME TypeInv, Tick
  PROVE  /\ ~Reserved => ~Reserved'
         /\ \A m \in Scripts : Holds(m)' => Holds(m)
<1>1. reservation \in [Writers -> 0..ReservationLease]
      /\ lock \in [owner : Scripts \cup {NoOwner}, left : 0..LockLease]
  BY DEF TypeInv, LegacyTypeOK
<1>2. ASSUME NEW w \in Writers, reservation'[w] > 0 PROVE reservation[w] > 0
  BY <1>1, <1>2, LeasesAssumption DEF Tick
<1>3. lock'.owner = lock.owner /\ (lock'.left > 0 => lock.left > 0)
  BY <1>1, LeasesAssumption DEF Tick
<1> QED BY <1>2, <1>3 DEF Reserved, Holds, Locked

\* What has to hold of one script after a step.
Sound(m) ==
  /\ Drained(m) /\ Holds(m) => ~Reserved
  /\ HasRead(m) /\ Holds(m) => objects = script[m].rows

LEMMA InvIsSound ==
  LeaseInv <=> TypeInv /\ \A m \in Scripts : Sound(m)
BY DEF LeaseInv, Sound, HasRead, MigrationSeesEveryWrite

LEMMA StepKeepsSound ==
  ASSUME LeaseInv, [LegacyNext]_legacyVars, NEW m \in Scripts
  PROVE  Sound(m)'
<1>1. TypeInv /\ Sound(m)
  BY InvIsSound
<1>2. CASE \E w \in Writers : Request(w)
  <2>1. PICK w \in Writers : Request(w)
    BY <1>2
  <2>2. UNCHANGED <<lock, script>>
    BY <2>1 DEF Request, Idling
  <2>3. Drained(m) /\ Holds(m) => ~Reserved' /\ objects' = objects
    BY <1>1, <2>1, RequestsAreShutOut DEF Sound, Holds
  <2>4. HasRead(m) => Drained(m)
    BY DEF HasRead, Drained
  <2> QED BY <1>1, <2>2, <2>3, <2>4 DEF Sound, Drained, HasRead, Holds, Locked
<1>3. CASE \E n \in Scripts : Run(n)
  <2>1. PICK n \in Scripts : Run(n)
    BY <1>3
  <2>2. UNCHANGED <<objects, reservation>>
    BY <2>1 DEF Run, Resting
  <2>3. CASE n = m
    <3>1. CASE Drained(m)'
      <4>1. Came(m)
        BY <1>1, <2>1, <2>3, <3>1, OwnSteps
      <4> QED BY <1>1, <2>2, <4>1 DEF Came, Sound, Drained, HasRead, Holds, Locked, Reserved
    <3>2. CASE ~Drained(m)'
      BY <3>2 DEF Sound, Drained, HasRead
    <3> QED BY <3>1, <3>2
  <2>4. CASE n # m
    <3>1. script'[m] = script[m] /\ (Holds(m)' => Holds(m))
      BY <1>1, <2>1, <2>4, OthersLeaveTheScript, OthersLeaveTheLock
    <3> QED BY <1>1, <2>2, <3>1 DEF Sound, Drained, HasRead, Reserved
  <2> QED BY <2>3, <2>4
<1>4. CASE Edit
  BY <1>1, <1>4 DEF Edit, Sound, Drained, HasRead, Holds, Locked, Reserved
<1>5. CASE Tick
  <2>1. UNCHANGED <<objects, script>>
    BY <1>5 DEF Tick
  <2> QED BY <1>1, <1>5, <2>1, TickKeepsLeases DEF Sound, Drained, HasRead
<1>6. CASE UNCHANGED legacyVars
  BY <1>1, <1>6 DEF legacyVars, Sound, Drained, HasRead, Holds, Locked, Reserved
<1> QED BY <1>2, <1>3, <1>4, <1>5, <1>6 DEF LegacyNext

LEMMA LeaseInvKept == LeaseInv /\ [LegacyNext]_legacyVars => LeaseInv'
<1> SUFFICES ASSUME LeaseInv, [LegacyNext]_legacyVars PROVE LeaseInv'
  OBVIOUS
<1>1. TypeInv'
  BY NextKeepsTypes DEF LeaseInv
<1>2. \A m \in Scripts : Sound(m)'
  BY StepKeepsSound
<1> QED BY <1>1, <1>2 DEF LeaseInv, Sound, HasRead, MigrationSeesEveryWrite

LEMMA LeaseInvAtFirst == LegacyInit => LeaseInv
<1> SUFFICES ASSUME LegacyInit PROVE LeaseInv
  OBVIOUS
<1>1. \A m \in Scripts : script[m].pc = "idle"
  BY DEF LegacyInit, Process
<1> QED BY <1>1, InitTypes DEF LeaseInv, Drained, MigrationSeesEveryWrite

\* A script that reads the table under the lock still knows every row when it imports, and
\* checks it against the tree, if it still holds the lock.
THEOREM SnapshotsStayCurrent == LegacySpec => []MigrationSeesEveryWrite
<1>1. LegacySpec => []LeaseInv
  BY LeaseInvAtFirst, LeaseInvKept, PTL DEF LegacySpec
<1>2. LeaseInv => MigrationSeesEveryWrite
  BY DEF LeaseInv
<1> QED BY <1>1, <1>2, PTL

-----------------------------------------------------------------------------
(* What an import does to the tree.                                         *)

\* No script has reported success before its last step.
Unreported == \A m \in Scripts : script[m].pc # "release" => ~script[m].ok

LEMMA UnreportedKept == TypeInv /\ Unreported /\ [LegacyNext]_legacyVars => Unreported'
<1> SUFFICES ASSUME TypeInv, Unreported, [LegacyNext]_legacyVars, NEW m \in Scripts, script'[m].pc # "release"
             PROVE  ~script'[m].ok
  BY DEF Unreported
<1>1. script \in [Scripts -> ScriptSlots] /\ script[m] \in ScriptSlots
  BY KeptByRun DEF RunTypes
<1>2. CASE script'[m] = script[m]
  BY <1>2 DEF Unreported
<1>3. CASE Run(m)
  <2>1. \A pc : GotoM(m, pc) => script'[m].pc = pc /\ script'[m].ok = script[m].ok
    BY <1>1 DEF GotoM, ScriptSlots
  <2>2. EndM(m) => ~script'[m].ok
    BY <1>1 DEF EndM, Process
  <2>3. \A pc : GotoM(m, pc) /\ script[m].pc # "release" => ~script'[m].ok
    BY <2>1 DEF Unreported
  <2>4. CASE Acquire(m) \/ ReleaseLock(m)
    BY <2>2, <2>3, <2>4 DEF Acquire, ReleaseLock, AtM
  <2>5. CASE Drain(m) \/ Check(m)
    BY <2>3, <2>5 DEF Drain, Check, AtM
  <2>6. CASE RenewLock(m)
    <3>1. script[m].pc # "release"
      BY <2>6 DEF RenewLock, Relying
    <3> QED BY <2>3, <2>6, <3>1 DEF RenewLock
  <2>7. CASE Select(m)
    <3>1. script[m].pc = "select" /\ script'[m].ok = script[m].ok
      BY <1>1, <2>7 DEF Select, AtM, ScriptSlots
    <3> QED BY <3>1 DEF Unreported
  <2>8. CASE Existing(m)
    <3> DEFINE t == Built(script[m].rows)
               none == \A i \in NodeIds : t[i] = Missing
    <3>1. /\ script'[m].pc = IF Collides(t) \/ none THEN "release" ELSE "extend"
          /\ script'[m].ok = (none /\ ~Collides(t))
      BY <1>1, <2>8 DEF Existing, ScriptSlots
    <3> HIDE DEF none, t
    <3> QED BY <3>1
  <2>9. CASE Import(m)
    <3>1. script'[m].pc = "release"
      BY <1>1, <2>9 DEF Import, ScriptSlots
    <3> QED BY <3>1
  <2>10. CASE RenewMeanwhile(m)
    <3>1. script[m].pc = "import" /\ script'[m].ok = script[m].ok
      BY <1>1, <2>10 DEF RenewMeanwhile, AtM, ScriptSlots
    <3> QED BY <3>1 DEF Unreported
  <2>11. CASE ScriptFails(m)
    BY <2>2, <2>3, <2>11 DEF ScriptFails, AtM
  <2> QED BY <1>3, <2>4, <2>5, <2>6, <2>7, <2>8, <2>9, <2>10, <2>11 DEF Run
<1>4. CASE ~Run(m)
  <2>1. script'[m] = script[m]
    BY <1>4, OthersLeaveTheScript DEF LegacyNext, Request, Idling, Edit, Tick, legacyVars
  <2> QED BY <1>2, <2>1
<1> QED BY <1>3, <1>4

\* A step that ends an import under the lock, and changed the tree or reports success, has
\* imported what was built from the table as it is.
LEMMA ImportsAreComplete ==
  ASSUME LeaseInv, Unreported, [LegacyNext]_legacyVars, NEW m \in Scripts, Imports(m)
  PROVE  nodes' = Added(Built(objects))
<1>1. script \in [Scripts -> ScriptSlots] /\ script[m] \in ScriptSlots /\ TypeInv
  BY KeptByRun DEF RunTypes, LeaseInv
<1>2. /\ script[m].pc = "import" /\ script'[m].pc # "import"
      /\ nodes' # nodes \/ script'[m].ok
      /\ script[m].rows = objects
  BY DEF Imports, AtM, LeaseInv, MigrationSeesEveryWrite
<1>3. Imported(m) = Added(Built(objects))
  BY <1>2 DEF Imported
<1>4. Run(m)
  <2>1. script'[m] # script[m]
    BY <1>2
  <2> QED BY <1>1, <2>1, OthersLeaveTheScript DEF LegacyNext, Request, Idling, Edit, Tick, legacyVars
<1>5. Import(m) \/ RenewMeanwhile(m) \/ ScriptFails(m)
  BY <1>2, <1>4 DEF Run, Acquire, Drain, Check, RenewLock, Relying, Select, Existing, ReleaseLock, AtM
<1>6. CASE Import(m)
  <2> DEFINE done == ~Clashes(Imported(m))
  <2>1. script'[m].ok = (done /\ ~script[m].lapsed) /\ nodes' = IF done THEN Imported(m) ELSE nodes
    BY <1>1, <1>6 DEF Import, ScriptSlots
  <2> HIDE DEF done
  <2> QED BY <1>2, <1>3, <2>1
<1>7. CASE RenewMeanwhile(m)
  <2>1. script'[m].pc = script[m].pc
    BY <1>1, <1>7 DEF RenewMeanwhile, ScriptSlots
  <2> QED BY <1>2, <2>1
<1>8. CASE ScriptFails(m)
  <2>1. EndM(m) => ~script'[m].ok
    BY <1>1 DEF EndM, Process
  <2>2. GotoM(m, "release") => script'[m].ok = script[m].ok
    BY <1>1 DEF GotoM, ScriptSlots
  <2>3. ~script[m].ok
    BY <1>2 DEF Unreported
  <2>4. ~script'[m].ok
    BY <1>8, <2>1, <2>2, <2>3 DEF ScriptFails
  <2>5. nodes' # nodes
    BY <1>2, <2>4
  <2>6. nodes' = Imported(m)
    BY <1>8, <2>5 DEF ScriptFails
  <2> QED BY <1>3, <2>6
<1> QED BY <1>5, <1>6, <1>7, <1>8

LEMMA AddedIsFaithful ==
  ASSUME TypeInv, nodes' = Added(Built(objects))
  PROVE  Faithful
<1>1. objects \in Tables /\ nodes \in Trees /\ Built(objects) \in Trees
  BY BuiltTypes DEF TypeInv, LegacyTypeOK
<1>2. ASSUME NEW i \in NodeIds, nodes[i] # Missing PROVE nodes'[i] = nodes[i]
  BY <1>2 DEF Added
<1>3. ASSUME NEW i \in NodeIds, nodes[i] = Missing PROVE nodes'[i] = Built(objects)[i]
  BY <1>3 DEF Added
<1>4. ASSUME NEW k \in Keys, objects[k] # Missing
      PROVE  nodes'[FileId(k)] # Missing /\ AsBefore(k)
  <2> DEFINE folders == {FolderId(p) : p \in PathsOver(k)}
  <2>1. FileId(k) \in NodeIds /\ FileId(k) # Stranger /\ FileId(k)[1] = "file" /\ FileId(k)[2] = k
    BY DEF NodeIds, FileId, Stranger
  <2>2. Built(objects)[FileId(k)] = FileOf(objects, k)
    BY <2>1 DEF Built
  <2>3. FileOf(objects, k) =
          [parent |-> FolderId(Front(k)), name |-> objects[k].name, public |-> objects[k].public,
           etag |-> objects[k].etag]
    BY <1>4 DEF FileOf
  <2>4. objects[k] \in Rows
    BY <1>1, <1>4 DEF Tables
  <2>5. FileOf(objects, k) \in Nodes
    BY <2>3, <2>4, KeyTypes DEF Nodes, Rows
  <2>6. nodes'[FileId(k)] # Missing
    BY <1>2, <1>3, <2>1, <2>2, <2>5, MissingAssumption
  <2>7. ASSUME NEW p \in PathsOver(k), objects[k].public
        PROVE  Built(objects)[FolderId(p)].public
    <3>1. p \in Paths /\ k \in Under(objects, p)
      BY <1>4 DEF Paths, Under
    <3>2. FolderId(p) \in NodeIds /\ FolderId(p) # Stranger /\ FolderId(p)[1] = "folder" /\ FolderId(p)[2] = p
      BY <3>1 DEF NodeIds, PathFolders, FolderId, Stranger
    <3>3. Built(objects)[FolderId(p)] = FolderOf(objects, p)
      BY <3>2 DEF Built
    <3>4. AnyPublic(objects, Under(objects, p))
      BY <2>7, <3>1 DEF AnyPublic
    <3>5. FolderOf(objects, p).public = AnyPublic(objects, Under(objects, p))
      BY <3>1 DEF FolderOf
    <3> QED BY <3>3, <3>4, <3>5
  <2>8. folders \subseteq NodeIds
    BY DEF NodeIds, PathFolders, Paths
  <2>9. ASSUME \A i \in {FileId(k)} \cup folders : nodes[i] = Missing
        PROVE  /\ objects[k].public <=> \A i \in {FileId(k)} \cup folders : nodes'[i].public
               /\ nodes'[FileId(k)].etag = objects[k].etag
    <3>1. \A i \in {FileId(k)} \cup folders : nodes'[i] = Built(objects)[i]
      BY <1>3, <2>1, <2>8, <2>9
    <3>2. nodes'[FileId(k)].public = objects[k].public /\ nodes'[FileId(k)].etag = objects[k].etag
      BY <2>2, <2>3, <3>1
    <3>3. objects[k].public => \A i \in folders : nodes'[i].public
      BY <2>7, <3>1
    <3> QED BY <3>2, <3>3
  <2> QED BY <2>6, <2>9 DEF AsBefore
<1> QED BY <1>2, <1>4 DEF Faithful

\* An import under the lock gives every object its entry, leaves the entries that were there,
\* and makes what it adds public exactly if it was.
THEOREM ImportsAreFaithful == LegacySpec => ImportIsFaithful
<1>1. LegacyInit => LeaseInv /\ Unreported
  BY LeaseInvAtFirst DEF LegacyInit, Unreported, Process
<1>2. LeaseInv /\ Unreported /\ [LegacyNext]_legacyVars => (LeaseInv /\ Unreported)'
  BY LeaseInvKept, UnreportedKept DEF LeaseInv
<1>3. LeaseInv /\ Unreported /\ [LegacyNext]_legacyVars => [\A m \in Scripts : Imports(m) => Faithful]_legacyVars
  BY ImportsAreComplete, AddedIsFaithful DEF LeaseInv
<1> QED BY <1>1, <1>2, <1>3, PTL DEF LegacySpec, ImportIsFaithful
=============================================================================

------------------------- MODULE NativeStorageProofs -------------------------
EXTENDS NativeCopies, TLAPS

-----------------------------------------------------------------------------
(* What the steps of the native storage keep, for any number of handlers,  *)
(* entries, attempts and failures, and what copies keep on top of it.      *)
(*                                                                         *)
(* No property is inductive by itself: a blob is safe because of what      *)
(* every handler that could delete it has read and still has to write. So  *)
(* the invariant is built in layers, each inductive given those before it: *)
(*   TypeInv, AttemptInv   an attempt is used once, by one handler, and    *)
(*                         its operation comes before its row and blob;    *)
(*   RowInv, TreeInv       what a row says of itself, and that the way up  *)
(*                         from a row ends at the root;                    *)
(*   UnpublishedInv        an upload's row is not shown before its PUT;    *)
(*   DeleteInv             a tree is claimed once, and a row of it outlives*)
(*                         its blob and the rows under it;                 *)
(*   UploadInv, CleanInv   an upload that still holds its operation has    *)
(*                         its row and blob, and a cleaner that reached    *)
(*                         the blob has seen that no row shows it.         *)
(* First come lemmas that say, once, what a step of a handler can do to a  *)
(* row, an operation and a blob (Effects, RowChanges, OpChanges) and where *)
(* it can stand afterwards (Landings): the layers argue from those and not *)
(* from the forty actions.                                                 *)
(*                                                                         *)
(* The last part is about copies.  A copy writes a blob whose key has no   *)
(* operation (Foreign); CopyInv adds to the layers that a copy which holds *)
(* a key is alone with it (Unused) until its row is there.  What its calls *)
(* write is CopyWrites, what becomes of its key KeyMoves.                  *)

Early == {"uEnqueue", "uInsert", "uPut", "uTouch", "uFinalize"}
Cleaning == {"cRow", "cByKey", "cBlob", "cRenew", "cMark", "cUnlink"}
Wiping == {"dBlob", "dRenew", "dMark", "dLast", "dMeta", "dUnlink"}
Busy == RecoverPcs \ {"rList", "rClaim"}

\* Which fields of a handler mean something depends on its request and its step.
SlotOK(h) ==
  /\ h.pc \in UploadPcs => h.job = "upload"
  /\ h.pc \in DeletePcs => h.job = "delete"
  /\ h.pc = "idle" <=> h.job = "none"
  /\ h.job \in {"upload", "delete"} => h.attempt \in Attempts
  /\ h.job = "upload" => h.id \in FileIds
  /\ h.job = "delete" => h.id # Root
  /\ h.job # "upload" => h.after \notin {"uReply", "uAgain"} /\ h.catch = "idle"
  /\ h.job # "delete" => h.after # "xCheck"
  /\ h.pc \in Busy => h.cur \in Attempts
  /\ h.deleted => h.pc = "idle" /\ h.attempt \in Attempts

\* A file that is there has a key.
KeyedRows == {E \in [Ids -> Entries] : \A i \in FileIds : Present(E, i) => E[i].key \in Attempts}

TypeInv == TypeOK /\ entries \in KeyedRows /\ \A s \in Handlers : SlotOK(slot[s])

\* An attempt is used once: it belongs to one handler, its operation comes before its
\* rows and its blob, and says what they are.
Queued(o, kind, i) == ops[o].state # "absent" /\ ops[o].kind = kind /\ ops[o].entry = i

\* An attempt without an operation that no handler will enqueue any more.  A copy makes
\* up the key of its blob in this way.
Foreign(k) ==
  /\ k <= attempts /\ ops[k].state = "absent"
  /\ \A s \in Handlers : slot[s].attempt # k

AttemptsInOrder ==
  /\ \A s \in Handlers : slot[s].attempt <= attempts
  /\ \A s, t \in Handlers : s # t /\ slot[s].attempt = slot[t].attempt => slot[s].attempt = None
  /\ \A o \in Attempts : o > attempts => ops[o].state = "absent"
  /\ \A o \in Attempts : ops[o].state = "absent" =>
       /\ \A i \in Ids : entries[i].owner # o
       /\ Foreign(o) \/ (o \notin blobs /\ \A i \in Ids : entries[i].key # o)

HandlerQueued(s) ==
  LET h == slot[s]
  IN /\ h.pc \in {"uEnqueue", "xEnqueue"} => ops[h.attempt].state = "absent"
     /\ h.job = "upload" /\ h.pc \notin {"uEnqueue", "uUndo"} => Queued(h.attempt, "upload_cleanup", h.id)
     /\ h.job = "delete" /\ h.pc # "xEnqueue" => Queued(h.attempt, "delete_tree", h.id)
     /\ h.pc \in Busy => ops[h.cur].state \notin {"absent", "held"}
     /\ h.pc \in Cleaning => ops[h.cur].kind = "upload_cleanup"
     /\ h.pc \in Wiping \cup {"dRows"} => ops[h.cur].kind = "delete_tree"
     /\ h.deleted => ops[h.attempt].state = "completed"

AttemptInv == AttemptsInOrder /\ \A s \in Handlers : HandlerQueued(s)

\* What a row says of itself.
RowOK(i) ==
  LET e == entries[i]
  IN /\ e.status = "absent" => e = Absent
     /\ e.status = "uploading" => i \in FileIds /\ e.owner = e.key
     /\ e.status = "ready" => e.owner = None
     /\ e.status = "deleting" =>
          e.owner \in Attempts /\ ops[e.owner].state # "absent" /\ ops[e.owner].kind = "delete_tree"
     /\ i \in FileIds /\ e.status # "absent" => e.key \in Attempts
     /\ i \in Folders => e.key = None
     /\ e.key # None => Queued(e.key, "upload_cleanup", i) \/ Foreign(e.key)

\* And that its key is its own.
RowInv ==
  /\ \A i \in Ids : RowOK(i)
  /\ \A i, j \in Ids : entries[i].key = entries[j].key /\ i # j => entries[i].key = None

RootStays == entries[Root].status = "ready"

TreeInv == RootStays /\ UsableUnderUsable

\* Before an upload publishes its row, no row with its key is anything but uploading.
UnpublishedInv ==
  \A s \in Handlers : slot[s].pc \in Early =>
    /\ \A i \in Ids : entries[i].key = slot[s].attempt => entries[i].status = "uploading"
    /\ At(s, "uInsert") =>
         slot[s].attempt \notin blobs /\ \A i \in Ids : entries[i].key # slot[s].attempt

\* A key whose row is in deletion or gone.
Dead(k) ==
  /\ ops[k].state # "absent" \/ Foreign(k)
  /\ \A s \in Handlers : slot[s].attempt = k => slot[s].pc \notin Early
  /\ \A i \in Ids : entries[i].key = k => entries[i].status = "deleting"

\* A tree is claimed once, and its rows outlive their blobs and their children.
HandlerWipes(s) ==
  LET h == slot[s]
  IN /\ h.pc \in Wiping \cup {"dRows"} => \A k \in h.wiped : Dead(k) /\ k \notin blobs
     /\ h.pc \in Wiping =>
          /\ \A k \in h.keys : Dead(k)
          /\ \A t \in Handlers : At(t, "xClaim") => slot[t].attempt # h.cur
          /\ \A i \in h.rows : OwnedAs(entries, i, "deleting", h.cur) =>
               /\ \A j \in Ids \ {Root} : Present(entries, j) /\ entries[j].parent = i => j \in h.rows
               /\ i \in FileIds /\ ~h.more => entries[i].key \in h.keys \cup h.wiped
     /\ h.pc \in {"dLast", "dMeta", "dUnlink"} => h.keys = {}
     /\ h.pc \in {"dMeta", "dUnlink"} => ~h.more

DeleteInv ==
  /\ \A o \in Attempts : ops[o].kind = "delete_tree" =>
       \A k \in ops[o].wiped : Dead(k) /\ k \notin blobs
  /\ \A i \in Ids, t \in Handlers :
       entries[i].status = "deleting" /\ At(t, "xClaim") => slot[t].attempt # entries[i].owner
  /\ \A s \in Handlers : HandlerWipes(s)

\* Two failures of which one is heartbeats that do not get through.
LateAndFailed == late /\ faults + 2 <= MaxFaults

Beating(o) == ops[o].state = "held" /\ ~ops[o].aged

HandlerUploads(s) ==
  LET h == slot[s]
  IN /\ h.pc \in {"uPut", "uTouch", "uFinalize"} /\ ops[h.attempt].state = "held" =>
          OwnedAs(entries, h.id, "uploading", h.attempt)
     /\ h.pc \in {"uTouch", "uFinalize"} /\ ops[h.attempt].state = "held" => h.attempt \in blobs
     /\ h.pc = "uInsert" => Beating(h.attempt)
     /\ h.pc \in {"uPut", "uTouch"} => Beating(h.attempt) \/ late
     /\ h.pc = "uFinalize" => Beating(h.attempt) \/ LateAndFailed

UploadInv == (late => faults < MaxFaults) /\ \A s \in Handlers : HandlerUploads(s)

HandlerCleans(s) ==
  LET h == slot[s]
  IN /\ h.pc = "cBlob" =>
          LateAndFailed \/ \A i \in Ids : entries[i].key = h.cur => entries[i].status # "ready"
     /\ h.pc \in {"cRenew", "cMark", "cUnlink", "tDone"} /\ ops[h.cur].kind = "upload_cleanup" =>
          h.cur \notin blobs \/ late
     /\ \/ h.pc \in {"cByKey", "kRenew", "kDone", "tDone"}
        \/ h.pc \in {"cBlob", "cRenew"} /\ ~h.mine
        => \A i \in Ids : ~OwnedAs(entries, i, "uploading", h.cur)
     /\ h.pc \in {"kRenew", "kDone"} /\ ops[h.cur].kind = "upload_cleanup" /\ h.cur \in blobs =>
          late \/ \E i \in FileIds : entries[i].key = h.cur

CleanInv == \A s \in Handlers : HandlerCleans(s)

\* What the one handler of AloneInv knows of the rows its operation has claimed.
HandlerClaims(s) ==
  LET h == slot[s]
      left == {i \in Ids : OwnedAs(entries, i, "deleting", h.cur)}
  IN /\ h.pc = "xClaim" => ops[h.attempt].state = "pending"
     /\ h.pc \in Wiping => left = h.rows
     /\ h.pc \in {"kRenew", "kDone", "tDone"} => left = {}

\* The tree that an operation is about is claimed as a whole.
ClaimedWhole ==
  \A i \in Ids : entries[i].status = "deleting" =>
    LET o == entries[i].owner
    IN /\ ops[o].entry \in Ancestors(entries, i)
       /\ \A j \in Tree(entries, ops[o].entry) : OwnedAs(entries, j, "deleting", o)

ClaimInv == ClaimedWhole /\ \A s \in Handlers : HandlerClaims(s)

FilesInv == ReadyFilesHaveBlobs \/ LateAndFailed

-----------------------------------------------------------------------------
(* Types.                                                                  *)

\* The identities, the attempts and the row of an identity that is not there, as sets.
LEMMA Constants ==
  /\ Root \in Ids /\ Root \in Folders /\ Folders \subseteq Ids /\ FileIds \subseteq Ids
  /\ Folders \cap FileIds = {} /\ Ids = Folders \cup FileIds /\ FolderIds \subseteq Folders
  /\ Attempts \subseteq Nat /\ None \notin Attempts /\ None \in Nat
  /\ Absent \in Entries
BY IdsAssumption, MaxAttemptsAssumption DEF Folders, Ids, Attempts, None, Absent, Entries

\* Every statement on the entries leaves entries.
LEMMA EntryStatementTypes ==
  ASSUME NEW E \in KeyedRows, NEW i \in Ids, NEW p \in Folders, NEW n \in Names \cup {NoName},
         NEW o \in Attempts
  PROVE  /\ i \in FolderIds => InsertFolder(E, i, p, n) \in KeyedRows
         /\ InsertUpload(E, i, p, n, o) \in KeyedRows
         /\ CanMove(E, i, p) => Moved(E, i, p) \in KeyedRows
         /\ CanRename(E, i, n) => Renamed(E, i, n) \in KeyedRows
         /\ CanFinalize(E, i, o) => Finalized(E, i) \in KeyedRows
         /\ ClaimedTree(E, i, o) \in KeyedRows
         /\ \A status \in STRING : Deleted(E, i, status, o) \in KeyedRows
<1>0. E \in [Ids -> Entries] /\ \A j \in FileIds : E[j].status # "absent" => E[j].key \in Attempts
  BY DEF KeyedRows, Present
<1>a. ASSUME NEW F \in [Ids -> Entries], \A j \in FileIds : F[j].status # "absent" => F[j].key \in Attempts
      PROVE  F \in KeyedRows
  BY <1>a DEF KeyedRows, Present
<1>1. InsertUpload(E, i, p, n, o) \in KeyedRows
  <2>1. InsertUpload(E, i, p, n, o) \in [Ids -> Entries]
    BY <1>0 DEF InsertUpload, Entries
  <2>2. \A j \in Ids : /\ j = i => InsertUpload(E, i, p, n, o)[j].key = o
                       /\ j # i => InsertUpload(E, i, p, n, o)[j] = E[j]
    BY <1>0 DEF InsertUpload
  <2> QED BY <1>0, <1>a, <2>1, <2>2, Constants
<1>2. i \in FolderIds => InsertFolder(E, i, p, n) \in KeyedRows
  <2>1. InsertFolder(E, i, p, n) \in [Ids -> Entries]
    BY <1>0 DEF InsertFolder, Entries
  <2> QED BY <1>0, <1>a, <2>1, Constants DEF InsertFolder
<1>3. CanMove(E, i, p) => Moved(E, i, p) \in KeyedRows
  <2>1. Moved(E, i, p) \in [Ids -> Entries]
    BY <1>0 DEF Moved, Entries
  <2>2. \A j \in Ids : Moved(E, i, p)[j].status = E[j].status /\ Moved(E, i, p)[j].key = E[j].key
    BY <1>0 DEF Moved, Entries
  <2> QED BY <1>0, <1>a, <2>1, <2>2, Constants
<1>4. CanRename(E, i, n) => Renamed(E, i, n) \in KeyedRows
  <2>1. Renamed(E, i, n) \in [Ids -> Entries]
    BY <1>0 DEF Renamed, Entries
  <2>2. \A j \in Ids : Renamed(E, i, n)[j].status = E[j].status /\ Renamed(E, i, n)[j].key = E[j].key
    BY <1>0 DEF Renamed, Entries
  <2> QED BY <1>0, <1>a, <2>1, <2>2, Constants
<1>5. CanFinalize(E, i, o) => Finalized(E, i) \in KeyedRows
  <2>1. Finalized(E, i) \in [Ids -> Entries]
    BY <1>0 DEF Finalized, Entries
  <2>2. CanFinalize(E, i, o) => E[i].status # "absent"
    BY DEF CanFinalize
  <2>3. \A j \in Ids : Finalized(E, i)[j].key = E[j].key /\ (j # i => Finalized(E, i)[j].status = E[j].status)
    BY <1>0 DEF Finalized, Entries
  <2> QED BY <1>0, <1>a, <2>1, <2>2, <2>3, Constants
<1>6. ClaimedTree(E, i, o) \in KeyedRows
  <2>1. \A j \in Tree(E, i) : E[j].status # "absent"
    BY DEF Tree, Present
  <2>2. ClaimedTree(E, i, o) \in [Ids -> Entries]
    BY <1>0 DEF ClaimedTree, Entries
  <2>3. \A j \in Ids : /\ ClaimedTree(E, i, o)[j].key = E[j].key
                       /\ j \notin Tree(E, i) => ClaimedTree(E, i, o)[j].status = E[j].status
    BY <1>0 DEF ClaimedTree, Entries
  <2> QED BY <1>0, <1>a, <2>1, <2>2, <2>3, Constants
<1>7. \A status \in STRING : Deleted(E, i, status, o) \in KeyedRows
  <2> SUFFICES ASSUME NEW status \in STRING PROVE Deleted(E, i, status, o) \in KeyedRows
    OBVIOUS
  <2>1. CASE OwnedAs(E, i, status, o)
    BY <1>0, <1>a, <2>1, Constants DEF Deleted, Absent
  <2>2. CASE ~OwnedAs(E, i, status, o)
    BY <2>2 DEF Deleted
  <2> QED BY <2>1, <2>2
<1> QED BY <1>1, <1>2, <1>3, <1>4, <1>5, <1>6, <1>7

\* The columns the statements on the journal write.
LEMMA OperationColumns ==
  ASSUME NEW r \in Operations, NEW who \in Handlers \cup {Nobody}, NEW b \in BOOLEAN,
         NEW state \in {"held", "pending", "running", "retry", "completed"}, NEW keys \in SUBSET Attempts
  PROVE  /\ [r EXCEPT !.aged = b] \in Operations
         /\ [r EXCEPT !.wiped = keys] \in Operations
         /\ [r EXCEPT !.state = state, !.aged = b] \in Operations
         /\ [r EXCEPT !.state = state, !.claimer = who, !.aged = b] \in Operations
<1>1. [r EXCEPT !.aged = b] \in Operations /\ [r EXCEPT !.wiped = keys] \in Operations
  BY DEF Operations
<1>2. [r EXCEPT !.state = state, !.aged = b] \in Operations
  BY DEF Operations
<1>3. [r EXCEPT !.state = state, !.claimer = who, !.aged = b] \in Operations
  BY DEF Operations
<1> QED BY <1>1, <1>2, <1>3

\* Every statement on the journal leaves operations.
LEMMA JournalStatementTypes ==
  ASSUME NEW O \in [Attempts -> Operations], NEW o \in Attempts, NEW i \in Ids, NEW s \in Handlers,
         NEW kind \in {"upload_cleanup", "delete_tree"}, NEW keys \in SUBSET Attempts
  PROVE  /\ \A state \in {"held", "pending"} : Enqueued(O, o, kind, i, state) \in [Attempts -> Operations]
         /\ Touched(O, o) \in [Attempts -> Operations]
         /\ Activated(O, o) \in [Attempts -> Operations]
         /\ Claimed(O, o, s) \in [Attempts -> Operations]
         /\ \A b \in BOOLEAN : [O EXCEPT ![o].aged = b] \in [Attempts -> Operations]
         /\ Wiped(O, o, s, keys) \in [Attempts -> Operations]
         /\ \A state \in {"completed", "retry"} : Finished(O, o, s, state) \in [Attempts -> Operations]
<1>0. O[o] \in Operations
  OBVIOUS
<1>1. \A state \in {"held", "pending"} : Enqueued(O, o, kind, i, state) \in [Attempts -> Operations]
  <2>1. \A state \in {"held", "pending"} :
          [state |-> state, kind |-> kind, entry |-> i, claimer |-> Nobody, aged |-> FALSE, wiped |-> {}]
            \in Operations
    BY DEF Operations
  <2> QED BY <2>1 DEF Enqueued
<1>2. Touched(O, o) \in [Attempts -> Operations] /\ Activated(O, o) \in [Attempts -> Operations]
  BY <1>0, OperationColumns DEF Touched, Activated
<1>3. Claimed(O, o, s) \in [Attempts -> Operations]
  BY <1>0, OperationColumns DEF Claimed
<1>4. \A b \in BOOLEAN : [O EXCEPT ![o].aged = b] \in [Attempts -> Operations]
  BY <1>0, OperationColumns
<1>5. Wiped(O, o, s, keys) \in [Attempts -> Operations]
  BY <1>0, OperationColumns DEF Wiped
<1>6. \A state \in {"completed", "retry"} : Finished(O, o, s, state) \in [Attempts -> Operations]
  BY <1>0, OperationColumns DEF Finished
<1> QED BY <1>1, <1>2, <1>3, <1>4, <1>5, <1>6

\* A call that is made by s leaves everything of its type, if the tables and the handler it
\* leaves are.
LEMMA CallTypes ==
  ASSUME TypeInv, NEW s \in Handlers, NEW E \in KeyedRows, NEW O \in [Attempts -> Operations],
         NEW B \in SUBSET Attempts, NEW h \in Slots, SlotOK(h),
         Sql(s, E, O, h) \/ SqlFault(s, E, O, h) \/ R2(s, B, h) \/ R2Fault(s, B, h)
  PROVE  TypeInv'
<1>1. slot' = [slot EXCEPT ![s] = h]
  BY DEF Sql, SqlFault, R2, R2Fault, Become
<1>2. slot' \in [Handlers -> Slots] /\ \A t \in Handlers : SlotOK(slot[t]')
  BY <1>1 DEF TypeInv, TypeOK
<1>3. entries' \in KeyedRows /\ ops' \in [Attempts -> Operations] /\ blobs' \subseteq Attempts
  BY DEF TypeInv, TypeOK, Sql, SqlFault, R2, R2Fault
<1>4. attempts' \in 0..MaxAttempts /\ faults' \in 0..MaxFaults /\ late' \in BOOLEAN
  BY MaxFaultsAssumption DEF TypeInv, TypeOK, Sql, SqlFault, R2, R2Fault, Fault
<1>5. entries' \in [Ids -> Entries]
  BY <1>3 DEF KeyedRows
<1> QED BY <1>2, <1>3, <1>4, <1>5 DEF TypeInv, TypeOK

\* Where a handler may go.
LEMMA MoveTypes ==
  ASSUME TypeInv, NEW s \in Handlers
  PROVE  /\ Idle \in Slots /\ SlotOK(Idle)
         /\ slot[s] \in Slots
         /\ \A pc \in UploadPcs : slot[s].job = "upload" => Goto(s, pc) \in Slots /\ SlotOK(Goto(s, pc))
         /\ \A pc \in DeletePcs : slot[s].job = "delete" => Goto(s, pc) \in Slots /\ SlotOK(Goto(s, pc))
         /\ \A pc \in Busy : slot[s].pc \in Busy => Goto(s, pc) \in Slots /\ SlotOK(Goto(s, pc))
         /\ ~At(s, "idle") => NextOperation(s) \in Slots /\ SlotOK(NextOperation(s))
         /\ ~At(s, "idle") => Escape(s) \in Slots /\ SlotOK(Escape(s))
<1>0. slot[s] \in Slots /\ SlotOK(slot[s])
  BY DEF TypeInv, TypeOK
<1>1. Idle \in Slots /\ SlotOK(Idle)
  BY Constants DEF Idle, Slots, SlotOK, UploadPcs, DeletePcs, Busy, RecoverPcs
<1>2. \A pc \in UploadPcs : slot[s].job = "upload" => Goto(s, pc) \in Slots /\ SlotOK(Goto(s, pc))
  BY <1>0 DEF Goto, Slots, SlotOK, UploadPcs, DeletePcs, Busy, RecoverPcs
<1>3. \A pc \in DeletePcs : slot[s].job = "delete" => Goto(s, pc) \in Slots /\ SlotOK(Goto(s, pc))
  BY <1>0 DEF Goto, Slots, SlotOK, UploadPcs, DeletePcs, Busy, RecoverPcs
<1>4. \A pc \in Busy : slot[s].pc \in Busy => Goto(s, pc) \in Slots /\ SlotOK(Goto(s, pc))
  <2> SUFFICES ASSUME NEW pc \in Busy, slot[s].pc \in Busy
               PROVE  Goto(s, pc) \in Slots /\ SlotOK(Goto(s, pc))
    OBVIOUS
  <2>1. pc \in RecoverPcs /\ pc \notin UploadPcs /\ pc \notin DeletePcs /\ pc # "idle"
    BY DEF Busy, RecoverPcs, UploadPcs, DeletePcs
  <2>2. slot[s].pc # "idle"
    BY DEF Busy, RecoverPcs
  <2>3. Goto(s, pc) \in Slots
    BY <1>0, <2>1 DEF Goto, Slots
  <2>4. Goto(s, pc) = [slot[s] EXCEPT !.pc = pc]
    BY DEF Goto
  <2> DEFINE g == Goto(s, pc)
  <2>5. /\ g.pc = pc /\ g.job = slot[s].job /\ g.attempt = slot[s].attempt /\ g.id = slot[s].id
        /\ g.after = slot[s].after /\ g.catch = slot[s].catch /\ g.cur = slot[s].cur
        /\ g.deleted = slot[s].deleted
    BY <1>0, <2>4 DEF Slots
  <2>6. slot[s].cur \in Attempts /\ slot[s].job # "none" /\ ~slot[s].deleted
    BY <1>0, <2>2 DEF SlotOK
  <2> HIDE DEF g
  <2>7. SlotOK(g)
    BY <1>0, <2>1, <2>5, <2>6 DEF SlotOK
  <2> QED BY <2>3, <2>7 DEF g
<1>5. ~At(s, "idle") => NextOperation(s) \in Slots /\ SlotOK(NextOperation(s))
  BY <1>0 DEF At, NextOperation, Goto, Slots, SlotOK, UploadPcs, DeletePcs, Busy, RecoverPcs
<1>6. ~At(s, "idle") => Escape(s) \in Slots /\ SlotOK(Escape(s))
  <2>1. CASE slot[s].catch = "idle"
    BY <1>1, <2>1 DEF Escape
  <2>2. CASE slot[s].catch # "idle"
    <3>1. slot[s].job = "upload" /\ slot[s].catch \in UploadPcs
      BY <1>0, <2>2 DEF Slots, SlotOK, UploadPcs
    <3> QED BY <1>0, <2>2, <3>1 DEF Escape, Goto, Slots, SlotOK, UploadPcs, DeletePcs, Busy, RecoverPcs
  <2> QED BY <2>1, <2>2
<1> QED BY <1>0, <1>1, <1>2, <1>3, <1>4, <1>5, <1>6

\* The tables and the handlers, as the actions use them.
LEMMA Tables ==
  ASSUME TypeInv
  PROVE  /\ entries \in KeyedRows /\ ops \in [Attempts -> Operations] /\ blobs \in SUBSET Attempts
         /\ \A s \in Handlers : slot[s] \in Slots /\ SlotOK(slot[s])
BY DEF TypeInv, TypeOK

\* A step of an upload keeps the types.
LEMMA UploadTypes ==
  ASSUME TypeInv, NEW s \in Handlers, UploadStep(s)
  PROVE  TypeInv'
<1>0. slot[s] \in Slots /\ SlotOK(slot[s])
  BY Tables
<1>1. slot[s].pc \in UploadPcs
  BY DEF UploadStep, UploadEnqueue, UploadInsert, UploadUndo, UploadPut, UploadTouch, UploadFinalize, UploadDone,
         UploadList, UploadGiveUp, UploadAgain, UploadReply, At, UploadPcs
<1> DEFINE o == slot[s].attempt
           i == slot[s].id
<1>2. slot[s].job = "upload" /\ o \in Attempts /\ i \in FileIds /\ i \in Ids /\ ~At(s, "idle")
  BY <1>0, <1>1, Constants DEF SlotOK, At, UploadPcs
<1>3. \A pc \in UploadPcs : Goto(s, pc) \in Slots /\ SlotOK(Goto(s, pc))
  BY <1>2, MoveTypes
<1>4. Idle \in Slots /\ SlotOK(Idle)
  BY MoveTypes
<1>5. \A all \in BOOLEAN, after \in {"idle", "uReply", "uAgain"}, catch \in {"idle", "uGiveUp", "uAgain"} :
        Reconcile(s, all, after, catch) \in Slots /\ SlotOK(Reconcile(s, all, after, catch))
  <2> SUFFICES ASSUME NEW all \in BOOLEAN, NEW after \in {"idle", "uReply", "uAgain"},
                      NEW catch \in {"idle", "uGiveUp", "uAgain"}
               PROVE  Reconcile(s, all, after, catch) \in Slots /\ SlotOK(Reconcile(s, all, after, catch))
    OBVIOUS
  <2>1. "rList" \in RecoverPcs \ (UploadPcs \cup DeletePcs \cup Busy \cup {"idle"})
    BY DEF UploadPcs, DeletePcs, RecoverPcs, Busy
  <2>2. Reconcile(s, all, after, catch) \in Slots
    BY <1>0, <2>1 DEF Reconcile, Slots
  <2> QED BY <1>0, <1>2, <2>1, <2>2 DEF Reconcile, Slots, SlotOK
<1>6. Activated(ops, o) \in [Attempts -> Operations] /\ Touched(ops, o) \in [Attempts -> Operations]
  BY <1>2, Tables, JournalStatementTypes
<1>7. entries \in KeyedRows /\ ops \in [Attempts -> Operations] /\ blobs \in SUBSET Attempts
  BY Tables
<1>a. CASE UploadEnqueue(s)
  <2>1. Enqueued(ops, o, "upload_cleanup", i, "held") \in [Attempts -> Operations]
    BY <1>2, <1>7, JournalStatementTypes
  <2> QED BY <1>a, <1>3, <1>4, <1>7, <2>1, CallTypes DEF UploadEnqueue, UploadPcs
<1>b. CASE UploadInsert(s)
  <2>1. InsertUpload(entries, i, slot[s].parent, slot[s].name, o) \in KeyedRows
    BY <1>0, <1>2, <1>7, EntryStatementTypes DEF Slots
  <2> QED BY <1>b, <1>3, <1>4, <1>7, <2>1, CallTypes DEF UploadInsert, UploadPcs
<1>c. CASE UploadUndo(s)
  BY <1>c, <1>4, <1>6, <1>7, CallTypes DEF UploadUndo
<1>d. CASE UploadPut(s)
  BY <1>d, <1>2, <1>3, <1>7, CallTypes DEF UploadPut, UploadPcs
<1>e. CASE UploadTouch(s)
  BY <1>e, <1>3, <1>6, <1>7, CallTypes DEF UploadTouch, UploadPcs
<1>f. CASE UploadFinalize(s)
  <2>1. CanFinalize(entries, i, o) => Finalized(entries, i) \in KeyedRows
    BY <1>2, <1>7, Constants DEF CanFinalize, Finalized, Entries, KeyedRows, Present
  <2> QED BY <1>f, <1>3, <1>7, <2>1, CallTypes DEF UploadFinalize, UploadPcs
<1>g. CASE UploadDone(s)
  BY <1>g, <1>3, <1>6, <1>7, CallTypes DEF UploadDone, UploadPcs
<1>h. CASE UploadList(s)
  BY <1>h, <1>3, <1>5, <1>7, CallTypes DEF UploadList, Read, ReadFault, UploadPcs
<1>i. CASE UploadGiveUp(s)
  BY <1>i, <1>5, <1>6, <1>7, CallTypes DEF UploadGiveUp
<1>j. CASE UploadAgain(s)
  BY <1>j, <1>5, <1>7, CallTypes DEF UploadAgain, Read
<1>k. CASE UploadReply(s)
  BY <1>k, <1>3, <1>4, <1>7, CallTypes DEF UploadReply, Read, ReadFault, UploadPcs
<1> QED BY <1>a, <1>b, <1>c, <1>d, <1>e, <1>f, <1>g, <1>h, <1>i, <1>j, <1>k DEF UploadStep

\* A step of a deletion keeps the types.
LEMMA DeleteTypes ==
  ASSUME TypeInv, NEW s \in Handlers, DeleteStep(s)
  PROVE  TypeInv'
<1>0. slot[s] \in Slots /\ SlotOK(slot[s])
  BY Tables
<1>1. slot[s].pc \in DeletePcs
  BY DEF DeleteStep, DeleteEnqueue, DeleteClaim, DeleteCheck, At, DeletePcs
<1> DEFINE o == slot[s].attempt
           i == slot[s].id
<1>2. slot[s].job = "delete" /\ o \in Attempts /\ i \in Ids /\ ~At(s, "idle")
  BY <1>0, <1>1 DEF Slots, SlotOK, At, DeletePcs
<1>3. \A pc \in DeletePcs : Goto(s, pc) \in Slots /\ SlotOK(Goto(s, pc))
  BY <1>2, MoveTypes
<1>4. Idle \in Slots /\ SlotOK(Idle)
  BY MoveTypes
<1>5. Reconcile(s, TRUE, "xCheck", "idle") \in Slots /\ SlotOK(Reconcile(s, TRUE, "xCheck", "idle"))
  <2>1. "rList" \in RecoverPcs \ (UploadPcs \cup DeletePcs \cup Busy \cup {"idle"})
    BY DEF UploadPcs, DeletePcs, RecoverPcs, Busy
  <2>2. Reconcile(s, TRUE, "xCheck", "idle") \in Slots
    BY <1>0, <2>1 DEF Reconcile, Slots
  <2> QED BY <1>0, <1>2, <2>1, <2>2 DEF Reconcile, Slots, SlotOK
<1>6. ReportDeleted(s) \in Slots /\ SlotOK(ReportDeleted(s))
  <2>1. ReportDeleted(s) \in Slots
    BY <1>2, <1>4 DEF ReportDeleted, Slots
  <2> QED BY <1>2, <1>4, <2>1 DEF ReportDeleted, Slots, SlotOK, Idle
<1>7. entries \in KeyedRows /\ ops \in [Attempts -> Operations] /\ blobs \in SUBSET Attempts
  BY Tables
<1>a. CASE DeleteEnqueue(s)
  <2>1. Enqueued(ops, o, "delete_tree", i, "pending") \in [Attempts -> Operations]
    BY <1>2, <1>7, JournalStatementTypes
  <2> QED BY <1>a, <1>3, <1>4, <1>7, <2>1, CallTypes DEF DeleteEnqueue, DeletePcs
<1>b. CASE DeleteClaim(s)
  <2>1. ClaimedTree(entries, i, o) \in KeyedRows
    BY <1>0, <1>2, <1>7, EntryStatementTypes DEF Slots
  <2> QED BY <1>b, <1>4, <1>5, <1>7, <2>1, CallTypes DEF DeleteClaim
<1>c. CASE DeleteCheck(s)
  BY <1>c, <1>4, <1>6, <1>7, CallTypes DEF DeleteCheck, Read, ReadFault
<1> QED BY <1>a, <1>b, <1>c DEF DeleteStep

\* The steps on one operation.
BusyStep(s) ==
  \/ RecoverClaimed(s) \/ KeepRenew(s) \/ KeepDone(s) \/ TryDone(s) \/ TryRetry(s)
  \/ CleanRow(s) \/ CleanByKey(s) \/ CleanBlob(s) \/ CleanRenew(s) \/ CleanMark(s)
  \/ CleanUnlink(s)
  \/ DeleteRows(s) \/ DeleteBlob(s) \/ DeleteRenew(s) \/ DeleteMark(s) \/ DeleteLast(s)
  \/ DeleteMeta(s) \/ DeleteUnlink(s)

\* A heartbeat leaves an operation as it is, but for its age.
LEMMA RenewTypes ==
  ASSUME TypeInv, NEW s \in Handlers, slot[s].pc \in Busy, NEW pc \in Busy, Renew(s, pc)
  PROVE  TypeInv'
<1>0. slot[s].cur \in Attempts /\ ~At(s, "idle")
  BY Tables DEF SlotOK, At, Busy, RecoverPcs
<1>1. Goto(s, pc) \in Slots /\ SlotOK(Goto(s, pc)) /\ NextOperation(s) \in Slots /\ SlotOK(NextOperation(s))
  BY <1>0, MoveTypes
<1>2. entries \in KeyedRows /\ ops \in [Attempts -> Operations] /\ blobs \in SUBSET Attempts
  BY Tables
<1>3. [ops EXCEPT ![slot[s].cur].aged = FALSE] \in [Attempts -> Operations]
  BY <1>0, <1>2, OperationColumns
<1> QED BY <1>1, <1>2, <1>3, CallTypes DEF Renew

\* What a deletion reads of its tree fits into the record of its handler.
LEMMA TreeRead ==
  ASSUME NEW g \in Slots, SlotOK(g), NEW rows \in SUBSET Ids, NEW keys \in SUBSET Attempts, NEW more \in BOOLEAN
  PROVE  LET h == [g EXCEPT !.rows = rows, !.keys = keys, !.more = more]
         IN h \in Slots /\ SlotOK(h)
<1> DEFINE h == [g EXCEPT !.rows = rows, !.keys = keys, !.more = more]
<1>1. h \in Slots
  BY DEF Slots
<1>2. SlotOK(h)
  BY DEF Slots, SlotOK
<1> QED BY <1>1, <1>2

\* A step of a handler that runs an operation keeps the types.
LEMMA BusyTypes ==
  ASSUME TypeInv, NEW s \in Handlers, BusyStep(s)
  PROVE  TypeInv'
<1>0. slot[s] \in Slots /\ SlotOK(slot[s])
  BY Tables
<1>1. slot[s].pc \in Busy
  BY DEF BusyStep, RecoverClaimed, KeepRenew, KeepDone, TryDone, TryRetry, CleanRow, CleanByKey, CleanBlob,
         CleanRenew, CleanMark, CleanUnlink, DeleteRows, DeleteBlob, DeleteRenew, DeleteMark, DeleteLast,
         DeleteMeta, DeleteUnlink, At, Busy, RecoverPcs
<1> DEFINE o == slot[s].cur
<1>2. o \in Attempts /\ ~At(s, "idle")
  BY <1>0, <1>1 DEF SlotOK, At, Busy, RecoverPcs
<1>3. \A pc \in Busy : Goto(s, pc) \in Slots /\ SlotOK(Goto(s, pc))
  BY <1>1, MoveTypes
<1>4. NextOperation(s) \in Slots /\ SlotOK(NextOperation(s)) /\ Escape(s) \in Slots /\ SlotOK(Escape(s))
  BY <1>2, MoveTypes
<1>5. entries \in KeyedRows /\ ops \in [Attempts -> Operations] /\ blobs \in SUBSET Attempts
  BY Tables
<1>6. \A state \in {"completed", "retry"} : Finished(ops, o, s, state) \in [Attempts -> Operations]
  BY <1>2, <1>5, OperationColumns DEF Finished
<1>7. \A keys \in SUBSET Attempts : Wiped(ops, o, s, keys) \in [Attempts -> Operations]
  BY <1>2, <1>5, OperationColumns DEF Wiped
<1>8. \A i \in Ids : /\ Deleted(entries, i, "uploading", o) \in KeyedRows
                    /\ Deleted(entries, i, "deleting", o) \in KeyedRows
  BY <1>5, Constants DEF Deleted, KeyedRows, Present, Absent
<1>9. slot[s].keys \in SUBSET Attempts /\ slot[s].wiped \in SUBSET Attempts /\ slot[s].rows \in SUBSET Ids
  BY <1>0 DEF Slots
<1>10. ops[o].entry \in Ids /\ ops[o].wiped \in SUBSET Attempts
  BY <1>2, <1>5 DEF Operations
<1>a. CASE RecoverClaimed(s)
  <2>1. \A pc \in {"cRow", "dRows"} : [Goto(s, pc) EXCEPT !.wiped = ops[o].wiped] \in Slots
                                      /\ SlotOK([Goto(s, pc) EXCEPT !.wiped = ops[o].wiped])
    BY <1>3, <1>10 DEF Slots, SlotOK, Busy, RecoverPcs
  <2> QED BY <1>a, <1>4, <1>5, <2>1, CallTypes DEF RecoverClaimed, Read, ReadFault
<1>b. CASE KeepRenew(s) \/ CleanRenew(s) \/ DeleteRenew(s) \/ DeleteLast(s)
  BY <1>b, <1>1, RenewTypes DEF KeepRenew, CleanRenew, DeleteRenew, DeleteLast, Busy, RecoverPcs
<1>c. CASE KeepDone(s) \/ TryDone(s) \/ TryRetry(s)
  BY <1>c, <1>3, <1>4, <1>5, <1>6, CallTypes DEF KeepDone, TryDone, TryRetry, Busy, RecoverPcs
<1>d. CASE CleanRow(s)
  <2>1. \A pc \in {"cBlob", "cByKey"}, mine \in BOOLEAN :
          [Goto(s, pc) EXCEPT !.mine = mine] \in Slots /\ SlotOK([Goto(s, pc) EXCEPT !.mine = mine])
    BY <1>3 DEF Slots, SlotOK, Busy, RecoverPcs
  <2>2. OwnedAs(entries, ops[o].entry, "uploading", o) \in BOOLEAN
    BY DEF OwnedAs
  <2> QED BY <1>d, <1>4, <1>5, <2>1, <2>2, CallTypes DEF CleanRow, Read, ReadFault
<1>e. CASE CleanByKey(s)
  BY <1>e, <1>3, <1>4, <1>5, CallTypes DEF CleanByKey, Read, ReadFault, Busy, RecoverPcs
<1>f. CASE CleanBlob(s)
  BY <1>f, <1>3, <1>5, CallTypes DEF CleanBlob, Busy, RecoverPcs
<1>g. CASE CleanMark(s)
  BY <1>g, <1>2, <1>3, <1>5, <1>7, CallTypes DEF CleanMark, Busy, RecoverPcs
<1>h. CASE CleanUnlink(s)
  <2>1. Deleted(entries, ops[o].entry, "uploading", o) \in KeyedRows
    BY <1>8, <1>10
  <2> QED BY <1>h, <1>3, <1>5, <2>1, CallTypes DEF CleanUnlink, Busy, RecoverPcs
<1>i. CASE DeleteRows(s)
  <2> DEFINE rows == Tree(entries, ops[o].entry)
             keys == KeysOf(entries, rows) \ slot[s].wiped
             h(pc, K) == [Goto(s, pc) EXCEPT !.rows = rows, !.keys = K, !.more = K # keys]
  <2>1. rows \in SUBSET Ids
    BY DEF Tree
  <2>2. keys \in SUBSET Attempts
    BY <1>5 DEF KeysOf, Tree, KeyedRows
  <2>3. \A K \in Passes(s, keys) : K \in SUBSET keys
    BY DEF Passes
  <2> HIDE DEF rows, keys
  <2>4. ASSUME NEW K \in SUBSET keys, NEW pc \in {"dLast", "dBlob"}
        PROVE  h(pc, K) \in Slots /\ SlotOK(h(pc, K))
    <3>1. Goto(s, pc) \in Slots /\ SlotOK(Goto(s, pc))
      BY <1>3 DEF Busy, RecoverPcs
    <3>2. K \in SUBSET Attempts /\ (K # keys) \in BOOLEAN
      BY <2>2
    <3> DEFINE g == Goto(s, pc)
               gk == [g EXCEPT !.rows = rows, !.keys = K, !.more = K # keys]
    <3>3. g \in Slots /\ SlotOK(g)
      BY <3>1
    <3> HIDE DEF g
    <3>4. gk \in Slots /\ SlotOK(gk)
      BY <2>1, <3>2, <3>3, TreeRead
    <3> QED BY <3>4 DEF g
  <2>5. \/ Read(s, Goto(s, "kRenew"))
        \/ \E K \in Passes(s, keys) : Read(s, h(IF K = {} THEN "dLast" ELSE "dBlob", K))
        \/ ReadFault(s, Escape(s))
    BY <1>i DEF DeleteRows, rows, keys
  <2>6. Goto(s, "kRenew") \in Slots /\ SlotOK(Goto(s, "kRenew"))
    BY <1>3 DEF Busy, RecoverPcs
  <2>7. CASE \E K \in Passes(s, keys) : Read(s, h(IF K = {} THEN "dLast" ELSE "dBlob", K))
    <3>1. PICK K \in Passes(s, keys) : Read(s, h(IF K = {} THEN "dLast" ELSE "dBlob", K))
      BY <2>7
    <3>2. PICK pc \in {"dLast", "dBlob"} : Read(s, h(pc, K))
      BY <3>1
    <3>3. h(pc, K) \in Slots /\ SlotOK(h(pc, K))
      BY <2>3, <2>4
    <3> HIDE DEF h
    <3> QED BY <1>5, <3>2, <3>3, CallTypes DEF Read
  <2> HIDE DEF h
  <2> QED BY <1>4, <1>5, <2>5, <2>6, <2>7, CallTypes DEF Read, ReadFault
<1>j. CASE DeleteBlob(s)
  <2>1. ASSUME NEW k \in slot[s].keys
        PROVE  LET h == [Goto(s, "dRenew") EXCEPT !.keys = @ \ {k}, !.wiped = @ \cup {k}]
               IN h \in Slots /\ SlotOK(h)
    <3> DEFINE g == Goto(s, "dRenew")
               h == [g EXCEPT !.keys = @ \ {k}, !.wiped = @ \cup {k}]
    <3>1. g \in Slots /\ SlotOK(g)
      BY <1>3 DEF Busy, RecoverPcs
    <3>2. k \in Attempts
      BY <1>9
    <3> HIDE DEF g
    <3>3. h \in Slots
      BY <3>1, <3>2 DEF Slots
    <3>4. SlotOK(h)
      BY <3>1 DEF Slots, SlotOK
    <3> QED BY <3>3, <3>4 DEF g
  <2> DEFINE h(k) == [Goto(s, "dRenew") EXCEPT !.keys = @ \ {k}, !.wiped = @ \cup {k}]
  <2>2. PICK k \in slot[s].keys : R2(s, blobs \ {k}, h(k)) \/ R2Fault(s, blobs \ {k}, Goto(s, "tRetry"))
    BY <1>j DEF DeleteBlob
  <2>3. h(k) \in Slots /\ SlotOK(h(k)) /\ Goto(s, "tRetry") \in Slots /\ SlotOK(Goto(s, "tRetry"))
    BY <1>3, <2>1 DEF Busy, RecoverPcs
  <2> HIDE DEF h
  <2> QED BY <1>5, <2>2, <2>3, CallTypes
<1>k. CASE DeleteMark(s) \/ DeleteMeta(s)
  BY <1>k, <1>3, <1>5, <1>7, <1>9, CallTypes DEF DeleteMark, DeleteMeta, Busy, RecoverPcs
<1>l. CASE DeleteUnlink(s)
  <2>1. \A i \in Ids : [slot[s] EXCEPT !.rows = @ \ {i}] \in Slots /\ SlotOK([slot[s] EXCEPT !.rows = @ \ {i}])
    BY <1>0 DEF Slots, SlotOK
  <2>2. \A pc \in {"tDone", "tRetry"} : Goto(s, pc) \in Slots /\ SlotOK(Goto(s, pc))
    BY <1>3 DEF Busy, RecoverPcs
  <2>3. CASE Read(s, Goto(s, "tDone"))
    BY <1>5, <2>2, <2>3, CallTypes DEF Read
  <2>4. ASSUME NEW i \in slot[s].rows, NEW h \in {[slot[s] EXCEPT !.rows = @ \ {i}], Goto(s, "tDone"), Goto(s, "tRetry")},
               Sql(s, Deleted(entries, i, "deleting", o), ops, h) \/ SqlFault(s, Deleted(entries, i, "deleting", o), ops, h)
        PROVE  TypeInv'
    <3>1. Deleted(entries, i, "deleting", o) \in KeyedRows
      BY <1>8, <1>9
    <3>2. h \in Slots /\ SlotOK(h)
      BY <1>9, <2>1, <2>2
    <3> QED BY <1>5, <2>4, <3>1, <3>2, CallTypes
  <2> QED BY <1>l, <2>3, <2>4 DEF DeleteUnlink
<1> QED BY <1>a, <1>b, <1>c, <1>d, <1>e, <1>f, <1>g, <1>h, <1>i, <1>j, <1>k, <1>l DEF BusyStep

\* A step that lists or takes operations keeps the types.
LEMMA RecoverTypes ==
  ASSUME TypeInv, NEW s \in Handlers, RecoverList(s) \/ RecoverClaim(s)
  PROVE  TypeInv'
<1>0. slot[s] \in Slots /\ SlotOK(slot[s])
  BY Tables
<1>1. ~At(s, "idle")
  BY DEF RecoverList, RecoverClaim, At
<1>2. "rClaim" \in RecoverPcs \ (UploadPcs \cup DeletePcs \cup Busy \cup {"idle"})
  BY DEF UploadPcs, DeletePcs, RecoverPcs, Busy
<1>3. Idle \in Slots /\ SlotOK(Idle) /\ Escape(s) \in Slots /\ SlotOK(Escape(s))
  BY <1>1, MoveTypes
<1>4. entries \in KeyedRows /\ ops \in [Attempts -> Operations] /\ blobs \in SUBSET Attempts
  BY Tables
<1>a. CASE RecoverList(s)
  <2>1. ASSUME NEW todo \in SUBSET Attempts
        PROVE  [Goto(s, "rClaim") EXCEPT !.todo = todo] \in Slots /\ SlotOK([Goto(s, "rClaim") EXCEPT !.todo = todo])
    <3>1. [Goto(s, "rClaim") EXCEPT !.todo = todo] \in Slots
      BY <1>0, <1>2 DEF Goto, Slots
    <3> QED BY <1>0, <1>1, <1>2, <3>1 DEF Goto, Slots, SlotOK, At
  <2>2. \A todo \in SUBSET Attempts : Read(s, [Goto(s, "rClaim") EXCEPT !.todo = todo]) => TypeInv'
    BY <1>4, <2>1, CallTypes DEF Read
  <2>3. ReadFault(s, Escape(s)) => TypeInv'
    BY <1>3, <1>4, CallTypes DEF ReadFault
  <2>4. \/ \E todo \in SUBSET Attempts : Read(s, [Goto(s, "rClaim") EXCEPT !.todo = todo])
        \/ ReadFault(s, Escape(s))
    <3>1. {o \in Attempts : Runnable(ops, o)} \in SUBSET Attempts
      OBVIOUS
    <3>2. \A o \in {p \in Attempts : Runnable(ops, p)} : {o} \in SUBSET Attempts
      OBVIOUS
    <3> QED BY <1>a, <3>1, <3>2 DEF RecoverList
  <2> QED BY <2>2, <2>3, <2>4
<1>b. CASE RecoverClaim(s)
  <2>1. CASE Read(s, IF slot[s].after = "idle" THEN Idle ELSE Goto(s, slot[s].after))
    <3>1. CASE slot[s].after = "idle"
      BY <1>3, <1>4, <2>1, <3>1, CallTypes DEF Read
    <3>2. CASE slot[s].after # "idle"
      <4>1. \/ slot[s].job = "upload" /\ slot[s].after \in UploadPcs
            \/ slot[s].job = "delete" /\ slot[s].after \in DeletePcs
        BY <1>0, <3>2 DEF Slots, SlotOK, UploadPcs, DeletePcs
      <4>2. Goto(s, slot[s].after) \in Slots /\ SlotOK(Goto(s, slot[s].after))
        BY <4>1, MoveTypes
      <4> QED BY <1>4, <2>1, <3>2, <4>2, CallTypes DEF Read
    <3> QED BY <3>1, <3>2
  <2>2. ASSUME NEW o \in slot[s].todo,
               LET hit == Runnable(ops, o)
                   O == IF hit THEN Claimed(ops, o, s) ELSE ops
                   h == [slot[s] EXCEPT !.todo = @ \ {o}]
               IN \/ Sql(s, entries, O, IF hit THEN [h EXCEPT !.cur = o, !.pc = "rClaimed"] ELSE h)
                  \/ SqlFault(s, entries, O, Escape(s))
        PROVE  TypeInv'
    <3> DEFINE h == [slot[s] EXCEPT !.todo = @ \ {o}]
               g == [h EXCEPT !.cur = o, !.pc = "rClaimed"]
    <3>1. o \in Attempts
      BY <1>0 DEF Slots
    <3>2. h \in Slots /\ SlotOK(h)
      BY <1>0 DEF Slots, SlotOK
    <3>3. "rClaimed" \in Busy /\ "rClaimed" \in RecoverPcs \ (UploadPcs \cup DeletePcs \cup {"idle"})
      BY DEF UploadPcs, DeletePcs, RecoverPcs, Busy
    <3>4. g \in Slots
      BY <3>1, <3>2, <3>3 DEF Slots
    <3>5. SlotOK(g)
      BY <1>0, <1>1, <3>1, <3>3 DEF Slots, SlotOK, At
    <3>6. Claimed(ops, o, s) \in [Attempts -> Operations]
      BY <1>4, <3>1, OperationColumns DEF Claimed
    <3>7. \/ Sql(s, entries, Claimed(ops, o, s), g) \/ Sql(s, entries, ops, h)
          \/ SqlFault(s, entries, Claimed(ops, o, s), Escape(s)) \/ SqlFault(s, entries, ops, Escape(s))
      BY <2>2
    <3> HIDE DEF g, h
    <3> QED BY <1>3, <1>4, <3>2, <3>4, <3>5, <3>6, <3>7, CallTypes
  <2> QED BY <1>b, <2>1, <2>2 DEF RecoverClaim
<1> QED BY <1>a, <1>b

\* A request begins, ends without a word, or is one that only recovers.
LEMMA RequestTypes ==
  ASSUME TypeInv, NEW s \in Handlers, Start(s) \/ Evict(s) \/ \E all \in BOOLEAN : OtherRequest(s, all)
  PROVE  TypeInv'
<1>1. Idle \in Slots /\ SlotOK(Idle)
  BY MoveTypes
<1>2. entries \in KeyedRows /\ ops \in [Attempts -> Operations] /\ blobs \in SUBSET Attempts
  BY Tables
<1>3. ASSUME NEW h \in Slots, SlotOK(h), slot' = [slot EXCEPT ![s] = h]
      PROVE  slot' \in [Handlers -> Slots] /\ \A t \in Handlers : SlotOK(slot[t]')
  BY <1>3 DEF TypeInv, TypeOK
<1>a. CASE Start(s)
  <2>1. attempts < MaxAttempts /\ attempts' = attempts + 1 /\ UNCHANGED <<entries, ops, blobs, faults, late>>
    BY <1>a DEF Start, UploadStart, DeleteStart
  <2>2. attempts + 1 \in Attempts /\ attempts' \in 0..MaxAttempts
    BY <2>1, MaxAttemptsAssumption DEF TypeInv, TypeOK, Attempts
  <2>3. CASE \E i \in FileIds, p \in Folders, n \in Names : UploadStart(s, i, p, n)
    <3>1. PICK i \in FileIds, p \in Folders, n \in Names : UploadStart(s, i, p, n)
      BY <2>3
    <3> DEFINE h == [Idle EXCEPT !.job = "upload", !.pc = "uEnqueue", !.id = i, !.parent = p, !.name = n,
                                 !.attempt = attempts + 1]
    <3>2. h \in Slots
      <4>1. "uEnqueue" \in UploadPcs
        BY DEF UploadPcs
      <4> DEFINE g == Idle
      <4>2. g \in Slots
        BY <1>1
      <4> HIDE DEF g
      <4>3. [g EXCEPT !.job = "upload", !.pc = "uEnqueue", !.id = i, !.parent = p, !.name = n,
                             !.attempt = attempts + 1] \in Slots
        BY <2>2, <4>1, <4>2, Constants DEF Slots
      <4> QED BY <4>3 DEF g
    <3>3. SlotOK(h)
      BY <1>1, <2>2 DEF Idle, SlotOK, UploadPcs, DeletePcs, RecoverPcs, Busy
    <3>4. slot' = [slot EXCEPT ![s] = h]
      BY <3>1 DEF UploadStart, Become
    <3> HIDE DEF h
    <3> QED BY <1>3, <2>1, <2>2, <3>2, <3>3, <3>4 DEF TypeInv, TypeOK
  <2>4. CASE \E i \in Ids \ {Root} : DeleteStart(s, i)
    <3>1. PICK i \in Ids \ {Root} : DeleteStart(s, i)
      BY <2>4
    <3> DEFINE h == [Idle EXCEPT !.job = "delete", !.pc = "xEnqueue", !.id = i, !.attempt = attempts + 1]
    <3>2. h \in Slots
      <4>1. "xEnqueue" \in DeletePcs
        BY DEF DeletePcs
      <4> DEFINE g == Idle
      <4>2. g \in Slots
        BY <1>1
      <4> HIDE DEF g
      <4>3. [g EXCEPT !.job = "delete", !.pc = "xEnqueue", !.id = i, !.attempt = attempts + 1] \in Slots
        BY <2>2, <4>1, <4>2, Constants DEF Slots
      <4> QED BY <4>3 DEF g
    <3>3. SlotOK(h)
      BY <1>1, <2>2 DEF Idle, SlotOK, UploadPcs, DeletePcs, RecoverPcs, Busy
    <3>4. slot' = [slot EXCEPT ![s] = h]
      BY <3>1 DEF DeleteStart, Become
    <3> HIDE DEF h
    <3> QED BY <1>3, <2>1, <2>2, <3>2, <3>3, <3>4 DEF TypeInv, TypeOK
  <2> QED BY <1>a, <2>3, <2>4 DEF Start
<1>b. CASE Evict(s)
  <2>1. faults' \in 0..MaxFaults
    BY <1>b, MaxFaultsAssumption DEF Evict, Fault, TypeInv, TypeOK
  <2> QED BY <1>1, <1>3, <1>b, <2>1 DEF Evict, Fault, Become, TypeInv, TypeOK
<1>c. CASE \E all \in BOOLEAN : OtherRequest(s, all)
  <2>1. PICK all \in BOOLEAN : OtherRequest(s, all)
    BY <1>c
  <2> DEFINE h == [Idle EXCEPT !.job = "other", !.pc = "rList", !.all = all]
  <2>2. h \in Slots
    <3>1. "rList" \in RecoverPcs
      BY DEF RecoverPcs
    <3> DEFINE i == Idle
    <3>2. i \in Slots
      BY <1>1
    <3> HIDE DEF i
    <3>3. [i EXCEPT !.job = "other", !.pc = "rList", !.all = all] \in Slots
      BY <3>1, <3>2 DEF Slots
    <3> QED BY <3>3 DEF i
  <2>3. SlotOK(h)
    BY <1>1 DEF Idle, SlotOK, UploadPcs, DeletePcs, RecoverPcs, Busy
  <2>4. Read(s, h)
    BY <2>1 DEF OtherRequest
  <2> HIDE DEF h
  <2> QED BY <1>2, <2>2, <2>3, <2>4, CallTypes DEF Read
<1> QED BY <1>a, <1>b, <1>c

\* Folders, moves, renames and time.
LEMMA OutsideTypes ==
  ASSUME TypeInv, Mutate \/ \E o \in Attempts : OperationAges(o)
  PROVE  TypeInv'
<1>1. entries \in KeyedRows /\ ops \in [Attempts -> Operations]
  BY Tables
<1>a. CASE Mutate
  <2>1. entries' \in KeyedRows /\ UNCHANGED <<ops, blobs, slot, attempts, faults, late>>
    <3>0. 1 \in Attempts
      BY MaxAttemptsAssumption DEF Attempts
    <3>1. \A i \in FolderIds, p \in Folders, n \in Names : CreateFolder(i, p, n) => entries' \in KeyedRows
      BY <1>1, Constants, MaxAttemptsAssumption, EntryStatementTypes DEF CreateFolder, Plainly, Attempts
    <3>2. \A i \in Ids, p \in Folders : MoveEntry(i, p) => entries' \in KeyedRows
      <4> SUFFICES ASSUME NEW i \in Ids, NEW p \in Folders, MoveEntry(i, p) PROVE entries' \in KeyedRows
        OBVIOUS
      <4>1. CanMove(entries, i, p) => Moved(entries, i, p) \in KeyedRows
        BY <1>1, <3>0, EntryStatementTypes
      <4> QED BY <4>1 DEF MoveEntry, Plainly
    <3>3. \A i \in Ids, n \in Names : PatchEntry(i, n) => entries' \in KeyedRows
      <4> SUFFICES ASSUME NEW i \in Ids, NEW n \in Names, PatchEntry(i, n) PROVE entries' \in KeyedRows
        OBVIOUS
      <4>1. CanRename(entries, i, n) => Renamed(entries, i, n) \in KeyedRows
        BY <1>1, <3>0, Constants, EntryStatementTypes
      <4> QED BY <4>1 DEF PatchEntry, Plainly
    <3> QED BY <1>a, <3>1, <3>2, <3>3 DEF Mutate, CreateFolder, MoveEntry, PatchEntry, Plainly
  <2>2. entries' \in [Ids -> Entries]
    BY <2>1 DEF KeyedRows
  <2> QED BY <2>1, <2>2 DEF TypeInv, TypeOK
<1>b. CASE \E o \in Attempts : OperationAges(o)
  <2>1. PICK o \in Attempts : OperationAges(o)
    BY <1>b
  <2>2. ops' \in [Attempts -> Operations]
    BY <1>1, <2>1, OperationColumns DEF OperationAges
  <2>3. faults \in 0..MaxFaults /\ late \in BOOLEAN
    BY DEF TypeInv, TypeOK
  <2>4. faults' \in 0..MaxFaults /\ late' \in BOOLEAN /\ UNCHANGED <<entries, blobs, slot, attempts>>
    <3>1. faults' = faults \/ (faults > 0 /\ faults' = faults - 1)
      BY <2>1 DEF OperationAges
    <3>2. late' = late \/ late' = TRUE
      BY <2>1 DEF OperationAges
    <3>3. UNCHANGED <<entries, blobs, slot, attempts>>
      BY <2>1 DEF OperationAges
    <3>4. faults' \in 0..MaxFaults
      BY <2>3, <3>1, MaxFaultsAssumption
    <3> QED BY <2>3, <3>2, <3>3, <3>4
  <2> QED BY <2>2, <2>4 DEF TypeInv, TypeOK
<1> QED BY <1>a, <1>b

\* The first state has the types.
LEMMA InitTyped == Init => TypeInv
<1> SUFFICES ASSUME Init PROVE TypeInv
  OBVIOUS
<1>1. entries \in [Ids -> Entries] /\ entries \in KeyedRows
  <2>1. [Absent EXCEPT !.status = "ready"] \in Entries
    BY Constants DEF Absent, Entries
  <2>2. entries \in [Ids -> Entries]
    BY <2>1, Constants DEF Init
  <2>3. \A i \in FileIds : entries[i].status = "absent"
    BY Constants DEF Init, Absent
  <2> QED BY <2>2, <2>3 DEF KeyedRows, Present
<1>2. ops \in [Attempts -> Operations]
  BY Constants DEF Init, Operations
<1>3. Idle \in Slots /\ SlotOK(Idle)
  BY Constants DEF Idle, Slots, SlotOK, UploadPcs, DeletePcs, Busy, RecoverPcs
<1>4. 0 \in 0..MaxAttempts /\ MaxFaults \in 0..MaxFaults
  BY MaxAttemptsAssumption, MaxFaultsAssumption
<1> QED BY <1>1, <1>2, <1>3, <1>4 DEF Init, TypeInv, TypeOK

\* Every step leaves everything of its type.
LEMMA Typed == TypeInv /\ [Next]_vars => TypeInv'
<1> SUFFICES ASSUME TypeInv, [Next]_vars PROVE TypeInv'
  OBVIOUS
<1>1. CASE UNCHANGED vars
  BY <1>1 DEF vars, TypeInv, TypeOK
<1>2. ASSUME NEW s \in Handlers, Step(s) PROVE TypeInv'
  BY <1>2, UploadTypes, DeleteTypes, RecoverTypes, BusyTypes DEF Step, RecoverStep, BusyStep
<1> QED BY <1>1, <1>2, RequestTypes, OutsideTypes DEF Next

\* Everything is of its type, and the fields of a handler are those of its request and step.
THEOREM TypeCorrect == Spec => []TypeInv
BY InitTyped, Typed, PTL DEF Spec

-----------------------------------------------------------------------------
(* The shape of a step: where its handler goes.                            *)

\* All that the handler s can do.
HandlerStep(s) ==
  Start(s) \/ Step(s) \/ Evict(s) \/ \E all \in BOOLEAN : OtherRequest(s, all)

\* The handler of a step, after it.
LEMMA Lands ==
  ASSUME TypeInv, NEW s \in Handlers, NEW h, slot' = [slot EXCEPT ![s] = h]
  PROVE  slot'[s] = h /\ \A t \in Handlers \ {s} : slot'[t] = slot[t]
BY DEF TypeInv, TypeOK

\* What a move leaves of a handler.
Kept(h, g) == h.job = g.job /\ h.id = g.id /\ h.attempt = g.attempt

\* Where exceptions are caught.
Caught == {"idle", "uGiveUp", "uAgain"}

\* What a handler keeps when it goes on, takes the next operation, escapes or starts recovery.
LEMMA MoveFields ==
  ASSUME TypeInv, NEW s \in Handlers
  PROVE  /\ \A pc : /\ Goto(s, pc).pc = pc /\ Kept(Goto(s, pc), slot[s]) /\ Goto(s, pc).cur = slot[s].cur
                    /\ Goto(s, pc).mine = slot[s].mine /\ Goto(s, pc).rows = slot[s].rows
                    /\ Goto(s, pc).keys = slot[s].keys /\ Goto(s, pc).more = slot[s].more
                    /\ Goto(s, pc).wiped = slot[s].wiped /\ Goto(s, pc).deleted = slot[s].deleted
         /\ NextOperation(s).pc = "rClaim" /\ Kept(NextOperation(s), slot[s])
         /\ Escape(s).pc \in Caught /\ (Escape(s) = Idle \/ (Escape(s).pc # "idle" /\ Kept(Escape(s), slot[s])))
         /\ \A all, after, catch : /\ Reconcile(s, all, after, catch).pc = "rList"
                                  /\ Kept(Reconcile(s, all, after, catch), slot[s])
<1>1. slot[s] \in Slots /\ SlotOK(slot[s])
  BY Tables
<1>2. /\ NextOperation(s).pc = "rClaim" /\ Kept(NextOperation(s), slot[s])
      /\ \A all, after, catch : /\ Reconcile(s, all, after, catch).pc = "rList"
                               /\ Kept(Reconcile(s, all, after, catch), slot[s])
  BY <1>1 DEF NextOperation, Goto, Reconcile, Kept, Slots
<1>3. Escape(s).pc \in Caught /\ (Escape(s) = Idle \/ (Escape(s).pc # "idle" /\ Kept(Escape(s), slot[s])))
  <2>1. CASE slot[s].catch = "idle"
    BY <2>1 DEF Escape, Idle, Caught
  <2>2. CASE slot[s].catch # "idle"
    <3>1. slot[s].catch \in {"uGiveUp", "uAgain"}
      BY <1>1, <2>2 DEF Slots
    <3> QED BY <1>1, <2>2, <3>1 DEF Escape, Goto, Kept, Slots, Caught
  <2> QED BY <2>1, <2>2
<1>4. \A pc : /\ Goto(s, pc).pc = pc /\ Kept(Goto(s, pc), slot[s]) /\ Goto(s, pc).cur = slot[s].cur
             /\ Goto(s, pc).mine = slot[s].mine /\ Goto(s, pc).rows = slot[s].rows
             /\ Goto(s, pc).keys = slot[s].keys /\ Goto(s, pc).more = slot[s].more
             /\ Goto(s, pc).wiped = slot[s].wiped /\ Goto(s, pc).deleted = slot[s].deleted
  BY <1>1 DEF Goto, Kept, Slots
<1> QED BY <1>2, <1>3, <1>4

\* A call answers or throws; either way its handler goes where it says.
LEMMA Calls ==
  ASSUME TypeInv, NEW s \in Handlers, NEW E, NEW O, NEW B, NEW h,
         Sql(s, E, O, h) \/ SqlFault(s, E, O, h) \/ Read(s, h) \/ ReadFault(s, h) \/ R2(s, B, h) \/ R2Fault(s, B, h)
  PROVE  slot'[s] = h /\ \A t \in Handlers \ {s} : slot'[t] = slot[t]
BY Lands DEF Sql, SqlFault, Read, ReadFault, R2, R2Fault, Become

\* Where the steps of a handler lead; and what it keeps of itself.
Leads(s, pcs) ==
  /\ slot'[s].pc \in pcs
  /\ \A t \in Handlers \ {s} : slot'[t] = slot[t]
  /\ slot'[s] = Idle \/ Kept(slot'[s], slot[s])

\* The answer to a deletion that was found completed.
Reports(s) ==
  ops[slot[s].attempt].state = "completed" /\ slot[s].pc = "xCheck" /\ slot'[s] = ReportDeleted(s) /\ ops' = ops

\* A call of whose outcomes each stands at one of the steps pcs leads there.
LEMMA Leading ==
  ASSUME TypeInv, NEW s \in Handlers, NEW E, NEW O, NEW B, NEW pcs, NEW h,
         h.pc \in pcs, h = Idle \/ Kept(h, slot[s]),
         Sql(s, E, O, h) \/ SqlFault(s, E, O, h) \/ Read(s, h) \/ ReadFault(s, h) \/ R2(s, B, h) \/ R2Fault(s, B, h)
  PROVE  Leads(s, pcs)
BY Calls DEF Leads

\* From each step, the steps that may follow.
LEMMA Destinations ==
  ASSUME TypeInv, NEW s \in Handlers
  PROVE  /\ UploadEnqueue(s) => Leads(s, {"uInsert", "uUndo", "idle"})
         /\ UploadInsert(s) => Leads(s, {"uPut", "uUndo"})
         /\ UploadUndo(s) => Leads(s, {"idle"})
         /\ UploadPut(s) => Leads(s, {"uTouch", "uGiveUp"})
         /\ UploadTouch(s) => Leads(s, {"uFinalize", "uGiveUp"})
         /\ UploadFinalize(s) => Leads(s, {"uDone", "uGiveUp"})
         /\ UploadDone(s) => Leads(s, {"uList"})
         /\ UploadList(s) => Leads(s, {"rList", "uReply", "uGiveUp"})
         /\ UploadGiveUp(s) => Leads(s, {"rList"})
         /\ UploadAgain(s) => Leads(s, {"rList"})
         /\ UploadReply(s) => Leads(s, {"idle", "uAgain"})
         /\ DeleteEnqueue(s) => Leads(s, {"xClaim", "idle"})
         /\ DeleteClaim(s) => Leads(s, {"rList", "idle"})
         /\ DeleteCheck(s) => Leads(s, {"idle"}) \/ Reports(s)
         /\ RecoverList(s) => Leads(s, {"rClaim"} \cup Caught)
         /\ RecoverClaim(s) => Leads(s, {"rClaimed", "rClaim", "uReply", "xCheck"} \cup Caught)
         /\ RecoverClaimed(s) => Leads(s, {"cRow", "dRows", "rClaim"} \cup Caught)
         /\ KeepRenew(s) => Leads(s, {"kDone", "rClaim"})
         /\ KeepDone(s) => Leads(s, {"rClaim"} \cup Caught)
         /\ TryDone(s) => Leads(s, {"tRetry", "rClaim"})
         /\ TryRetry(s) => Leads(s, {"rClaim"} \cup Caught)
         /\ CleanRow(s) => Leads(s, {"cBlob", "cByKey"} \cup Caught)
         /\ CleanByKey(s) => Leads(s, {"kRenew", "cBlob"} \cup Caught)
         /\ CleanBlob(s) => Leads(s, {"cRenew", "tRetry"})
         /\ CleanRenew(s) => Leads(s, {"cMark", "tDone", "rClaim"})
         /\ CleanMark(s) => Leads(s, {"cUnlink", "tRetry"})
         /\ CleanUnlink(s) => Leads(s, {"tDone", "tRetry"})
         /\ DeleteRows(s) => Leads(s, {"kRenew", "dLast", "dBlob"} \cup Caught)
         /\ DeleteBlob(s) => Leads(s, {"dRenew", "tRetry"})
         /\ DeleteRenew(s) => Leads(s, {"dMark", "rClaim"})
         /\ DeleteMark(s) => Leads(s, {"dLast", "dBlob", "tRetry"})
         /\ DeleteLast(s) => Leads(s, {"tRetry", "dMeta", "rClaim"})
         /\ DeleteMeta(s) => Leads(s, {"dUnlink", "tRetry"})
         /\ DeleteUnlink(s) => Leads(s, {"tDone", "dUnlink", "tRetry"})
<1>0. Idle.pc = "idle" /\ \A pcs : {"idle", "uGiveUp", "uAgain"} \subseteq Caught
  BY DEF Idle, Caught
<1>r. \A pc : Renew(s, pc) => Leads(s, {pc, "rClaim"})
  BY MoveFields, Leading DEF Renew
<1>1. UploadEnqueue(s) => Leads(s, {"uInsert", "uUndo", "idle"})
  BY <1>0, MoveFields, Leading DEF UploadEnqueue
<1>2. UploadInsert(s) => Leads(s, {"uPut", "uUndo"})
  BY <1>0, MoveFields, Leading DEF UploadInsert
<1>3. UploadUndo(s) => Leads(s, {"idle"})
  BY <1>0, MoveFields, Leading DEF UploadUndo
<1>4. UploadPut(s) => Leads(s, {"uTouch", "uGiveUp"})
  BY <1>0, MoveFields, Leading DEF UploadPut
<1>5. UploadTouch(s) => Leads(s, {"uFinalize", "uGiveUp"})
  BY <1>0, MoveFields, Leading DEF UploadTouch
<1>6. UploadFinalize(s) => Leads(s, {"uDone", "uGiveUp"})
  BY <1>0, MoveFields, Leading DEF UploadFinalize
<1>7. UploadDone(s) => Leads(s, {"uList"})
  BY <1>0, MoveFields, Leading DEF UploadDone
<1>8. UploadList(s) => Leads(s, {"rList", "uReply", "uGiveUp"})
  <2> DEFINE h == Reconcile(s, FALSE, "uReply", "uGiveUp")
  <2>1. h.pc = "rList" /\ Kept(h, slot[s])
    BY MoveFields
  <2>2. UploadList(s) => Read(s, h) \/ Read(s, Goto(s, "uReply")) \/ ReadFault(s, Goto(s, "uGiveUp"))
    BY DEF UploadList
  <2> HIDE DEF h
  <2> QED BY <1>0, <2>1, <2>2, MoveFields, Leading
<1>9. UploadGiveUp(s) => Leads(s, {"rList"})
  <2> DEFINE h == Reconcile(s, FALSE, "uAgain", "uAgain")
  <2>1. h.pc = "rList" /\ Kept(h, slot[s])
    BY MoveFields
  <2>2. UploadGiveUp(s) => Sql(s, entries, Activated(ops, slot[s].attempt), h) \/ SqlFault(s, entries, Activated(ops, slot[s].attempt), h)
    BY DEF UploadGiveUp
  <2> HIDE DEF h
  <2> QED BY <1>0, <2>1, <2>2, Leading
<1>10. UploadAgain(s) => Leads(s, {"rList"})
  <2> DEFINE h == Reconcile(s, FALSE, "idle", "idle")
  <2>1. h.pc = "rList" /\ Kept(h, slot[s])
    BY MoveFields
  <2>2. UploadAgain(s) => Read(s, h)
    BY DEF UploadAgain
  <2> HIDE DEF h
  <2> QED BY <1>0, <2>1, <2>2, Leading
<1>11. UploadReply(s) => Leads(s, {"idle", "uAgain"})
  BY <1>0, MoveFields, Leading DEF UploadReply
<1>12. DeleteEnqueue(s) => Leads(s, {"xClaim", "idle"})
  BY <1>0, MoveFields, Leading DEF DeleteEnqueue
<1>13. DeleteClaim(s) => Leads(s, {"rList", "idle"})
  <2> DEFINE h == Reconcile(s, TRUE, "xCheck", "idle")
  <2>1. h.pc = "rList" /\ Kept(h, slot[s])
    BY MoveFields
  <2>2. DeleteClaim(s) => \E E : Sql(s, E, ops, h) \/ Sql(s, E, ops, Idle) \/ SqlFault(s, E, ops, Idle)
    BY DEF DeleteClaim
  <2> HIDE DEF h
  <2> QED BY <1>0, <2>1, <2>2, Leading
<1>14. DeleteCheck(s) => Leads(s, {"idle"}) \/ Reports(s)
  <2>1. Read(s, Idle) \/ ReadFault(s, Idle) => Leads(s, {"idle"})
    BY <1>0, Leading
  <2>2. Read(s, ReportDeleted(s)) => slot'[s] = ReportDeleted(s) /\ ops' = ops
    BY Calls DEF Read, Sql
  <2> QED BY <2>1, <2>2 DEF DeleteCheck, Reports, At
<1>15. RecoverList(s) => Leads(s, {"rClaim"} \cup Caught)
  <2>1. \A todo : [Goto(s, "rClaim") EXCEPT !.todo = todo].pc = "rClaim"
                 /\ Kept([Goto(s, "rClaim") EXCEPT !.todo = todo], slot[s])
    BY Tables DEF Goto, Kept, Slots
  <2>2. Escape(s).pc \in Caught /\ (Escape(s) = Idle \/ Kept(Escape(s), slot[s]))
    BY <1>0, MoveFields
  <2>3. \A todo : Read(s, [Goto(s, "rClaim") EXCEPT !.todo = todo]) => Leads(s, {"rClaim"} \cup Caught)
    BY <2>1, Leading
  <2>4. ReadFault(s, Escape(s)) => Leads(s, {"rClaim"} \cup Caught)
    BY <2>2, Leading
  <2> QED BY <2>3, <2>4 DEF RecoverList
<1>16. RecoverClaim(s) => Leads(s, {"rClaimed", "rClaim", "uReply", "xCheck"} \cup Caught)
  <2> DEFINE pcs == {"rClaimed", "rClaim", "uReply", "xCheck"} \cup Caught
             h(o) == [slot[s] EXCEPT !.todo = @ \ {o}]
             g(o) == [h(o) EXCEPT !.cur = o, !.pc = "rClaimed"]
  <2> SUFFICES ASSUME RecoverClaim(s) PROVE Leads(s, pcs)
    OBVIOUS
  <2>1. slot[s] \in Slots /\ slot[s].pc = "rClaim" /\ slot[s].after \in {"idle", "uReply", "uAgain", "xCheck"}
    BY Tables DEF RecoverClaim, At, Slots
  <2>2. \A o : /\ h(o).pc = "rClaim" /\ Kept(h(o), slot[s])
              /\ g(o).pc = "rClaimed" /\ Kept(g(o), slot[s])
    BY <2>1 DEF Kept, Slots
  <2>3. Escape(s).pc \in pcs /\ (Escape(s) = Idle \/ Kept(Escape(s), slot[s]))
    BY <1>0, MoveFields
  <2>4. CASE Read(s, IF slot[s].after = "idle" THEN Idle ELSE Goto(s, slot[s].after))
    <3> DEFINE to == IF slot[s].after = "idle" THEN Idle ELSE Goto(s, slot[s].after)
    <3>1. to.pc \in pcs /\ (to = Idle \/ Kept(to, slot[s]))
      BY <1>0, <2>1, MoveFields DEF Caught
    <3> HIDE DEF to, pcs
    <3> QED BY <2>4, <3>1, Leading DEF to
  <2>5. ASSUME NEW o \in slot[s].todo,
               \/ Sql(s, entries, Claimed(ops, o, s), g(o)) \/ Sql(s, entries, ops, h(o))
               \/ SqlFault(s, entries, Claimed(ops, o, s), Escape(s)) \/ SqlFault(s, entries, ops, Escape(s))
        PROVE  Leads(s, pcs)
    <3>1. h(o).pc \in pcs /\ g(o).pc \in pcs /\ Kept(h(o), slot[s]) /\ Kept(g(o), slot[s])
      BY <2>2
    <3> HIDE DEF h, g, pcs
    <3> QED BY <2>3, <2>5, <3>1, Leading
  <2>6. \/ Read(s, IF slot[s].after = "idle" THEN Idle ELSE Goto(s, slot[s].after))
        \/ \E o \in slot[s].todo :
             \/ Sql(s, entries, Claimed(ops, o, s), g(o)) \/ Sql(s, entries, ops, h(o))
             \/ SqlFault(s, entries, Claimed(ops, o, s), Escape(s)) \/ SqlFault(s, entries, ops, Escape(s))
    BY DEF RecoverClaim
  <2> QED BY <2>4, <2>5, <2>6
<1>17. RecoverClaimed(s) => Leads(s, {"cRow", "dRows", "rClaim"} \cup Caught)
  <2> DEFINE h(pc, w) == [Goto(s, pc) EXCEPT !.wiped = w]
             pcs == {"cRow", "dRows", "rClaim"} \cup Caught
  <2>1. \A pc, w : h(pc, w).pc = pc /\ Kept(h(pc, w), slot[s])
    BY Tables DEF Goto, Kept, Slots
  <2>2. Escape(s).pc \in pcs /\ (Escape(s) = Idle \/ Kept(Escape(s), slot[s]))
    BY <1>0, MoveFields
  <2>3. RecoverClaimed(s) => \/ \E pc \in {"cRow", "dRows"} : \E w : Read(s, h(pc, w))
                    \/ ReadFault(s, Escape(s)) \/ Read(s, NextOperation(s))
    BY DEF RecoverClaimed
  <2>4. \A pc \in {"cRow", "dRows"} : pc \in pcs
    OBVIOUS
  <2>n. NextOperation(s).pc \in pcs /\ Kept(NextOperation(s), slot[s])
    BY MoveFields
  <2> HIDE DEF h, pcs
  <2>5. \A pc \in {"cRow", "dRows"} : \A w : Read(s, h(pc, w)) => Leads(s, pcs)
    BY <2>1, <2>4, Leading
  <2>6. RecoverClaimed(s) => Leads(s, pcs)
    BY <2>2, <2>3, <2>5, <2>n, Leading
  <2> QED BY <2>6 DEF pcs
<1>18. KeepRenew(s) => Leads(s, {"kDone", "rClaim"})
  BY <1>r DEF KeepRenew
<1>19. KeepDone(s) => Leads(s, {"rClaim"} \cup Caught)
  BY <1>0, MoveFields, Leading DEF KeepDone
<1>20. TryDone(s) => Leads(s, {"tRetry", "rClaim"})
  BY <1>0, MoveFields, Leading DEF TryDone
<1>21. TryRetry(s) => Leads(s, {"rClaim"} \cup Caught)
  BY <1>0, MoveFields, Leading DEF TryRetry
<1>22. CleanRow(s) => Leads(s, {"cBlob", "cByKey"} \cup Caught)
  <2> DEFINE h(pc, w) == [Goto(s, pc) EXCEPT !.mine = w]
             pcs == {"cBlob", "cByKey"} \cup Caught
  <2>1. \A pc, w : h(pc, w).pc = pc /\ Kept(h(pc, w), slot[s])
    BY Tables DEF Goto, Kept, Slots
  <2>2. Escape(s).pc \in pcs /\ (Escape(s) = Idle \/ Kept(Escape(s), slot[s]))
    BY <1>0, MoveFields
  <2>3. CleanRow(s) => \/ \E pc \in {"cBlob", "cByKey"} : \E w : Read(s, h(pc, w))
                    \/ ReadFault(s, Escape(s))
    BY DEF CleanRow
  <2>4. \A pc \in {"cBlob", "cByKey"} : pc \in pcs
    OBVIOUS
  <2> HIDE DEF h, pcs
  <2>5. \A pc \in {"cBlob", "cByKey"} : \A w : Read(s, h(pc, w)) => Leads(s, pcs)
    BY <2>1, <2>4, Leading
  <2>6. CleanRow(s) => Leads(s, pcs)
    BY <2>2, <2>3, <2>5, Leading
  <2> QED BY <2>6 DEF pcs
<1>23. CleanByKey(s) => Leads(s, {"kRenew", "cBlob"} \cup Caught)
  BY <1>0, MoveFields, Leading DEF CleanByKey
<1>24. CleanBlob(s) => Leads(s, {"cRenew", "tRetry"})
  BY <1>0, MoveFields, Leading DEF CleanBlob
<1>25. CleanRenew(s) => Leads(s, {"cMark", "tDone", "rClaim"})
  BY <1>r DEF CleanRenew, Leads
<1>26. CleanMark(s) => Leads(s, {"cUnlink", "tRetry"})
  BY <1>0, MoveFields, Leading DEF CleanMark
<1>27. CleanUnlink(s) => Leads(s, {"tDone", "tRetry"})
  BY <1>0, MoveFields, Leading DEF CleanUnlink
<1>28. DeleteRows(s) => Leads(s, {"kRenew", "dLast", "dBlob"} \cup Caught)
  <2> DEFINE h(pc, rows, K, more) == [Goto(s, pc) EXCEPT !.rows = rows, !.keys = K, !.more = more]
             pcs == {"kRenew", "dLast", "dBlob"} \cup Caught
  <2>1. \A pc, rows, K, more : h(pc, rows, K, more).pc = pc /\ Kept(h(pc, rows, K, more), slot[s])
    BY Tables DEF Goto, Kept, Slots
  <2>2. Escape(s).pc \in pcs /\ (Escape(s) = Idle \/ Kept(Escape(s), slot[s]))
    BY <1>0, MoveFields
  <2>3. Goto(s, "kRenew").pc \in pcs /\ Kept(Goto(s, "kRenew"), slot[s])
    BY MoveFields
  <2>4. "dLast" \in pcs /\ "dBlob" \in pcs
    OBVIOUS
  <2>5. DeleteRows(s) => \/ Read(s, Goto(s, "kRenew")) \/ ReadFault(s, Escape(s))
                         \/ \E pc \in {"dLast", "dBlob"} : \E rows, K, more : Read(s, h(pc, rows, K, more))
    BY DEF DeleteRows
  <2> HIDE DEF h, pcs
  <2>6. \A pc \in {"dLast", "dBlob"} : \A rows, K, more : Read(s, h(pc, rows, K, more)) => Leads(s, pcs)
    BY <2>1, <2>4, Leading
  <2>7. DeleteRows(s) => Leads(s, pcs)
    BY <2>2, <2>3, <2>5, <2>6, Leading
  <2> QED BY <2>7 DEF pcs
<1>29. DeleteBlob(s) => Leads(s, {"dRenew", "tRetry"})
  <2> DEFINE h(k) == [Goto(s, "dRenew") EXCEPT !.keys = @ \ {k}, !.wiped = @ \cup {k}]
  <2>1. \A k : h(k).pc = "dRenew" /\ Kept(h(k), slot[s])
    BY Tables DEF Goto, Kept, Slots
  <2>2. DeleteBlob(s) => \E k : R2(s, blobs \ {k}, h(k)) \/ R2Fault(s, blobs \ {k}, Goto(s, "tRetry"))
    BY DEF DeleteBlob
  <2>3. Goto(s, "tRetry").pc = "tRetry" /\ Kept(Goto(s, "tRetry"), slot[s])
    BY MoveFields
  <2> HIDE DEF h
  <2>4. ASSUME NEW k, R2(s, blobs \ {k}, h(k)) \/ R2Fault(s, blobs \ {k}, Goto(s, "tRetry"))
        PROVE  Leads(s, {"dRenew", "tRetry"})
    BY <2>1, <2>3, <2>4, Leading
  <2> QED BY <2>2, <2>4
<1>30. DeleteRenew(s) => Leads(s, {"dMark", "rClaim"})
  BY <1>r DEF DeleteRenew
<1>31. DeleteMark(s) => Leads(s, {"dLast", "dBlob", "tRetry"})
  BY <1>0, MoveFields, Leading DEF DeleteMark
<1>32. DeleteLast(s) => Leads(s, {"tRetry", "dMeta", "rClaim"})
  BY <1>r DEF DeleteLast, Leads
<1>33. DeleteMeta(s) => Leads(s, {"dUnlink", "tRetry"})
  BY <1>0, MoveFields, Leading DEF DeleteMeta
<1>34. DeleteUnlink(s) => Leads(s, {"tDone", "dUnlink", "tRetry"})
  <2> DEFINE h(i) == [slot[s] EXCEPT !.rows = @ \ {i}]
             E(i) == Deleted(entries, i, "deleting", slot[s].cur)
             pcs == {"tDone", "dUnlink", "tRetry"}
  <2> SUFFICES ASSUME DeleteUnlink(s) PROVE Leads(s, pcs)
    OBVIOUS
  <2>1. \A i : h(i).pc = "dUnlink" /\ Kept(h(i), slot[s])
    BY Tables DEF DeleteUnlink, At, Kept, Slots
  <2>2. \/ Read(s, Goto(s, "tDone"))
        \/ \E i : \/ Sql(s, E(i), ops, h(i)) \/ Sql(s, E(i), ops, Goto(s, "tDone"))
                  \/ SqlFault(s, E(i), ops, Goto(s, "tRetry"))
    BY DEF DeleteUnlink
  <2>3. \A i : h(i).pc \in pcs /\ Kept(h(i), slot[s])
    BY <2>1
  <2>4. \A pc \in {"tDone", "tRetry"} : Goto(s, pc).pc \in pcs /\ Kept(Goto(s, pc), slot[s])
    BY MoveFields
  <2> HIDE DEF h, E, pcs
  <2>5. ASSUME NEW i, \/ Sql(s, E(i), ops, h(i)) \/ Sql(s, E(i), ops, Goto(s, "tDone"))
                      \/ SqlFault(s, E(i), ops, Goto(s, "tRetry"))
        PROVE  Leads(s, pcs)
    BY <2>3, <2>4, <2>5, Leading
  <2>6. CASE Read(s, Goto(s, "tDone"))
    BY <2>4, <2>6, Leading
  <2> QED BY <2>2, <2>5, <2>6
<1> QED
  BY <1>1, <1>2, <1>3, <1>4, <1>5, <1>6, <1>7, <1>8, <1>9, <1>10, <1>11, <1>12, <1>13, <1>14, <1>15, <1>16, <1>17,
     <1>18, <1>19, <1>20, <1>21, <1>22, <1>23, <1>24, <1>25, <1>26, <1>27, <1>28, <1>29, <1>30, <1>31, <1>32, <1>33, <1>34

\* A request that begins, another one's, and an eviction.
LEMMA Beginnings ==
  ASSUME TypeInv, NEW s \in Handlers
  PROVE  /\ Start(s) => /\ slot'[s].pc \in {"uEnqueue", "xEnqueue"} /\ slot'[s].attempt = attempts + 1
                        /\ slot[s].pc = "idle" /\ attempts < MaxAttempts /\ attempts' = attempts + 1
                        /\ ~slot'[s].deleted
                        /\ UNCHANGED <<entries, ops, blobs, faults, late>>
         /\ Evict(s) => slot'[s] = Idle /\ UNCHANGED <<entries, ops, blobs, attempts>>
         /\ \A all \in BOOLEAN : OtherRequest(s, all) =>
              /\ slot'[s].pc = "rList" /\ slot'[s].job = "other" /\ slot'[s].attempt = None /\ ~slot'[s].deleted
              /\ UNCHANGED <<entries, ops, blobs, attempts, faults, late>>
         /\ Start(s) \/ Evict(s) \/ (\E all \in BOOLEAN : OtherRequest(s, all)) =>
              \A t \in Handlers \ {s} : slot'[t] = slot[t]
<1>1. Start(s) => /\ slot'[s].pc \in {"uEnqueue", "xEnqueue"} /\ slot'[s].attempt = attempts + 1
                  /\ slot[s].pc = "idle" /\ attempts < MaxAttempts /\ attempts' = attempts + 1
                  /\ ~slot'[s].deleted
                  /\ UNCHANGED <<entries, ops, blobs, faults, late>>
                  /\ \A t \in Handlers \ {s} : slot'[t] = slot[t]
  <2> SUFFICES ASSUME Start(s) PROVE /\ slot'[s].pc \in {"uEnqueue", "xEnqueue"} /\ slot'[s].attempt = attempts + 1
                                     /\ ~slot'[s].deleted
                                     /\ \A t \in Handlers \ {s} : slot'[t] = slot[t]
    BY DEF Start, UploadStart, DeleteStart, At
  <2>1. ASSUME NEW i, NEW p, NEW n, UploadStart(s, i, p, n)
        PROVE  /\ slot'[s].pc \in {"uEnqueue", "xEnqueue"} /\ slot'[s].attempt = attempts + 1 /\ ~slot'[s].deleted
               /\ \A t \in Handlers \ {s} : slot'[t] = slot[t]
    <3> DEFINE h == [Idle EXCEPT !.job = "upload", !.pc = "uEnqueue", !.id = i, !.parent = p, !.name = n,
                                 !.attempt = attempts + 1]
    <3>1. h.pc = "uEnqueue" /\ h.attempt = attempts + 1 /\ ~h.deleted
      BY DEF Idle
    <3>2. slot' = [slot EXCEPT ![s] = h]
      BY <2>1 DEF UploadStart, Become
    <3> HIDE DEF h
    <3> QED BY <3>1, <3>2, Lands
  <2>2. ASSUME NEW i, DeleteStart(s, i)
        PROVE  /\ slot'[s].pc \in {"uEnqueue", "xEnqueue"} /\ slot'[s].attempt = attempts + 1 /\ ~slot'[s].deleted
               /\ \A t \in Handlers \ {s} : slot'[t] = slot[t]
    <3> DEFINE h == [Idle EXCEPT !.job = "delete", !.pc = "xEnqueue", !.id = i, !.attempt = attempts + 1]
    <3>1. h.pc = "xEnqueue" /\ h.attempt = attempts + 1 /\ ~h.deleted
      BY DEF Idle
    <3>2. slot' = [slot EXCEPT ![s] = h]
      BY <2>2 DEF DeleteStart, Become
    <3> HIDE DEF h
    <3> QED BY <3>1, <3>2, Lands
  <2> QED BY <2>1, <2>2 DEF Start
<1>2. Evict(s) => slot'[s] = Idle /\ (\A t \in Handlers \ {s} : slot'[t] = slot[t]) /\ UNCHANGED <<entries, ops, blobs, attempts>>
  BY Lands DEF Evict, Become
<1>3. ASSUME NEW all \in BOOLEAN, OtherRequest(s, all)
      PROVE  /\ slot'[s].pc = "rList" /\ slot'[s].job = "other" /\ slot'[s].attempt = None /\ ~slot'[s].deleted
             /\ UNCHANGED <<entries, ops, blobs, attempts, faults, late>>
             /\ \A t \in Handlers \ {s} : slot'[t] = slot[t]
  <2> DEFINE h == [Idle EXCEPT !.job = "other", !.pc = "rList", !.all = all]
  <2>1. h.pc = "rList" /\ h.job = "other" /\ h.attempt = None /\ ~h.deleted
    BY DEF Idle
  <2>2. slot' = [slot EXCEPT ![s] = h] /\ UNCHANGED <<entries, ops, blobs, attempts, faults, late>>
    BY <1>3 DEF OtherRequest, Read, Sql, Become
  <2> HIDE DEF h
  <2> QED BY <2>1, <2>2, Lands
<1> QED BY <1>1, <1>2, <1>3

\* Which action brings a handler to a step.
Arrives(s) ==
  LET pc == slot'[s].pc
  IN /\ pc = "uInsert" => UploadEnqueue(s)
     /\ pc = "uPut" => UploadInsert(s)
     /\ pc = "uTouch" => UploadPut(s)
     /\ pc = "uFinalize" => UploadTouch(s)
     /\ pc = "xClaim" => DeleteEnqueue(s)
     /\ pc = "cRow" => RecoverClaimed(s)
     /\ pc = "dRows" => RecoverClaimed(s)
     /\ pc = "cByKey" => CleanRow(s)
     /\ pc = "cBlob" => CleanRow(s) \/ CleanByKey(s)
     /\ pc = "cRenew" => CleanBlob(s)
     /\ pc = "cMark" => CleanRenew(s)
     /\ pc = "cUnlink" => CleanMark(s)
     /\ pc = "kRenew" => CleanByKey(s) \/ DeleteRows(s)
     /\ pc = "kDone" => KeepRenew(s)
     /\ pc = "tDone" => CleanRenew(s) \/ CleanUnlink(s) \/ DeleteUnlink(s)
     /\ pc = "dBlob" => DeleteRows(s) \/ DeleteMark(s)
     /\ pc = "dRenew" => DeleteBlob(s)
     /\ pc = "dMark" => DeleteRenew(s)
     /\ pc = "dLast" => DeleteRows(s) \/ DeleteMark(s)
     /\ pc = "dMeta" => DeleteLast(s)
     /\ pc = "dUnlink" => DeleteMeta(s) \/ DeleteUnlink(s)
     /\ pc \in Busy => RecoverClaim(s) \/ BusyStep(s)
     /\ pc \in {"uEnqueue", "xEnqueue"} => Start(s)
     /\ \/ Start(s) \/ slot'[s] = Idle \/ Reports(s)
        \/ \E all \in BOOLEAN : OtherRequest(s, all)
        \/ Kept(slot'[s], slot[s]) /\ slot[s].pc # "idle"

\* A step of a handler arrives by its own rules and leaves the other handlers alone.
LEMMA Landings ==
  ASSUME TypeInv, NEW s \in Handlers, HandlerStep(s)
  PROVE  Arrives(s) /\ \A t \in Handlers \ {s} : slot'[t] = slot[t]
<1> USE DEF Arrives, Busy, RecoverPcs, Caught
<1>0. Step(s) => slot[s].pc # "idle"
  BY DEF Step, UploadStep, UploadEnqueue, UploadInsert, UploadUndo, UploadPut, UploadTouch, UploadFinalize, UploadDone,
         UploadList, UploadGiveUp, UploadAgain, UploadReply, DeleteStep, DeleteEnqueue, DeleteClaim, DeleteCheck,
         RecoverStep, RecoverList, RecoverClaim, RecoverClaimed, KeepRenew, KeepDone, TryDone, TryRetry, CleanRow,
         CleanByKey, CleanBlob, CleanRenew, CleanMark, CleanUnlink, DeleteRows, DeleteBlob, DeleteRenew, DeleteMark,
         DeleteLast, DeleteMeta, DeleteUnlink, At
<1>i. Idle.pc = "idle" /\ ReportDeleted(s).pc = "idle"
  BY DEF Idle, ReportDeleted
<1>1. CASE Start(s)
  BY <1>1, Beginnings
<1>2. CASE Evict(s)
  BY <1>2, <1>i, Beginnings
<1>3. CASE \E all \in BOOLEAN : OtherRequest(s, all)
  BY <1>3, Beginnings
<1>4. CASE UploadStep(s)
  <2>1. slot[s].pc # "idle"
    BY <1>0, <1>4 DEF Step
  <2> QED BY <1>4, <2>1, Destinations DEF UploadStep, Leads
<1>5. CASE DeleteStep(s)
  <2>1. slot[s].pc # "idle"
    BY <1>0, <1>5 DEF Step
  <2>2. DeleteCheck(s) => \A t \in Handlers \ {s} : slot'[t] = slot[t]
    BY Calls DEF DeleteCheck
  <2> QED BY <1>5, <1>i, <2>1, <2>2, Destinations DEF DeleteStep, Leads, Reports
<1>6. CASE RecoverList(s) \/ RecoverClaim(s)
  <2>1. slot[s].pc # "idle"
    BY <1>0, <1>6 DEF Step, RecoverStep
  <2> QED BY <1>6, <2>1, Destinations DEF Leads
<1>7. CASE BusyStep(s)
  <2>1. slot[s].pc # "idle"
    BY <1>0, <1>7 DEF Step, RecoverStep, BusyStep
  <2> QED BY <1>7, <2>1, Destinations DEF BusyStep, Leads
<1> QED BY <1>1, <1>2, <1>3, <1>4, <1>5, <1>6, <1>7 DEF HandlerStep, Step, RecoverStep, BusyStep

-----------------------------------------------------------------------------
(* The shape of a step: what it does to the tables and the bucket.         *)

RowInserted(s) ==
  LET h == slot[s]
  IN /\ h.pc = "uInsert" /\ CanInsert(entries, h.id, h.parent, h.name)
     /\ entries' = InsertUpload(entries, h.id, h.parent, h.name, h.attempt)

RowPublished(s) ==
  LET h == slot[s]
  IN h.pc = "uFinalize" /\ CanFinalize(entries, h.id, h.attempt) /\ entries' = Finalized(entries, h.id)

TreeClaimed(s) ==
  LET h == slot[s]
  IN h.pc = "xClaim" /\ CanClaimTree(entries, h.id) /\ entries' = ClaimedTree(entries, h.id, h.attempt)

UploadDropped(s) ==
  LET o == slot[s].cur
      i == ops[o].entry
  IN slot[s].pc = "cUnlink" /\ OwnedAs(entries, i, "uploading", o) /\ entries' = [entries EXCEPT ![i] = Absent]

RowDropped(s, i) ==
  LET h == slot[s]
  IN /\ h.pc = "dUnlink" /\ i \in h.rows /\ \A j \in h.rows \ {i} : entries[j].parent # i
     /\ OwnedAs(entries, i, "deleting", h.cur)
     /\ entries' = [entries EXCEPT ![i] = Absent]

EntriesEffect(s) ==
  \/ RowInserted(s) \/ RowPublished(s) \/ TreeClaimed(s) \/ UploadDropped(s)
  \/ \E i \in Ids : RowDropped(s, i)

UploadQueued(s) ==
  LET h == slot[s]
  IN h.pc = "uEnqueue" /\ ops' = Enqueued(ops, h.attempt, "upload_cleanup", h.id, "held")

DeleteQueued(s) ==
  LET h == slot[s]
  IN h.pc = "xEnqueue" /\ ops' = Enqueued(ops, h.attempt, "delete_tree", h.id, "pending")

OpWoken(s) ==
  LET o == slot[s].attempt
  IN /\ slot[s].pc \in {"uUndo", "uDone", "uGiveUp"} /\ ops[o].state = "held"
     /\ ops' = [ops EXCEPT ![o].state = "pending", ![o].aged = FALSE]

OpTouched(s) ==
  LET o == slot[s].attempt
  IN slot[s].pc = "uTouch" /\ ops[o].state = "held" /\ ops' = [ops EXCEPT ![o].aged = FALSE]

OpTaken(s, o) ==
  slot[s].pc = "rClaim" /\ o \in slot[s].todo /\ Runnable(ops, o) /\ ops' = Claimed(ops, o, s)

OpRenewed(s) ==
  LET o == slot[s].cur
  IN /\ slot[s].pc \in {"kRenew", "cRenew", "dRenew", "dLast"} /\ CanRenew(ops, o, s)
     /\ ops' = [ops EXCEPT ![o].aged = FALSE]

OpMarked(s) ==
  LET o == slot[s].cur
  IN /\ RunBy(ops, o, s)
     /\ \/ slot[s].pc = "cMark" /\ ops' = [ops EXCEPT ![o].wiped = {o}]
        \/ slot[s].pc \in {"dMark", "dMeta"} /\ ops' = [ops EXCEPT ![o].wiped = slot[s].wiped]

OpSettled(s, state) ==
  LET o == slot[s].cur
  IN /\ RunBy(ops, o, s)
     /\ \/ slot[s].pc \in {"kDone", "tDone"} /\ state = "completed"
        \/ slot[s].pc = "tRetry" /\ state = "retry"
     /\ ops' = [ops EXCEPT ![o].state = state, ![o].claimer = Nobody, ![o].aged = FALSE]

OpsEffect(s) ==
  \/ UploadQueued(s) \/ DeleteQueued(s) \/ OpWoken(s) \/ OpTouched(s) \/ OpRenewed(s) \/ OpMarked(s)
  \/ (\E o \in Attempts : OpTaken(s, o)) \/ \E state \in {"completed", "retry"} : OpSettled(s, state)

BlobPut(s) == slot[s].pc = "uPut" /\ blobs' = blobs \cup {slot[s].attempt}

BlobCleaned(s) == slot[s].pc = "cBlob" /\ blobs' = blobs \ {slot[s].cur}

BlobWiped(s, k) == slot[s].pc = "dBlob" /\ k \in slot[s].keys /\ blobs' = blobs \ {k}

BlobsEffect(s) == BlobPut(s) \/ BlobCleaned(s) \/ \E k \in Attempts : BlobWiped(s, k)

Effect(s) ==
  \/ UNCHANGED <<entries, ops, blobs>>
  \/ EntriesEffect(s) /\ UNCHANGED <<ops, blobs>>
  \/ OpsEffect(s) /\ UNCHANGED <<entries, blobs>>
  \/ BlobsEffect(s) /\ UNCHANGED <<entries, ops>>

\* The budget of failures; no step of a handler is late.
Budget == late' = late /\ (faults' = faults \/ (faults > 0 /\ faults' = faults - 1))

\* A call writes what it says or nothing, and may spend a failure.
LEMMA CallEffects ==
  ASSUME NEW s, NEW E, NEW O, NEW B, NEW h
  PROVE  /\ Sql(s, E, O, h) \/ SqlFault(s, E, O, h) =>
              /\ UNCHANGED <<entries, ops>> \/ (entries' = E /\ ops' = O)
              /\ blobs' = blobs /\ attempts' = attempts /\ Budget
         /\ Read(s, h) \/ ReadFault(s, h) => UNCHANGED <<entries, ops, blobs, attempts>> /\ Budget
         /\ R2(s, B, h) \/ R2Fault(s, B, h) =>
              (blobs' = blobs \/ blobs' = B) /\ UNCHANGED <<entries, ops, attempts>> /\ Budget
BY DEF Sql, SqlFault, Read, ReadFault, R2, R2Fault, Fault, Budget

\* A step of a handler changes the tables and the bucket in one of the ways listed.
LEMMA Effects ==
  ASSUME TypeInv, NEW s \in Handlers, HandlerStep(s)
  PROVE  Effect(s) /\ Budget /\ (attempts' = attempts \/ Start(s))
<1> DEFINE Goal == Effect(s) /\ Budget /\ attempts' = attempts
<1> USE DEF Effect, At
<1>1. Start(s) => Effect(s) /\ Budget
  BY Beginnings DEF Budget
<1>2. Evict(s) => Goal
  BY DEF Evict, Fault, Budget
<1>3. (\E all \in BOOLEAN : OtherRequest(s, all)) => Goal
  BY Beginnings DEF Budget
<1>4. UploadEnqueue(s) => Goal
  BY CallEffects DEF UploadEnqueue, OpsEffect, UploadQueued
<1>5. UploadInsert(s) => Goal
  BY CallEffects DEF UploadInsert, EntriesEffect, RowInserted
<1>6. UploadUndo(s) \/ UploadDone(s) \/ UploadGiveUp(s) => Goal
  BY CallEffects DEF UploadUndo, UploadDone, UploadGiveUp, Activated, OpsEffect, OpWoken
<1>7. UploadPut(s) => Goal
  BY CallEffects DEF UploadPut, BlobsEffect, BlobPut
<1>8. UploadTouch(s) => Goal
  BY CallEffects DEF UploadTouch, Touched, CanTouch, OpsEffect, OpTouched
<1>9. UploadFinalize(s) => Goal
  BY CallEffects DEF UploadFinalize, EntriesEffect, RowPublished
<1>10. UploadList(s) \/ UploadAgain(s) \/ UploadReply(s) \/ DeleteCheck(s) => Goal
  BY CallEffects DEF UploadList, UploadAgain, UploadReply, DeleteCheck
<1>11. DeleteEnqueue(s) => Goal
  BY CallEffects DEF DeleteEnqueue, OpsEffect, DeleteQueued
<1>12. DeleteClaim(s) => Goal
  BY CallEffects DEF DeleteClaim, EntriesEffect, TreeClaimed
<1>13. RecoverList(s) \/ RecoverClaimed(s) \/ CleanRow(s) \/ CleanByKey(s) \/ DeleteRows(s) => Goal
  BY CallEffects DEF RecoverList, RecoverClaimed, CleanRow, CleanByKey, DeleteRows
<1>0. slot[s].todo \subseteq Attempts /\ slot[s].keys \subseteq Attempts /\ slot[s].rows \subseteq Ids
  BY Tables DEF Slots
<1>14. RecoverClaim(s) => Goal
  <2> SUFFICES ASSUME RecoverClaim(s) PROVE Goal
    OBVIOUS
  <2>1. ASSUME NEW h, Read(s, h) PROVE Goal
    BY <2>1, CallEffects
  <2>2. ASSUME NEW o \in slot[s].todo, NEW h,
               \/ Sql(s, entries, ops, h) \/ SqlFault(s, entries, ops, h)
               \/ Runnable(ops, o) /\ (Sql(s, entries, Claimed(ops, o, s), h) \/ SqlFault(s, entries, Claimed(ops, o, s), h))
        PROVE  Goal
    <3>1. slot[s].pc = "rClaim" /\ o \in Attempts
      BY <1>0 DEF RecoverClaim
    <3>2. CASE Sql(s, entries, ops, h) \/ SqlFault(s, entries, ops, h)
      BY <3>2, CallEffects
    <3>3. CASE Runnable(ops, o) /\ (Sql(s, entries, Claimed(ops, o, s), h) \/ SqlFault(s, entries, Claimed(ops, o, s), h))
      BY <3>1, <3>3, CallEffects DEF OpsEffect, OpTaken
    <3> QED BY <2>2, <3>2, <3>3
  <2> QED BY <2>1, <2>2 DEF RecoverClaim
<1>15. KeepRenew(s) \/ CleanRenew(s) \/ DeleteRenew(s) \/ DeleteLast(s) => Goal
  BY CallEffects DEF KeepRenew, CleanRenew, DeleteRenew, DeleteLast, Renew, OpsEffect, OpRenewed
<1>16. KeepDone(s) \/ TryDone(s) \/ TryRetry(s) => Goal
  BY CallEffects DEF KeepDone, TryDone, TryRetry, Finished, OpsEffect, OpSettled
<1>17. CleanBlob(s) => Goal
  BY CallEffects DEF CleanBlob, BlobsEffect, BlobCleaned
<1>18. CleanMark(s) \/ DeleteMark(s) \/ DeleteMeta(s) => Goal
  BY CallEffects DEF CleanMark, DeleteMark, DeleteMeta, Wiped, OpsEffect, OpMarked
<1>19. CleanUnlink(s) => Goal
  BY CallEffects DEF CleanUnlink, Deleted, EntriesEffect, UploadDropped
<1>20. DeleteBlob(s) => Goal
  <2>1. ASSUME NEW k \in slot[s].keys, NEW h, slot[s].pc = "dBlob", R2(s, blobs \ {k}, h) \/ R2Fault(s, blobs \ {k}, h)
        PROVE  Goal
    <3>1. k \in Attempts
      BY <1>0
    <3> QED BY <2>1, <3>1, CallEffects DEF BlobsEffect, BlobWiped
  <2> QED BY <2>1 DEF DeleteBlob
<1>21. DeleteUnlink(s) => Goal
  <2>1. ASSUME NEW h, Read(s, h) PROVE Goal
    BY <2>1, CallEffects
  <2>2. ASSUME NEW i \in slot[s].rows, \A j \in slot[s].rows \ {i} : entries[j].parent # i, NEW h, slot[s].pc = "dUnlink",
               Sql(s, Deleted(entries, i, "deleting", slot[s].cur), ops, h)
               \/ SqlFault(s, Deleted(entries, i, "deleting", slot[s].cur), ops, h)
        PROVE  Goal
    <3>1. i \in Ids
      BY <1>0
    <3>2. entries' = Deleted(entries, i, "deleting", slot[s].cur) \/ entries' = entries
      BY <2>2, CallEffects
    <3>3. ops' = ops /\ blobs' = blobs /\ attempts' = attempts /\ Budget
      BY <2>2, CallEffects
    <3>4. entries' # entries => RowDropped(s, i)
      BY <2>2, <3>2 DEF Deleted, RowDropped
    <3> QED BY <3>1, <3>3, <3>4 DEF EntriesEffect
  <2> QED BY <2>1, <2>2 DEF DeleteUnlink
<1> QED
  BY <1>1, <1>2, <1>3, <1>4, <1>5, <1>6, <1>7, <1>8, <1>9, <1>10, <1>11, <1>12, <1>13, <1>14, <1>15, <1>16, <1>17,
     <1>18, <1>19, <1>20, <1>21
  DEF HandlerStep, Step, UploadStep, DeleteStep, RecoverStep

\* The operation at hand stays the same until the next one is taken.
LEMMA Carried ==
  ASSUME TypeInv, NEW s \in Handlers, BusyStep(s), slot'[s].pc \in Busy
  PROVE  slot'[s].cur = slot[s].cur
<1>1. \A pc : Goto(s, pc).cur = slot[s].cur
  BY MoveFields
<1>2. NextOperation(s).pc \notin Busy /\ Escape(s).pc \notin Busy
  BY MoveFields DEF Busy, RecoverPcs, Caught
<1>3. ASSUME NEW E, NEW O, NEW B, NEW h, h.cur = slot[s].cur \/ h.pc \notin Busy,
             Sql(s, E, O, h) \/ SqlFault(s, E, O, h) \/ Read(s, h) \/ ReadFault(s, h) \/ R2(s, B, h) \/ R2Fault(s, B, h)
      PROVE  slot'[s].cur = slot[s].cur
  BY <1>3, Calls
<1>4. \A pc : Renew(s, pc) => slot'[s].cur = slot[s].cur
  BY <1>1, <1>2, <1>3 DEF Renew
<1>5. RecoverClaimed(s) => slot'[s].cur = slot[s].cur
  <2> DEFINE h(pc, w) == [Goto(s, pc) EXCEPT !.wiped = w]
  <2>1. \A pc, w : h(pc, w).cur = slot[s].cur
    BY Tables DEF Goto, Slots
  <2>2. RecoverClaimed(s) => (\E pc, w : Read(s, h(pc, w))) \/ ReadFault(s, Escape(s)) \/ Read(s, NextOperation(s))
    BY DEF RecoverClaimed
  <2> HIDE DEF h
  <2>3. ASSUME NEW pc, NEW w, Read(s, h(pc, w)) PROVE slot'[s].cur = slot[s].cur
    BY <1>3, <2>1, <2>3
  <2>4. Read(s, NextOperation(s)) \/ ReadFault(s, Escape(s)) => slot'[s].cur = slot[s].cur
    BY <1>2, <1>3
  <2> QED BY <2>2, <2>3, <2>4
<1>6. KeepDone(s) \/ TryDone(s) \/ TryRetry(s) => slot'[s].cur = slot[s].cur
  BY <1>1, <1>2, <1>3 DEF KeepDone, TryDone, TryRetry
<1>7. CleanRow(s) => slot'[s].cur = slot[s].cur
  <2> DEFINE h(pc, w) == [Goto(s, pc) EXCEPT !.mine = w]
  <2>1. \A pc, w : h(pc, w).cur = slot[s].cur
    BY Tables DEF Goto, Slots
  <2>2. CleanRow(s) => (\E pc, w : Read(s, h(pc, w))) \/ ReadFault(s, Escape(s))
    BY DEF CleanRow
  <2> HIDE DEF h
  <2>3. ASSUME NEW pc, NEW w, Read(s, h(pc, w)) PROVE slot'[s].cur = slot[s].cur
    BY <1>3, <2>1, <2>3
  <2>4. ReadFault(s, Escape(s)) => slot'[s].cur = slot[s].cur
    BY <1>2, <1>3
  <2> QED BY <2>2, <2>3, <2>4
<1>8. CleanByKey(s) \/ CleanBlob(s) \/ CleanMark(s) \/ CleanUnlink(s) => slot'[s].cur = slot[s].cur
  <2>1. CleanByKey(s) => slot'[s].cur = slot[s].cur
    BY <1>1, <1>2, <1>3 DEF CleanByKey
  <2>2. CleanBlob(s) => slot'[s].cur = slot[s].cur
    BY <1>1, <1>2, <1>3 DEF CleanBlob
  <2>3. CleanMark(s) \/ CleanUnlink(s) => slot'[s].cur = slot[s].cur
    BY <1>1, <1>2, <1>3 DEF CleanMark, CleanUnlink
  <2> QED BY <2>1, <2>2, <2>3
<1>9. DeleteRows(s) => slot'[s].cur = slot[s].cur
  <2> DEFINE h(pc, rows, K, more) == [Goto(s, pc) EXCEPT !.rows = rows, !.keys = K, !.more = more]
  <2>1. \A pc, rows, K, more : h(pc, rows, K, more).cur = slot[s].cur
    BY Tables DEF Goto, Slots
  <2>2. DeleteRows(s) => \/ Read(s, Goto(s, "kRenew")) \/ ReadFault(s, Escape(s))
                         \/ \E pc, rows, K, more : Read(s, h(pc, rows, K, more))
    BY DEF DeleteRows
  <2> HIDE DEF h
  <2> QED BY <1>1, <1>2, <1>3, <2>1, <2>2
<1>10. DeleteBlob(s) => slot'[s].cur = slot[s].cur
  <2> DEFINE h(k) == [Goto(s, "dRenew") EXCEPT !.keys = @ \ {k}, !.wiped = @ \cup {k}]
  <2>1. \A k : h(k).cur = slot[s].cur
    BY Tables DEF Goto, Slots
  <2>2. DeleteBlob(s) => \E k : R2(s, blobs \ {k}, h(k)) \/ R2Fault(s, blobs \ {k}, Goto(s, "tRetry"))
    BY DEF DeleteBlob
  <2> HIDE DEF h
  <2>3. ASSUME NEW k, R2(s, blobs \ {k}, h(k)) \/ R2Fault(s, blobs \ {k}, Goto(s, "tRetry"))
        PROVE  slot'[s].cur = slot[s].cur
    BY <1>1, <1>3, <2>1, <2>3
  <2> QED BY <2>2, <2>3
<1>11. DeleteMark(s) \/ DeleteMeta(s) => slot'[s].cur = slot[s].cur
  BY <1>1, <1>3 DEF DeleteMark, DeleteMeta
<1>12. DeleteUnlink(s) => slot'[s].cur = slot[s].cur
  <2> DEFINE h(i) == [slot[s] EXCEPT !.rows = @ \ {i}]
             E(i) == Deleted(entries, i, "deleting", slot[s].cur)
  <2>1. \A i : h(i).cur = slot[s].cur
    BY Tables DEF Slots
  <2>2. DeleteUnlink(s) => \/ Read(s, Goto(s, "tDone"))
                           \/ \E i : \/ Sql(s, E(i), ops, h(i)) \/ Sql(s, E(i), ops, Goto(s, "tDone"))
                                     \/ SqlFault(s, E(i), ops, Goto(s, "tRetry"))
    BY DEF DeleteUnlink
  <2> HIDE DEF h, E
  <2>3. ASSUME NEW i, \/ Sql(s, E(i), ops, h(i)) \/ Sql(s, E(i), ops, Goto(s, "tDone"))
                      \/ SqlFault(s, E(i), ops, Goto(s, "tRetry"))
        PROVE  slot'[s].cur = slot[s].cur
    BY <1>1, <1>3, <2>1, <2>3
  <2> QED BY <1>1, <1>3, <2>2, <2>3
<1>13. KeepRenew(s) \/ CleanRenew(s) \/ DeleteRenew(s) \/ DeleteLast(s) => slot'[s].cur = slot[s].cur
  BY <1>4 DEF KeepRenew, CleanRenew, DeleteRenew, DeleteLast
<1> QED BY <1>5, <1>6, <1>7, <1>8, <1>9, <1>10, <1>11, <1>12, <1>13 DEF BusyStep

\* Which action leaves a step.
LEMMA Departures ==
  ASSUME NEW s \in Handlers, HandlerStep(s), ~Evict(s)
  PROVE  /\ slot[s].pc = "uEnqueue" => UploadEnqueue(s)
         /\ slot[s].pc = "uUndo" => UploadUndo(s)
         /\ slot[s].pc = "xEnqueue" => DeleteEnqueue(s)
         /\ slot[s].pc = "xClaim" => DeleteClaim(s)
BY DEF HandlerStep, Start, UploadStart, DeleteStart, OtherRequest, Step, UploadStep, UploadEnqueue, UploadInsert, UploadUndo, UploadPut, UploadTouch, UploadFinalize, UploadDone,
         UploadList, UploadGiveUp, UploadAgain, UploadReply, DeleteStep, DeleteEnqueue, DeleteClaim, DeleteCheck,
         RecoverStep, RecoverList, RecoverClaim, RecoverClaimed, KeepRenew, KeepDone, TryDone, TryRetry, CleanRow,
         CleanByKey, CleanBlob, CleanRenew, CleanMark, CleanUnlink, DeleteRows, DeleteBlob, DeleteRenew, DeleteMark,
         DeleteLast, DeleteMeta, DeleteUnlink, At

-----------------------------------------------------------------------------
(* The shape of a step, row by row and operation by operation.             *)

\* What the step of s does to row i.
RowChange(s, i) ==
  LET e == entries[i]
      f == entries'[i]
      h == slot[s]
  IN \/ f = e
     \/ /\ RowInserted(s) /\ i = h.id /\ e.status = "absent"
        /\ f.status = "uploading" /\ f.parent = h.parent /\ f.name = h.name /\ f.owner = h.attempt /\ f.key = h.attempt
     \/ /\ RowPublished(s) /\ i = h.id /\ e.status = "uploading" /\ e.owner = h.attempt
        /\ f.status = "ready" /\ f.parent = e.parent /\ f.name = e.name /\ f.owner = None /\ f.key = e.key
     \/ /\ TreeClaimed(s) /\ i \in Tree(entries, h.id) /\ e.status = "ready"
        /\ f.status = "deleting" /\ f.parent = e.parent /\ f.name = e.name /\ f.owner = h.attempt /\ f.key = e.key
     \/ UploadDropped(s) /\ i = ops[h.cur].entry /\ e.status = "uploading" /\ e.owner = h.cur /\ f = Absent
     \/ RowDropped(s, i) /\ e.status = "deleting" /\ e.owner = h.cur /\ f = Absent

\* Each of those ways changes one row as RowChange says.
LEMMA RowChanges ==
  ASSUME TypeInv, NEW s \in Handlers, Effect(s), NEW i \in Ids
  PROVE  RowChange(s, i)
<1>0. entries \in [Ids -> Entries] /\ slot[s] \in Slots
  BY Tables DEF KeyedRows
<1>1. RowInserted(s) => RowChange(s, i)
  BY <1>0 DEF RowInserted, CanInsert, Present, InsertUpload, RowChange
<1>2. RowPublished(s) => RowChange(s, i)
  BY <1>0 DEF RowPublished, CanFinalize, Finalized, RowChange, Entries
<1>3. ASSUME TreeClaimed(s) PROVE RowChange(s, i)
  <2>1. entries'[i] = IF i \in Tree(entries, slot[s].id)
                      THEN [entries[i] EXCEPT !.status = "deleting", !.owner = slot[s].attempt] ELSE entries[i]
    BY <1>3 DEF TreeClaimed, ClaimedTree
  <2>2. CASE i \in Tree(entries, slot[s].id)
    <3>1. entries[i].status = "ready"
      BY <1>3, <2>2 DEF TreeClaimed, CanClaimTree
    <3>2. entries[i] \in Entries
      BY <1>0
    <3> QED BY <1>3, <2>1, <2>2, <3>1, <3>2 DEF RowChange, Entries
  <2>3. CASE i \notin Tree(entries, slot[s].id)
    BY <2>1, <2>3 DEF RowChange
  <2> QED BY <2>2, <2>3
<1>4. UploadDropped(s) => RowChange(s, i)
  BY <1>0 DEF UploadDropped, OwnedAs, RowChange
<1>5. ASSUME NEW j \in Ids, RowDropped(s, j) PROVE RowChange(s, i)
  BY <1>0, <1>5 DEF RowDropped, OwnedAs, RowChange
<1>6. entries' = entries => RowChange(s, i)
  BY DEF RowChange
<1> QED BY <1>1, <1>2, <1>3, <1>4, <1>5, <1>6 DEF Effect, EntriesEffect

\* What the step of s does to operation o.
OpChange(s, o) ==
  LET e == ops[o]
      f == ops'[o]
      h == slot[s]
  IN \/ f = e
     \/ /\ h.pc = "uEnqueue" /\ o = h.attempt
        /\ f.state = "held" /\ f.kind = "upload_cleanup" /\ f.entry = h.id /\ f.wiped = {} /\ f.aged = FALSE
     \/ /\ h.pc = "xEnqueue" /\ o = h.attempt
        /\ f.state = "pending" /\ f.kind = "delete_tree" /\ f.entry = h.id /\ f.wiped = {} /\ f.aged = FALSE
     \/ /\ f.kind = e.kind /\ f.entry = e.entry
        /\ \/ /\ h.pc \in {"uUndo", "uDone", "uGiveUp"} /\ o = h.attempt
              /\ e.state = "held" /\ f.state = "pending" /\ f.wiped = e.wiped
           \/ h.pc = "uTouch" /\ o = h.attempt /\ e.state = "held" /\ f.state = "held" /\ f.wiped = e.wiped /\ f.aged = FALSE
           \/ h.pc = "rClaim" /\ o \in h.todo /\ Runnable(ops, o) /\ f.state = "running" /\ f.wiped = e.wiped
           \/ /\ o = h.cur /\ e.state = "running" /\ e.claimer = s
              /\ \/ h.pc = "cMark" /\ f.state = e.state /\ f.wiped = {o}
                 \/ h.pc \in {"dMark", "dMeta"} /\ f.state = e.state /\ f.wiped = h.wiped
                 \/ h.pc \in {"kDone", "tDone"} /\ f.state = "completed" /\ f.wiped = e.wiped
                 \/ h.pc = "tRetry" /\ f.state = "retry" /\ f.wiped = e.wiped

\* Each of those ways changes one operation as OpChange says.
LEMMA OpChanges ==
  ASSUME TypeInv, NEW s \in Handlers, Effect(s), NEW o \in Attempts
  PROVE  OpChange(s, o)
<1>0. ops \in [Attempts -> Operations] /\ ops[o] \in Operations
  BY Tables
<1>1. UploadQueued(s) => OpChange(s, o)
  BY <1>0 DEF UploadQueued, Enqueued, OpChange
<1>2. DeleteQueued(s) => OpChange(s, o)
  BY <1>0 DEF DeleteQueued, Enqueued, OpChange
<1>3. OpWoken(s) => OpChange(s, o)
  BY <1>0 DEF OpWoken, OpChange, Operations
<1>4. OpTouched(s) => OpChange(s, o)
  BY <1>0 DEF OpTouched, OpChange, Operations
<1>5. OpRenewed(s) => OpChange(s, o)
  <2>1. OpRenewed(s) => ops'[o] = ops[o]
    BY <1>0 DEF OpRenewed, CanRenew, Operations
  <2> QED BY <2>1 DEF OpChange
<1>6. OpMarked(s) => OpChange(s, o)
  BY <1>0 DEF OpMarked, RunBy, OpChange, Operations
<1>7. ASSUME NEW q \in Attempts, OpTaken(s, q) PROVE OpChange(s, o)
  BY <1>0, <1>7 DEF OpTaken, Claimed, OpChange, Operations
<1>8. ASSUME NEW state \in {"completed", "retry"}, OpSettled(s, state) PROVE OpChange(s, o)
  BY <1>0, <1>8 DEF OpSettled, RunBy, OpChange, Operations
<1>9. ops' = ops => OpChange(s, o)
  BY DEF OpChange
<1> QED BY <1>1, <1>2, <1>3, <1>4, <1>5, <1>6, <1>7, <1>8, <1>9 DEF Effect, OpsEffect

\* What the step of s does to the blob of k.
LEMMA BlobChanges ==
  ASSUME NEW s \in Handlers, Effect(s), NEW k \in Attempts
  PROVE  /\ k \in blobs' /\ k \notin blobs => slot[s].pc = "uPut" /\ slot[s].attempt = k
         /\ k \in blobs /\ k \notin blobs' =>
              (slot[s].pc = "cBlob" /\ slot[s].cur = k) \/ (slot[s].pc = "dBlob" /\ k \in slot[s].keys)
BY DEF Effect, BlobsEffect, BlobPut, BlobCleaned, BlobWiped

\* What folders, moves and renames do to row i.
Arranged(i) ==
  LET e == entries[i]
      f == entries'[i]
  IN \/ f = e
     \/ /\ i \in FolderIds /\ e.status = "absent" /\ (\A o \in Attempts : ops[o].entry # i)
        /\ f.status = "ready" /\ f.owner = None /\ f.key = None /\ ReadyFolder(entries, f.parent)
     \/ /\ i # Root /\ e.status = "ready" /\ f.status = "ready" /\ f.owner = e.owner /\ f.key = e.key
        /\ f.parent = e.parent \/ ReadyFolder(entries, f.parent)

\* A request on metadata changes rows only, each as Arranged says.
LEMMA Arrangements ==
  ASSUME TypeInv, Mutate
  PROVE  UNCHANGED <<ops, blobs, slot, attempts, faults, late>> /\ \A i \in Ids : Arranged(i)
<1>0. entries \in [Ids -> Entries]
  BY Tables DEF KeyedRows
<1>1. UNCHANGED <<ops, blobs, slot, attempts, faults, late>>
  BY DEF Mutate, CreateFolder, MoveEntry, PatchEntry, Plainly
<1>2. ASSUME NEW i \in FolderIds, NEW p \in Folders, NEW n \in Names, CreateFolder(i, p, n), NEW j \in Ids
      PROVE  Arranged(j)
  BY <1>0, <1>2 DEF CreateFolder, Plainly, CanInsert, Present, InsertFolder, Arranged
<1>3. ASSUME NEW i \in Ids, NEW p \in Folders, MoveEntry(i, p), NEW j \in Ids
      PROVE  Arranged(j)
  BY <1>0, <1>3 DEF MoveEntry, Plainly, CanMove, Mutable, Moved, Arranged, Entries
<1>4. ASSUME NEW i \in Ids, NEW n \in Names, PatchEntry(i, n), NEW j \in Ids
      PROVE  Arranged(j)
  BY <1>0, <1>4 DEF PatchEntry, Plainly, CanRename, Mutable, Renamed, Arranged, Entries
<1> QED BY <1>1, <1>2, <1>3, <1>4 DEF Mutate

\* What the passing of time does.
LEMMA Ageing ==
  ASSUME TypeInv, NEW o \in Attempts, OperationAges(o)
  PROVE  /\ UNCHANGED <<entries, blobs, slot, attempts>>
         /\ \A q \in Attempts : /\ q # o => ops'[q] = ops[q]
                               /\ ops'[q].state = ops[q].state /\ ops'[q].kind = ops[q].kind
                               /\ ops'[q].entry = ops[q].entry /\ ops'[q].wiped = ops[q].wiped
BY Tables DEF OperationAges, Operations

\* A step is a stutter, a request on metadata, a step of a handler, or the ageing of an operation.
LEMMA Cases ==
  ASSUME [Next]_vars
  PROVE  UNCHANGED vars \/ Mutate \/ (\E s \in Handlers : HandlerStep(s)) \/ \E o \in Attempts : OperationAges(o)
BY DEF Next, HandlerStep

\* A busy handler stands at one of its steps.
LEMMA BusyAt ==
  ASSUME NEW s \in Handlers, BusyStep(s)
  PROVE  slot[s].pc \in Busy
BY DEF BusyStep, Busy, RecoverPcs, RecoverClaimed, KeepRenew, KeepDone, TryDone, TryRetry, CleanRow, CleanByKey,
       CleanBlob, CleanRenew, CleanMark, CleanUnlink, DeleteRows, DeleteBlob, DeleteRenew, DeleteMark, DeleteLast,
       DeleteMeta, DeleteUnlink, Renew, At

\* The claim of an operation.
LEMMA Claiming ==
  ASSUME TypeInv, NEW s \in Handlers, RecoverClaim(s), slot'[s].pc \in Busy
  PROVE  /\ slot'[s].pc = "rClaimed" /\ slot'[s].cur \in slot[s].todo /\ slot'[s].cur \in Attempts
         /\ Runnable(ops, slot'[s].cur) /\ ops' = Claimed(ops, slot'[s].cur, s)
         /\ UNCHANGED <<entries, blobs, faults, late>>
<1> DEFINE h(o) == [slot[s] EXCEPT !.todo = @ \ {o}]
           g(o) == [h(o) EXCEPT !.cur = o, !.pc = "rClaimed"]
           to == IF slot[s].after = "idle" THEN Idle ELSE Goto(s, slot[s].after)
<1>0. slot[s] \in Slots /\ slot[s].pc = "rClaim"
  BY Tables DEF RecoverClaim, At
<1>1. to.pc \notin Busy
  BY <1>0, MoveFields DEF Slots, Idle, Busy, RecoverPcs
<1>2. Escape(s).pc \notin Busy
  BY MoveFields DEF Busy, RecoverPcs, Caught
<1>3. \A o : h(o).pc \notin Busy /\ g(o).pc = "rClaimed" /\ g(o).cur = o
  BY <1>0 DEF Slots, Busy
<1>4. \/ Read(s, to)
      \/ \E o \in slot[s].todo :
           \/ Runnable(ops, o) /\ Sql(s, entries, Claimed(ops, o, s), g(o))
           \/ Sql(s, entries, ops, h(o))
           \/ SqlFault(s, entries, Claimed(ops, o, s), Escape(s)) \/ SqlFault(s, entries, ops, Escape(s))
  BY DEF RecoverClaim
<1>5. slot[s].todo \subseteq Attempts
  BY <1>0 DEF Slots
<1> HIDE DEF g, h, to
<1>6. ~Read(s, to)
  BY <1>1, Calls
<1>7. PICK o \in slot[s].todo :
           \/ Runnable(ops, o) /\ Sql(s, entries, Claimed(ops, o, s), g(o))
           \/ Sql(s, entries, ops, h(o))
           \/ SqlFault(s, entries, Claimed(ops, o, s), Escape(s)) \/ SqlFault(s, entries, ops, Escape(s))
  BY <1>4, <1>6
<1>8. Runnable(ops, o) /\ Sql(s, entries, Claimed(ops, o, s), g(o))
  <2>1. Sql(s, entries, ops, h(o)) => slot'[s] = h(o)
    BY Calls
  <2>2. SqlFault(s, entries, Claimed(ops, o, s), Escape(s)) \/ SqlFault(s, entries, ops, Escape(s)) => slot'[s] = Escape(s)
    BY Calls
  <2> QED BY <1>2, <1>3, <1>7, <2>1, <2>2
<1>9. slot'[s] = g(o)
  BY <1>8, Calls
<1> QED BY <1>3, <1>5, <1>8, <1>9 DEF Sql

\* The kind of an operation decides what is done about it.
LEMMA Choosing ==
  ASSUME TypeInv, NEW s \in Handlers, RecoverClaimed(s), slot'[s].pc \in {"cRow", "dRows"}
  PROVE  /\ slot'[s].pc = "cRow" => ops[slot[s].cur].kind = "upload_cleanup"
         /\ slot'[s].pc = "dRows" => ops[slot[s].cur].kind = "delete_tree"
         /\ slot'[s].wiped = ops[slot[s].cur].wiped
         /\ RunBy(ops, slot[s].cur, s)
         /\ UNCHANGED <<entries, ops, blobs, faults, late>>
<1> DEFINE o == slot[s].cur
           h(pc) == [Goto(s, pc) EXCEPT !.wiped = ops[o].wiped]
<1>0. slot[s] \in Slots /\ o \in Attempts
  BY Tables DEF SlotOK, RecoverClaimed, At, Busy, RecoverPcs
<1>1. ops[o].kind \in {"upload_cleanup", "delete_tree"}
  BY <1>0, Tables DEF Operations
<1>2. \A pc : h(pc).pc = pc /\ h(pc).wiped = ops[o].wiped
  BY <1>0 DEF Goto, Slots
<1>3. \/ RunBy(ops, o, s) /\ Read(s, h(IF ops[o].kind = "upload_cleanup" THEN "cRow" ELSE "dRows"))
      \/ Read(s, NextOperation(s)) \/ ReadFault(s, Escape(s))
  BY DEF RecoverClaimed
<1> HIDE DEF h
<1>4. Read(s, NextOperation(s)) \/ ReadFault(s, Escape(s)) => slot'[s].pc \notin {"cRow", "dRows"}
  <2>1. NextOperation(s).pc \notin {"cRow", "dRows"} /\ Escape(s).pc \notin {"cRow", "dRows"}
    BY MoveFields DEF Caught
  <2>2. Read(s, NextOperation(s)) => slot'[s] = NextOperation(s)
    BY Calls
  <2>3. ReadFault(s, Escape(s)) => slot'[s] = Escape(s)
    BY Calls
  <2> QED BY <2>1, <2>2, <2>3
<1>5. slot'[s] = h(IF ops[o].kind = "upload_cleanup" THEN "cRow" ELSE "dRows") /\ RunBy(ops, o, s)
  BY <1>3, <1>4, Calls
<1>6. UNCHANGED <<entries, ops, blobs, faults, late>>
  BY <1>3, <1>4 DEF Read, Sql
<1> QED BY <1>1, <1>2, <1>5, <1>6

-----------------------------------------------------------------------------
(* Attempts.                                                               *)

\* An operation is never taken back, and what it is about never changes.
OpLives(o) ==
  ops[o].state # "absent" =>
    /\ ops'[o].state # "absent" /\ ops'[o].kind = ops[o].kind /\ ops'[o].entry = ops[o].entry
    /\ ops[o].state # "held" => ops'[o].state # "held"
    /\ ops[o].state = "completed" => ops'[o].state = "completed"

\* No step makes an operation absent or changes its kind or its entry, and completed is final.
LEMMA OpsLive ==
  ASSUME TypeInv, AttemptInv, [Next]_vars
  PROVE  \A o \in Attempts : OpLives(o)
<1>1. ASSUME NEW s \in Handlers, HandlerStep(s), NEW o \in Attempts PROVE OpLives(o)
  <2>1. OpChange(s, o)
    BY <1>1, Effects, OpChanges
  <2>2. slot[s].pc \in {"uEnqueue", "xEnqueue"} => ops[slot[s].attempt].state = "absent"
    BY DEF AttemptInv, HandlerQueued
  <2> QED BY <2>1, <2>2 DEF OpChange, OpLives, Runnable
<1>2. ASSUME NEW q \in Attempts, OperationAges(q), NEW o \in Attempts PROVE OpLives(o)
  BY <1>2, Ageing DEF OpLives
<1>3. CASE UNCHANGED vars \/ Mutate
  BY <1>3, Arrangements DEF vars, OpLives
<1> QED BY <1>1, <1>2, <1>3, Cases

\* A handler's attempt after a step.
LEMMA AttemptsGo ==
  ASSUME TypeInv, NEW s \in Handlers, HandlerStep(s)
  PROVE  /\ \/ Start(s) /\ slot'[s].attempt = attempts + 1 /\ attempts' = attempts + 1
            \/ slot'[s].attempt \in {None, slot[s].attempt} /\ attempts' = attempts
         /\ slot'[s].deleted => Reports(s) /\ slot'[s].attempt = slot[s].attempt
<1>1. TypeInv'
  BY OutsideTypes, RequestTypes, UploadTypes, DeleteTypes, RecoverTypes, BusyTypes DEF HandlerStep, Step, RecoverStep, BusyStep
<1>2. slot[s] \in Slots /\ SlotOK(slot[s]) /\ slot'[s] \in Slots /\ SlotOK(slot'[s])
  BY <1>1 DEF TypeInv, TypeOK
<1>3. Reports(s) => slot'[s].attempt = slot[s].attempt
  BY DEF Reports, ReportDeleted, Idle
<1>4. Idle.attempt = None /\ ~Idle.deleted
  BY DEF Idle
<1>5. Kept(slot'[s], slot[s]) /\ slot[s].pc # "idle" => ~slot'[s].deleted
  BY <1>2 DEF Kept, SlotOK
<1>6. Arrives(s) /\ (attempts' = attempts \/ Start(s))
  BY Landings, Effects
<1> QED BY <1>3, <1>4, <1>5, <1>6, Beginnings DEF Arrives, Kept

\* The key of a copy stays without an operation.
LEMMA ForeignStays ==
  ASSUME TypeInv, AttemptInv, [Next]_vars, NEW k \in Attempts, Foreign(k)
  PROVE  Foreign(k)'
<1>0. k \in Nat /\ k # None /\ attempts \in Nat
  BY Constants, MaxAttemptsAssumption DEF TypeInv, TypeOK
<1>a. ASSUME NEW s \in Handlers, HandlerStep(s) PROVE Foreign(k)'
  <2>1. /\ \/ slot'[s].attempt = attempts + 1 /\ attempts' = attempts + 1
           \/ slot'[s].attempt \in {None, slot[s].attempt} /\ attempts' = attempts
        /\ \A t \in Handlers \ {s} : slot'[t] = slot[t]
    BY <1>a, AttemptsGo, Landings
  <2>2. OpChange(s, k)
    BY <1>a, Effects, OpChanges
  <2>3. ops'[k].state = "absent"
    BY <2>2 DEF OpChange, Foreign, Runnable
  <2> QED BY <1>0, <2>1, <2>3 DEF Foreign
<1>b. CASE Mutate
  BY <1>b, Arrangements DEF Foreign
<1>c. ASSUME NEW o \in Attempts, OperationAges(o) PROVE Foreign(k)'
  BY <1>c, Ageing DEF Foreign
<1>d. CASE UNCHANGED vars
  BY <1>d DEF vars, Foreign
<1> QED BY <1>a, <1>b, <1>c, <1>d, Cases

\* An attempt is still used once after a step.
LEMMA OrderHolds ==
  ASSUME TypeInv, AttemptInv, [Next]_vars
  PROVE  AttemptsInOrder'
<1>0. /\ slot \in [Handlers -> Slots] /\ attempts \in Nat
      /\ ops \in [Attempts -> Operations]
      /\ \A s \in Handlers : slot[s].attempt \in Nat
  <2>1. \A s \in Handlers : slot[s].attempt \in Attempts \cup {None}
    BY Tables DEF Slots
  <2>2. attempts \in Nat
    BY MaxAttemptsAssumption DEF TypeInv, TypeOK
  <2> QED BY <2>1, <2>2, Constants DEF TypeInv, TypeOK
<1>a. ASSUME NEW s \in Handlers, HandlerStep(s) PROVE AttemptsInOrder'
  <2>1. /\ \/ Start(s) /\ slot'[s].attempt = attempts + 1 /\ attempts' = attempts + 1
           \/ slot'[s].attempt \in {None, slot[s].attempt} /\ attempts' = attempts
        /\ \A t \in Handlers \ {s} : slot'[t] = slot[t]
    BY <1>a, AttemptsGo, Landings
  <2>2. Effect(s)
    BY <1>a, Effects
  <2>3. \A t \in Handlers : slot'[t].attempt <= attempts'
    BY <1>0, <2>1 DEF AttemptInv, AttemptsInOrder, None
  <2>4. \A r, t \in Handlers : r # t /\ slot'[r].attempt = slot'[t].attempt => slot'[r].attempt = None
    <3> SUFFICES ASSUME NEW r \in Handlers, NEW t \in Handlers, r # t, slot'[r].attempt = slot'[t].attempt
                 PROVE  slot'[r].attempt = None
      OBVIOUS
    <3>1. slot[r].attempt = slot[t].attempt => slot[r].attempt = None
      BY DEF AttemptInv, AttemptsInOrder
    <3>2. slot[r].attempt <= attempts /\ slot[t].attempt <= attempts
      BY DEF AttemptInv, AttemptsInOrder
    <3> QED BY <1>0, <2>1, <3>1, <3>2
  <2>5. ASSUME NEW o \in Attempts, o > attempts' PROVE ops'[o].state = "absent"
    <3>1. o > attempts /\ ops[o].state = "absent"
      BY <1>0, <2>1, <2>5, Constants DEF AttemptInv, AttemptsInOrder
    <3>2. OpChange(s, o)
      BY <2>2, OpChanges
    <3>3. o # slot[s].attempt
      BY <1>0, <3>1, Constants DEF AttemptInv, AttemptsInOrder
    <3> QED BY <3>1, <3>2, <3>3 DEF OpChange, Runnable
  <2>6. ASSUME NEW o \in Attempts, ops'[o].state = "absent"
        PROVE  /\ \A i \in Ids : entries'[i].owner # o
               /\ Foreign(o)' \/ (o \notin blobs' /\ \A i \in Ids : entries'[i].key # o)
    <3>1. OpLives(o)
      BY OpsLive
    <3>2. ops[o].state = "absent"
      BY <2>6, <3>1 DEF OpLives
    <3>3. /\ \A i \in Ids : entries[i].owner # o
          /\ Foreign(o) \/ (o \notin blobs /\ \A i \in Ids : entries[i].key # o)
      BY <3>2 DEF AttemptInv, AttemptsInOrder
    <3>4. slot[s].pc \in {"uInsert", "uPut", "xClaim"} => slot[s].attempt # o
      <4>1. SlotOK(slot[s])
        BY Tables
      <4>2. HandlerQueued(s)
        BY DEF AttemptInv
      <4> QED BY <3>2, <4>1, <4>2 DEF SlotOK, HandlerQueued, Queued, UploadPcs, DeletePcs
    <3>5. o \notin blobs => o \notin blobs'
      BY <2>2, <3>4, BlobChanges
    <3>6. ASSUME NEW i \in Ids
          PROVE  entries'[i].owner # o /\ (entries[i].key # o => entries'[i].key # o)
      <4>1. RowChange(s, i)
        BY <2>2, RowChanges
      <4>2. Absent.key # o /\ Absent.owner # o
        BY Constants DEF Absent
      <4> QED BY <3>3, <3>4, <4>1, <4>2, Constants DEF RowChange, RowInserted, TreeClaimed
    <3> QED BY <3>3, <3>5, <3>6, ForeignStays
  <2> QED BY <2>3, <2>4, <2>5, <2>6 DEF AttemptsInOrder
<1>b. CASE Mutate
  <2>1. ASSUME NEW o \in Attempts, ops[o].state = "absent", NEW i \in Ids
        PROVE  entries'[i].owner # o /\ (entries[i].key # o => entries'[i].key # o)
    <3>1. Arranged(i)
      BY <1>b, Arrangements
    <3> QED BY <2>1, <3>1, Constants DEF Arranged, AttemptInv, AttemptsInOrder
  <2>2. \A o \in Attempts : Foreign(o) => Foreign(o)'
    BY ForeignStays
  <2> QED BY <1>b, <2>1, <2>2, Arrangements DEF AttemptInv, AttemptsInOrder
<1>c. ASSUME NEW o \in Attempts, OperationAges(o) PROVE AttemptsInOrder'
  <2>1. \A q \in Attempts : Foreign(q) => Foreign(q)'
    BY ForeignStays
  <2> QED BY <1>c, <2>1, Ageing DEF AttemptInv, AttemptsInOrder
<1>d. CASE UNCHANGED vars
  BY <1>d DEF vars, AttemptInv, AttemptsInOrder, Foreign
<1> QED BY <1>a, <1>b, <1>c, <1>d, Cases

\* What the operation of a handler is still agrees with where the handler stands.
LEMMA QueuesHold ==
  ASSUME TypeInv, AttemptInv, [Next]_vars
  PROVE  \A s \in Handlers : HandlerQueued(s)'
<1>0. TypeInv'
  BY Typed
<1>1. \A o \in Attempts : OpLives(o)
  BY OpsLive
<1>2. \A t \in Handlers : slot[t] \in Slots /\ SlotOK(slot[t]) /\ slot'[t] \in Slots /\ SlotOK(slot'[t])
  BY <1>0 DEF TypeInv, TypeOK
<1>3. \A t \in Handlers : HandlerQueued(t)
  BY DEF AttemptInv
\* A handler that does not move.
<1>4. ASSUME NEW t \in Handlers, slot'[t] = slot[t],
             slot[t].pc \in {"uEnqueue", "xEnqueue"} => ops'[slot[t].attempt].state = ops[slot[t].attempt].state
      PROVE  HandlerQueued(t)'
  <2> DEFINE h == slot[t]
  <2>1. h.job \in {"upload", "delete"} \/ h.deleted => OpLives(h.attempt)
    BY <1>1, <1>2 DEF SlotOK
  <2>2. h.pc \in Busy => OpLives(h.cur)
    BY <1>1, <1>2 DEF SlotOK
  <2>3. Cleaning \subseteq Busy /\ Wiping \cup {"dRows"} \subseteq Busy
    BY DEF Cleaning, Wiping, Busy, RecoverPcs
  <2>4. h.pc \in {"uEnqueue", "xEnqueue"} => ops'[h.attempt].state = "absent"
    BY <1>3, <1>4 DEF HandlerQueued
  <2>5. h.job = "upload" /\ h.pc \notin {"uEnqueue", "uUndo"} => Queued(h.attempt, "upload_cleanup", h.id)'
    BY <1>3, <1>4, <2>1 DEF HandlerQueued, Queued, OpLives
  <2>6. h.job = "delete" /\ h.pc # "xEnqueue" => Queued(h.attempt, "delete_tree", h.id)'
    BY <1>3, <1>4, <2>1 DEF HandlerQueued, Queued, OpLives
  <2>7. h.pc \in Busy => ops'[h.cur].state \notin {"absent", "held"} /\ ops'[h.cur].kind = ops[h.cur].kind
    BY <1>3, <2>2 DEF HandlerQueued, OpLives
  <2>8. h.deleted => ops'[h.attempt].state = "completed"
    BY <1>3, <2>1 DEF HandlerQueued, OpLives
  <2> QED BY <1>3, <1>4, <2>3, <2>4, <2>5, <2>6, <2>7, <2>8 DEF HandlerQueued
<1>a. ASSUME NEW s \in Handlers, HandlerStep(s), NEW t \in Handlers, t # s PROVE HandlerQueued(t)'
  <2>1. slot'[t] = slot[t]
    BY <1>a, Landings
  <2>2. ASSUME slot[t].pc \in {"uEnqueue", "xEnqueue"} PROVE ops'[slot[t].attempt] = ops[slot[t].attempt]
    <3> DEFINE o == slot[t].attempt
    <3>1. o \in Attempts /\ ops[o].state = "absent"
      BY <1>2, <1>3, <2>2 DEF SlotOK, HandlerQueued, UploadPcs, DeletePcs
    <3>2. OpChange(s, o)
      BY <1>a, <3>1, Effects, OpChanges
    <3>3. slot[s].attempt # o
      BY <1>a, <3>1, Constants DEF AttemptInv, AttemptsInOrder
    <3> QED BY <3>1, <3>2, <3>3 DEF OpChange, Runnable
  <2> QED BY <1>4, <2>1, <2>2
<1>b. ASSUME NEW s \in Handlers, HandlerStep(s) PROVE HandlerQueued(s)'
  <2> DEFINE h == slot'[s]
             Filed(o, kind, i) == ops'[o].state # "absent" /\ ops'[o].kind = kind /\ ops'[o].entry = i
  <2>a. Arrives(s)
    BY <1>b, Landings
  <2>1. h.pc \in {"uEnqueue", "xEnqueue"} => ops'[h.attempt].state = "absent"
    <3> SUFFICES ASSUME h.pc \in {"uEnqueue", "xEnqueue"} PROVE ops'[h.attempt].state = "absent"
      OBVIOUS
    <3>1. Start(s)
      BY <2>a DEF Arrives
    <3>2. h.attempt = attempts + 1 /\ ops' = ops /\ h.attempt \in Attempts
      BY <1>2, <3>1, Beginnings DEF SlotOK, UploadPcs, DeletePcs
    <3>3. attempts \in Nat
      BY MaxAttemptsAssumption DEF TypeInv, TypeOK
    <3> QED BY <3>2, <3>3 DEF AttemptInv, AttemptsInOrder
  <2>2. h.job = "upload" /\ h.pc \notin {"uEnqueue", "uUndo"} => Filed(h.attempt, "upload_cleanup", h.id)
    <3> SUFFICES ASSUME h.job = "upload", h.pc \notin {"uEnqueue", "uUndo"}
                 PROVE  Filed(h.attempt, "upload_cleanup", h.id)
      OBVIOUS
    <3>1. h.pc \notin {"idle", "uEnqueue", "xEnqueue"}
      BY <1>2 DEF SlotOK, DeletePcs
    <3>2. ~Start(s) /\ ~Reports(s) /\ h # Idle /\ ~(\E all \in BOOLEAN : OtherRequest(s, all))
      <4>1. Idle.pc = "idle" /\ ReportDeleted(s).pc = "idle" /\ Idle.job = "none"
        BY DEF ReportDeleted, Idle
      <4> QED BY <3>1, <4>1, Beginnings DEF Reports
    <3>3. Kept(h, slot[s]) /\ slot[s].pc # "idle"
      BY <2>a, <3>2 DEF Arrives
    <3>4. h.attempt = slot[s].attempt /\ h.id = slot[s].id /\ slot[s].job = "upload" /\ h.attempt \in Attempts
      BY <1>2, <3>3 DEF Kept, SlotOK
    <3>5. ~Evict(s)
      BY <3>2, Beginnings
    <3>6. slot[s].pc # "uUndo"
      BY <1>b, <3>1, <3>5, Departures, Destinations DEF Leads
    <3>7. CASE slot[s].pc = "uEnqueue"
      <4> DEFINE O == Enqueued(ops, slot[s].attempt, "upload_cleanup", slot[s].id, "held")
      <4>1. UploadEnqueue(s)
        BY <1>b, <3>5, <3>7, Departures
      <4>2. ASSUME ~CanEnqueue(ops, "upload_cleanup", slot[s].id) PROVE FALSE
        <5>1. Sql(s, entries, ops, Idle) \/ SqlFault(s, entries, ops, Goto(s, "uUndo"))
          BY <4>1, <4>2 DEF UploadEnqueue
        <5>2. h = Idle \/ h = Goto(s, "uUndo")
          BY <5>1, Calls
        <5> QED BY <3>1, <3>2, <5>2, MoveFields
      <4>3. Sql(s, entries, O, Goto(s, "uInsert"))
        <5>1. Sql(s, entries, O, Goto(s, "uInsert")) \/ SqlFault(s, entries, O, Goto(s, "uUndo"))
          BY <4>1, <4>2 DEF UploadEnqueue
        <5>2. SqlFault(s, entries, O, Goto(s, "uUndo")) => h = Goto(s, "uUndo")
          BY Calls
        <5> QED BY <5>1, <5>2, MoveFields
      <4>4. ops' = O
        BY <4>3 DEF Sql
      <4> QED BY <3>4, <4>4, Tables DEF Enqueued
    <3>8. CASE slot[s].pc # "uEnqueue"
      <4>1. Queued(slot[s].attempt, "upload_cleanup", slot[s].id)
        BY <1>3, <3>4, <3>6, <3>8 DEF HandlerQueued
      <4>2. OpLives(slot[s].attempt)
        BY <1>1, <3>4
      <4> QED BY <3>4, <4>1, <4>2 DEF Queued, OpLives
    <3> QED BY <3>7, <3>8
  <2>3. h.job = "delete" /\ h.pc # "xEnqueue" => Filed(h.attempt, "delete_tree", h.id)
    <3> SUFFICES ASSUME h.job = "delete", h.pc # "xEnqueue"
                 PROVE  Filed(h.attempt, "delete_tree", h.id)
      OBVIOUS
    <3>1. h.pc \notin {"idle", "uEnqueue", "xEnqueue"}
      BY <1>2 DEF SlotOK, UploadPcs
    <3>2. ~Start(s) /\ ~Reports(s) /\ h # Idle /\ ~(\E all \in BOOLEAN : OtherRequest(s, all))
      <4>1. Idle.pc = "idle" /\ ReportDeleted(s).pc = "idle" /\ Idle.job = "none"
        BY DEF ReportDeleted, Idle
      <4> QED BY <3>1, <4>1, Beginnings DEF Reports
    <3>3. Kept(h, slot[s]) /\ slot[s].pc # "idle"
      BY <2>a, <3>2 DEF Arrives
    <3>4. h.attempt = slot[s].attempt /\ h.id = slot[s].id /\ slot[s].job = "delete" /\ h.attempt \in Attempts
      BY <1>2, <3>3 DEF Kept, SlotOK
    <3>5. ~Evict(s)
      BY <3>2, Beginnings
    <3>7. CASE slot[s].pc = "xEnqueue"
      <4> DEFINE O == Enqueued(ops, slot[s].attempt, "delete_tree", slot[s].id, "pending")
      <4>1. DeleteEnqueue(s)
        BY <1>b, <3>5, <3>7, Departures
      <4>2. \/ Sql(s, entries, O, Goto(s, "xClaim"))
            \/ \E P : Sql(s, entries, P, Idle) \/ SqlFault(s, entries, P, Idle)
        BY <4>1 DEF DeleteEnqueue
      <4>3. (\E P : Sql(s, entries, P, Idle) \/ SqlFault(s, entries, P, Idle)) => h = Idle
        BY Calls
      <4>4. ops' = O
        BY <3>2, <4>2, <4>3 DEF Sql
      <4> QED BY <3>4, <4>4, Tables DEF Enqueued
    <3>8. CASE slot[s].pc # "xEnqueue"
      <4>1. Queued(slot[s].attempt, "delete_tree", slot[s].id)
        BY <1>3, <3>4, <3>8 DEF HandlerQueued
      <4>2. OpLives(slot[s].attempt)
        BY <1>1, <3>4
      <4> QED BY <3>4, <4>1, <4>2 DEF Queued, OpLives
    <3> QED BY <3>7, <3>8
  <2>4. h.pc \in Busy => ops'[h.cur].state \notin {"absent", "held"}
    <3> SUFFICES ASSUME h.pc \in Busy PROVE ops'[h.cur].state \notin {"absent", "held"}
      OBVIOUS
    <3>1. CASE BusyStep(s)
      <4>1. h.cur = slot[s].cur /\ slot[s].pc \in Busy
        BY <3>1, Carried, BusyAt
      <4> QED BY <1>1, <1>2, <1>3, <4>1 DEF SlotOK, HandlerQueued, OpLives
    <3>2. CASE RecoverClaim(s)
      <4>1. h.cur \in Attempts /\ ops' = Claimed(ops, h.cur, s)
        BY <3>2, Claiming
      <4>2. ops'[h.cur].state = "running"
        BY <4>1, Tables DEF Claimed, Operations
      <4> QED BY <4>2
    <3> QED BY <2>a, <3>1, <3>2 DEF Arrives
  <2>5. h.pc \in Cleaning => ops'[h.cur].kind = "upload_cleanup"
    <3> SUFFICES ASSUME h.pc \in Cleaning PROVE ops'[h.cur].kind = "upload_cleanup"
      OBVIOUS
    <3>1. BusyStep(s) /\ (RecoverClaimed(s) \/ slot[s].pc \in Cleaning)
      BY <2>a DEF Arrives, Cleaning, CleanRow, CleanByKey, CleanBlob, CleanRenew, CleanMark, BusyStep, At
    <3>2. h.cur = slot[s].cur /\ slot[s].pc \in Busy /\ slot[s].cur \in Attempts
      BY <1>2, <3>1, Carried, BusyAt DEF Cleaning, Busy, RecoverPcs, SlotOK
    <3>3. ops[slot[s].cur].kind = "upload_cleanup"
      <4>1. CASE RecoverClaimed(s)
        <5>1. h.pc = "cRow"
          BY <4>1, Destinations DEF Leads, Cleaning, Caught
        <5> QED BY <4>1, <5>1, Choosing
      <4>2. CASE slot[s].pc \in Cleaning
        BY <1>3, <4>2 DEF HandlerQueued
      <4> QED BY <3>1, <4>1, <4>2
    <3>4. OpLives(slot[s].cur) /\ ops[slot[s].cur].state # "absent"
      BY <1>1, <1>3, <3>2 DEF HandlerQueued
    <3> QED BY <3>2, <3>3, <3>4 DEF OpLives
  <2>6. h.pc \in Wiping \cup {"dRows"} => ops'[h.cur].kind = "delete_tree"
    <3> SUFFICES ASSUME h.pc \in Wiping \cup {"dRows"} PROVE ops'[h.cur].kind = "delete_tree"
      OBVIOUS
    <3>1. BusyStep(s) /\ (RecoverClaimed(s) \/ slot[s].pc \in Wiping \cup {"dRows"})
      BY <2>a DEF Arrives, Wiping, DeleteRows, DeleteBlob, DeleteRenew, DeleteMark, DeleteLast, DeleteMeta, DeleteUnlink,
                  BusyStep, At
    <3>2. h.cur = slot[s].cur /\ slot[s].pc \in Busy /\ slot[s].cur \in Attempts
      BY <1>2, <3>1, Carried, BusyAt DEF Wiping, Busy, RecoverPcs, SlotOK
    <3>3. ops[slot[s].cur].kind = "delete_tree"
      <4>1. CASE RecoverClaimed(s)
        <5>1. h.pc = "dRows"
          BY <4>1, Destinations DEF Leads, Wiping, Caught
        <5> QED BY <4>1, <5>1, Choosing
      <4>2. CASE slot[s].pc \in Wiping \cup {"dRows"}
        BY <1>3, <4>2 DEF HandlerQueued
      <4> QED BY <3>1, <4>1, <4>2
    <3>4. OpLives(slot[s].cur) /\ ops[slot[s].cur].state # "absent"
      BY <1>1, <1>3, <3>2 DEF HandlerQueued
    <3> QED BY <3>2, <3>3, <3>4 DEF OpLives
  <2>7. h.deleted => ops'[h.attempt].state = "completed"
    BY <1>b, AttemptsGo DEF Reports
  <2> QED BY <2>1, <2>2, <2>3, <2>4, <2>5, <2>6, <2>7 DEF HandlerQueued, Queued
<1>c. CASE UNCHANGED vars
  BY <1>3, <1>c DEF vars, HandlerQueued, Queued
<1>d. CASE Mutate
  BY <1>4, <1>d, Arrangements
<1>e. ASSUME NEW o \in Attempts, OperationAges(o) PROVE \A t \in Handlers : HandlerQueued(t)'
  <2>1. \A t \in Handlers : slot[t].pc \in {"uEnqueue", "xEnqueue"} => slot[t].attempt \in Attempts
    BY <1>2 DEF SlotOK, UploadPcs, DeletePcs
  <2> QED BY <1>4, <1>e, <2>1, Ageing
<1> QED BY <1>a, <1>b, <1>c, <1>d, <1>e, Cases

\* The layer of attempts is inductive.
LEMMA AttemptHolds == TypeInv /\ AttemptInv /\ [Next]_vars => AttemptInv'
BY OrderHolds, QueuesHold DEF AttemptInv

-----------------------------------------------------------------------------
(* Rows.                                                                   *)

\* A row says the same of itself after a step.
LEMMA RowsStay ==
  ASSUME TypeInv, AttemptInv, RowInv, [Next]_vars, NEW i \in Ids
  PROVE  RowOK(i)'
<1>0. RowOK(i) /\ (\A o \in Attempts : OpLives(o))
  BY OpsLive DEF RowInv
<1>1. entries[i].owner \in Attempts \cup {None} /\ entries[i].key \in Attempts \cup {None}
  BY Tables DEF KeyedRows, Entries
\* The operations behind a row stay.
<1> DEFINE Known(k) == Foreign(k)' \/ (ops'[k].state # "absent" /\ ops'[k].kind = "upload_cleanup" /\ ops'[k].entry = i)
<1>3. ASSUME NEW k \in Attempts, entries[i].key = k PROVE Known(k)
  <2>1. Queued(k, "upload_cleanup", i) \/ Foreign(k)
    BY <1>0, <1>3, Constants DEF RowOK
  <2> QED BY <1>0, <2>1, ForeignStays DEF Queued, OpLives
<1>4. ASSUME entries[i].status = "deleting"
      PROVE  ops'[entries[i].owner].state # "absent" /\ ops'[entries[i].owner].kind = "delete_tree"
  BY <1>0, <1>4 DEF RowOK, OpLives
<1>5. ASSUME entries'[i] = entries[i] PROVE RowOK(i)'
  BY <1>0, <1>1, <1>3, <1>4, <1>5 DEF RowOK, Queued, Foreign
<1>6. ASSUME entries'[i] = Absent PROVE RowOK(i)'
  BY <1>6 DEF RowOK, Absent
<1>a. ASSUME NEW s \in Handlers, HandlerStep(s) PROVE RowOK(i)'
  <2> DEFINE h == slot[s]
  <2>1. RowChange(s, i)
    BY <1>a, Effects, RowChanges
  <2>2. h \in Slots /\ SlotOK(h) /\ HandlerQueued(s)
    BY Tables DEF AttemptInv
  <2>3. CASE entries'[i] = entries[i] \/ entries'[i] = Absent
    BY <1>5, <1>6, <2>3
  <2>4. CASE /\ RowInserted(s) /\ i = h.id
             /\ entries'[i].status = "uploading" /\ entries'[i].owner = h.attempt /\ entries'[i].key = h.attempt
    <3>1. h.job = "upload" /\ h.attempt \in Attempts /\ i \in FileIds /\ i \notin Folders
      BY <2>2, <2>4, Constants DEF RowInserted, SlotOK, UploadPcs
    <3>2. Queued(h.attempt, "upload_cleanup", i)
      BY <2>2, <2>4, <3>1 DEF RowInserted, HandlerQueued
    <3>3. ops'[h.attempt].state # "absent" /\ ops'[h.attempt].kind = "upload_cleanup" /\ ops'[h.attempt].entry = i
      BY <1>0, <3>1, <3>2 DEF Queued, OpLives
    <3> QED BY <2>4, <3>1, <3>3 DEF RowOK, Queued
  <2>5. CASE /\ entries[i].status = "uploading"
             /\ entries'[i].status = "ready" /\ entries'[i].owner = None /\ entries'[i].key = entries[i].key
    <3>1. i \in FileIds /\ entries[i].key \in Attempts
      BY <1>0, <2>5 DEF RowOK
    <3> QED BY <1>0, <1>3, <2>5, <3>1, Constants DEF RowOK, Queued
  <2>6. CASE /\ TreeClaimed(s) /\ entries[i].status = "ready"
             /\ entries'[i].status = "deleting" /\ entries'[i].owner = h.attempt /\ entries'[i].key = entries[i].key
    <3>1. h.job = "delete" /\ h.attempt \in Attempts /\ h.pc = "xClaim"
      BY <2>2, <2>6 DEF TreeClaimed, SlotOK, DeletePcs
    <3>2. Queued(h.attempt, "delete_tree", h.id)
      BY <2>2, <3>1 DEF HandlerQueued
    <3>3. ops'[h.attempt].state # "absent" /\ ops'[h.attempt].kind = "delete_tree"
      BY <1>0, <3>1, <3>2 DEF Queued, OpLives
    <3> QED BY <1>0, <1>1, <1>3, <2>6, <3>1, <3>3 DEF RowOK, Queued, Foreign
  <2> QED BY <2>1, <2>3, <2>4, <2>5, <2>6 DEF RowChange
<1>b. CASE Mutate
  <2>1. Arranged(i)
    BY <1>b, Arrangements
  <2>2. FolderIds \cap FileIds = {}
    BY IdsAssumption
  <2> QED BY <1>0, <1>3, <1>5, <2>1, <2>2, Constants DEF Arranged, RowOK, Queued
<1>c. CASE UNCHANGED vars
  BY <1>5, <1>c DEF vars
<1>d. ASSUME NEW o \in Attempts, OperationAges(o) PROVE RowOK(i)'
  BY <1>5, <1>d, Ageing
<1> QED BY <1>a, <1>b, <1>c, <1>d, Cases

\* The layer of rows is inductive.
LEMMA RowsHold == TypeInv /\ AttemptInv /\ RowInv /\ [Next]_vars => RowInv'
<1> SUFFICES ASSUME TypeInv, AttemptInv, RowInv, [Next]_vars, NEW i \in Ids, NEW j \in Ids, i # j,
                    entries'[i].key = entries'[j].key
             PROVE  entries'[i].key = None
  BY RowsStay DEF RowInv
<1>0. entries[i].key = entries[j].key => entries[i].key = None
  BY DEF RowInv
<1>1. ASSUME entries'[i].key \in {entries[i].key, None}, entries'[j].key \in {entries[j].key, None}
      PROVE  entries'[i].key = None
  BY <1>0, <1>1
<1>a. ASSUME NEW s \in Handlers, HandlerStep(s) PROVE entries'[i].key = None
  <2> DEFINE h == slot[s]
  <2>1. RowChange(s, i) /\ RowChange(s, j)
    BY <1>a, Effects, RowChanges
  <2>2. ASSUME NEW r \in Ids, RowChange(s, r)
        PROVE  \/ entries'[r].key \in {entries[r].key, None}
               \/ RowInserted(s) /\ r = h.id /\ entries'[r].key = h.attempt
    BY <2>2 DEF RowChange, Absent
  \* The key of a new row is no other row's.
  <2>3. ASSUME RowInserted(s), NEW r \in Ids, r # h.id PROVE entries[r].key # h.attempt
    <3>1. h.job = "upload" /\ h.pc = "uInsert" /\ h.attempt \in Attempts
      BY <2>3, Tables DEF RowInserted, SlotOK, UploadPcs
    <3>2. Queued(h.attempt, "upload_cleanup", h.id) /\ ~Foreign(h.attempt)
      BY <3>1 DEF AttemptInv, HandlerQueued, Foreign
    <3>3. RowOK(r) /\ h.attempt # None
      BY <3>1, Constants DEF RowInv
    <3> QED BY <2>3, <3>2, <3>3 DEF RowOK, Queued
  <2> QED BY <1>1, <2>1, <2>2, <2>3
<1>b. CASE Mutate
  BY <1>1, <1>b, Arrangements DEF Arranged
<1>c. CASE UNCHANGED vars
  BY <1>0, <1>c DEF vars
<1>d. ASSUME NEW o \in Attempts, OperationAges(o) PROVE entries'[i].key = None
  BY <1>0, <1>d, Ageing
<1> QED BY <1>a, <1>b, <1>c, <1>d, Cases

-----------------------------------------------------------------------------
(* A row is not published before its upload publishes it.                  *)

\* The layer of rows not yet published is inductive.
LEMMA UnpublishedHolds == TypeInv /\ AttemptInv /\ RowInv /\ UnpublishedInv /\ [Next]_vars => UnpublishedInv'
<1> DEFINE Fine(t) == slot'[t].pc \in Early =>
             /\ \A i \in Ids : entries'[i].key = slot'[t].attempt => entries'[i].status = "uploading"
             /\ slot'[t].pc = "uInsert" =>
                  slot'[t].attempt \notin blobs' /\ \A i \in Ids : entries'[i].key # slot'[t].attempt
<1> SUFFICES ASSUME TypeInv, AttemptInv, RowInv, UnpublishedInv, [Next]_vars, NEW t \in Handlers PROVE Fine(t)
  BY DEF UnpublishedInv, At
<1>0. slot[t] \in Slots /\ SlotOK(slot[t]) /\ HandlerQueued(t)
  BY Tables DEF AttemptInv
<1>1. slot[t].pc \in Early => slot[t].job = "upload" /\ slot[t].attempt \in Attempts
  BY <1>0 DEF SlotOK, Early, UploadPcs
<1>2. slot[t].pc \in Early =>
        /\ \A i \in Ids : entries[i].key = slot[t].attempt => entries[i].status = "uploading"
        /\ slot[t].pc = "uInsert" =>
             slot[t].attempt \notin blobs /\ \A i \in Ids : entries[i].key # slot[t].attempt
  BY DEF UnpublishedInv, At
<1>a. ASSUME NEW s \in Handlers, HandlerStep(s), s # t PROVE Fine(t)
  <2>1. slot'[t] = slot[t] /\ Effect(s)
    BY <1>a, Landings, Effects
  <2>2. slot[s].attempt = slot[t].attempt => slot[t].attempt = None
    BY <1>a DEF AttemptInv, AttemptsInOrder
  <2>3. ASSUME slot[t].pc \in Early, NEW i \in Ids, entries'[i].key = slot[t].attempt
        PROVE  entries'[i].status = "uploading" /\ entries[i].key = slot[t].attempt
    <3>1. RowChange(s, i) /\ RowOK(i)
      BY <2>1, RowChanges DEF RowInv
    <3>2. slot[t].attempt \in Attempts /\ slot[t].attempt # None /\ Absent.key = None
      BY <1>1, <2>3, Constants DEF Absent
    <3> QED BY <1>2, <2>2, <2>3, <3>1, <3>2 DEF RowChange, RowOK
  <2>4. ASSUME slot[t].pc = "uInsert" PROVE slot[t].attempt \notin blobs'
    <3>1. slot[t].attempt \in Attempts /\ slot[t].attempt \notin blobs
      BY <1>1, <1>2, <2>4 DEF Early
    <3> QED BY <2>1, <2>2, <3>1, BlobChanges, Constants
  <2> QED BY <1>2, <2>1, <2>3, <2>4 DEF Early
<1>b. ASSUME HandlerStep(t) PROVE Fine(t)
  <2> SUFFICES ASSUME slot'[t].pc \in Early PROVE Fine(t)
    OBVIOUS
  <2>1. Arrives(t) /\ Effect(t)
    BY <1>b, Landings, Effects
  <2>2. CASE slot'[t].pc = "uEnqueue"
    <3>1. Start(t)
      BY <2>1, <2>2 DEF Arrives
    <3>2. slot'[t].attempt = attempts + 1 /\ slot'[t].attempt \in Attempts /\ UNCHANGED <<entries, ops, blobs>>
      <4>1. SlotOK(slot'[t])
        BY Typed DEF TypeInv
      <4> QED BY <2>2, <3>1, <4>1, Beginnings DEF SlotOK, UploadPcs
    <3>3. attempts \in Nat
      BY MaxAttemptsAssumption DEF TypeInv, TypeOK
    <3>4. \A i \in Ids : entries[i].key # slot'[t].attempt
      BY <3>2, <3>3 DEF AttemptInv, AttemptsInOrder, Foreign
    <3> QED BY <2>2, <3>2, <3>4
  <2>3. CASE slot'[t].pc = "uInsert"
    <3>1. UploadEnqueue(t)
      BY <2>1, <2>3 DEF Arrives
    <3>2. slot[t].pc = "uEnqueue" /\ UNCHANGED <<entries, blobs>>
      BY <3>1, CallEffects DEF UploadEnqueue, At
    <3>3. slot'[t].attempt = slot[t].attempt
      BY <2>3, <3>1, Destinations DEF Leads, Kept, Idle
    <3>4. slot[t].attempt \in Attempts /\ ops[slot[t].attempt].state = "absent"
      BY <1>0, <1>1, <3>2 DEF HandlerQueued, Early
    <3> QED BY <3>2, <3>3, <3>4 DEF AttemptInv, AttemptsInOrder, Foreign
  <2>4. CASE slot'[t].pc \in {"uPut", "uTouch", "uFinalize"}
    <3>1. UploadInsert(t) \/ UploadPut(t) \/ UploadTouch(t)
      BY <2>1, <2>4 DEF Arrives
    <3>2. slot[t].pc \in {"uInsert", "uPut", "uTouch"}
      BY <3>1 DEF UploadInsert, UploadPut, UploadTouch, At
    <3>3. slot'[t].attempt = slot[t].attempt
      BY <2>4, <3>1, Destinations DEF Leads, Kept, Idle
    <3>4. ASSUME NEW i \in Ids, entries'[i].key = slot[t].attempt PROVE entries'[i].status = "uploading"
      <4>1. RowChange(t, i)
        BY <2>1, RowChanges
      <4>2. slot[t].attempt # None /\ Absent.key = None
        BY <1>1, <3>2, Constants DEF Early, Absent
      <4> QED BY <1>2, <3>2, <3>4, <4>1, <4>2 DEF RowChange, Early, RowPublished, TreeClaimed
    <3> QED BY <2>4, <3>3, <3>4
  <2> QED BY <2>2, <2>3, <2>4 DEF Early
<1>c. CASE Mutate
  <2>1. slot' = slot /\ blobs' = blobs
    BY <1>c, Arrangements
  <2>2. ASSUME slot[t].pc \in Early, NEW i \in Ids, entries'[i].key = slot[t].attempt
        PROVE  entries'[i].status = "uploading" /\ entries[i].key = slot[t].attempt
    <3>1. Arranged(i)
      BY <1>c, Arrangements
    <3>2. slot[t].attempt # None
      BY <1>1, <2>2, Constants
    <3> QED BY <1>2, <2>2, <3>1, <3>2 DEF Arranged
  <2> QED BY <1>2, <2>1, <2>2
<1>d. CASE UNCHANGED vars
  BY <1>2, <1>d DEF vars
<1>e. ASSUME NEW o \in Attempts, OperationAges(o) PROVE Fine(t)
  BY <1>2, <1>e, Ageing
<1> QED BY <1>a, <1>b, <1>c, <1>d, <1>e, Cases

-----------------------------------------------------------------------------
(* The tree.                                                               *)

\* Parents are folders, so it does not matter whether the sets that climb hold other rows.
LEMMA AncestorsClimb ==
  ASSUME NEW E \in [Ids -> Entries], NEW i \in Ids
  PROVE  Ancestors(E, i) = {k \in Ids : \A S \in SUBSET Ids : i \in S /\ Climbs(E, S) => k \in S}
<1>1. \A j \in Ids : E[j].parent \in Folders
  BY DEF Entries
<1>2. ASSUME NEW k \in Ancestors(E, i), NEW S \in SUBSET Ids, i \in S, Climbs(E, S) PROVE k \in S
  <2> DEFINE T == S \cap Folders
  <2>1. Climbs(E, T \cup {i})
    BY <1>1, <1>2 DEF Climbs
  <2>2. T \in SUBSET Folders
    OBVIOUS
  <2> HIDE DEF T
  <2>3. k = i \/ k \in T
    BY <1>2, <2>1, <2>2 DEF Ancestors
  <2> QED BY <1>2, <2>3 DEF T
<1>3. ASSUME NEW k \in Ids, \A S \in SUBSET Ids : i \in S /\ Climbs(E, S) => k \in S
      PROVE  k \in Ancestors(E, i)
  <2>1. ASSUME NEW T \in SUBSET Folders, Climbs(E, T \cup {i}) PROVE k = i \/ k \in T
    <3>1. T \cup {i} \in SUBSET Ids
      BY Constants
    <3> QED BY <1>3, <2>1, <3>1
  <2>2. Climbs(E, Folders \cup {i})
    BY <1>1, Constants DEF Climbs
  <2>3. k = i \/ k \in Folders
    BY <2>1, <2>2
  <2> QED BY <2>1, <2>3 DEF Ancestors
<1>4. Ancestors(E, i) \subseteq Ids
  BY Constants DEF Ancestors
<1> QED BY <1>2, <1>3, <1>4

\* The ancestors of i are the least set with i that has the parents of its rows.
LEMMA Above ==
  ASSUME NEW E \in [Ids -> Entries], NEW i \in Ids
  PROVE  /\ Ancestors(E, i) \subseteq Ids /\ i \in Ancestors(E, i) /\ Climbs(E, Ancestors(E, i))
         /\ \A S \in SUBSET Ids : i \in S /\ Climbs(E, S) => Ancestors(E, i) \subseteq S
         /\ \A j \in Ancestors(E, i) : Ancestors(E, j) \subseteq Ancestors(E, i)
<1> DEFINE A == Ancestors(E, i)
<1>1. A \subseteq Ids /\ i \in A
  BY AncestorsClimb
<1>2. \A S \in SUBSET Ids : i \in S /\ Climbs(E, S) => A \subseteq S
  BY AncestorsClimb
<1>3. ASSUME NEW j \in A \ {Root} PROVE E[j].parent \in A
  <2>1. E[j].parent \in Ids
    BY <1>1, Constants DEF Entries
  <2>2. \A S \in SUBSET Ids : i \in S /\ Climbs(E, S) => E[j].parent \in S
    BY <1>2 DEF Climbs
  <2> QED BY <2>1, <2>2, AncestorsClimb
<1>4. Climbs(E, A)
  BY <1>3 DEF Climbs
<1>5. ASSUME NEW j \in A PROVE Ancestors(E, j) \subseteq A
  <2>1. A \in SUBSET Ids /\ j \in A /\ Climbs(E, A)
    BY <1>1, <1>4
  <2> HIDE DEF A
  <2>2. j \in Ids
    BY <2>1
  <2> QED BY <2>1, <2>2, AncestorsClimb
<1> QED BY <1>1, <1>2, <1>4, <1>5

\* A row that keeps all that is above it keeps its ancestors.
LEMMA SameAbove ==
  ASSUME NEW E \in [Ids -> Entries], NEW F \in [Ids -> Entries], NEW i \in Ids,
         \A j \in Ancestors(E, i) \ {Root} : F[j].parent = E[j].parent
  PROVE  Ancestors(F, i) = Ancestors(E, i)
<1> DEFINE A == Ancestors(E, i)
<1>1. A \subseteq Ids /\ i \in A /\ Climbs(E, A)
  BY Above
<1>2. Climbs(F, A)
  BY <1>1 DEF Climbs
<1>3. Ancestors(F, i) \subseteq A
  BY <1>1, <1>2, Above
<1>4. ASSUME NEW S \in SUBSET Ids, i \in S, Climbs(F, S) PROVE A \subseteq S
  <2>1. Climbs(E, S \cap A)
    BY <1>1, <1>4 DEF Climbs
  <2>2. A \subseteq S \cap A
    BY <1>1, <1>4, <2>1, Above
  <2> QED BY <2>2
<1>5. A \subseteq Ancestors(F, i)
  BY <1>1, <1>4, AncestorsClimb
<1> QED BY <1>3, <1>5

\* Hanging one row elsewhere under the root leaves everything under the root.
LEMMA Rehang ==
  ASSUME NEW E \in [Ids -> Entries], NEW F \in [Ids -> Entries], NEW k \in Ids \ {Root},
         \A j \in Ids \ {Root, k} : F[j].parent = E[j].parent,
         Root \in Ancestors(F, F[k].parent),
         NEW i \in Ids, i = k \/ Root \in Ancestors(E, i)
  PROVE  Root \in Ancestors(F, i)
<1>0. F[k].parent \in Ids
  BY Constants DEF Entries
<1>a. Ancestors(F, i) = {j \in Ids : \A S \in SUBSET Ids : i \in S /\ Climbs(F, S) => j \in S}
  BY AncestorsClimb
<1>1. SUFFICES ASSUME NEW S \in SUBSET Ids, i \in S, Climbs(F, S) PROVE Root \in S
  BY <1>a, Constants
<1>2. CASE k \in S
  <2>1. F[k].parent \in S
    BY <1>1, <1>2 DEF Climbs
  <2> QED BY <1>0, <1>1, <2>1, Above
<1>3. CASE k \notin S
  <2>1. Climbs(E, S)
    BY <1>1, <1>3 DEF Climbs
  <2> QED BY <1>1, <1>3, <2>1, Above
<1> QED BY <1>2, <1>3

\* In a tree where whatever is there has its parent, all that is above a row is there.
Whole(E) ==
  /\ Present(E, Root)
  /\ \A j \in Ids \ {Root} : Present(E, j) => Present(E, E[j].parent) /\ Root \in Ancestors(E, j)

\* In a table whose parents are all there, what is above a row is there and ends at the root.
LEMMA PresentAbove ==
  ASSUME NEW E \in [Ids -> Entries], Whole(E), NEW i \in Ids, Present(E, i)
  PROVE  /\ \A j \in Ancestors(E, i) : Present(E, j)
         /\ Root \in Ancestors(E, i)
         /\ i # Root => E[i].parent # i
<1> DEFINE S == {j \in Ids : Present(E, j)}
<1>1. Climbs(E, S)
  BY Constants DEF Climbs, Whole, Entries
<1>2. Ancestors(E, i) \subseteq S
  BY <1>1, Above
<1>3. Root \in Ancestors(E, i)
  BY Above, Constants DEF Whole
<1>4. ASSUME i # Root, E[i].parent = i PROVE FALSE
  <2>1. Climbs(E, {i})
    BY <1>4 DEF Climbs
  <2>2. Ancestors(E, i) \subseteq {i}
    BY <2>1, Above
  <2> QED BY <1>3, <1>4, <2>2
<1> QED BY <1>2, <1>3, <1>4

\* A new row under a folder that is there.
LEMMA WholeAfterInsert ==
  ASSUME NEW E \in [Ids -> Entries], NEW F \in [Ids -> Entries], Whole(E), NEW k \in Ids \ {Root}, ~Present(E, k),
         \A j \in Ids \ {k} : F[j] = E[j], Present(F, k), Present(E, F[k].parent)
  PROVE  Whole(F)
<1>1. F[k].parent \in Ids /\ F[k].parent # k
  BY Constants DEF Entries
<1>2. \A j \in Ids : Present(E, j) => Present(F, j)
  BY DEF Present
<1>3. ASSUME NEW j \in Ids, Present(E, j) PROVE Ancestors(F, j) = Ancestors(E, j)
  <2>1. \A m \in Ancestors(E, j) : m # k
    BY <1>3, PresentAbove
  <2>2. \A m \in Ancestors(E, j) \ {Root} : F[m].parent = E[m].parent
    BY <1>3, <2>1, Above
  <2> QED BY <2>2, SameAbove
<1>4. Root \in Ancestors(F, F[k].parent)
  BY <1>1, <1>3, PresentAbove
<1>5. ASSUME NEW j \in Ids \ {Root}, Present(F, j)
      PROVE  Present(F, F[j].parent) /\ Root \in Ancestors(F, j)
  <2>1. CASE j = k
    BY <1>1, <1>2, <1>4, <2>1, Rehang
  <2>2. CASE j # k
    <3>1. Present(E, j) /\ F[j] = E[j]
      BY <1>5, <2>2 DEF Present
    <3>2. E[j].parent \in Ids
      BY Constants DEF Entries
    <3> QED BY <1>2, <1>3, <3>1, <3>2 DEF Whole
  <2> QED BY <2>1, <2>2
<1> QED BY <1>2, <1>5, Constants DEF Whole

\* A row that changes its parent, under no row of its own tree.
LEMMA WholeAfterMove ==
  ASSUME NEW E \in [Ids -> Entries], NEW F \in [Ids -> Entries], Whole(E), NEW k \in Ids \ {Root},
         \A j \in Ids : F[j].status = E[j].status, \A j \in Ids \ {k} : F[j].parent = E[j].parent,
         Present(E, F[k].parent), k \notin Ancestors(E, F[k].parent)
  PROVE  Whole(F)
<1>1. F[k].parent \in Ids
  BY Constants DEF Entries
<1>2. \A j \in Ids : Present(F, j) <=> Present(E, j)
  BY DEF Present
<1>3. Root \in Ancestors(F, F[k].parent)
  <2>1. \A m \in Ancestors(E, F[k].parent) \ {Root} : F[m].parent = E[m].parent
    BY <1>1, Above
  <2>2. Ancestors(F, F[k].parent) = Ancestors(E, F[k].parent)
    BY <1>1, <2>1, SameAbove
  <2> QED BY <1>1, <2>2, PresentAbove
<1>4. ASSUME NEW j \in Ids \ {Root}, Present(F, j)
      PROVE  Present(F, F[j].parent) /\ Root \in Ancestors(F, j)
  <2>1. E[j].parent \in Ids
    BY Constants DEF Entries
  <2>2. Present(E, j) /\ Present(E, E[j].parent) /\ Root \in Ancestors(E, j)
    BY <1>2, <1>4 DEF Whole
  <2>3. Root \in Ancestors(F, j)
    BY <1>3, <2>2, Rehang
  <2>4. Present(F, F[j].parent)
    BY <1>1, <1>2, <2>1, <2>2
  <2> QED BY <2>3, <2>4
<1> QED BY <1>2, <1>4, Constants DEF Whole

\* A row that goes, with no row under it.
LEMMA WholeAfterDelete ==
  ASSUME NEW E \in [Ids -> Entries], NEW F \in [Ids -> Entries], Whole(E), NEW k \in Ids \ {Root},
         F = [E EXCEPT ![k] = Absent], \A j \in Ids \ {Root, k} : Present(E, j) => E[j].parent # k
  PROVE  Whole(F)
<1>1. F[k].parent = Root /\ ~Present(F, k) /\ \A j \in Ids \ {k} : F[j] = E[j]
  BY DEF Absent, Present
<1>2. Root \in Ancestors(F, Root)
  BY Above, Constants
<1>3. ASSUME NEW j \in Ids \ {Root}, Present(F, j)
      PROVE  Present(F, F[j].parent) /\ Root \in Ancestors(F, j)
  <2>1. j # k /\ Present(E, j) /\ E[j].parent \in Ids /\ E[j].parent # k
    BY <1>1, <1>3, Constants DEF Present, Entries
  <2>2. Present(E, E[j].parent) /\ Root \in Ancestors(E, j)
    BY <2>1 DEF Whole
  <2>3. Root \in Ancestors(F, j)
    BY <1>1, <1>2, <2>2, Rehang
  <2> QED BY <1>1, <2>1, <2>2, <2>3 DEF Present
<1> QED BY <1>1, <1>3, Constants DEF Whole, Present

\* Rows that change neither their parents nor whether they are there.
LEMMA WholeAfterUpdate ==
  ASSUME NEW E \in [Ids -> Entries], NEW F \in [Ids -> Entries], Whole(E),
         \A j \in Ids : F[j].parent = E[j].parent /\ (Present(F, j) <=> Present(E, j))
  PROVE  Whole(F)
<1>1. \A j \in Ids : Ancestors(F, j) = Ancestors(E, j)
  BY SameAbove, Above
<1>2. \A j \in Ids : E[j].parent \in Ids
  BY Constants DEF Entries
<1> QED BY <1>1, <1>2, Constants DEF Whole

\* The root is in no tree but its own, and a tree has what is under its rows.
LEMMA TreesHang ==
  ASSUME NEW E \in [Ids -> Entries], Whole(E), NEW i \in Ids
  PROVE  /\ Root \in Tree(E, i) => i = Root
         /\ \A j \in Ids \ {Root} : Present(E, j) /\ E[j].parent \in Tree(E, i) => j \in Tree(E, i)
         /\ \A j \in Tree(E, i) : j \in Ids /\ Present(E, j) /\ i \in Ancestors(E, j)
<1>1. Root \in Tree(E, i) => i = Root
  <2>1. Climbs(E, {Root}) /\ {Root} \in SUBSET Ids
    BY Constants DEF Climbs
  <2>2. Ancestors(E, Root) \subseteq {Root}
    BY <2>1, Above, Constants
  <2> QED BY <2>2 DEF Tree
<1>2. ASSUME NEW j \in Ids \ {Root}, Present(E, j), E[j].parent \in Tree(E, i) PROVE j \in Tree(E, i)
  <2>1. i \in Ancestors(E, E[j].parent)
    BY <1>2 DEF Tree
  <2>2. E[j].parent \in Ancestors(E, j)
    BY Above DEF Climbs
  <2>3. i \in Ancestors(E, j)
    BY <2>1, <2>2, Above
  <2> QED BY <1>2, <2>3 DEF Tree
<1> QED BY <1>1, <1>2 DEF Tree

\* What can be used is under folders that can be used.
Usable(E) == \A i \in Ids \ {Root} : E[i].status \in {"ready", "uploading"} => ReadyFolder(E, E[i].parent)

\* The layer of the tree, as a fact about a table.
LEMMA TreeParts == TreeInv <=> RootStays /\ Usable(entries) /\ Whole(entries)
BY DEF TreeInv, RootStays, UsableUnderUsable, Usable, Whole, Present

\* The same of the next table.
LEMMA TreeParts1 == TreeInv' <=> entries'[Root].status = "ready" /\ Usable(entries') /\ Whole(entries')
BY DEF TreeInv, RootStays, UsableUnderUsable, Usable, Whole, Present

\* A row that is taken out of the tables has no row under it.
LEMMA LeavesGo ==
  ASSUME TypeInv, TreeInv, DeleteInv, NEW s \in Handlers, NEW i \in Ids, RowDropped(s, i)
  PROVE  \A j \in Ids \ {Root} : Present(entries, j) /\ entries[j].parent = i => j = i
<1>1. slot[s].pc \in Wiping
  BY DEF RowDropped, Wiping
<1>2. \A j \in Ids \ {Root} : Present(entries, j) /\ entries[j].parent = i => j \in slot[s].rows
  BY <1>1 DEF RowDropped, DeleteInv, HandlerWipes
<1> QED BY <1>2 DEF RowDropped

\* The layer of the tree is inductive.
LEMMA TreeHolds == TypeInv /\ AttemptInv /\ RowInv /\ TreeInv /\ DeleteInv /\ [Next]_vars => TreeInv'
<1> SUFFICES ASSUME TypeInv, AttemptInv, RowInv, TreeInv, DeleteInv, [Next]_vars
             PROVE  entries'[Root].status = "ready" /\ Usable(entries') /\ Whole(entries')
  BY TreeParts1
<1> DEFINE Goal == entries'[Root].status = "ready" /\ Usable(entries') /\ Whole(entries')
<1>0. entries \in [Ids -> Entries] /\ entries' \in [Ids -> Entries]
  BY Typed DEF TypeInv, TypeOK
<1>1. entries[Root].status = "ready" /\ Usable(entries) /\ Whole(entries)
  BY TreeParts DEF RootStays
<1>2. \A j \in Ids : entries[j].parent \in Folders /\ entries[j].parent \in Ids
  BY <1>0, Constants DEF Entries
<1>3. entries' = entries => Goal
  BY <1>1
<1>a. ASSUME NEW s \in Handlers, HandlerStep(s) PROVE Goal
  <2> DEFINE h == slot[s]
  <2>0. h \in Slots /\ SlotOK(h) /\ Effect(s) /\ h.parent \in Folders /\ h.parent \in Ids
    BY <1>a, Tables, Effects, Constants DEF Slots
  <2>1. CASE RowInserted(s)
    <3>1. h.id \in FileIds /\ h.id \in Ids \ {Root} /\ h.id \notin Folders
      BY <2>0, <2>1, Constants DEF RowInserted, SlotOK, UploadPcs
    <3>2. ReadyFolder(entries, h.parent) /\ ~Present(entries, h.id)
      BY <2>1 DEF RowInserted, CanInsert
    <3>3. /\ \A j \in Ids \ {h.id} : entries'[j] = entries[j]
          /\ entries'[h.id].parent = h.parent /\ entries'[h.id].status = "uploading"
      BY <1>0, <2>1, <3>1 DEF RowInserted, InsertUpload
    <3>4. Whole(entries')
      <4>1. Present(entries', h.id) /\ Present(entries, entries'[h.id].parent)
        BY <3>2, <3>3 DEF Present, ReadyFolder
      <4> QED BY <1>0, <1>1, <3>1, <3>2, <3>3, <4>1, WholeAfterInsert
    <3>5. Usable(entries')
      <4>1. \A p \in Ids : ReadyFolder(entries, p) => ReadyFolder(entries', p)
        BY <3>2, <3>3 DEF ReadyFolder, Present
      <4>2. ReadyFolder(entries', entries'[h.id].parent)
        BY <2>0, <3>2, <3>3, <4>1
      <4> QED BY <1>1, <1>2, <3>3, <4>1, <4>2 DEF Usable
    <3> QED BY <1>1, <3>1, <3>3, <3>4, <3>5, Constants
  <2>2. CASE RowPublished(s)
    <3>1. h.id \in FileIds /\ h.id \in Ids \ {Root} /\ entries[h.id].status = "uploading"
      BY <2>0, <2>2, Constants DEF RowPublished, CanFinalize, SlotOK, UploadPcs
    <3>2. /\ \A j \in Ids \ {h.id} : entries'[j] = entries[j]
          /\ entries'[h.id].parent = entries[h.id].parent /\ entries'[h.id].status = "ready"
      BY <1>0, <2>2, <3>1 DEF RowPublished, Finalized, Entries
    <3>3. \A j \in Ids : entries'[j].parent = entries[j].parent /\ (Present(entries', j) <=> Present(entries, j))
      BY <3>1, <3>2 DEF Present
    <3>4. Whole(entries')
      BY <1>0, <1>1, <3>3, WholeAfterUpdate
    <3>5. \A p \in Ids : ReadyFolder(entries, p) => ReadyFolder(entries', p)
      BY <3>1, <3>2 DEF ReadyFolder
    <3>6. Usable(entries')
      BY <1>1, <1>2, <3>1, <3>2, <3>3, <3>5 DEF Usable
    <3> QED BY <1>1, <3>1, <3>2, <3>4, <3>6, Constants
  <2>3. CASE TreeClaimed(s)
    <3> DEFINE T == Tree(entries, h.id)
    <3>1. h.id \in Ids \ {Root}
      BY <2>0, <2>3 DEF TreeClaimed, SlotOK, DeletePcs, Slots
    <3>2. /\ \A j \in Ids \ T : entries'[j] = entries[j]
          /\ \A j \in T : entries'[j].parent = entries[j].parent /\ entries'[j].status = "deleting"
      <4>1. \A j \in Ids : entries'[j] = IF j \in T THEN [entries[j] EXCEPT !.status = "deleting", !.owner = h.attempt]
                                         ELSE entries[j]
        BY <2>3 DEF TreeClaimed, ClaimedTree
      <4>2. \A j \in T : j \in Ids
        BY DEF Tree
      <4>3. \A j \in Ids : entries[j] \in Entries
        BY <1>0
      <4> HIDE DEF T
      <4> QED BY <4>1, <4>2, <4>3 DEF Entries
    <3>3. Root \notin T /\ (\A j \in T : Present(entries, j))
          /\ \A j \in Ids \ {Root} : Present(entries, j) /\ entries[j].parent \in T => j \in T
      BY <1>0, <1>1, <3>1, TreesHang
    <3> HIDE DEF T
    <3>4. \A j \in Ids : entries'[j].parent = entries[j].parent /\ (Present(entries', j) <=> Present(entries, j))
      BY <3>2, <3>3 DEF Present
    <3>5. Whole(entries')
      BY <1>0, <1>1, <3>4, WholeAfterUpdate
    <3>6. Usable(entries')
      <4> SUFFICES ASSUME NEW j \in Ids \ {Root}, entries'[j].status \in {"ready", "uploading"}
                   PROVE  ReadyFolder(entries', entries'[j].parent)
        BY DEF Usable
      <4>1. j \notin T /\ entries'[j] = entries[j]
        BY <3>2
      <4>2. ReadyFolder(entries, entries[j].parent) /\ Present(entries, j)
        BY <1>1, <4>1 DEF Usable, Present
      <4>3. entries[j].parent \notin T
        BY <3>3, <4>1, <4>2
      <4> QED BY <1>2, <3>2, <4>1, <4>2, <4>3 DEF ReadyFolder
    <3> QED BY <1>1, <3>2, <3>3, <3>5, <3>6, Constants
  <2>4. ASSUME NEW k \in Ids \ {Root}, entries' = [entries EXCEPT ![k] = Absent],
               \A j \in Ids \ {Root, k} : Present(entries, j) => entries[j].parent # k
        PROVE  Goal
    <3>1. Whole(entries')
      BY <1>0, <1>1, <2>4, WholeAfterDelete
    <3>2. entries'[k].status = "absent" /\ \A j \in Ids \ {k} : entries'[j] = entries[j]
      BY <1>0, <2>4 DEF Absent
    <3>3. Usable(entries')
      <4> SUFFICES ASSUME NEW j \in Ids \ {Root}, entries'[j].status \in {"ready", "uploading"}
                   PROVE  ReadyFolder(entries', entries'[j].parent)
        BY DEF Usable
      <4>1. j # k /\ entries'[j] = entries[j] /\ ReadyFolder(entries, entries[j].parent)
        BY <1>1, <3>2 DEF Usable
      <4>2. entries[j].parent # k
        BY <2>4, <3>2, <4>1 DEF Present
      <4> QED BY <1>2, <3>2, <4>1, <4>2 DEF ReadyFolder
    <3> QED BY <1>1, <3>1, <3>2, <3>3, Constants
  <2>5. CASE UploadDropped(s)
    <3> DEFINE i == ops[h.cur].entry
    <3>1. h.cur \in Attempts /\ i \in Ids /\ entries[i].status = "uploading" /\ entries' = [entries EXCEPT ![i] = Absent]
      BY <2>0, <2>5, Tables DEF UploadDropped, OwnedAs, SlotOK, Busy, RecoverPcs, Operations
    <3> HIDE DEF i
    <3>2. i \in FileIds /\ i # Root /\ i \notin Folders
      BY <1>1, <3>1, Constants DEF RowInv, RowOK
    <3> QED BY <1>2, <2>4, <3>1, <3>2
  <2>6. ASSUME NEW i \in Ids, RowDropped(s, i) PROVE Goal
    <3>1. entries[i].status = "deleting" /\ entries' = [entries EXCEPT ![i] = Absent] /\ i # Root
      BY <1>1, <2>6 DEF RowDropped, OwnedAs
    <3> QED BY <2>4, <2>6, <3>1, LeavesGo
  <2> QED BY <1>3, <2>0, <2>1, <2>2, <2>3, <2>5, <2>6 DEF Effect, EntriesEffect
<1>b. CASE Mutate
  <2>1. ASSUME NEW i \in FolderIds, NEW p \in Folders, NEW n \in Names, CreateFolder(i, p, n) PROVE Goal
    <3>1. i \in Ids \ {Root} /\ p \in Ids
      BY Constants, IdsAssumption
    <3>2. ReadyFolder(entries, p) /\ ~Present(entries, i)
      BY <2>1 DEF CreateFolder, CanInsert
    <3>3. /\ \A j \in Ids \ {i} : entries'[j] = entries[j]
          /\ entries'[i].parent = p /\ entries'[i].status = "ready"
      BY <1>0, <2>1, <3>1 DEF CreateFolder, Plainly, InsertFolder
    <3>4. Whole(entries')
      <4>1. Present(entries', i) /\ Present(entries, entries'[i].parent)
        BY <3>2, <3>3 DEF Present, ReadyFolder
      <4> QED BY <1>0, <1>1, <3>1, <3>2, <3>3, <4>1, WholeAfterInsert
    <3>5. Usable(entries')
      <4>1. \A q \in Ids : ReadyFolder(entries, q) => ReadyFolder(entries', q)
        BY <3>2, <3>3 DEF ReadyFolder, Present
      <4>2. ReadyFolder(entries', entries'[i].parent)
        BY <3>1, <3>2, <3>3, <4>1
      <4> QED BY <1>1, <1>2, <3>3, <4>1, <4>2 DEF Usable
    <3> QED BY <1>1, <3>1, <3>3, <3>4, <3>5, Constants
  <2>2. ASSUME NEW i \in Ids, NEW p \in Folders, MoveEntry(i, p) PROVE Goal
    <3>1. i \in Ids \ {Root} /\ ReadyFolder(entries, p) /\ i \notin Ancestors(entries, p) /\ p \in Ids
      BY <2>2, Constants DEF MoveEntry, CanMove, Mutable
    <3>2. /\ \A j \in Ids \ {i} : entries'[j] = entries[j]
          /\ entries'[i].parent = p /\ \A j \in Ids : entries'[j].status = entries[j].status
      BY <1>0, <2>2, <3>1 DEF MoveEntry, Plainly, Moved, Entries
    <3>3. Whole(entries')
      <4>1. Present(entries, p)
        BY <3>1 DEF Present, ReadyFolder
      <4> QED BY <1>0, <1>1, <3>1, <3>2, <4>1, WholeAfterMove
    <3>4. \A q \in Ids : ReadyFolder(entries, q) => ReadyFolder(entries', q)
      BY <3>2 DEF ReadyFolder
    <3>5. Usable(entries')
      BY <1>1, <1>2, <3>1, <3>2, <3>4 DEF Usable
    <3> QED BY <1>1, <3>2, <3>3, <3>5, Constants
  <2>3. ASSUME NEW i \in Ids, NEW n \in Names, PatchEntry(i, n) PROVE Goal
    <3>1. \A j \in Ids : entries'[j].parent = entries[j].parent /\ entries'[j].status = entries[j].status
      BY <1>0, <2>3 DEF PatchEntry, Plainly, Renamed, Entries
    <3>2. Whole(entries')
      BY <1>0, <1>1, <3>1, WholeAfterUpdate DEF Present
    <3>3. Usable(entries')
      BY <1>1, <1>2, <3>1 DEF Usable, ReadyFolder
    <3> QED BY <1>1, <3>1, <3>2, <3>3, Constants
  <2> QED BY <1>b, <2>1, <2>2, <2>3 DEF Mutate
<1>c. CASE UNCHANGED vars
  BY <1>3, <1>c DEF vars
<1>d. ASSUME NEW o \in Attempts, OperationAges(o) PROVE Goal
  BY <1>3, <1>d, Ageing
<1> QED BY <1>a, <1>b, <1>c, <1>d, Cases

-----------------------------------------------------------------------------
(* Deletions.                                                              *)

\* The steps of a deletion that has its rows.
WipeStarts(s) ==
  LET h == slot[s]
      g == slot'[s]
      rows == Tree(entries, ops[h.cur].entry)
      keys == KeysOf(entries, rows) \ h.wiped
  IN /\ h.pc = "dRows" /\ UNCHANGED <<entries, ops, blobs>>
     /\ g.rows = rows /\ rows # {} /\ \A i \in rows : OwnedAs(entries, i, "deleting", h.cur)
     /\ g.keys \subseteq keys /\ (~g.more => g.keys = keys) /\ g.wiped = h.wiped
     /\ g.pc = "dBlob" \/ (g.pc = "dLast" /\ g.keys = {})

WipeBlob(s) ==
  LET h == slot[s]
      g == slot'[s]
  IN /\ h.pc = "dBlob" /\ g.pc = "dRenew" /\ g.rows = h.rows /\ g.more = h.more
     /\ \E k \in h.keys : g.keys = h.keys \ {k} /\ g.wiped = h.wiped \cup {k} /\ blobs' = blobs \ {k}

WipeRow(s) ==
  LET h == slot[s]
      g == slot'[s]
  IN /\ h.pc = "dUnlink" /\ g.pc = "dUnlink" /\ g.keys = h.keys /\ g.more = h.more /\ g.wiped = h.wiped
     /\ \E i \in h.rows : g.rows = h.rows \ {i} /\ entries'[i].status = "absent"

WipeOn(s) ==
  LET h == slot[s]
      g == slot'[s]
  IN /\ h.pc \in Wiping /\ g.rows = h.rows /\ g.keys = h.keys /\ g.more = h.more /\ g.wiped = h.wiped
     /\ \/ g.pc \in {"dMark", "dBlob"}
        \/ g.pc = "dLast" /\ h.keys = {}
        \/ g.pc = "dMeta" /\ h.pc = "dLast" /\ ~h.more
        \/ g.pc = "dUnlink" /\ h.pc = "dMeta"

\* A handler in deletion got there by reading the tree, a blob, a row or a mark.
LEMMA WipingSteps ==
  ASSUME TypeInv, NEW s \in Handlers, HandlerStep(s), slot'[s].pc \in Wiping
  PROVE  /\ slot'[s].cur = slot[s].cur /\ slot[s].cur \in Attempts /\ BusyStep(s)
         /\ WipeStarts(s) \/ WipeBlob(s) \/ WipeRow(s) \/ WipeOn(s)
<1> DEFINE h == slot[s]
<1>0. h \in Slots /\ SlotOK(h)
  BY Tables
<1>1. Wiping \subseteq Busy
  BY DEF Wiping, Busy, RecoverPcs
<1>2. DeleteRows(s) \/ DeleteBlob(s) \/ DeleteRenew(s) \/ DeleteMark(s) \/ DeleteLast(s) \/ DeleteMeta(s) \/ DeleteUnlink(s)
  BY Landings DEF Arrives, Wiping
<1>3. BusyStep(s)
  BY <1>2 DEF BusyStep
<1>4. slot'[s].cur = h.cur /\ h.cur \in Attempts
  BY <1>0, <1>1, <1>3, Carried, BusyAt DEF SlotOK
<1>5. \A pc : /\ Goto(s, pc).pc = pc /\ Goto(s, pc).rows = h.rows /\ Goto(s, pc).keys = h.keys
             /\ Goto(s, pc).more = h.more /\ Goto(s, pc).wiped = h.wiped
  BY MoveFields
<1>6. NextOperation(s).pc \notin Wiping /\ Escape(s).pc \notin Wiping /\ Goto(s, "tRetry").pc \notin Wiping
      /\ Goto(s, "kRenew").pc \notin Wiping /\ Goto(s, "tDone").pc \notin Wiping
  BY MoveFields DEF Wiping, Caught
<1>7. \A pc : Renew(s, pc) => slot'[s] = Goto(s, pc)
  BY <1>6, Calls DEF Renew
<1>a. CASE DeleteRows(s)
  <2> DEFINE rows == Tree(entries, ops[h.cur].entry)
             keys == KeysOf(entries, rows) \ h.wiped
             to(K) == [Goto(s, IF K = {} THEN "dLast" ELSE "dBlob") EXCEPT !.rows = rows, !.keys = K, !.more = K # keys]
  <2>1. \A K : /\ to(K).pc = (IF K = {} THEN "dLast" ELSE "dBlob") /\ to(K).rows = rows /\ to(K).keys = K
              /\ to(K).more = (K # keys) /\ to(K).wiped = h.wiped
    BY <1>0 DEF Goto, Slots
  <2>2. h.pc = "dRows"
    BY <1>a DEF DeleteRows, At
  <2>3. \/ Read(s, Goto(s, "kRenew")) \/ ReadFault(s, Escape(s))
        \/ /\ rows # {} /\ \A i \in rows : OwnedAs(entries, i, "deleting", h.cur)
           /\ \E K \in Passes(s, keys) : Read(s, to(K))
    BY <1>a DEF DeleteRows
  <2>4. ~Read(s, Goto(s, "kRenew")) /\ ~ReadFault(s, Escape(s))
    BY <1>6, Calls
  <2>5. PICK K \in Passes(s, keys) : Read(s, to(K))
    BY <2>3, <2>4
  <2>6. K \subseteq keys
    BY DEF Passes
  <2>7. rows # {} /\ \A i \in rows : OwnedAs(entries, i, "deleting", h.cur)
    BY <2>3, <2>4
  <2> HIDE DEF to
  <2>8. slot'[s] = to(K) /\ UNCHANGED <<entries, ops, blobs>>
    BY <2>5, Calls DEF Read, Sql
  <2>9. WipeStarts(s)
    <3>1. /\ slot'[s].rows = rows /\ slot'[s].keys = K /\ slot'[s].wiped = h.wiped
          /\ slot'[s].pc = "dBlob" \/ (slot'[s].pc = "dLast" /\ K = {})
      BY <2>1, <2>8
    <3>2. ~slot'[s].more => K = keys
      BY <2>1, <2>8
    <3> QED BY <2>2, <2>6, <2>7, <2>8, <3>1, <3>2 DEF WipeStarts
  <2> QED BY <1>3, <1>4, <2>9
<1>b. CASE DeleteBlob(s)
  <2> DEFINE to(k) == [Goto(s, "dRenew") EXCEPT !.keys = @ \ {k}, !.wiped = @ \cup {k}]
  <2>1. \A k : /\ to(k).pc = "dRenew" /\ to(k).rows = h.rows /\ to(k).keys = h.keys \ {k}
              /\ to(k).more = h.more /\ to(k).wiped = h.wiped \cup {k}
    BY <1>0 DEF Goto, Slots
  <2>2. PICK k \in h.keys : R2(s, blobs \ {k}, to(k)) \/ R2Fault(s, blobs \ {k}, Goto(s, "tRetry"))
    BY <1>b DEF DeleteBlob
  <2> HIDE DEF to
  <2>3. ~R2Fault(s, blobs \ {k}, Goto(s, "tRetry"))
    BY <1>6, Calls
  <2>4. slot'[s] = to(k) /\ blobs' = blobs \ {k}
    BY <2>2, <2>3, Calls DEF R2
  <2>5. WipeBlob(s)
    BY <1>b, <2>1, <2>4 DEF WipeBlob, DeleteBlob, At
  <2> QED BY <1>3, <1>4, <2>5
<1>c. CASE DeleteRenew(s)
  <2>1. WipeOn(s)
    BY <1>5, <1>7, <1>c DEF DeleteRenew, At, WipeOn, Wiping
  <2> QED BY <1>3, <1>4, <2>1
<1>d. CASE DeleteMark(s)
  <2> DEFINE then == IF h.keys = {} THEN "dLast" ELSE "dBlob"
  <2>1. h.pc = "dMark" /\ \E O : \/ Sql(s, entries, O, Goto(s, then)) \/ Sql(s, entries, O, Goto(s, "tRetry"))
                                 \/ SqlFault(s, entries, O, Goto(s, "tRetry"))
    BY <1>d DEF DeleteMark, At
  <2>2. slot'[s] = Goto(s, then)
    <3> HIDE DEF then
    <3> QED BY <1>6, <2>1, Calls
  <2>3. WipeOn(s)
    BY <1>5, <2>1, <2>2 DEF WipeOn, Wiping
  <2> QED BY <1>3, <1>4, <2>3
<1>e. CASE DeleteLast(s)
  <2>1. slot'[s] = Goto(s, "dMeta") /\ ~h.more /\ h.pc = "dLast"
    BY <1>6, <1>7, <1>e DEF DeleteLast, At
  <2>2. WipeOn(s)
    BY <1>5, <2>1 DEF WipeOn, Wiping
  <2> QED BY <1>3, <1>4, <2>2
<1>f. CASE DeleteMeta(s)
  <2>1. h.pc = "dMeta" /\ \E O : \/ Sql(s, entries, O, Goto(s, "dUnlink")) \/ Sql(s, entries, O, Goto(s, "tRetry"))
                                 \/ SqlFault(s, entries, O, Goto(s, "tRetry"))
    BY <1>f DEF DeleteMeta, At
  <2>2. slot'[s] = Goto(s, "dUnlink")
    BY <1>6, <2>1, Calls
  <2>3. WipeOn(s)
    BY <1>5, <2>1, <2>2 DEF WipeOn, Wiping
  <2> QED BY <1>3, <1>4, <2>3
<1>g. CASE DeleteUnlink(s)
  <2> DEFINE to(i) == [slot[s] EXCEPT !.rows = @ \ {i}]
             E(i) == Deleted(entries, i, "deleting", slot[s].cur)
  <2>0. h.pc = "dUnlink"
    BY <1>g DEF DeleteUnlink, At
  <2>1. \A i : /\ to(i).pc = "dUnlink" /\ to(i).rows = h.rows \ {i} /\ to(i).keys = h.keys
              /\ to(i).more = h.more /\ to(i).wiped = h.wiped
    BY <1>0, <2>0 DEF Slots
  <2>2. \/ Read(s, Goto(s, "tDone"))
        \/ \E i \in h.rows : \/ E(i)[i].status = "absent" /\ Sql(s, E(i), ops, to(i))
                             \/ Sql(s, E(i), ops, Goto(s, "tDone")) \/ SqlFault(s, E(i), ops, Goto(s, "tRetry"))
    BY <1>g DEF DeleteUnlink
  <2> HIDE DEF to, E
  <2>3. ~Read(s, Goto(s, "tDone"))
    BY <1>6, Calls
  <2>4. PICK i \in h.rows : \/ E(i)[i].status = "absent" /\ Sql(s, E(i), ops, to(i))
                            \/ Sql(s, E(i), ops, Goto(s, "tDone")) \/ SqlFault(s, E(i), ops, Goto(s, "tRetry"))
    BY <2>2, <2>3
  <2>5. ~Sql(s, E(i), ops, Goto(s, "tDone")) /\ ~SqlFault(s, E(i), ops, Goto(s, "tRetry"))
    BY <1>6, Calls
  <2>6. slot'[s] = to(i) /\ entries' = E(i) /\ E(i)[i].status = "absent"
    BY <2>4, <2>5, Calls DEF Sql
  <2>7. WipeRow(s)
    BY <2>0, <2>1, <2>6 DEF WipeRow
  <2> QED BY <1>3, <1>4, <2>7
<1> QED BY <1>2, <1>a, <1>b, <1>c, <1>d, <1>e, <1>f, <1>g

\* A key once dead stays dead, and its blob does not come back.
LEMMA DeadStays ==
  ASSUME TypeInv, AttemptInv, RowInv, [Next]_vars, NEW k \in Attempts, Dead(k)
  PROVE  Dead(k)' /\ (k \notin blobs => k \notin blobs')
<1>0. /\ ops[k].state # "absent" \/ Foreign(k)
      /\ k # None /\ Absent.key = None
      /\ \A s \in Handlers : slot[s].attempt = k => slot[s].pc \notin Early
      /\ \A i \in Ids : entries[i].key = k => entries[i].status = "deleting"
  BY Constants DEF Dead, Absent
<1>1. ops'[k].state # "absent" \/ Foreign(k)'
  BY <1>0, OpsLive, ForeignStays DEF OpLives
<1>2. k <= attempts /\ attempts \in Nat /\ k \in Nat
  <2>1. attempts \in Nat
    BY MaxAttemptsAssumption DEF TypeInv, TypeOK
  <2>2. ~(k > attempts)
    BY <1>0, <2>1, Constants DEF AttemptInv, AttemptsInOrder, Foreign
  <2> QED BY <2>1, <2>2, Constants
<1>a. ASSUME NEW s \in Handlers, HandlerStep(s) PROVE Dead(k)' /\ (k \notin blobs => k \notin blobs')
  <2>1. Arrives(s) /\ (\A t \in Handlers \ {s} : slot'[t] = slot[t]) /\ Effect(s)
    BY <1>a, Landings, Effects
  <2>2. ASSUME slot'[s].attempt = k PROVE slot'[s].pc \notin Early
    <3>1. ~Start(s) /\ slot[s].attempt = k
      <4>1. \/ Start(s) /\ slot'[s].attempt = attempts + 1
            \/ slot'[s].attempt \in {None, slot[s].attempt}
        BY <1>a, AttemptsGo
      <4>2. k # attempts + 1
        BY <1>2
      <4>3. Start(s) => slot'[s].attempt = attempts + 1
        BY Beginnings
      <4> QED BY <1>0, <2>2, <4>1, <4>2, <4>3
    <3>2. slot[s].pc \notin Early
      BY <1>0, <3>1
    <3> QED BY <2>1, <3>1, <3>2
            DEF Arrives, Early, UploadEnqueue, UploadInsert, UploadPut, UploadTouch, At
  <2>3. ASSUME NEW i \in Ids, entries'[i].key = k PROVE entries'[i].status = "deleting"
    <3>1. RowChange(s, i)
      BY <2>1, RowChanges
    <3> QED BY <1>0, <2>3, <3>1 DEF RowChange, RowInserted, Early
  <2>4. k \notin blobs => k \notin blobs'
    BY <1>0, <2>1, BlobChanges DEF Early
  <2> QED BY <1>0, <1>1, <2>1, <2>2, <2>3, <2>4 DEF Dead
<1>b. CASE Mutate
  <2>1. ASSUME NEW i \in Ids, entries'[i].key = k PROVE entries'[i].status = "deleting"
    <3>1. Arranged(i)
      BY <1>b, Arrangements
    <3> QED BY <1>0, <2>1, <3>1 DEF Arranged
  <2> QED BY <1>0, <1>1, <1>b, <2>1, Arrangements DEF Dead
<1>c. CASE UNCHANGED vars
  BY <1>0, <1>1, <1>c DEF vars, Dead
<1>d. ASSUME NEW o \in Attempts, OperationAges(o) PROVE Dead(k)' /\ (k \notin blobs => k \notin blobs')
  BY <1>0, <1>1, <1>d, Ageing DEF Dead
<1> QED BY <1>a, <1>b, <1>c, <1>d, Cases

\* The key of a row in deletion is dead.
LEMMA DeletingIsDead ==
  ASSUME TypeInv, RowInv, UnpublishedInv, NEW i \in FileIds, entries[i].status = "deleting"
  PROVE  entries[i].key \in Attempts /\ Dead(entries[i].key)
<1> DEFINE k == entries[i].key
<1>1. i \in Ids /\ RowOK(i)
  BY Constants DEF RowInv
<1>2. k \in Attempts /\ k # None /\ (ops[k].state # "absent" \/ Foreign(k))
  BY <1>1, Constants DEF RowOK, Queued
<1>3. ASSUME NEW j \in Ids, entries[j].key = k PROVE entries[j].status = "deleting"
  BY <1>1, <1>2, <1>3 DEF RowInv
<1>4. ASSUME NEW s \in Handlers, slot[s].attempt = k PROVE slot[s].pc \notin Early
  BY <1>1, <1>4 DEF UnpublishedInv
<1> QED BY <1>2, <1>3, <1>4 DEF Dead

\* What hangs under a row in deletion was there before.
LEMMA UnderDeletion ==
  ASSUME TypeInv, TreeInv, [Next]_vars, NEW i \in Ids, entries[i].status = "deleting",
         NEW j \in Ids, Present(entries, j)', entries'[j].parent = i
  PROVE  Present(entries, j) /\ entries[j].parent = i
<1>0. ~ReadyFolder(entries, i)
  BY DEF ReadyFolder
<1>a. ASSUME NEW s \in Handlers, HandlerStep(s) PROVE Present(entries, j) /\ entries[j].parent = i
  <2>1. RowChange(s, j)
    BY <1>a, Effects, RowChanges
  <2>2. Absent.status = "absent"
    BY DEF Absent
  <2> QED BY <1>0, <2>1, <2>2 DEF RowChange, RowInserted, CanInsert, Present
<1>b. CASE Mutate
  <2>1. Arranged(j)
    BY <1>b, Arrangements
  <2> QED BY <1>0, <2>1 DEF Arranged, Present
<1>c. CASE UNCHANGED vars
  BY <1>c DEF vars, Present
<1>d. ASSUME NEW o \in Attempts, OperationAges(o) PROVE Present(entries, j) /\ entries[j].parent = i
  BY <1>d, Ageing DEF Present
<1> QED BY <1>a, <1>b, <1>c, <1>d, Cases

\* A row is claimed for a deletion only by the handler at that statement.
LEMMA OwnedBefore ==
  ASSUME TypeInv, [Next]_vars, NEW i \in Ids, NEW o \in Attempts, OwnedAs(entries', i, "deleting", o),
         \A t \in Handlers : At(t, "xClaim") => slot[t].attempt # o
  PROVE  entries'[i] = entries[i]
<1>a. ASSUME NEW s \in Handlers, HandlerStep(s) PROVE entries'[i] = entries[i]
  <2>1. RowChange(s, i)
    BY <1>a, Effects, RowChanges
  <2>2. Absent.status = "absent"
    BY DEF Absent
  <2> QED BY <2>1, <2>2 DEF RowChange, OwnedAs, TreeClaimed, At
<1>b. CASE Mutate
  <2>1. Arranged(i)
    BY <1>b, Arrangements
  <2> QED BY <2>1 DEF Arranged, OwnedAs
<1>c. CASE UNCHANGED vars
  BY <1>c DEF vars
<1>d. ASSUME NEW o1 \in Attempts, OperationAges(o1) PROVE entries'[i] = entries[i]
  BY <1>d, Ageing
<1> QED BY <1>a, <1>b, <1>c, <1>d, Cases

\* A handler that arrives at its claim has a new operation.
LEMMA ClaimsAreNew ==
  ASSUME TypeInv, AttemptInv, [Next]_vars, NEW t \in Handlers, slot'[t].pc = "xClaim"
  PROVE  /\ slot'[t].attempt = slot[t].attempt /\ slot[t].attempt \in Attempts
         /\ slot[t].pc = "xClaim" \/ (ops[slot[t].attempt].state = "absent" /\ entries' = entries)
<1>0. slot[t] \in Slots /\ SlotOK(slot[t]) /\ HandlerQueued(t)
  BY Tables DEF AttemptInv
<1>1. slot[t].pc \in DeletePcs => slot[t].attempt \in Attempts
  BY <1>0 DEF SlotOK
<1>2. CASE slot'[t] = slot[t]
  BY <1>1, <1>2 DEF DeletePcs
<1>a. ASSUME HandlerStep(t) PROVE /\ slot'[t].attempt = slot[t].attempt /\ slot[t].attempt \in Attempts
                                  /\ ops[slot[t].attempt].state = "absent" /\ entries' = entries
  <2>1. DeleteEnqueue(t)
    BY <1>a, Landings DEF Arrives
  <2>2. slot[t].pc = "xEnqueue" /\ entries' = entries
    BY <2>1, CallEffects DEF DeleteEnqueue, At
  <2>3. slot'[t].attempt = slot[t].attempt
    BY <2>1, Destinations DEF Leads, Kept, Idle
  <2> QED BY <1>0, <1>1, <2>2, <2>3 DEF HandlerQueued, DeletePcs
<1>b. ASSUME NEW s \in Handlers, HandlerStep(s), s # t PROVE slot'[t] = slot[t]
  BY <1>b, Landings
<1>c. Mutate \/ UNCHANGED vars => slot'[t] = slot[t]
  BY Arrangements DEF vars
<1>d. ASSUME NEW o \in Attempts, OperationAges(o) PROVE slot'[t] = slot[t]
  BY <1>d, Ageing
<1> QED BY <1>2, <1>a, <1>b, <1>c, <1>d, Cases

\* The layer of deletions is inductive.
LEMMA DeleteHolds ==
  TypeInv /\ AttemptInv /\ RowInv /\ TreeInv /\ UnpublishedInv /\ DeleteInv /\ [Next]_vars => DeleteInv'
<1> SUFFICES ASSUME TypeInv, AttemptInv, RowInv, TreeInv, UnpublishedInv, DeleteInv, [Next]_vars PROVE DeleteInv'
  OBVIOUS
<1>0. /\ \A t \in Handlers : slot[t] \in Slots /\ SlotOK(slot[t]) /\ HandlerQueued(t) /\ HandlerWipes(t)
      /\ \A o \in Attempts : ops[o] \in Operations
  BY Tables DEF AttemptInv, DeleteInv
<1>1. \A k \in Attempts : Dead(k) => Dead(k)' /\ (k \notin blobs => k \notin blobs')
  BY DeadStays
<1>2. \A t \in Handlers : slot[t].pc \in Wiping \cup {"dRows"} =>
        /\ slot[t].cur \in Attempts /\ ops[slot[t].cur].kind = "delete_tree"
        /\ ops[slot[t].cur].state # "absent"
  <2>1. Wiping \cup {"dRows"} \subseteq Busy
    BY DEF Wiping, Busy, RecoverPcs
  <2> QED BY <1>0, <2>1 DEF SlotOK, HandlerQueued
<1>3. \A t \in Handlers : slot[t].wiped \subseteq Attempts /\ slot[t].keys \subseteq Attempts /\ slot[t].rows \subseteq Ids
  BY <1>0 DEF Slots
\* A handler that does not move.
<1>4. ASSUME NEW t \in Handlers, slot'[t] = slot[t] PROVE HandlerWipes(t)'
  <2> DEFINE h == slot[t]
  <2>1. h.pc \in Wiping \cup {"dRows"} => \A k \in h.wiped : Dead(k)' /\ k \notin blobs'
    BY <1>0, <1>1, <1>3 DEF HandlerWipes
  <2>2. h.pc \in Wiping => \A k \in h.keys : Dead(k)'
    BY <1>0, <1>1, <1>3 DEF HandlerWipes
  <2>3. ASSUME h.pc \in Wiping, NEW r \in Handlers, slot'[r].pc = "xClaim" PROVE slot'[r].attempt # h.cur
    <3>1. slot[r].pc = "xClaim" => slot[r].attempt # h.cur
      BY <1>0, <2>3 DEF HandlerWipes, At
    <3>2. ops[h.cur].state # "absent"
      BY <1>2, <2>3
    <3> QED BY <2>3, <3>1, <3>2, ClaimsAreNew
  <2>4. ASSUME h.pc \in Wiping, NEW i \in h.rows, OwnedAs(entries', i, "deleting", h.cur)
        PROVE  /\ \A j \in Ids \ {Root} : Present(entries', j) /\ entries'[j].parent = i => j \in h.rows
               /\ i \in FileIds /\ ~h.more => entries'[i].key \in h.keys \cup h.wiped
    <3>1. i \in Ids /\ h.cur \in Attempts
      BY <1>2, <1>3, <2>4
    <3>2. \A r \in Handlers : At(r, "xClaim") => slot[r].attempt # h.cur
      BY <1>0, <2>4 DEF HandlerWipes
    <3>3. entries'[i] = entries[i]
      BY <2>4, <3>1, <3>2, OwnedBefore
    <3>4. OwnedAs(entries, i, "deleting", h.cur) /\ entries[i].status = "deleting"
      BY <2>4, <3>3 DEF OwnedAs
    <3>5. ASSUME NEW j \in Ids \ {Root}, Present(entries', j), entries'[j].parent = i PROVE j \in h.rows
      <4>1. Present(entries, j) /\ entries[j].parent = i
        BY <3>1, <3>4, <3>5, UnderDeletion DEF Present
      <4> QED BY <1>0, <2>4, <3>4, <4>1 DEF HandlerWipes
    <3>6. i \in FileIds /\ ~h.more => entries'[i].key \in h.keys \cup h.wiped
      BY <1>0, <2>4, <3>3, <3>4 DEF HandlerWipes
    <3> QED BY <3>5, <3>6
  <2>5. /\ h.pc \in {"dLast", "dMeta", "dUnlink"} => h.keys = {}
        /\ h.pc \in {"dMeta", "dUnlink"} => ~h.more
    BY <1>0 DEF HandlerWipes
  <2> QED BY <1>4, <2>1, <2>2, <2>3, <2>4, <2>5 DEF HandlerWipes, At
\* The handler that moves.
<1>5. ASSUME NEW s \in Handlers, HandlerStep(s) PROVE HandlerWipes(s)'
  <2> DEFINE h == slot[s]
             g == slot'[s]
  <2>1. CASE g.pc \notin Wiping \cup {"dRows"}
    BY <2>1 DEF HandlerWipes, Wiping
  <2>2. CASE g.pc = "dRows"
    <3>1. RecoverClaimed(s) /\ BusyStep(s)
      BY <1>5, <2>2, Landings DEF Arrives, BusyStep
    <3>2. ops[h.cur].kind = "delete_tree" /\ g.wiped = ops[h.cur].wiped /\ h.cur \in Attempts
      BY <1>0, <2>2, <3>1, Choosing, BusyAt DEF SlotOK
    <3>3. ops[h.cur].wiped \subseteq Attempts
      BY <1>0, <3>2 DEF Operations
    <3>4. \A k \in g.wiped : Dead(k)' /\ k \notin blobs'
      BY <1>1, <3>2, <3>3 DEF DeleteInv
    <3> QED BY <2>2, <3>4 DEF HandlerWipes, Wiping
  <2>3. CASE g.pc \in Wiping
    <3>0. /\ g.cur = h.cur /\ h.cur \in Attempts
          /\ WipeStarts(s) \/ WipeBlob(s) \/ WipeRow(s) \/ WipeOn(s)
      BY <1>5, <2>3, WipingSteps
    <3>a. CASE WipeStarts(s)
      <4> DEFINE rows == Tree(entries, ops[h.cur].entry)
      <4>1. /\ h.pc = "dRows" /\ UNCHANGED <<entries, ops, blobs>>
            /\ g.rows = rows /\ rows # {} /\ \A i \in rows : OwnedAs(entries, i, "deleting", h.cur)
            /\ g.keys \subseteq KeysOf(entries, rows) \ h.wiped
            /\ ~g.more => g.keys = KeysOf(entries, rows) \ h.wiped
            /\ g.wiped = h.wiped
            /\ g.pc = "dBlob" \/ (g.pc = "dLast" /\ g.keys = {})
        BY <3>a DEF WipeStarts
      <4>2. \A k \in g.wiped : Dead(k)' /\ k \notin blobs'
        BY <1>0, <1>1, <1>3, <4>1 DEF HandlerWipes
      <4>3. ASSUME NEW k \in g.keys PROVE Dead(k)'
        <5>1. PICK i \in rows \cap FileIds : k = entries[i].key
          BY <4>1 DEF KeysOf
        <5>2. entries[i].status = "deleting"
          BY <4>1 DEF OwnedAs
        <5>3. k \in Attempts /\ Dead(k)
          BY <5>1, <5>2, DeletingIsDead
        <5> QED BY <1>1, <5>3
      <4>4. ASSUME NEW r \in Handlers, slot'[r].pc = "xClaim" PROVE slot'[r].attempt # g.cur
        <5>1. PICK i \in rows : OwnedAs(entries, i, "deleting", h.cur)
          BY <4>1
        <5>2. i \in Ids
          BY DEF Tree
        <5>3. slot[r].pc = "xClaim" => slot[r].attempt # h.cur
          BY <5>1, <5>2 DEF DeleteInv, OwnedAs, At
        <5>4. ops[h.cur].state # "absent"
          BY <1>2, <4>1
        <5> QED BY <3>0, <4>4, <5>3, <5>4, ClaimsAreNew
      <4>5. ASSUME NEW i \in g.rows, OwnedAs(entries', i, "deleting", g.cur)
            PROVE  /\ \A j \in Ids \ {Root} : Present(entries', j) /\ entries'[j].parent = i => j \in g.rows
                   /\ i \in FileIds /\ ~g.more => entries'[i].key \in g.keys \cup g.wiped
        <5>1. entries' = entries /\ g.rows = rows /\ i \in rows /\ g.wiped = h.wiped
          BY <4>1, <4>5
        <5>2. ops[h.cur].entry \in Ids /\ entries \in [Ids -> Entries] /\ Whole(entries)
          BY <1>0, <3>0, TreeParts DEF Operations, TypeInv, TypeOK
        <5>3. \A j \in Ids \ {Root} : Present(entries, j) /\ entries[j].parent \in rows => j \in rows
          BY <5>2, TreesHang
        <5>4. i \in FileIds => entries[i].key \in KeysOf(entries, rows)
          BY <5>1 DEF KeysOf
        <5>5. i \in FileIds /\ ~g.more => entries[i].key \in g.keys \cup g.wiped
          <6> HIDE DEF rows
          <6> QED BY <4>1, <5>1, <5>4
        <5> HIDE DEF rows
        <5> QED BY <5>1, <5>3, <5>5
      <4>6. g.pc \in {"dBlob", "dLast"} /\ (g.pc = "dLast" => g.keys = {})
        BY <4>1
      <4> QED BY <4>2, <4>3, <4>4, <4>5, <4>6 DEF HandlerWipes, At, Wiping
    <3>b. CASE WipeBlob(s) \/ WipeRow(s) \/ WipeOn(s)
      <4>0. h.pc \in Wiping
        BY <3>b DEF WipeBlob, WipeRow, WipeOn, Wiping
      <4>1. /\ \A k \in h.wiped : k \in Attempts /\ Dead(k)' /\ k \notin blobs'
            /\ \A k \in h.keys : k \in Attempts /\ Dead(k)'
        BY <1>0, <1>1, <1>3, <4>0 DEF HandlerWipes
      <4>2. (\A k \in g.wiped : Dead(k)' /\ k \notin blobs') /\ (\A k \in g.keys : Dead(k)')
            /\ g.keys \cup g.wiped = h.keys \cup h.wiped /\ g.more = h.more
        BY <3>b, <4>1 DEF WipeBlob, WipeRow, WipeOn
      <4>3. ASSUME NEW r \in Handlers, slot'[r].pc = "xClaim" PROVE slot'[r].attempt # g.cur
        <5>1. slot[r].pc = "xClaim" => slot[r].attempt # h.cur
          BY <1>0, <4>0 DEF HandlerWipes, At
        <5>2. ops[h.cur].state # "absent"
          BY <1>2, <4>0
        <5> QED BY <3>0, <4>3, <5>1, <5>2, ClaimsAreNew
      <4>4. g.rows \subseteq h.rows /\ \A i \in h.rows \ g.rows : ~Present(entries', i)
        BY <3>b DEF WipeBlob, WipeRow, WipeOn, Present
      <4>5. ASSUME NEW i \in g.rows, OwnedAs(entries', i, "deleting", g.cur)
            PROVE  /\ \A j \in Ids \ {Root} : Present(entries', j) /\ entries'[j].parent = i => j \in g.rows
                   /\ i \in FileIds /\ ~g.more => entries'[i].key \in g.keys \cup g.wiped
        <5>1. i \in h.rows /\ i \in Ids /\ h.cur \in Attempts
          BY <1>3, <3>0, <4>4
        <5>2. \A r \in Handlers : At(r, "xClaim") => slot[r].attempt # h.cur
          BY <1>0, <4>0 DEF HandlerWipes
        <5>3. entries'[i] = entries[i]
          BY <3>0, <4>5, <5>1, <5>2, OwnedBefore
        <5>4. OwnedAs(entries, i, "deleting", h.cur) /\ entries[i].status = "deleting"
          BY <3>0, <4>5, <5>3 DEF OwnedAs
        <5>5. ASSUME NEW j \in Ids \ {Root}, Present(entries', j), entries'[j].parent = i PROVE j \in g.rows
          <6>1. Present(entries, j) /\ entries[j].parent = i
            BY <5>1, <5>4, <5>5, UnderDeletion DEF Present
          <6>2. j \in h.rows
            BY <1>0, <4>0, <5>1, <5>4, <6>1 DEF HandlerWipes
          <6> QED BY <4>4, <5>5, <6>2
        <5>6. i \in FileIds /\ ~g.more => entries'[i].key \in g.keys \cup g.wiped
          BY <1>0, <4>0, <4>2, <5>1, <5>3, <5>4 DEF HandlerWipes
        <5> QED BY <5>5, <5>6
      <4>6. /\ g.pc \in {"dLast", "dMeta", "dUnlink"} => g.keys = {}
            /\ g.pc \in {"dMeta", "dUnlink"} => ~g.more
        BY <1>0, <3>b DEF HandlerWipes, WipeBlob, WipeRow, WipeOn, Wiping
      <4> QED BY <4>2, <4>3, <4>5, <4>6 DEF HandlerWipes, At
    <3> QED BY <3>0, <3>a, <3>b
  <2> QED BY <2>1, <2>2, <2>3
<1>6. \A t \in Handlers : HandlerWipes(t)'
  <2>1. ASSUME NEW s \in Handlers, HandlerStep(s), NEW t \in Handlers PROVE HandlerWipes(t)'
    <3>1. t # s => slot'[t] = slot[t]
      BY <2>1, Landings
    <3> QED BY <1>4, <1>5, <2>1, <3>1
  <2>2. UNCHANGED vars \/ Mutate => slot' = slot
    BY Arrangements DEF vars
  <2>3. \A o \in Attempts : OperationAges(o) => slot' = slot
    BY Ageing
  <2> QED BY <1>4, <2>1, <2>2, <2>3, Cases
<1>7. ASSUME NEW o \in Attempts, ops'[o].kind = "delete_tree", NEW k \in ops'[o].wiped
      PROVE  Dead(k)' /\ k \notin blobs'
  <2>1. ASSUME ops[o].kind = "delete_tree", k \in ops[o].wiped PROVE Dead(k)' /\ k \notin blobs'
    <3>1. k \in Attempts
      BY <1>0, <2>1 DEF Operations
    <3> QED BY <1>1, <2>1, <3>1 DEF DeleteInv
  <2>2. ASSUME NEW s \in Handlers, HandlerStep(s) PROVE Dead(k)' /\ k \notin blobs'
    <3>1. OpChange(s, o)
      BY <2>2, Effects, OpChanges
    <3>2. CASE slot[s].pc \in {"dMark", "dMeta"} /\ ops'[o].wiped = slot[s].wiped
      <4>1. k \in slot[s].wiped /\ k \in Attempts /\ slot[s].pc \in Wiping
        BY <1>3, <1>7, <3>2 DEF Wiping
      <4>2. Dead(k) /\ k \notin blobs
        BY <1>0, <4>1 DEF HandlerWipes
      <4> QED BY <1>1, <4>1, <4>2
    <3>3. CASE slot[s].pc = "cMark" /\ ops'[o].kind = ops[o].kind /\ o = slot[s].cur
      <4>1. ops[o].kind = "upload_cleanup"
        BY <1>0, <3>3 DEF HandlerQueued, Cleaning
      <4> QED BY <1>7, <3>3, <4>1
    <3> QED BY <1>7, <2>1, <3>1, <3>2, <3>3 DEF OpChange
  <2>3. CASE UNCHANGED vars \/ Mutate
    <3>1. ops' = ops
      BY <2>3, Arrangements DEF vars
    <3> QED BY <1>7, <2>1, <3>1
  <2>4. ASSUME NEW q \in Attempts, OperationAges(q) PROVE Dead(k)' /\ k \notin blobs'
    <3>1. ops'[o].kind = ops[o].kind /\ ops'[o].wiped = ops[o].wiped
      BY <2>4, Ageing
    <3> QED BY <1>7, <2>1, <3>1
  <2> QED BY <2>2, <2>3, <2>4, Cases
<1>8. ASSUME NEW i \in Ids, NEW t \in Handlers, entries'[i].status = "deleting", slot'[t].pc = "xClaim"
      PROVE  slot'[t].attempt # entries'[i].owner
  <2>1. /\ slot'[t].attempt = slot[t].attempt /\ slot[t].attempt \in Attempts
        /\ slot[t].pc = "xClaim" \/ (ops[slot[t].attempt].state = "absent" /\ entries' = entries)
    BY <1>8, ClaimsAreNew
  <2>2. CASE entries'[i] = entries[i]
    BY <1>8, <2>1, <2>2 DEF DeleteInv, At, AttemptInv, AttemptsInOrder
  <2>3. CASE entries'[i] # entries[i]
    <3>0. slot[t].pc = "xClaim"
      BY <2>1, <2>3
    <3>1. ASSUME NEW s \in Handlers, HandlerStep(s) PROVE slot'[t].attempt # entries'[i].owner
      <4>1. RowChange(s, i)
        BY <3>1, Effects, RowChanges
      <4>2. slot[s].pc = "xClaim" /\ entries'[i].owner = slot[s].attempt
        <5>1. Absent.status = "absent"
          BY DEF Absent
        <5> QED BY <1>8, <2>3, <4>1, <5>1 DEF RowChange, TreeClaimed
      <4>3. t # s
        <5>1. ~Evict(s)
          BY <2>3, Beginnings
        <5>2. DeleteClaim(s)
          BY <3>1, <4>2, <5>1, Departures
        <5>3. slot'[s].pc # "xClaim"
          BY <5>2, Destinations DEF Leads
        <5> QED BY <1>8, <5>3
      <4> QED BY <2>1, <4>2, <4>3, Constants DEF AttemptInv, AttemptsInOrder
    <3>2. ~Mutate
      <4>1. Mutate => Arranged(i)
        BY Arrangements
      <4> QED BY <1>8, <2>3, <4>1 DEF Arranged
    <3>3. \A o \in Attempts : ~OperationAges(o)
      BY <2>3, Ageing
    <3>4. ~UNCHANGED vars
      BY <2>3 DEF vars
    <3> QED BY <3>1, <3>2, <3>3, <3>4, Cases
  <2> QED BY <2>2, <2>3
<1> QED BY <1>6, <1>7, <1>8 DEF DeleteInv, At

-----------------------------------------------------------------------------
(* Uploads.                                                                *)

\* The steps of an upload up to its publication.
LEMMA UploadArrivals ==
  ASSUME TypeInv, NEW s \in Handlers, HandlerStep(s)
  PROVE  /\ slot'[s].pc = "uInsert" =>
              /\ slot[s].pc = "uEnqueue"
              /\ ops' = Enqueued(ops, slot[s].attempt, "upload_cleanup", slot[s].id, "held")
         /\ slot'[s].pc = "uPut" =>
              /\ slot[s].pc = "uInsert" /\ CanInsert(entries, slot[s].id, slot[s].parent, slot[s].name)
              /\ entries' = InsertUpload(entries, slot[s].id, slot[s].parent, slot[s].name, slot[s].attempt)
              /\ UNCHANGED <<ops, blobs, faults, late>>
         /\ slot'[s].pc = "uTouch" =>
              /\ slot[s].pc = "uPut" /\ blobs' = blobs \cup {slot[s].attempt}
              /\ UNCHANGED <<entries, ops, faults, late>>
         /\ slot'[s].pc = "uFinalize" =>
              /\ slot[s].pc = "uTouch" /\ UNCHANGED <<entries, blobs, late>>
              /\ \/ CanTouch(ops, slot[s].attempt) /\ ops' = Touched(ops, slot[s].attempt) /\ faults' = faults
                 \/ ops' \in {ops, Touched(ops, slot[s].attempt)} /\ faults' = faults - 1
         /\ slot'[s].pc \in {"uInsert", "uPut", "uTouch", "uFinalize"} => Kept(slot'[s], slot[s])
<1> DEFINE h == slot[s]
           o == slot[s].attempt
<1>0. Goto(s, "uUndo").pc = "uUndo" /\ Goto(s, "uGiveUp").pc = "uGiveUp"
  BY MoveFields
<1>i. Idle.pc = "idle"
  BY DEF Idle
<1>1. ASSUME slot'[s].pc = "uInsert"
      PROVE  h.pc = "uEnqueue" /\ ops' = Enqueued(ops, o, "upload_cleanup", h.id, "held")
  <2> DEFINE O == Enqueued(ops, o, "upload_cleanup", h.id, "held")
  <2>1. UploadEnqueue(s) /\ h.pc = "uEnqueue"
    BY <1>1, Landings DEF Arrives, UploadEnqueue, At
  <2>2. \/ Sql(s, entries, O, Goto(s, "uInsert")) \/ Sql(s, entries, ops, Idle)
        \/ SqlFault(s, entries, O, Goto(s, "uUndo")) \/ SqlFault(s, entries, ops, Goto(s, "uUndo"))
    BY <2>1 DEF UploadEnqueue
  <2> HIDE DEF O
  <2>3. ~Sql(s, entries, ops, Idle)
    BY <1>1, <1>i, Calls
  <2>4. ~SqlFault(s, entries, O, Goto(s, "uUndo")) /\ ~SqlFault(s, entries, ops, Goto(s, "uUndo"))
    BY <1>0, <1>1, Calls
  <2>5. ops' = O
    BY <2>2, <2>3, <2>4 DEF Sql
  <2> QED BY <2>1, <2>5 DEF O
<1>2. ASSUME slot'[s].pc = "uPut"
      PROVE  /\ h.pc = "uInsert" /\ CanInsert(entries, h.id, h.parent, h.name)
             /\ entries' = InsertUpload(entries, h.id, h.parent, h.name, o)
             /\ UNCHANGED <<ops, blobs, faults, late>>
  <2> DEFINE E == InsertUpload(entries, h.id, h.parent, h.name, o)
             hit == CanInsert(entries, h.id, h.parent, h.name)
  <2>1. UploadInsert(s) /\ h.pc = "uInsert"
    BY <1>2, Landings DEF Arrives, UploadInsert, At
  <2>2. \/ hit /\ Sql(s, E, ops, Goto(s, "uPut"))
        \/ Sql(s, entries, ops, Goto(s, "uUndo"))
        \/ SqlFault(s, E, ops, Goto(s, "uUndo")) \/ SqlFault(s, entries, ops, Goto(s, "uUndo"))
    BY <2>1 DEF UploadInsert
  <2> HIDE DEF E, hit
  <2>3. ~Sql(s, entries, ops, Goto(s, "uUndo"))
    BY <1>0, <1>2, Calls
  <2>4. ~SqlFault(s, E, ops, Goto(s, "uUndo")) /\ ~SqlFault(s, entries, ops, Goto(s, "uUndo"))
    BY <1>0, <1>2, Calls
  <2>5. hit /\ Sql(s, E, ops, Goto(s, "uPut"))
    BY <2>2, <2>3, <2>4
  <2> QED BY <2>1, <2>5 DEF Sql, E, hit
<1>3. ASSUME slot'[s].pc = "uTouch"
      PROVE  h.pc = "uPut" /\ blobs' = blobs \cup {o} /\ UNCHANGED <<entries, ops, faults, late>>
  <2>1. UploadPut(s) /\ h.pc = "uPut"
    BY <1>3, Landings DEF Arrives, UploadPut, At
  <2>2. ~R2Fault(s, blobs \cup {o}, Goto(s, "uGiveUp"))
    BY <1>0, <1>3, Calls
  <2>3. R2(s, blobs \cup {o}, Goto(s, "uTouch"))
    BY <2>1, <2>2 DEF UploadPut
  <2> QED BY <2>1, <2>3 DEF R2
<1>4. ASSUME slot'[s].pc = "uFinalize"
      PROVE  /\ h.pc = "uTouch" /\ UNCHANGED <<entries, blobs, late>>
             /\ \/ CanTouch(ops, o) /\ ops' = Touched(ops, o) /\ faults' = faults
                \/ ops' \in {ops, Touched(ops, o)} /\ faults' = faults - 1
  <2> DEFINE O == Touched(ops, o)
             hit == CanTouch(ops, o)
  <2>1. UploadTouch(s) /\ h.pc = "uTouch"
    BY <1>4, Landings DEF Arrives, UploadTouch, At
  <2>2. \/ hit /\ Sql(s, entries, O, Goto(s, "uFinalize"))
        \/ Sql(s, entries, O, Goto(s, "uGiveUp"))
        \/ SqlFault(s, entries, O, Goto(s, "uFinalize"))
    BY <2>1 DEF UploadTouch
  <2> HIDE DEF O, hit
  <2>3. ~Sql(s, entries, O, Goto(s, "uGiveUp"))
    BY <1>0, <1>4, Calls
  <2>4. CASE hit /\ Sql(s, entries, O, Goto(s, "uFinalize"))
    BY <2>1, <2>4 DEF Sql, O, hit
  <2>5. CASE SqlFault(s, entries, O, Goto(s, "uFinalize"))
    BY <2>1, <2>5 DEF SqlFault, Fault, O
  <2> QED BY <2>2, <2>3, <2>4, <2>5
<1>5. ASSUME slot'[s].pc \in {"uInsert", "uPut", "uTouch", "uFinalize"} PROVE Kept(slot'[s], slot[s])
  BY <1>5, <1>i, Landings, Destinations DEF Arrives, Leads
<1> QED BY <1>1, <1>2, <1>3, <1>4, <1>5

\* Time never runs backwards: failures are not refunded, lateness is not forgotten.
LEMMA Losses ==
  ASSUME TypeInv, [Next]_vars
  PROVE  /\ late => late'
         /\ LateAndFailed => LateAndFailed'
         /\ (late => faults < MaxFaults) => (late' => faults' < MaxFaults)
<1>0. faults \in Nat /\ faults <= MaxFaults /\ MaxFaults \in Nat
  BY MaxFaultsAssumption DEF TypeInv, TypeOK
<1>1. (\E s \in Handlers : HandlerStep(s)) => Budget
  BY Effects
<1>2. Mutate \/ UNCHANGED vars => Budget
  BY Arrangements DEF Budget, vars
<1>3. (\E o \in Attempts : OperationAges(o)) => Budget \/ (late' /\ faults > 0 /\ faults' = faults - 1)
  BY DEF OperationAges, Budget
<1> QED BY <1>0, <1>1, <1>2, <1>3, Cases DEF Budget, LateAndFailed

\* An operation that an upload keeps is touched by nobody else.
LEMMA FreshStays ==
  ASSUME TypeInv, AttemptInv, NEW s \in Handlers, HandlerStep(s), NEW o \in Attempts, Beating(o), slot[s].attempt # o
  PROVE  Beating(o)'
<1>1. OpChange(s, o)
  BY Effects, OpChanges
<1> QED BY <1>1 DEF OpChange, Beating, Runnable

\* It does not grow old between two calls to the database either.
LEMMA KeptFresh ==
  ASSUME TypeInv, AttemptInv, NEW o \in Attempts, OperationAges(o), NEW t \in Handlers, slot[t].attempt = o, slot[t].pc \in Early,
         ops[o].state = "held"
  PROVE  slot[t].pc = "uPut" /\ late'
<1>1. t \in Keepers(o)
  BY Tables DEF Keepers, At, SlotOK, Early, UploadPcs
<1>2. PICK s \in Keepers(o) : slot[s].pc \in {"uPut", "cBlob", "dBlob"}
  BY <1>1 DEF OperationAges
<1>3. late'
  BY <1>1 DEF OperationAges
<1>4. s \in Handlers /\ slot[s].attempt = o
  BY <1>2 DEF Keepers, RunBy
<1>5. s = t
  BY <1>4, Constants DEF AttemptInv, AttemptsInOrder
<1> QED BY <1>2, <1>3, <1>5 DEF Early

\* The layer of uploads is inductive.
LEMMA UploadHolds ==
  TypeInv /\ AttemptInv /\ RowInv /\ DeleteInv /\ UploadInv /\ [Next]_vars => UploadInv'
<1> SUFFICES ASSUME TypeInv, AttemptInv, RowInv, DeleteInv, UploadInv, [Next]_vars PROVE UploadInv'
  OBVIOUS
<1>0. /\ \A t \in Handlers : slot[t] \in Slots /\ SlotOK(slot[t]) /\ HandlerQueued(t) /\ HandlerUploads(t)
      /\ ops \in [Attempts -> Operations]
      /\ \A o \in Attempts : OpLives(o)
  BY Tables, OpsLive DEF AttemptInv, UploadInv
<1>1. (late => late') /\ (LateAndFailed => LateAndFailed') /\ (late' => faults' < MaxFaults)
  BY Losses DEF UploadInv
<1>2. \A t \in Handlers : slot[t].pc \in {"uInsert", "uPut", "uTouch", "uFinalize"} =>
        /\ slot[t].attempt \in Attempts /\ slot[t].attempt # None /\ slot[t].id \in Ids /\ slot[t].job = "upload"
        /\ ops[slot[t].attempt].state # "absent" /\ slot[t].pc \in Early
  BY <1>0, Constants DEF SlotOK, HandlerQueued, Queued, UploadPcs, Early
\* A step of another handler.
<1>3. ASSUME NEW s \in Handlers, HandlerStep(s), NEW t \in Handlers, t # s PROVE HandlerUploads(t)'
  <2> DEFINE h == slot[t]
             o == slot[t].attempt
  <2>1. slot'[t] = h /\ Effect(s)
    BY <1>3, Landings, Effects
  <2> SUFFICES ASSUME h.pc \in {"uInsert", "uPut", "uTouch", "uFinalize"} PROVE HandlerUploads(t)'
    BY <2>1 DEF HandlerUploads
  <2>2. o \in Attempts /\ o # None /\ h.id \in Ids /\ ops[o].state # "absent" /\ h.pc \in Early
    BY <1>2
  <2>3. slot[s].attempt # o
    BY <1>3, <2>2 DEF AttemptInv, AttemptsInOrder
  <2>4. ops'[o].state = "held" => ops[o].state = "held"
    BY <1>0, <2>2 DEF OpLives
  <2>5. slot[s].pc \in Busy /\ slot[s].cur = o => ops[o].state # "held"
    BY <1>0 DEF HandlerQueued
  <2>6. ASSUME h.pc \in {"uPut", "uTouch", "uFinalize"}, ops'[o].state = "held"
        PROVE  OwnedAs(entries', h.id, "uploading", o)
    <3>1. OwnedAs(entries, h.id, "uploading", o)
      BY <1>0, <2>4, <2>6 DEF HandlerUploads
    <3>2. RowChange(s, h.id)
      BY <2>1, <2>2, RowChanges
    <3>3. entries'[h.id] = entries[h.id]
      BY <2>3, <2>4, <2>5, <2>6, <3>1, <3>2 DEF RowChange, OwnedAs, UploadDropped, Busy, RecoverPcs
    <3> QED BY <3>1, <3>3 DEF OwnedAs
  <2>7. ASSUME h.pc \in {"uTouch", "uFinalize"}, ops'[o].state = "held" PROVE o \in blobs'
    <3>1. o \in blobs
      BY <1>0, <2>4, <2>7 DEF HandlerUploads
    <3>2. ~(slot[s].pc = "cBlob" /\ slot[s].cur = o)
      BY <2>4, <2>5, <2>7 DEF Busy, RecoverPcs
    <3>3. ~(slot[s].pc = "dBlob" /\ o \in slot[s].keys)
      BY <2>2 DEF DeleteInv, HandlerWipes, Wiping, Dead
    <3> QED BY <2>1, <2>2, <3>1, <3>2, <3>3, BlobChanges
  <2>8. Beating(o) => Beating(o)'
    <3>1. Beating(o) => ops'[o].state = "held" /\ ~ops'[o].aged
      BY <1>3, <2>2, <2>3, FreshStays DEF Beating
    <3> QED BY <2>1, <3>1 DEF Beating
  <2>9. Beating(o) => ops'[o].state = "held" /\ ~ops'[o].aged
    BY <1>3, <2>2, <2>3, FreshStays DEF Beating
  <2> QED BY <1>0, <1>1, <2>1, <2>6, <2>7, <2>9 DEF HandlerUploads, Beating
\* A step of its own.
<1>4. ASSUME NEW s \in Handlers, HandlerStep(s) PROVE HandlerUploads(s)'
  <2> DEFINE h == slot[s]
             g == slot'[s]
             o == slot[s].attempt
  <2> SUFFICES ASSUME g.pc \in {"uInsert", "uPut", "uTouch", "uFinalize"} PROVE HandlerUploads(s)'
    BY DEF HandlerUploads
  <2>1. g.attempt = o /\ g.id = h.id
    BY <1>4, UploadArrivals DEF Kept
  <2>2. CASE g.pc = "uInsert"
    <3>1. ops' = Enqueued(ops, o, "upload_cleanup", h.id, "held") /\ h.pc = "uEnqueue"
      BY <1>4, <2>2, UploadArrivals
    <3>2. o \in Attempts
      BY <1>0, <3>1 DEF SlotOK, UploadPcs
    <3>3. ops'[o].state = "held" /\ ~ops'[o].aged
      BY <1>0, <3>1, <3>2 DEF Enqueued
    <3> QED BY <2>1, <2>2, <3>3 DEF HandlerUploads, Beating
  <2>3. CASE g.pc = "uPut"
    <3>1. /\ h.pc = "uInsert" /\ entries' = InsertUpload(entries, h.id, h.parent, h.name, o)
          /\ UNCHANGED <<ops, blobs, faults, late>>
      BY <1>4, <2>3, UploadArrivals
    <3>2. OwnedAs(entries', h.id, "uploading", o)
      BY <1>2, <3>1, Tables DEF InsertUpload, OwnedAs, KeyedRows
    <3>3. Beating(o)
      BY <1>0, <3>1 DEF HandlerUploads
    <3> QED BY <2>1, <2>3, <3>1, <3>2, <3>3 DEF HandlerUploads, Beating
  <2>4. CASE g.pc = "uTouch"
    <3>1. h.pc = "uPut" /\ blobs' = blobs \cup {o} /\ UNCHANGED <<entries, ops, faults, late>>
      BY <1>4, <2>4, UploadArrivals
    <3>2. (ops[o].state = "held" => OwnedAs(entries, h.id, "uploading", o)) /\ (Beating(o) \/ late)
      BY <1>0, <3>1 DEF HandlerUploads
    <3> QED BY <2>1, <2>4, <3>1, <3>2 DEF HandlerUploads, Beating
  <2>5. CASE g.pc = "uFinalize"
    <3>1. /\ h.pc = "uTouch" /\ UNCHANGED <<entries, blobs, late>>
          /\ \/ CanTouch(ops, o) /\ ops' = Touched(ops, o) /\ faults' = faults
             \/ ops' \in {ops, Touched(ops, o)} /\ faults' = faults - 1
      BY <1>4, <2>5, UploadArrivals
    <3>2. o \in Attempts /\ ops[o].state # "absent"
      BY <1>2, <3>1
    <3>3. /\ ops[o].state = "held" => OwnedAs(entries, h.id, "uploading", o) /\ o \in blobs
          /\ Beating(o) \/ late
      BY <1>0, <3>1 DEF HandlerUploads
    <3>4. ops'[o].state = "held" => ops[o].state = "held"
      BY <1>0, <3>2 DEF OpLives
    <3>5. Touched(ops, o)[o].state = ops[o].state /\ (ops[o].state = "held" => ~Touched(ops, o)[o].aged)
      BY <1>0, <3>2 DEF Touched, CanTouch, Operations
    <3>6. CASE CanTouch(ops, o) /\ ops' = Touched(ops, o)
      <4>1. ops'[o].state = "held" /\ ~ops'[o].aged
        BY <3>5, <3>6 DEF CanTouch
      <4> QED BY <2>1, <2>5, <3>1, <3>3, <3>4, <4>1 DEF HandlerUploads, Beating
    <3>7. CASE ops' \in {ops, Touched(ops, o)} /\ faults' = faults - 1
      <4>1. Beating(o) => ops'[o].state = "held" /\ ~ops'[o].aged
        BY <3>5, <3>7 DEF Beating
      <4>2. late => LateAndFailed'
        <5>1. faults \in Nat /\ MaxFaults \in Nat
          BY MaxFaultsAssumption DEF TypeInv, TypeOK
        <5>2. late => faults < MaxFaults
          BY DEF UploadInv
        <5>3. late => faults' + 2 <= MaxFaults
          BY <3>7, <5>1, <5>2
        <5> QED BY <3>1, <5>3 DEF LateAndFailed
      <4>3. /\ ops'[o].state = "held" => OwnedAs(entries', h.id, "uploading", o) /\ o \in blobs'
            /\ (ops'[o].state = "held" /\ ~ops'[o].aged) \/ LateAndFailed'
        BY <3>1, <3>3, <3>4, <4>1, <4>2
      <4> QED BY <2>1, <2>5, <4>3 DEF HandlerUploads, Beating
    <3> QED BY <3>1, <3>6, <3>7
  <2> QED BY <2>2, <2>3, <2>4, <2>5
<1>5. CASE Mutate
  <2>1. UNCHANGED <<ops, blobs, slot, faults, late>>
    BY <1>5, Arrangements
  <2>2. ASSUME NEW t \in Handlers PROVE HandlerUploads(t)'
    <3>1. HandlerUploads(t)
      BY <1>0
    <3>2. slot[t].id \in Ids
      BY <1>0 DEF Slots
    <3>3. OwnedAs(entries, slot[t].id, "uploading", slot[t].attempt) => OwnedAs(entries', slot[t].id, "uploading", slot[t].attempt)
      <4>1. Arranged(slot[t].id)
        BY <1>5, <3>2, Arrangements
      <4> QED BY <4>1 DEF Arranged, OwnedAs
    <3> QED BY <2>1, <3>1, <3>3 DEF HandlerUploads, Beating, LateAndFailed
  <2> QED BY <1>1, <2>2 DEF UploadInv
<1>6. ASSUME NEW o \in Attempts, OperationAges(o), NEW t \in Handlers PROVE HandlerUploads(t)'
  <2> DEFINE q == slot[t].attempt
  <2>1. /\ UNCHANGED <<entries, blobs, slot>>
        /\ ops'[q].state = ops[q].state \/ q \notin Attempts
        /\ q # o /\ q \in Attempts => ops'[q] = ops[q]
    BY <1>6, Ageing
  <2> SUFFICES ASSUME slot[t].pc \in {"uInsert", "uPut", "uTouch", "uFinalize"} PROVE HandlerUploads(t)'
    BY <2>1 DEF HandlerUploads
  <2>2. q \in Attempts /\ slot[t].pc \in Early
    BY <1>2
  <2>3. Beating(q) => (ops'[q].state = "held" /\ ~ops'[q].aged) \/ (slot[t].pc = "uPut" /\ late')
    <3>1. CASE q # o
      BY <2>1, <2>2, <3>1 DEF Beating
    <3>2. CASE q = o
      BY <1>6, <2>2, <3>2, KeptFresh DEF Beating
    <3> QED BY <3>1, <3>2
  <2> QED BY <1>0, <1>1, <2>1, <2>2, <2>3 DEF HandlerUploads, Beating
<1>7. CASE UNCHANGED vars
  BY <1>0, <1>1, <1>7 DEF vars, UploadInv, HandlerUploads, Beating, LateAndFailed
<1>8. ASSUME NEW s \in Handlers, HandlerStep(s) PROVE UploadInv'
  BY <1>1, <1>3, <1>4, <1>8 DEF UploadInv
<1>9. ASSUME NEW o \in Attempts, OperationAges(o) PROVE UploadInv'
  BY <1>1, <1>6, <1>9 DEF UploadInv
<1> QED BY <1>5, <1>7, <1>8, <1>9, Cases

-----------------------------------------------------------------------------
(* Cleanups of uploads.                                                    *)

Settling == {"cByKey", "cBlob", "cRenew", "cMark", "cUnlink", "kRenew", "kDone", "tDone"}

\* How a handler comes to each step of a cleanup.
LEMMA CleaningSteps ==
  ASSUME TypeInv, NEW s \in Handlers, HandlerStep(s), slot'[s].pc \in Settling
  PROVE  LET h == slot[s]
             g == slot'[s]
             o == slot[s].cur
         IN /\ g.cur = o /\ o \in Attempts
            /\ g.pc = "cByKey" => /\ h.pc = "cRow" /\ ~OwnedAs(entries, ops[o].entry, "uploading", o)
                                  /\ UNCHANGED <<entries, ops, blobs>>
            /\ g.pc = "cBlob" => /\ UNCHANGED <<entries, ops, blobs>>
                                 /\ \/ h.pc = "cRow" /\ OwnedAs(entries, ops[o].entry, "uploading", o) /\ g.mine
                                    \/ h.pc = "cByKey" /\ \A i \in Ids : entries[i].key # o
            /\ g.pc = "cRenew" => /\ h.pc = "cBlob" /\ entries' = entries /\ blobs' = blobs \ {o} /\ g.mine = h.mine
            /\ g.pc = "cMark" => h.pc = "cRenew" /\ UNCHANGED <<entries, blobs>>
            /\ g.pc = "cUnlink" => h.pc = "cMark" /\ UNCHANGED <<entries, blobs>>
            /\ g.pc = "kRenew" => /\ UNCHANGED <<entries, ops, blobs>>
                                  /\ \/ h.pc = "cByKey" /\ \E i \in Ids : entries[i].key = o
                                     \/ DeleteRows(s) /\ h.pc = "dRows"
            /\ g.pc = "kDone" => h.pc = "kRenew" /\ UNCHANGED <<entries, blobs>>
            /\ g.pc = "tDone" => /\ blobs' = blobs
                                 /\ \/ h.pc = "cRenew" /\ ~h.mine /\ entries' = entries
                                    \/ /\ h.pc = "cUnlink"
                                       /\ entries' = Deleted(entries, ops[o].entry, "uploading", o)
                                    \/ h.pc = "dUnlink" /\ DeleteUnlink(s)
<1> DEFINE h == slot[s]
           g == slot'[s]
           o == slot[s].cur
<1>0. h \in Slots /\ SlotOK(h) /\ Arrives(s)
  BY Tables, Landings
<1>1. BusyStep(s)
  BY <1>0 DEF Arrives, Settling, BusyStep
<1>2. g.cur = o /\ o \in Attempts
  BY <1>0, <1>1, Carried, BusyAt DEF SlotOK, Settling, Busy, RecoverPcs
<1>3. /\ Goto(s, "tRetry").pc = "tRetry" /\ Goto(s, "cRenew").mine = h.mine /\ Goto(s, "tDone").pc = "tDone"
      /\ NextOperation(s).pc = "rClaim" /\ Escape(s).pc \in {"idle", "uGiveUp", "uAgain"}
      /\ Goto(s, "cBlob").pc = "cBlob" /\ Goto(s, "kRenew").pc = "kRenew" /\ Goto(s, "cMark").pc = "cMark"
  BY MoveFields DEF Caught
<1>4. \A pc : Renew(s, pc) => UNCHANGED <<entries, blobs>> /\ (g.pc = "rClaim" \/ g = Goto(s, pc))
  <2> SUFFICES ASSUME NEW pc, Renew(s, pc)
               PROVE  UNCHANGED <<entries, blobs>> /\ (g.pc = "rClaim" \/ g = Goto(s, pc))
    OBVIOUS
  <2>1. PICK O : \/ Sql(s, entries, O, Goto(s, pc)) \/ SqlFault(s, entries, O, Goto(s, pc))
                 \/ Sql(s, entries, O, NextOperation(s))
    <3> DEFINE O == IF CanRenew(ops, o, s) THEN [ops EXCEPT ![o].aged = FALSE] ELSE ops
    <3>1. \/ Sql(s, entries, O, IF CanRenew(ops, o, s) THEN Goto(s, pc) ELSE NextOperation(s))
          \/ SqlFault(s, entries, O, Goto(s, pc))
      BY DEF Renew
    <3> HIDE DEF O
    <3> QED BY <3>1
  <2>2. UNCHANGED <<entries, blobs>>
    BY <2>1, CallEffects
  <2>3. Sql(s, entries, O, Goto(s, pc)) \/ SqlFault(s, entries, O, Goto(s, pc)) => g = Goto(s, pc)
    BY Calls
  <2>4. Sql(s, entries, O, NextOperation(s)) => g = NextOperation(s)
    BY Calls
  <2> QED BY <1>3, <2>1, <2>2, <2>3, <2>4
<1>a. ASSUME CleanRow(s), g.pc \in {"cByKey", "cBlob"}
      PROVE  /\ h.pc = "cRow" /\ UNCHANGED <<entries, ops, blobs>>
             /\ g.pc = "cBlob" => OwnedAs(entries, ops[o].entry, "uploading", o) /\ g.mine
             /\ g.pc = "cByKey" => ~OwnedAs(entries, ops[o].entry, "uploading", o)
  <2> DEFINE mine == OwnedAs(entries, ops[o].entry, "uploading", o)
             to(pc, m) == [Goto(s, pc) EXCEPT !.mine = m]
  <2>1. \A pc, m : to(pc, m).pc = pc /\ to(pc, m).mine = m
    BY <1>0 DEF Goto, Slots
  <2>2. h.pc = "cRow" /\ \/ mine /\ Read(s, to("cBlob", TRUE))
                         \/ ~mine /\ Read(s, to("cByKey", FALSE))
                         \/ ReadFault(s, Escape(s))
    <3>1. mine = TRUE \/ mine = FALSE
      BY DEF OwnedAs
    <3> QED BY <1>a, <3>1 DEF CleanRow, At
  <2> HIDE DEF to, mine
  <2>3. ~ReadFault(s, Escape(s))
    BY <1>3, <1>a, Calls
  <2>4. UNCHANGED <<entries, ops, blobs>>
    BY <1>a, CallEffects DEF CleanRow
  <2>5. CASE mine /\ Read(s, to("cBlob", TRUE))
    <3>1. g = to("cBlob", TRUE)
      BY <2>5, Calls
    <3>2. g.pc = "cBlob" /\ g.mine = TRUE
      BY <2>1, <3>1
    <3>3. OwnedAs(entries, ops[o].entry, "uploading", o)
      BY <2>5 DEF mine
    <3> QED BY <2>2, <2>4, <3>2, <3>3
  <2>6. CASE ~mine /\ Read(s, to("cByKey", FALSE))
    <3>1. g = to("cByKey", FALSE)
      BY <2>6, Calls
    <3>2. g.pc = "cByKey"
      BY <2>1, <3>1
    <3>3. ~OwnedAs(entries, ops[o].entry, "uploading", o)
      BY <2>6 DEF mine
    <3> QED BY <2>2, <2>4, <3>2, <3>3
  <2> QED BY <2>2, <2>3, <2>5, <2>6
<1>b. ASSUME CleanByKey(s), g.pc \in {"kRenew", "cBlob"}
      PROVE  /\ h.pc = "cByKey" /\ UNCHANGED <<entries, ops, blobs>>
             /\ g.pc = "cBlob" => \A i \in Ids : entries[i].key # o
             /\ g.pc = "kRenew" => \E i \in Ids : entries[i].key = o
  <2> DEFINE used == \E i \in Ids : entries[i].key = o
  <2>1. h.pc = "cByKey" /\ \/ used /\ Read(s, Goto(s, "kRenew"))
                           \/ ~used /\ Read(s, Goto(s, "cBlob"))
                           \/ ReadFault(s, Escape(s))
    BY <1>b DEF CleanByKey, At
  <2> HIDE DEF used
  <2>2. ~ReadFault(s, Escape(s))
    BY <1>3, <1>b, Calls
  <2>3. UNCHANGED <<entries, ops, blobs>>
    BY <1>b, CallEffects DEF CleanByKey
  <2>4. (used /\ g = Goto(s, "kRenew")) \/ (~used /\ g = Goto(s, "cBlob"))
    BY <2>1, <2>2, Calls
  <2> QED BY <1>3, <2>1, <2>3, <2>4 DEF used
<1>c. ASSUME CleanBlob(s), g.pc = "cRenew"
      PROVE  h.pc = "cBlob" /\ entries' = entries /\ blobs' = blobs \ {o} /\ g.mine = h.mine
  <2>1. ~R2Fault(s, blobs \ {o}, Goto(s, "tRetry"))
    BY <1>3, <1>c, Calls
  <2>2. h.pc = "cBlob" /\ R2(s, blobs \ {o}, Goto(s, "cRenew"))
    BY <1>c, <2>1 DEF CleanBlob, At
  <2>3. g = Goto(s, "cRenew")
    BY <2>2, Calls
  <2> QED BY <1>3, <2>2, <2>3 DEF R2
<1>d. ASSUME CleanRenew(s), g.pc \in {"cMark", "tDone"}
      PROVE  h.pc = "cRenew" /\ UNCHANGED <<entries, blobs>> /\ (g.pc = "tDone" => ~h.mine)
  <2>1. h.pc = "cRenew" /\ UNCHANGED <<entries, blobs>> /\ g = Goto(s, IF h.mine THEN "cMark" ELSE "tDone")
    BY <1>4, <1>d DEF CleanRenew, At
  <2> QED BY <1>3, <2>1
<1>e. ASSUME CleanMark(s) PROVE h.pc = "cMark" /\ UNCHANGED <<entries, blobs>>
  BY <1>e, CallEffects DEF CleanMark, At
<1>f. ASSUME KeepRenew(s) PROVE h.pc = "kRenew" /\ UNCHANGED <<entries, blobs>>
  BY <1>4, <1>f DEF KeepRenew, At
<1>g. ASSUME CleanUnlink(s), g.pc = "tDone"
      PROVE  h.pc = "cUnlink" /\ entries' = Deleted(entries, ops[o].entry, "uploading", o) /\ blobs' = blobs
  <2> DEFINE E == Deleted(entries, ops[o].entry, "uploading", o)
  <2>1. h.pc = "cUnlink" /\ (Sql(s, E, ops, Goto(s, "tDone")) \/ SqlFault(s, E, ops, Goto(s, "tRetry")))
    BY <1>g DEF CleanUnlink, At
  <2> HIDE DEF E
  <2>2. SqlFault(s, E, ops, Goto(s, "tRetry")) => g = Goto(s, "tRetry")
    BY Calls
  <2>3. ~SqlFault(s, E, ops, Goto(s, "tRetry"))
    BY <1>3, <1>g, <2>2
  <2> QED BY <2>1, <2>3 DEF Sql, E
<1>h. DeleteRows(s) => h.pc = "dRows" /\ UNCHANGED <<entries, ops, blobs>>
  BY CallEffects, Zenon DEF DeleteRows, At
<1>i. ASSUME DeleteUnlink(s) PROVE h.pc = "dUnlink" /\ blobs' = blobs
  BY <1>i, CallEffects DEF DeleteUnlink, At
<1>j. /\ g.pc = "cByKey" => CleanRow(s)
      /\ g.pc = "cBlob" => CleanRow(s) \/ CleanByKey(s)
      /\ g.pc = "cRenew" => CleanBlob(s)
      /\ g.pc = "cMark" => CleanRenew(s)
      /\ g.pc = "cUnlink" => CleanMark(s)
      /\ g.pc = "kRenew" => CleanByKey(s) \/ DeleteRows(s)
      /\ g.pc = "kDone" => KeepRenew(s)
      /\ g.pc = "tDone" => CleanRenew(s) \/ CleanUnlink(s) \/ DeleteUnlink(s)
  BY <1>0 DEF Arrives
<1> QED BY <1>2, <1>a, <1>b, <1>c, <1>d, <1>e, <1>f, <1>g, <1>h, <1>i, <1>j

\* Once an operation is no longer held, its upload publishes nothing unless two failures
\* are spent, puts nothing unless it is late, and adds no row.
LEMMA Unheld ==
  ASSUME TypeInv, RowInv, UploadInv, [Next]_vars, NEW o \in Attempts,
         ops[o].state \notin {"absent", "held"}
  PROVE  /\ (\A i \in Ids : entries[i].key = o => entries[i].status # "ready") =>
              LateAndFailed' \/ \A i \in Ids : entries'[i].key = o => entries'[i].status # "ready"
         /\ o \notin blobs => o \notin blobs' \/ late'
         /\ (\A i \in Ids : ~OwnedAs(entries, i, "uploading", o)) =>
              \A i \in Ids : ~OwnedAs(entries', i, "uploading", o)
<1>0. /\ \A i \in Ids : RowOK(i)
      /\ \A s \in Handlers : HandlerUploads(s)
      /\ ~Beating(o) /\ o # None /\ Absent.status = "absent"
      /\ (LateAndFailed => LateAndFailed') /\ (late => late')
  BY Losses, Constants DEF RowInv, UploadInv, Beating, Absent
<1>a. ASSUME NEW s \in Handlers, HandlerStep(s)
      PROVE  /\ (\A i \in Ids : entries[i].key = o => entries[i].status # "ready") =>
                  LateAndFailed' \/ \A i \in Ids : entries'[i].key = o => entries'[i].status # "ready"
             /\ o \notin blobs => o \notin blobs' \/ late'
             /\ (\A i \in Ids : ~OwnedAs(entries, i, "uploading", o)) =>
                  \A i \in Ids : ~OwnedAs(entries', i, "uploading", o)
  <2>1. Effect(s) /\ \A i \in Ids : RowChange(s, i)
    BY <1>a, Effects, RowChanges
  <2>2. /\ slot[s].pc = "uFinalize" /\ slot[s].attempt = o => LateAndFailed
        /\ slot[s].pc = "uPut" /\ slot[s].attempt = o => late
        /\ ~(slot[s].pc = "uInsert" /\ slot[s].attempt = o)
    BY <1>0 DEF HandlerUploads
  <2>3. ASSUME NEW i \in Ids, entries[i].key = o => entries[i].status # "ready",
               entries'[i].key = o, entries'[i].status = "ready"
        PROVE  LateAndFailed
    <3>1. RowChange(s, i) /\ RowOK(i)
      BY <1>0, <2>1
    <3>2. slot[s].pc = "uFinalize" /\ slot[s].attempt = o
      BY <1>0, <2>3, <3>1 DEF RowChange, RowPublished, RowOK
    <3> QED BY <2>2, <3>2
  <2>4. o \notin blobs => o \notin blobs' \/ late'
    BY <1>0, <2>1, <2>2, BlobChanges
  <2>5. ASSUME NEW i \in Ids, ~OwnedAs(entries, i, "uploading", o) PROVE ~OwnedAs(entries', i, "uploading", o)
    <3>1. RowChange(s, i)
      BY <2>1
    <3> QED BY <1>0, <2>2, <2>5, <3>1 DEF RowChange, RowInserted, OwnedAs
  <2> QED BY <1>0, <2>3, <2>4, <2>5
<1>b. CASE Mutate
  <2>1. \A i \in Ids : Arranged(i)
    BY <1>b, Arrangements
  <2>2. \A i \in Ids : (entries[i].key = o => entries[i].status # "ready") =>
                       (entries'[i].key = o => entries'[i].status # "ready")
    BY <1>0, <2>1 DEF Arranged
  <2>3. \A i \in Ids : ~OwnedAs(entries, i, "uploading", o) => ~OwnedAs(entries', i, "uploading", o)
    BY <2>1 DEF Arranged, OwnedAs
  <2>4. blobs' = blobs
    BY <1>b, Arrangements
  <2> QED BY <2>2, <2>3, <2>4
<1>c. CASE UNCHANGED vars
  BY <1>c DEF vars, OwnedAs
<1>d. ASSUME NEW q \in Attempts, OperationAges(q) PROVE UNCHANGED <<entries, blobs>>
  BY <1>d, Ageing
<1> QED BY <1>a, <1>b, <1>c, <1>d, Cases DEF OwnedAs

\* The row of a blob goes only with an unfinished upload, or after its blob.
LEMMA RowOfBlobStays ==
  ASSUME TypeInv, RowInv, DeleteInv, [Next]_vars, NEW o \in blobs, NEW i \in Ids, entries[i].key = o,
         ~OwnedAs(entries, i, "uploading", o)
  PROVE  entries'[i].key = o
<1>0. o \in Attempts /\ o # None /\ RowOK(i) /\ Absent.key = None
  BY Constants DEF TypeInv, TypeOK, RowInv, Absent
<1>a. ASSUME NEW s \in Handlers, HandlerStep(s) PROVE entries'[i].key = o
  <2>1. RowChange(s, i)
    BY <1>a, Effects, RowChanges
  <2>2. ~(UploadDropped(s) /\ entries[i].status = "uploading" /\ entries[i].owner = slot[s].cur)
    BY <1>0 DEF RowOK, OwnedAs
  <2>3. ~(RowDropped(s, i) /\ entries[i].status = "deleting" /\ entries[i].owner = slot[s].cur)
    <3> SUFFICES ASSUME RowDropped(s, i), entries[i].status = "deleting", entries[i].owner = slot[s].cur PROVE FALSE
      OBVIOUS
    <3>1. slot[s].pc = "dUnlink" /\ i \in slot[s].rows
      BY DEF RowDropped
    <3>2. HandlerWipes(s) /\ slot[s].pc \in Wiping
      BY <3>1 DEF DeleteInv, Wiping
    <3>3. i \in FileIds
      BY <1>0, Constants DEF RowOK
    <3>4. slot[s].keys = {} /\ ~slot[s].more
      BY <3>1, <3>2 DEF HandlerWipes
    <3>5. entries[i].key \in slot[s].keys \cup slot[s].wiped
      BY <3>1, <3>2, <3>3, <3>4 DEF HandlerWipes, OwnedAs
    <3>6. o \notin blobs
      BY <3>2, <3>4, <3>5 DEF HandlerWipes
    <3> QED BY <3>6
  <2>4. entries[i].status # "absent"
    BY <1>0 DEF RowOK
  <2> QED BY <1>0, <2>1, <2>2, <2>3, <2>4 DEF RowChange
<1>b. CASE Mutate
  <2>1. Arranged(i)
    BY <1>b, Arrangements
  <2>2. entries[i].status # "absent"
    BY <1>0 DEF RowOK
  <2> QED BY <1>0, <2>1, <2>2 DEF Arranged
<1>c. CASE UNCHANGED vars
  BY <1>c DEF vars
<1>d. ASSUME NEW q \in Attempts, OperationAges(q) PROVE entries'[i].key = o
  BY <1>d, Ageing
<1> QED BY <1>a, <1>b, <1>c, <1>d, Cases

\* A handler that cleans up keeps what it knows of its blob and of its row.
LEMMA CleanHolds ==
  TypeInv /\ AttemptInv /\ RowInv /\ DeleteInv /\ UploadInv /\ CleanInv /\ [Next]_vars => CleanInv'
<1> SUFFICES ASSUME TypeInv, AttemptInv, RowInv, DeleteInv, UploadInv, CleanInv, [Next]_vars, NEW t \in Handlers
             PROVE  HandlerCleans(t)'
  BY DEF CleanInv
<1> DEFINE h == slot[t]
           g == slot'[t]
           o == slot[t].cur
           Free == \A i \in Ids : ~OwnedAs(entries, i, "uploading", o)
           FreeNext == \A i \in Ids : ~OwnedAs(entries', i, "uploading", o)
<1>0. /\ h \in Slots /\ SlotOK(h) /\ HandlerQueued(t) /\ HandlerCleans(t)
      /\ \A i \in Ids : RowOK(i)
      /\ (LateAndFailed => LateAndFailed') /\ (late => late')
  BY Tables, Losses DEF AttemptInv, CleanInv, RowInv
<1>1. h.pc \in Busy => /\ o \in Attempts /\ o # None /\ ops[o].state \notin {"absent", "held"}
                       /\ ops'[o].kind = ops[o].kind /\ ops'[o].entry = ops[o].entry
  BY <1>0, OpsLive, Constants DEF SlotOK, HandlerQueued, OpLives
<1>2. Settling \subseteq Busy /\ Cleaning \subseteq Busy /\ Wiping \subseteq Busy /\ "dRows" \in Busy
  BY DEF Settling, Cleaning, Wiping, Busy, RecoverPcs
\* An uploading row of the operation is the one its cleanup is for.
<1>3. /\ \A i \in Ids : OwnedAs(entries, i, "uploading", o) /\ h.pc \in Busy =>
           ops[o].kind = "upload_cleanup" /\ ops[o].entry = i
      /\ \A i \in Ids : OwnedAs(entries', i, "uploading", o) /\ h.pc \in Busy =>
           ops[o].kind = "upload_cleanup" /\ ops[o].entry = i
  <2>1. \A i \in Ids : OwnedAs(entries, i, "uploading", o) /\ h.pc \in Busy =>
           ops[o].kind = "upload_cleanup" /\ ops[o].entry = i
    BY <1>0, <1>1 DEF RowOK, OwnedAs, Queued, Foreign
  <2>2. \A i \in Ids : RowOK(i)'
    BY RowsHold DEF RowInv
  <2>3. \A i \in Ids : OwnedAs(entries', i, "uploading", o) /\ h.pc \in Busy =>
           ops'[o].kind = "upload_cleanup" /\ ops'[o].entry = i
    <3> SUFFICES ASSUME NEW i \in Ids, OwnedAs(entries', i, "uploading", o), h.pc \in Busy
                 PROVE  ops'[o].kind = "upload_cleanup" /\ ops'[o].entry = i
      OBVIOUS
    <3>1. entries'[i].status = "uploading" /\ entries'[i].key = o
      BY <2>2 DEF RowOK, OwnedAs
    <3>2. ops'[o].state # "absent"
      BY <1>0, <1>1, <3>1, OpsLive DEF OpLives
    <3> QED BY <1>1, <2>2, <3>1, <3>2 DEF RowOK, Queued, Foreign
  <2> QED BY <1>1, <2>1, <2>3
<1>4. CASE slot'[t] = slot[t]
  <2> SUFFICES ASSUME h.pc \in Settling PROVE HandlerCleans(t)'
    BY <1>4 DEF HandlerCleans, Settling
  <2>0. o \in Attempts /\ ops[o].state \notin {"absent", "held"} /\ ops'[o].kind = ops[o].kind
    BY <1>1, <1>2
  <2>1. h.pc = "cBlob" => LateAndFailed' \/ \A i \in Ids : entries'[i].key = o => entries'[i].status # "ready"
    BY <1>0, <2>0, Unheld DEF HandlerCleans
  <2>2. h.pc \in {"cRenew", "cMark", "cUnlink", "tDone"} /\ ops'[o].kind = "upload_cleanup" => o \notin blobs' \/ late'
    BY <1>0, <2>0, Unheld DEF HandlerCleans
  <2>3. h.pc \in {"cByKey", "kRenew", "kDone", "tDone"} \/ (h.pc \in {"cBlob", "cRenew"} /\ ~h.mine) => FreeNext
    <3>1. h.pc \in {"cByKey", "kRenew", "kDone", "tDone"} \/ (h.pc \in {"cBlob", "cRenew"} /\ ~h.mine) => Free
      BY <1>0 DEF HandlerCleans
    <3>2. Free => FreeNext
      BY <2>0, Unheld
    <3> QED BY <3>1, <3>2
  <2>4. ASSUME h.pc \in {"kRenew", "kDone"}, ops'[o].kind = "upload_cleanup", o \in blobs'
        PROVE  late' \/ \E i \in FileIds : entries'[i].key = o
    <3>1. o \in blobs \/ late'
      BY <2>0, <2>4, Unheld
    <3>2. ASSUME o \in blobs, ~late PROVE \E i \in FileIds : entries'[i].key = o
      <4>1. PICK i \in FileIds : entries[i].key = o
        BY <1>0, <2>0, <2>4, <3>2 DEF HandlerCleans
      <4>2. i \in Ids /\ ~OwnedAs(entries, i, "uploading", o)
        BY <1>0, <2>4, Constants DEF HandlerCleans
      <4> QED BY <3>2, <4>1, <4>2, RowOfBlobStays
    <3> QED BY <1>0, <3>1, <3>2
  <2> QED BY <1>4, <2>1, <2>2, <2>3, <2>4 DEF HandlerCleans
<1>5. CASE HandlerStep(t)
  <2> SUFFICES ASSUME g.pc \in Settling PROVE HandlerCleans(t)'
    BY DEF HandlerCleans, Settling
  <2> DEFINE E == entries'
  <2>0. /\ g.cur = o /\ o \in Attempts
        /\ g.pc = "cByKey" => /\ h.pc = "cRow" /\ ~OwnedAs(entries, ops[o].entry, "uploading", o)
                              /\ UNCHANGED <<entries, ops, blobs>>
        /\ g.pc = "cBlob" => /\ UNCHANGED <<entries, ops, blobs>>
                             /\ \/ h.pc = "cRow" /\ OwnedAs(entries, ops[o].entry, "uploading", o) /\ g.mine
                                \/ h.pc = "cByKey" /\ \A i \in Ids : entries[i].key # o
        /\ g.pc = "cRenew" => /\ h.pc = "cBlob" /\ entries' = entries /\ blobs' = blobs \ {o} /\ g.mine = h.mine
        /\ g.pc = "cMark" => h.pc = "cRenew" /\ UNCHANGED <<entries, blobs>>
        /\ g.pc = "cUnlink" => h.pc = "cMark" /\ UNCHANGED <<entries, blobs>>
        /\ g.pc = "kRenew" => /\ UNCHANGED <<entries, ops, blobs>>
                              /\ \/ h.pc = "cByKey" /\ \E i \in Ids : entries[i].key = o
                                 \/ h.pc = "dRows"
        /\ g.pc = "kDone" => h.pc = "kRenew" /\ UNCHANGED <<entries, blobs>>
        /\ g.pc = "tDone" => /\ blobs' = blobs
                             /\ \/ h.pc = "cRenew" /\ ~h.mine /\ entries' = entries
                                \/ /\ h.pc = "cUnlink"
                                   /\ entries' = Deleted(entries, ops[o].entry, "uploading", o)
                                \/ h.pc = "dUnlink"
    BY <1>5, CleaningSteps
  <2>1. h.pc \in Busy
    BY <2>0 DEF Settling, Busy, RecoverPcs
  <2>2. /\ o # None /\ ops'[o].kind = ops[o].kind
        /\ h.pc \in Cleaning => ops[o].kind = "upload_cleanup"
        /\ h.pc \in {"dUnlink", "dRows"} => ops[o].kind = "delete_tree"
    BY <1>0, <1>1, <2>1 DEF HandlerQueued, Wiping
  <2>3. ASSUME g.pc = "cBlob" PROVE LateAndFailed' \/ \A i \in Ids : entries'[i].key = o => entries'[i].status # "ready"
    <3>1. CASE h.pc = "cRow" /\ OwnedAs(entries, ops[o].entry, "uploading", o)
      <4>1. \A i \in Ids : entries[i].key = o => ops[o].entry = i
        BY <1>0, <1>1, <2>1, <2>2 DEF RowOK, Queued, Foreign
      <4>2. \A i \in Ids : entries[i].key = o => entries[i].status # "ready"
        BY <3>1, <4>1 DEF OwnedAs
      <4> QED BY <2>0, <2>3, <4>2
    <3>2. CASE h.pc = "cByKey" /\ \A i \in Ids : entries[i].key # o
      BY <2>0, <2>3, <3>2
    <3> QED BY <2>0, <2>3, <3>1, <3>2
  <2>4. ASSUME g.pc \in {"cRenew", "cMark", "cUnlink", "tDone"}, ops'[o].kind = "upload_cleanup"
        PROVE  o \notin blobs' \/ late'
    <3>1. CASE g.pc = "cRenew"
      BY <2>0, <3>1
    <3>2. CASE g.pc # "cRenew"
      <4>1. h.pc \in {"cRenew", "cMark", "cUnlink"} /\ blobs' = blobs
        BY <2>0, <2>2, <2>4, <3>2
      <4> QED BY <1>0, <2>2, <2>4, <4>1 DEF HandlerCleans
    <3> QED BY <3>1, <3>2
  <2>5. ASSUME g.pc \in {"cByKey", "kRenew", "kDone", "tDone"} \/ (g.pc \in {"cBlob", "cRenew"} /\ ~g.mine)
        PROVE  FreeNext
    <3>1. CASE g.pc = "cByKey"
      <4>1. ~OwnedAs(entries, ops[o].entry, "uploading", o) /\ entries' = entries
        BY <2>0, <3>1
      <4> QED BY <1>3, <2>1, <4>1
    <3>2. CASE \/ g.pc = "kRenew" /\ h.pc = "cByKey"
               \/ g.pc = "kDone"
               \/ g.pc \in {"cBlob", "cRenew"} /\ ~g.mine
               \/ g.pc = "tDone" /\ h.pc = "cRenew"
      <4>1. entries' = entries /\ (h.pc \in {"cByKey", "kRenew"} \/ (h.pc \in {"cBlob", "cRenew"} /\ ~h.mine))
        BY <2>0, <3>2
      <4>2. Free
        BY <1>0, <4>1 DEF HandlerCleans
      <4> QED BY <4>1, <4>2
    <3>3. CASE h.pc \in {"dRows", "dUnlink"}
      BY <1>3, <2>1, <2>2, <3>3
    <3>4. CASE g.pc = "tDone" /\ h.pc = "cUnlink"
      <4>1. entries' = Deleted(entries, ops[o].entry, "uploading", o)
        BY <2>0, <3>4
      <4>2. entries \in [Ids -> Entries] /\ ops[o].entry \in Ids
        BY <2>0, Tables DEF KeyedRows, Operations
      <4>3. ~OwnedAs(entries', ops[o].entry, "uploading", o)
        BY <4>1, <4>2 DEF Deleted, OwnedAs, Absent
      <4> QED BY <1>3, <2>1, <4>3
    <3> QED BY <2>0, <2>5, <3>1, <3>2, <3>3, <3>4
  <2>6. ASSUME g.pc \in {"kRenew", "kDone"}, ops'[o].kind = "upload_cleanup", o \in blobs'
        PROVE  late' \/ \E i \in FileIds : entries'[i].key = o
    <3>1. CASE g.pc = "kRenew"
      <4>1. PICK i \in Ids : entries[i].key = o
        BY <2>0, <2>2, <2>6, <3>1
      <4>2. i \in FileIds
        BY <1>0, <2>2, <4>1, Constants DEF RowOK
      <4> QED BY <2>0, <3>1, <4>1, <4>2
    <3>2. CASE g.pc = "kDone"
      BY <1>0, <2>0, <2>2, <2>6, <3>2 DEF HandlerCleans
    <3> QED BY <2>6, <3>1, <3>2
  <2> QED BY <2>0, <2>3, <2>4, <2>5, <2>6 DEF HandlerCleans
<1>6. ASSUME NEW s \in Handlers, HandlerStep(s), s # t PROVE slot'[t] = slot[t]
  BY <1>6, Landings
<1>7. (\E q \in Attempts : OperationAges(q)) \/ Mutate \/ UNCHANGED vars => slot'[t] = slot[t]
  BY Ageing, Arrangements DEF vars
<1> QED BY <1>4, <1>5, <1>6, <1>7, Cases

-----------------------------------------------------------------------------
(* What the store promises.                                                *)

Layers == TypeInv /\ AttemptInv /\ RowInv /\ TreeInv /\ UnpublishedInv /\ DeleteInv /\ UploadInv /\ CleanInv

\* Each layer is kept, given those before it.
LEMMA LayersHold == Layers /\ [Next]_vars => Layers'
BY Typed, AttemptHolds, RowsHold, TreeHolds, UnpublishedHolds, DeleteHolds, UploadHolds, CleanHolds DEF Layers

\* Published content is not deleted, and only content that is there is published.
LEMMA FilesHold == Layers /\ FilesInv /\ [Next]_vars => FilesInv'
<1> SUFFICES ASSUME Layers, FilesInv, [Next]_vars, NEW i \in FileIds, entries'[i].status = "ready"
             PROVE  entries'[i].key \in blobs' \/ LateAndFailed'
  BY DEF FilesInv, ReadyFilesHaveBlobs
<1>0. /\ TypeInv /\ AttemptInv /\ UploadInv /\ CleanInv /\ DeleteInv
      /\ i \in Ids /\ i \notin Folders /\ RowOK(i)
      /\ (LateAndFailed => LateAndFailed')
  BY Losses, Constants DEF Layers, RowInv
<1>1. entries[i].status = "ready" => entries[i].key \in Attempts /\ (entries[i].key \in blobs \/ LateAndFailed)
  BY <1>0 DEF FilesInv, ReadyFilesHaveBlobs, RowOK
<1>a. ASSUME NEW s \in Handlers, HandlerStep(s) PROVE entries'[i].key \in blobs' \/ LateAndFailed'
  <2>1. RowChange(s, i) /\ Effect(s)
    BY <1>0, <1>a, Effects, RowChanges
  <2>2. CASE entries'[i] = entries[i]
    <3> DEFINE k == entries[i].key
    <3>1. k \in Attempts /\ (k \in blobs \/ LateAndFailed)
      BY <1>1, <2>2
    <3>2. slot[s].pc = "cBlob" /\ slot[s].cur = k => LateAndFailed
      BY <1>0, <2>2 DEF CleanInv, HandlerCleans
    <3>3. ~(slot[s].pc = "dBlob" /\ k \in slot[s].keys)
      BY <1>0, <2>2 DEF DeleteInv, HandlerWipes, Wiping, Dead
    <3>4. k \in blobs => k \in blobs' \/ LateAndFailed
      BY <2>1, <3>1, <3>2, <3>3, BlobChanges
    <3> QED BY <1>0, <2>2, <3>1, <3>4
  <2>3. CASE RowPublished(s) /\ i = slot[s].id /\ entries[i].status = "uploading"
             /\ entries[i].owner = slot[s].attempt /\ entries'[i].key = entries[i].key
    <3> DEFINE k == slot[s].attempt
    <3>1. slot[s].pc = "uFinalize" /\ entries'[i].key = k /\ k \in Attempts
      BY <1>0, <2>3 DEF RowPublished, RowOK
    <3>2. LateAndFailed \/ k \in blobs
      BY <1>0, <3>1 DEF UploadInv, HandlerUploads, Beating
    <3>3. k \in blobs => k \in blobs'
      BY <2>1, <3>1, BlobChanges
    <3> QED BY <1>0, <3>1, <3>2, <3>3
  <2> QED BY <2>1, <2>2, <2>3 DEF RowChange, Absent
<1>b. CASE Mutate
  <2>1. Arranged(i) /\ blobs' = blobs
    BY <1>0, <1>b, Arrangements
  <2>2. i \notin FolderIds
    BY <1>0 DEF Folders
  <2> QED BY <1>0, <1>1, <2>1, <2>2 DEF Arranged
<1>c. CASE UNCHANGED vars
  BY <1>0, <1>1, <1>c DEF vars
<1>d. ASSUME NEW o \in Attempts, OperationAges(o) PROVE UNCHANGED <<entries, blobs>>
  BY <1>0, <1>d, Ageing
<1> QED BY <1>0, <1>1, <1>a, <1>b, <1>c, <1>d, Cases

\* A blob that an entry has stays with it.
LEMMA RowKeepsBlob ==
  ASSUME Layers, [Next]_vars, ~late, NEW i \in FileIds, entries[i].key \in blobs
  PROVE  entries'[i].key = entries[i].key
<1> DEFINE k == entries[i].key
<1>0. /\ TypeInv /\ AttemptInv /\ RowInv /\ DeleteInv /\ CleanInv
      /\ i \in Ids /\ RowOK(i) /\ k \in Attempts
  BY Constants DEF Layers, RowInv, TypeInv, TypeOK
<1>1. CASE ~OwnedAs(entries, i, "uploading", k)
  BY <1>0, <1>1, RowOfBlobStays
<1>2. CASE OwnedAs(entries, i, "uploading", k)
  <2>a. ASSUME NEW s \in Handlers, HandlerStep(s) PROVE entries'[i].key = k
    <3>1. RowChange(s, i)
      BY <1>0, <2>a, Effects, RowChanges
    <3>2. ~(UploadDropped(s) /\ slot[s].cur = k)
      <4>1. slot[s].pc = "cUnlink" /\ slot[s].cur = k => k \notin blobs
        BY <1>0 DEF CleanInv, HandlerCleans, AttemptInv, HandlerQueued, Cleaning
      <4> QED BY <4>1 DEF UploadDropped
    <3> QED BY <1>2, <3>1, <3>2 DEF RowChange, OwnedAs
  <2>b. CASE Mutate
    <3>1. Arranged(i)
      BY <1>0, <2>b, Arrangements
    <3> QED BY <1>2, <3>1 DEF Arranged, OwnedAs
  <2>c. CASE UNCHANGED vars
    BY <2>c DEF vars
  <2>d. ASSUME NEW o \in Attempts, OperationAges(o) PROVE entries'[i].key = k
    BY <1>0, <2>d, Ageing
  <2> QED BY <2>a, <2>b, <2>c, <2>d, Cases
<1> QED BY <1>1, <1>2

\* The blob of k is an entry's, or an operation still to run will delete it.
Owned(k) == (\E i \in FileIds : entries[i].key = k) \/ (Active(ops, k) /\ ops[k].kind = "upload_cleanup")

\* A blob that is owned stays owned, and a new one is owned.
LEMMA OwnedStays ==
  ASSUME Layers, [Next]_vars, ~late', NEW k \in blobs', k \in blobs => Owned(k)
  PROVE  Owned(k)'
<1> DEFINE Shown(q) == \E i \in FileIds : entries'[i].key = q
           Op(q) == ops'[q].state \notin {"absent", "completed"} /\ ops'[q].kind = "upload_cleanup"
<1> SUFFICES Shown(k) \/ Op(k)
  BY DEF Owned, Active
<1>0. /\ TypeInv /\ AttemptInv /\ RowInv /\ UploadInv /\ CleanInv /\ DeleteInv
      /\ ~late /\ k \in Attempts /\ k # None /\ OpLives(k)
      /\ \A s \in Handlers : slot[s] \in Slots /\ SlotOK(slot[s]) /\ HandlerQueued(s) /\ HandlerUploads(s) /\ HandlerCleans(s)
  <2>1. blobs' \subseteq Attempts
    BY Typed DEF Layers, TypeInv, TypeOK
  <2>2. TypeInv /\ AttemptInv /\ RowInv /\ UploadInv /\ CleanInv /\ DeleteInv
    BY DEF Layers
  <2> QED BY <2>1, <2>2, Losses, OpsLive, Tables, Constants DEF AttemptInv, UploadInv, CleanInv
<1>1. ASSUME k \in blobs, NEW i \in FileIds, entries[i].key = k PROVE Shown(k)
  BY <1>0, <1>1, RowKeepsBlob
<1>2. k \in blobs => \/ \E i \in FileIds : entries[i].key = k
                     \/ ops[k].state \notin {"absent", "completed"} /\ ops[k].kind = "upload_cleanup"
  BY DEF Owned, Active
<1>a. ASSUME NEW s \in Handlers, HandlerStep(s) PROVE Shown(k) \/ Op(k)
  <2>1. Effect(s) /\ OpChange(s, k)
    BY <1>0, <1>a, Effects, OpChanges
  <2>2. CASE k \notin blobs
    <3>1. slot[s].pc = "uPut" /\ slot[s].attempt = k
      BY <1>0, <2>1, <2>2, BlobChanges
    <3>2. ops[k].state = "held"
      BY <1>0, <3>1 DEF HandlerUploads, Beating
    <3>3. ops[k].kind = "upload_cleanup"
      BY <1>0, <3>1 DEF HandlerQueued, Queued, SlotOK, UploadPcs
    <3>4. ops'[k].state = "held" /\ ops'[k].kind = "upload_cleanup"
      <4>1. slot[s].pc \notin {"kDone", "tDone", "tRetry", "cMark", "dMark", "dMeta"}
        BY <3>1
      <4> QED BY <1>0, <2>1, <3>1, <3>2, <3>3 DEF OpChange, OpLives, Runnable
    <3> QED BY <3>4
  <2>3. CASE k \in blobs /\ ops[k].state \notin {"absent", "completed"} /\ ops[k].kind = "upload_cleanup"
    <3>1. CASE ops'[k].state # "completed"
      BY <1>0, <2>3, <3>1 DEF OpLives
    <3>2. CASE ops'[k].state = "completed"
      <4>1. slot[s].pc \in {"kDone", "tDone"} /\ slot[s].cur = k
        BY <2>1, <2>3, <3>2 DEF OpChange
      <4>2. \E i \in FileIds : entries[i].key = k
        BY <1>0, <2>3, <4>1 DEF HandlerCleans
      <4> QED BY <1>1, <2>3, <4>2
    <3> QED BY <3>1, <3>2
  <2> QED BY <1>1, <1>2, <2>2, <2>3
<1>b. CASE Mutate \/ UNCHANGED vars
  <2>1. UNCHANGED <<ops, blobs>>
    BY <1>0, <1>b, Arrangements DEF vars
  <2> QED BY <1>1, <1>2, <2>1
<1>c. ASSUME NEW o \in Attempts, OperationAges(o) PROVE Shown(k) \/ Op(k)
  <2>1. blobs' = blobs /\ ops'[k].state = ops[k].state /\ ops'[k].kind = ops[k].kind
    BY <1>0, <1>c, Ageing
  <2> QED BY <1>1, <1>2, <2>1
<1> QED BY <1>a, <1>b, <1>c, Cases

\* No blob is forgotten.
LEMMA OwnedHold == Layers /\ BlobsAreOwned /\ [Next]_vars => BlobsAreOwned'
<1> SUFFICES ASSUME Layers, BlobsAreOwned, [Next]_vars, ~late', NEW k \in blobs' PROVE Owned(k)'
  BY DEF BlobsAreOwned, Owned
<1>1. k \in blobs => Owned(k)
  BY Losses DEF Layers, BlobsAreOwned, Owned
<1> QED BY <1>1, OwnedStays

\* No name stays taken by an upload without an operation.
LEMMA UploadsCovered == Layers /\ JournalCoversUploads /\ [Next]_vars => JournalCoversUploads'
<1> SUFFICES ASSUME Layers, JournalCoversUploads, [Next]_vars, NEW i \in FileIds, entries'[i].status = "uploading"
             PROVE  ops'[entries'[i].owner].state \notin {"absent", "completed"}
  BY DEF JournalCoversUploads, Active
<1> DEFINE o == entries[i].owner
<1>0. /\ TypeInv /\ AttemptInv /\ i \in Ids /\ RowOK(i) /\ i \notin FolderIds
      /\ \A s \in Handlers : HandlerUploads(s) /\ HandlerCleans(s) /\ HandlerQueued(s) /\ SlotOK(slot[s])
      /\ \A q \in Attempts : OpLives(q)
  <2>1. TypeInv /\ AttemptInv /\ UploadInv /\ CleanInv /\ RowInv
    BY DEF Layers
  <2> QED BY <2>1, OpsLive, Tables, Constants DEF AttemptInv, UploadInv, CleanInv, RowInv, Folders
<1>1. entries[i].status = "uploading" => o \in Attempts /\ ops[o].state \notin {"absent", "completed"}
  BY <1>0 DEF JournalCoversUploads, Active, RowOK
<1>a. ASSUME NEW s \in Handlers, HandlerStep(s) PROVE ops'[entries'[i].owner].state \notin {"absent", "completed"}
  <2>1. Effect(s) /\ RowChange(s, i)
    BY <1>0, <1>a, Effects, RowChanges
  <2>2. CASE entries'[i] = entries[i]
    <3>1. o \in Attempts /\ ops[o].state \notin {"absent", "completed"} /\ OpChange(s, o) /\ OpLives(o)
      BY <1>0, <1>1, <2>1, <2>2, OpChanges
    <3>2. ~(slot[s].pc \in {"kDone", "tDone"} /\ slot[s].cur = o)
      BY <1>0, <2>2 DEF HandlerCleans, OwnedAs
    <3>3. ops'[o].state # "completed"
      BY <3>1, <3>2 DEF OpChange
    <3> QED BY <2>2, <3>1, <3>3 DEF OpLives
  <2>3. CASE RowInserted(s) /\ entries'[i].owner = slot[s].attempt
    <3> DEFINE k == slot[s].attempt
    <3>1. slot[s].pc = "uInsert"
      BY <2>3 DEF RowInserted
    <3>2. k \in Attempts /\ ops[k].state = "held"
      BY <1>0, <3>1 DEF SlotOK, UploadPcs, HandlerUploads, Beating
    <3>3. OpChange(s, k)
      BY <1>0, <2>1, <3>2, OpChanges
    <3>4. ops'[k].state # "completed"
      BY <3>1, <3>2, <3>3 DEF OpChange
    <3> QED BY <1>0, <2>3, <3>2, <3>4 DEF OpLives
  <2> QED BY <2>1, <2>2, <2>3 DEF RowChange, Absent
<1>b. CASE Mutate
  <2>1. Arranged(i) /\ ops' = ops
    BY <1>0, <1>b, Arrangements
  <2> QED BY <1>0, <1>1, <2>1 DEF Arranged
<1>c. CASE UNCHANGED vars
  BY <1>1, <1>c DEF vars
<1>d. ASSUME NEW q \in Attempts, OperationAges(q) PROVE ops'[entries'[i].owner].state \notin {"absent", "completed"}
  <2>1. entries' = entries /\ (o \in Attempts => ops'[o].state = ops[o].state)
    BY <1>0, <1>d, Ageing
  <2> QED BY <1>1, <2>1
<1> QED BY <1>a, <1>b, <1>c, <1>d, Cases

\* What a step may do to a row.
LEMMA Lifecycle == Layers /\ [Next]_vars => LifecycleStep
<1> DEFINE Ready(i) == entries[i].status = "ready" =>
                         entries'[i].status \in {"ready", "deleting"} /\ entries'[i].key = entries[i].key
           Uploading(i) == entries[i].status = "uploading" =>
                         \/ entries'[i] = entries[i]
                         \/ entries'[i].status = "ready" /\ entries'[i].key = entries[i].key
                         \/ entries'[i] = Absent /\ (entries[i].key \notin blobs' \/ late')
           Deleting(i) == entries[i].status = "deleting" =>
                         entries'[i] = entries[i] \/ (entries'[i] = Absent /\ entries[i].key \notin blobs')
           Goals(i) == Ready(i) /\ Uploading(i) /\ Deleting(i)
<1>l. (\A i \in Ids : Goals(i)) => LifecycleStep
  BY DEF LifecycleStep
<1> SUFFICES ASSUME Layers, [Next]_vars, NEW i \in Ids PROVE Goals(i)
  BY <1>l
<1> DEFINE Goal == Goals(i)
<1>0. /\ TypeInv /\ AttemptInv /\ RowInv /\ UnpublishedInv /\ DeleteInv /\ CleanInv /\ RowOK(i)
      /\ \A s \in Handlers : HandlerCleans(s) /\ HandlerQueued(s)
      /\ (late => late')
  BY Losses DEF Layers, RowInv, CleanInv, AttemptInv
<1>1. ASSUME entries[i].status = "deleting", entries'[i] = Absent PROVE entries[i].key \notin blobs'
  <2>1. ~OwnedAs(entries, i, "uploading", entries[i].key) /\ Absent.key \notin Attempts /\ blobs \subseteq Attempts
    BY <1>0, <1>1, Constants DEF OwnedAs, Absent, TypeInv, TypeOK
  <2>2. entries[i].key \in blobs => entries'[i].key = entries[i].key
    BY <1>0, <2>1, RowOfBlobStays
  <2>3. entries[i].key \notin blobs
    BY <1>1, <2>1, <2>2
  <2>4. blobs' \subseteq Attempts
    BY <1>0, Typed DEF TypeInv, TypeOK
  <2>5. CASE i \in FileIds
    BY <1>0, <1>1, <2>3, <2>5, DeletingIsDead, DeadStays
  <2>6. CASE i \notin FileIds
    BY <1>0, <2>4, <2>6, Constants DEF RowOK
  <2> QED BY <2>5, <2>6
<1>a. ASSUME NEW s \in Handlers, HandlerStep(s) PROVE Goal
  <2>1. Effect(s) /\ RowChange(s, i)
    BY <1>0, <1>a, Effects, RowChanges
  <2>2. ASSUME UploadDropped(s), entries[i].status = "uploading", entries[i].owner = slot[s].cur
        PROVE  entries[i].key \notin blobs' \/ late'
    <3> DEFINE k == entries[i].key
    <3>1. slot[s].pc = "cUnlink" /\ k = slot[s].cur /\ k \in Attempts
      BY <1>0, <2>2 DEF UploadDropped, RowOK
    <3>2. k \notin blobs \/ late
      BY <1>0, <3>1 DEF HandlerCleans, HandlerQueued, Cleaning
    <3>3. k \notin blobs => k \notin blobs'
      BY <2>1, <3>1, BlobChanges
    <3> QED BY <1>0, <3>2, <3>3
  <2> QED BY <1>1, <2>1, <2>2 DEF RowChange
<1>b. CASE Mutate
  <2>1. Arranged(i)
    BY <1>0, <1>b, Arrangements
  <2> QED BY <2>1 DEF Arranged
<1>c. CASE UNCHANGED vars
  BY <1>c DEF vars
<1>d. ASSUME NEW q \in Attempts, OperationAges(q) PROVE entries' = entries
  BY <1>0, <1>d, Ageing
<1> QED BY <1>a, <1>b, <1>c, <1>d, Cases

Inv == Layers /\ FilesInv /\ BlobsAreOwned /\ JournalCoversUploads

\* The invariant holds at first.
LEMMA InvStarts == Init => Inv
<1> SUFFICES ASSUME Init PROVE Inv
  OBVIOUS
<1>0. /\ \A s \in Handlers : slot[s] = Idle
      /\ blobs = {} /\ late = FALSE
      /\ \A o \in Attempts : ops[o].state = "absent" /\ ops[o].kind = "upload_cleanup"
      /\ \A i \in Ids : entries[i] = IF i = Root THEN [Absent EXCEPT !.status = "ready"] ELSE Absent
  BY DEF Init
<1>1. /\ Idle.pc = "idle" /\ Idle.job = "none" /\ Idle.attempt = None /\ Idle.deleted = FALSE
      /\ Absent.status = "absent" /\ Absent.owner = None /\ Absent.key = None /\ Absent.parent = Root
  BY DEF Idle, Absent
<1>2. \A i \in Ids : /\ entries[i].owner = None /\ entries[i].key = None /\ entries[i].parent = Root
                     /\ entries[i].status = (IF i = Root THEN "ready" ELSE "absent")
                     /\ i # Root => entries[i] = Absent
  BY <1>0, <1>1 DEF Absent
<1>3. TypeInv
  BY InitTyped
<1>4. AttemptInv
  <2>1. \A s \in Handlers : HandlerQueued(s)
    BY <1>0, <1>1 DEF HandlerQueued, Busy, RecoverPcs, Cleaning, Wiping
  <2>2. attempts = 0 /\ None = 0
    BY DEF Init, None
  <2>3. \A s \in Handlers : slot[s].attempt <= attempts
    BY <1>0, <1>1, <2>2
  <2>4. AttemptsInOrder
    BY <1>0, <1>1, <1>2, <2>3, Constants DEF AttemptsInOrder
  <2> QED BY <2>1, <2>4 DEF AttemptInv
<1>5. RowInv
  <2>1. Root \notin FileIds
    BY IdsAssumption
  <2> QED BY <1>1, <1>2, <2>1 DEF RowInv, RowOK
<1>6. TreeInv
  <2>1. RootStays
    BY <1>2, Constants DEF RootStays
  <2>2. UsableUnderUsable
    BY <1>1, <1>2 DEF UsableUnderUsable, Present
  <2> QED BY <2>1, <2>2 DEF TreeInv
<1>7. UnpublishedInv /\ UploadInv /\ CleanInv
  BY <1>0, <1>1 DEF UnpublishedInv, UploadInv, CleanInv, HandlerUploads, HandlerCleans, Early
<1>8. DeleteInv
  BY <1>0, <1>1, <1>2 DEF DeleteInv, HandlerWipes, Wiping, At
<1>9. FilesInv /\ JournalCoversUploads
  <2>1. \A i \in FileIds : entries[i].status = "absent"
    BY <1>2, Constants, IdsAssumption
  <2> QED BY <2>1 DEF FilesInv, ReadyFilesHaveBlobs, JournalCoversUploads
<1>10. BlobsAreOwned
  BY <1>0 DEF BlobsAreOwned
<1> QED BY <1>3, <1>4, <1>5, <1>6, <1>7, <1>8, <1>9, <1>10 DEF Inv, Layers

\* The invariant is inductive.
LEMMA InvHolds == Inv /\ [Next]_vars => Inv'
BY LayersHold, FilesHold, OwnedHold, UploadsCovered DEF Inv

\* The inductive invariant of the native storage.
THEOREM Invariance == Spec => []Inv
BY InvStarts, InvHolds, PTL DEF Spec

\* A file that is shown and served has its content, unless two failures come together of
\* which one is heartbeats that do not get through for as long as an upload's PUT lasts.
THEOREM FilesHaveBlobs == Spec => [](ReadyFilesHaveBlobs \/ LateAndFailed)
<1>1. Inv => ReadyFilesHaveBlobs \/ LateAndFailed
  BY DEF Inv, FilesInv
<1> QED BY <1>1, Invariance, PTL

\* So a single failure, of whatever kind, takes no content away.
THEOREM FilesHaveBlobsAfterOneFailure == ASSUME MaxFaults <= 1 PROVE Spec => []ReadyFilesHaveBlobs
<1>1. Inv => ReadyFilesHaveBlobs
  <2>1. Inv => ~LateAndFailed
    BY MaxFaultsAssumption DEF Inv, Layers, TypeInv, TypeOK, LateAndFailed
  <2> QED BY <2>1 DEF Inv, FilesInv
<1> QED BY <1>1, Invariance, PTL

\* Whatever fails, a blob belongs to an entry or to an operation still to run, as long as no
\* call outlives its heartbeats.
THEOREM NoBlobForgotten == Spec => []BlobsAreOwned
<1>1. Inv => BlobsAreOwned
  BY DEF Inv
<1> QED BY <1>1, Invariance, PTL

\* The name of an unfinished upload has an operation that gives it back.
THEOREM UploadsAreCovered == Spec => []JournalCoversUploads
<1>1. Inv => JournalCoversUploads
  BY DEF Inv
<1> QED BY <1>1, Invariance, PTL

\* What can be used hangs from the root by usable folders, whatever is deleted meanwhile.
THEOREM TreeStaysUsable == Spec => []UsableUnderUsable
<1>1. Inv => UsableUnderUsable
  BY DEF Inv, Layers, TreeInv
<1> QED BY <1>1, Invariance, PTL

\* A ready entry ends by a claim, a claimed row is not given back, metadata outlives the blob.
THEOREM LifecycleKept == Spec => EntryLifecycle
<1>1. Inv /\ [Next]_vars => [LifecycleStep]_vars
  BY Lifecycle DEF Inv
<1> QED BY <1>1, Invariance, PTL DEF Spec, EntryLifecycle

-----------------------------------------------------------------------------
(* Claimed trees.                                                          *)

\* What is in a tree stays under its top, if only leaves of it go.
LEMMA TopStays ==
  ASSUME NEW E \in [Ids -> Entries], NEW F \in [Ids -> Entries], Whole(E),
         \A j \in Ids : ~Present(E, j) => E[j].parent = Root,
         NEW c \in Ids, c \in Tree(E, c), Root \notin Tree(E, c), NEW K \in SUBSET Ids,
         \A j \in Tree(E, c) \ K : F[j].parent = E[j].parent,
         \A j \in Ids \ {Root} : Present(E, j) => E[j].parent \notin K,
         NEW i \in Tree(E, c) \ K
  PROVE  c \in Ancestors(F, i)
<1> DEFINE D == Tree(E, c)
<1>0. /\ i \in Ids /\ i \in D /\ i \notin K /\ c \in D
      /\ \A j \in D : j \in Ids /\ j # Root /\ Present(E, j)
      /\ \A j \in Ids \ {Root} : Present(E, j) /\ E[j].parent \in D => j \in D
      /\ \A j \in Ids : E[j].parent \in Ids
      /\ c \in Ancestors(E, i)
  BY TreesHang, Constants DEF Entries
<1>a. Ancestors(F, i) = {j \in Ids : \A S \in SUBSET Ids : i \in S /\ Climbs(F, S) => j \in S}
  BY <1>0, AncestorsClimb
<1>1. SUFFICES ASSUME NEW S \in SUBSET Ids, i \in S, Climbs(F, S) PROVE c \in S
  BY <1>a
<1> DEFINE U == (S \ K) \cup (Ids \ D)
<1>2. Climbs(E, U)
  <2> SUFFICES ASSUME NEW j \in U \ {Root} PROVE E[j].parent \in U
    BY DEF Climbs
  <2>1. j \in Ids /\ E[j].parent \in Ids
    BY <1>0
  <2>2. CASE j \notin D
    <3>1. E[j].parent \notin D
      BY <1>0, <2>1, <2>2
    <3> QED BY <2>1, <3>1
  <2>3. CASE j \in D
    <3>1. j \in S /\ j \notin K /\ j # Root /\ Present(E, j)
      BY <1>0, <2>3
    <3>2. E[j].parent \in S
      BY <1>1, <2>3, <3>1 DEF Climbs
    <3>3. E[j].parent \notin K
      BY <2>1, <3>1
    <3> QED BY <3>2, <3>3
  <2> QED BY <2>2, <2>3
<1>3. c \in U
  <2>1. U \in SUBSET Ids /\ i \in U
    BY <1>0, <1>1
  <2> HIDE DEF U
  <2> QED BY <1>0, <1>2, <2>1, Above
<1> QED BY <1>0, <1>3

\* Nothing gets into a tree whose rows become nobody's parents.
LEMMA TreeShrinks ==
  ASSUME NEW E \in [Ids -> Entries], NEW F \in [Ids -> Entries], NEW c \in Ids, c \in Tree(E, c),
         \A m \in Ids \ {Root} : m \notin Tree(E, c) => F[m].parent \notin Tree(E, c)
  PROVE  Tree(F, c) \subseteq Tree(E, c)
<1> DEFINE U == Ids \ Tree(E, c)
<1>1. \A m \in Ids : F[m].parent \in Ids
  BY Constants DEF Entries
<1>2. Climbs(F, U)
  BY <1>1 DEF Climbs
<1>3. ASSUME NEW j \in Tree(F, c), j \notin Tree(E, c) PROVE FALSE
  <2>1. j \in U /\ U \in SUBSET Ids /\ c \in Ancestors(F, j)
    BY <1>3 DEF Tree
  <2>2. c \notin U
    OBVIOUS
  <2> HIDE DEF U
  <2> QED BY <1>2, <2>1, <2>2, Above
<1> QED BY <1>3

\* A claimed tree only loses leaves.
LEMMA ClaimedShrinks ==
  ASSUME Layers, [Next]_vars, ClaimedWhole, NEW i \in Ids, entries[i].status = "deleting", entries'[i] = entries[i]
  PROVE  LET o == entries[i].owner
         IN /\ ops[o].entry \in Ancestors(entries', i)
            /\ \A j \in Tree(entries', ops[o].entry) : OwnedAs(entries', j, "deleting", o)
<1> DEFINE o == entries[i].owner
           c == ops[o].entry
           D == Tree(entries, c)
           K == {k \in D : entries'[k] # entries[k]}
<1>0. /\ TypeInv /\ RowInv /\ TreeInv /\ DeleteInv
      /\ entries \in [Ids -> Entries] /\ entries' \in [Ids -> Entries]
      /\ Whole(entries) /\ entries[Root].status = "ready"
      /\ Root \in Ids /\ \A m \in Ids : entries[m].parent \in Ids
  <2>1. TypeInv /\ RowInv /\ TreeInv /\ DeleteInv
    BY DEF Layers
  <2>2. entries \in [Ids -> Entries] /\ entries' \in [Ids -> Entries]
    BY <2>1, Typed DEF TypeInv, TypeOK
  <2> QED BY <2>1, <2>2, TreeParts, Constants DEF RootStays, Entries
<1>1. o \in Attempts /\ c \in Ids
  BY <1>0, Tables DEF RowInv, RowOK, Operations
<1>2. c \in Ancestors(entries, i) /\ \A j \in D : j \in Ids /\ OwnedAs(entries, j, "deleting", o)
  BY DEF ClaimedWhole, Tree
<1>3. Present(entries, i) /\ i \in D
  BY <1>2 DEF Present, Tree
<1>4. c \in D
  <2>1. Present(entries, c)
    BY <1>0, <1>2, <1>3, PresentAbove
  <2>2. c \in Ancestors(entries, c)
    BY <1>0, <1>1, Above
  <2> QED BY <1>1, <2>1, <2>2 DEF Tree
<1>5. Root \notin D /\ \A p \in Ids : ReadyFolder(entries, p) => p \notin D
  BY <1>0, <1>2 DEF OwnedAs, ReadyFolder
<1>6. \A j \in Ids \ {Root} : Present(entries, j) /\ entries[j].parent \in D => j \in D
  BY <1>0, <1>1, TreesHang
<1>7. \A m \in Ids : ~Present(entries, m) => entries[m].parent = Root
  BY <1>0 DEF RowInv, RowOK, Present, Absent
<1>8. \A m \in Ids \ {Root} : m \notin D => entries[m].parent \notin D
  BY <1>5, <1>6, <1>7
\* What happens to a row of the tree, and to the others.
<1>9. ASSUME NEW j \in D, entries'[j] # entries[j]
      PROVE  entries'[j] = Absent /\ \A m \in Ids \ {Root} : Present(entries, m) => entries[m].parent # j
  <2>1. j \in Ids /\ OwnedAs(entries, j, "deleting", o)
    BY <1>2
  <2>a. ASSUME NEW s \in Handlers, HandlerStep(s)
        PROVE  entries'[j] = Absent /\ \A m \in Ids \ {Root} : Present(entries, m) => entries[m].parent # j
    <3>1. RowChange(s, j)
      BY <1>0, <2>1, <2>a, Effects, RowChanges
    <3>2. RowDropped(s, j) /\ entries'[j] = Absent
      BY <1>9, <2>1, <3>1 DEF RowChange, OwnedAs
    <3>3. \A m \in Ids \ {Root} : Present(entries, m) /\ entries[m].parent = j => m = j
      BY <1>0, <2>1, <3>2, LeavesGo
    <3>4. \A m \in Ids \ {Root} : Present(entries, m) => entries[m].parent # m
      BY <1>0, PresentAbove
    <3> QED BY <3>2, <3>3, <3>4
  <2>b. CASE Mutate
    <3>1. Arranged(j)
      BY <1>0, <2>1, <2>b, Arrangements
    <3> QED BY <1>9, <2>1, <3>1 DEF Arranged, OwnedAs
  <2>c. CASE UNCHANGED vars
    BY <1>9, <2>c DEF vars
  <2>d. ASSUME NEW q \in Attempts, OperationAges(q) PROVE entries' = entries
    BY <1>0, <2>d, Ageing
  <2> QED BY <1>9, <2>a, <2>b, <2>c, <2>d, Cases
<1>10. ASSUME NEW m \in Ids \ {Root}, m \notin D PROVE entries'[m].parent \notin D
  <2>1. entries[m].parent \notin D /\ Absent.parent \notin D
    BY <1>5, <1>8, <1>10 DEF Absent
  <2>a. ASSUME NEW s \in Handlers, HandlerStep(s) PROVE entries'[m].parent \notin D
    <3>1. RowChange(s, m) /\ slot[s].parent \in Ids
      BY <1>0, <2>a, Effects, RowChanges, Tables, Constants DEF Slots
    <3>2. RowInserted(s) => slot[s].parent \notin D
      BY <1>5, <3>1 DEF RowInserted, CanInsert
    <3> QED BY <2>1, <3>1, <3>2 DEF RowChange
  <2>b. CASE Mutate
    <3>1. Arranged(m)
      BY <1>0, <2>b, Arrangements
    <3>2. ReadyFolder(entries, entries'[m].parent) => entries'[m].parent \notin D
      BY <1>5, Constants DEF ReadyFolder
    <3> QED BY <2>1, <3>1, <3>2 DEF Arranged
  <2>c. CASE UNCHANGED vars
    BY <2>1, <2>c DEF vars
  <2>d. ASSUME NEW q \in Attempts, OperationAges(q) PROVE entries' = entries
    BY <1>0, <2>d, Ageing
  <2> QED BY <2>1, <2>a, <2>b, <2>c, <2>d, Cases
<1>11. Tree(entries', c) \subseteq D
  <2> HIDE DEF c
  <2> QED BY <1>0, <1>1, <1>4, <1>10, TreeShrinks
<1>12. ASSUME NEW j \in Tree(entries', c) PROVE OwnedAs(entries', j, "deleting", o)
  <2>1. entries'[j].status # "absent"
    BY <1>12 DEF Tree, Present
  <2>2. entries'[j] = entries[j]
    BY <1>9, <1>11, <1>12, <2>1 DEF Absent
  <2> QED BY <1>2, <1>11, <1>12, <2>2 DEF OwnedAs
<1>13. c \in Ancestors(entries', i)
  <2>1. K \in SUBSET Ids /\ i \in D \ K
    BY <1>2, <1>3
  <2>2. \A j \in D \ K : entries'[j].parent = entries[j].parent
    OBVIOUS
  <2>3. \A j \in Ids \ {Root} : Present(entries, j) => entries[j].parent \notin K
    BY <1>9
  <2> HIDE DEF K, c
  <2> QED BY <1>0, <1>1, <1>4, <1>5, <1>7, <2>1, <2>2, <2>3, TopStays
<1> QED BY <1>12, <1>13

\* What a claim leaves of a row.
LEMMA ClaimFields ==
  ASSUME NEW E \in [Ids -> Entries], NEW c, NEW o, NEW j \in Ids
  PROVE  /\ j \in Tree(E, c) => /\ ClaimedTree(E, c, o)[j].status = "deleting" /\ ClaimedTree(E, c, o)[j].owner = o
                               /\ ClaimedTree(E, c, o)[j].parent = E[j].parent
         /\ j \notin Tree(E, c) => ClaimedTree(E, c, o)[j] = E[j]
<1>1. E[j] \in Entries
  OBVIOUS
<1>2. CASE j \in Tree(E, c)
  BY <1>1, <1>2 DEF ClaimedTree, Entries
<1>3. CASE j \notin Tree(E, c)
  BY <1>3 DEF ClaimedTree
<1> QED BY <1>2, <1>3

\* A claimed tree is claimed as a whole, and stays that until it is gone.
LEMMA ClaimedHold == Layers /\ ClaimedWhole /\ [Next]_vars => ClaimedWhole'
<1> DEFINE Goal(i, o) == /\ ops'[o].entry \in Ancestors(entries', i)
                         /\ \A j \in Tree(entries', ops'[o].entry) : OwnedAs(entries', j, "deleting", o)
<1> SUFFICES ASSUME Layers, ClaimedWhole, [Next]_vars, NEW i \in Ids, entries'[i].status = "deleting"
             PROVE  Goal(i, entries'[i].owner)
  BY DEF ClaimedWhole
<1>0. /\ TypeInv /\ AttemptInv /\ RowInv /\ \A o \in Attempts : OpLives(o)
      /\ entries \in [Ids -> Entries] /\ entries' \in [Ids -> Entries]
  <2>1. TypeInv /\ AttemptInv /\ RowInv
    BY DEF Layers
  <2> QED BY <2>1, Typed, OpsLive DEF TypeInv, TypeOK
<1>1. CASE entries'[i] = entries[i]
  <2> DEFINE o == entries[i].owner
  <2>1. o \in Attempts /\ ops'[o].entry = ops[o].entry
    BY <1>0, <1>1 DEF RowInv, RowOK, OpLives
  <2>2. /\ ops[o].entry \in Ancestors(entries', i)
        /\ \A j \in Tree(entries', ops[o].entry) : OwnedAs(entries', j, "deleting", o)
    BY <1>1, ClaimedShrinks
  <2> QED BY <1>1, <2>1, <2>2
<1>2. ASSUME NEW s \in Handlers, HandlerStep(s), entries'[i] # entries[i] PROVE Goal(i, entries'[i].owner)
  <2> DEFINE c == slot[s].id
             o == slot[s].attempt
             T == Tree(entries, c)
  <2>1. RowChange(s, i)
    BY <1>0, <1>2, Effects, RowChanges
  <2>2. TreeClaimed(s) /\ i \in T /\ entries'[i].owner = o
    BY <1>2, <2>1 DEF RowChange, Absent
  <2>3. c \in Ids /\ o \in Attempts /\ ops'[o].entry = c
    <3>1. slot[s] \in Slots /\ SlotOK(slot[s]) /\ HandlerQueued(s) /\ slot[s].pc = "xClaim"
      BY <1>0, <2>2, Tables DEF AttemptInv, TreeClaimed
    <3>2. slot[s].job = "delete" /\ o \in Attempts /\ c \in Ids
      BY <3>1 DEF SlotOK, DeletePcs, Slots
    <3>3. ops[o].state # "absent" /\ ops[o].entry = c
      BY <3>1, <3>2 DEF HandlerQueued, Queued
    <3> QED BY <1>0, <3>2, <3>3 DEF OpLives
  <2>4. /\ \A j \in T : /\ entries'[j].status = "deleting" /\ entries'[j].owner = o
                        /\ entries'[j].parent = entries[j].parent
        /\ \A j \in Ids : j \notin T => entries'[j] = entries[j]
    <3>1. entries' = ClaimedTree(entries, c, o)
      BY <2>2 DEF TreeClaimed
    <3>2. \A j \in T : j \in Ids
      BY DEF Tree
    <3> QED BY <1>0, <3>1, <3>2, ClaimFields
  <2>5. \A j \in T : j \in Ids /\ Present(entries, j) /\ c \in Ancestors(entries, j)
    BY DEF Tree
  <2>7. ASSUME NEW j \in Ids
        PROVE  entries'[j].parent = entries[j].parent /\ (Present(entries', j) => Present(entries, j))
    <3>1. CASE j \in T
      BY <2>4, <2>5, <3>1
    <3>2. CASE j \notin T
      BY <2>4, <3>2 DEF Present
    <3> QED BY <3>1, <3>2
  <2>8. \A j \in Ids : Ancestors(entries', j) = Ancestors(entries, j)
    BY <1>0, <2>7, SameAbove, Above
  <2>9. Tree(entries', c) \subseteq T
    BY <2>7, <2>8 DEF Tree
  <2>10. \A j \in Tree(entries', c) : OwnedAs(entries', j, "deleting", o)
    BY <2>4, <2>9 DEF OwnedAs
  <2> QED BY <2>2, <2>3, <2>5, <2>8, <2>10
<1>3. CASE Mutate
  <2>1. Arranged(i)
    BY <1>0, <1>3, Arrangements
  <2> QED BY <1>1, <2>1 DEF Arranged
<1>4. CASE UNCHANGED vars
  BY <1>1, <1>4 DEF vars
<1>5. ASSUME NEW q \in Attempts, OperationAges(q) PROVE entries' = entries
  BY <1>0, <1>5, Ageing
<1> QED BY <1>1, <1>2, <1>3, <1>4, <1>5, Cases

-----------------------------------------------------------------------------
(* With one handler, no worker is at a tree that another one believes to    *)
(* have.                                                                   *)

\* A tree that is given up as done, or found to be none, has no rows left.
LEMMA GivenUp ==
  ASSUME TypeInv, NEW s \in Handlers
  PROVE  LET h == slot[s]
             rows == Tree(entries, ops[h.cur].entry)
         IN /\ DeleteRows(s) /\ slot'[s].pc = "kRenew" =>
                 ~(rows # {} /\ \A i \in rows : OwnedAs(entries, i, "deleting", h.cur))
            /\ DeleteUnlink(s) /\ slot'[s].pc = "tDone" =>
                 \/ h.rows = {} /\ entries' = entries
                 \/ \E i \in h.rows : Deleted(entries, i, "deleting", h.cur)[i].status # "absent"
<1> DEFINE h == slot[s]
           rows == Tree(entries, ops[h.cur].entry)
<1>0. h \in Slots /\ SlotOK(h)
  BY Tables
<1>1. Escape(s).pc # "kRenew" /\ Goto(s, "tRetry").pc # "tDone"
  BY MoveFields DEF Caught
<1>2. ASSUME DeleteRows(s), slot'[s].pc = "kRenew"
      PROVE  ~(rows # {} /\ \A i \in rows : OwnedAs(entries, i, "deleting", h.cur))
  <2> DEFINE keys == KeysOf(entries, rows) \ h.wiped
             owned == rows # {} /\ \A i \in rows : OwnedAs(entries, i, "deleting", h.cur)
             to(K) == [Goto(s, IF K = {} THEN "dLast" ELSE "dBlob") EXCEPT !.rows = rows, !.keys = K, !.more = K # keys]
  <2>1. \A K : to(K).pc = IF K = {} THEN "dLast" ELSE "dBlob"
    BY <1>0 DEF Goto, Slots
  <2>2. \/ ~owned \/ ReadFault(s, Escape(s))
        \/ \E K \in Passes(s, keys) : Read(s, to(K))
    BY <1>2, Zenon DEF DeleteRows
  <2> HIDE DEF to, owned, keys
  <2>3. ~ReadFault(s, Escape(s))
    BY <1>1, <1>2, Calls
  <2>4. ASSUME NEW K, Read(s, to(K)) PROVE FALSE
    <3>1. slot'[s] = to(K)
      BY <2>4, Calls
    <3>2. to(K).pc # "kRenew"
      BY <2>1
    <3> QED BY <1>2, <3>1, <3>2
  <2> QED BY <2>2, <2>3, <2>4 DEF owned
<1>3. ASSUME DeleteUnlink(s), slot'[s].pc = "tDone"
      PROVE  \/ h.rows = {} /\ entries' = entries
             \/ \E i \in h.rows : Deleted(entries, i, "deleting", h.cur)[i].status # "absent"
  <2> DEFINE to(i) == [slot[s] EXCEPT !.rows = @ \ {i}]
             E(i) == Deleted(entries, i, "deleting", slot[s].cur)
  <2>0. h.pc = "dUnlink"
    BY <1>3 DEF DeleteUnlink, At
  <2>1. \A i : to(i).pc = "dUnlink"
    BY <1>0, <2>0 DEF Slots
  <2>2. \/ h.rows = {} /\ Read(s, Goto(s, "tDone"))
        \/ \E i \in h.rows : \/ E(i)[i].status # "absent"
                             \/ Sql(s, E(i), ops, to(i)) \/ SqlFault(s, E(i), ops, Goto(s, "tRetry"))
    BY <1>3 DEF DeleteUnlink
  <2> HIDE DEF to, E
  <2>3. ASSUME NEW i PROVE ~Sql(s, E(i), ops, to(i)) /\ ~SqlFault(s, E(i), ops, Goto(s, "tRetry"))
    <3>1. Sql(s, E(i), ops, to(i)) => slot'[s] = to(i)
      BY Calls
    <3>2. SqlFault(s, E(i), ops, Goto(s, "tRetry")) => slot'[s] = Goto(s, "tRetry")
      BY Calls
    <3>3. to(i).pc # "tDone"
      BY <2>1
    <3> QED BY <1>1, <1>3, <3>1, <3>2, <3>3
  <2>4. Read(s, Goto(s, "tDone")) => entries' = entries
    BY DEF Read, Sql
  <2> QED BY <2>2, <2>3, <2>4 DEF E
<1> QED BY <1>2, <1>3

\* Only five steps write to the entries.
LEMMA EntriesStay ==
  ASSUME NEW s \in Handlers, Effect(s), slot[s].pc \notin {"uInsert", "uFinalize", "xClaim", "cUnlink", "dUnlink"}
  PROVE  entries' = entries
BY DEF Effect, EntriesEffect, RowInserted, RowPublished, TreeClaimed, UploadDropped, RowDropped

\* The only handler deletes what it claimed, all of it, and then has nothing left.
LEMMA ClaimsHold ==
  ASSUME NEW s \in Handlers, Handlers = {s}, Layers, ClaimInv, [Next]_vars
  PROVE  HandlerClaims(s)'
<1> DEFINE h == slot[s]
           g == slot'[s]
           o == slot[s].cur
           c == ops[o].entry
           left == {i \in Ids : OwnedAs(entries, i, "deleting", o)}
           leftNext == {i \in Ids : OwnedAs(entries', i, "deleting", g.cur)}
<1>0. /\ TypeInv /\ AttemptInv /\ RowInv /\ h \in Slots /\ SlotOK(h) /\ HandlerQueued(s) /\ HandlerClaims(s)
      /\ \A q \in Attempts : OpLives(q)
      /\ \A i \in Ids : RowOK(i) /\ RowOK(i)'
  <2>1. TypeInv /\ AttemptInv /\ RowInv /\ RowInv'
    BY LayersHold DEF Layers
  <2> QED BY <2>1, Tables, OpsLive DEF AttemptInv, ClaimInv, RowInv
\* What the handler has is what its operation is about.
<1>1. ASSUME NEW i \in left PROVE i \in Tree(entries, c) /\ \A j \in Tree(entries, c) : OwnedAs(entries, j, "deleting", o)
  <2>1. entries[i].status = "deleting" /\ entries[i].owner = o /\ i \in Ids
    BY DEF OwnedAs
  <2>2. c \in Ancestors(entries, i) /\ \A j \in Tree(entries, c) : OwnedAs(entries, j, "deleting", o)
    BY <2>1 DEF ClaimInv, ClaimedWhole
  <2> QED BY <2>1, <2>2 DEF Tree, Present
<1>2. ASSUME HandlerStep(s) PROVE HandlerClaims(s)'
  <2>0. Effect(s) /\ Arrives(s)
    BY <1>0, <1>2, Effects, Landings
  <2>1. ASSUME g.pc = "xClaim" PROVE ops'[g.attempt].state = "pending"
    <3> DEFINE O == Enqueued(ops, h.attempt, "delete_tree", h.id, "pending")
    <3>1. DeleteEnqueue(s) /\ h.pc = "xEnqueue"
      BY <2>0, <2>1 DEF Arrives, DeleteEnqueue, At
    <3>2. Sql(s, entries, O, Goto(s, "xClaim")) \/ Sql(s, entries, ops, Idle) \/ SqlFault(s, entries, O, Idle)
          \/ SqlFault(s, entries, ops, Idle)
      BY <3>1 DEF DeleteEnqueue
    <3> HIDE DEF O
    <3>3. Idle.pc # "xClaim"
      BY DEF Idle
    <3>4. ~Sql(s, entries, ops, Idle) /\ ~SqlFault(s, entries, O, Idle) /\ ~SqlFault(s, entries, ops, Idle)
      BY <1>0, <2>1, <3>3, Calls
    <3>5. ops' = O /\ g = Goto(s, "xClaim")
      BY <1>0, <3>2, <3>4, Calls DEF Sql
    <3>6. g.attempt = h.attempt /\ h.attempt \in Attempts
      BY <1>0, <2>1, ClaimsAreNew
    <3>7. O[h.attempt].state = "pending"
      BY <1>0, <3>6, Tables DEF O, Enqueued
    <3> QED BY <3>5, <3>6, <3>7
  <2>2. ASSUME g.pc \in Wiping PROVE leftNext = g.rows
    <3>1. g.cur = o /\ o \in Attempts
      BY <1>0, <1>2, <2>2, WipingSteps
    <3>2. h.pc \in Wiping => left = h.rows
      BY <1>0 DEF HandlerClaims
    <3>3. CASE WipeStarts(s)
      <4>1. g.rows = Tree(entries, c) /\ entries' = entries /\ \A i \in g.rows : i \in Ids /\ OwnedAs(entries, i, "deleting", o)
        BY <3>3 DEF WipeStarts, Tree
      <4>2. left = g.rows
        BY <1>1, <4>1
      <4> QED BY <3>1, <4>1, <4>2
    <3>4. CASE WipeBlob(s) \/ WipeOn(s)
      <4>1. h.pc \in Wiping /\ g.rows = h.rows
        BY <3>4 DEF WipeBlob, WipeOn, Wiping
      <4>2. h.pc # "dUnlink"
        <5>a. /\ DeleteBlob(s) => h.pc = "dBlob"
              /\ DeleteRenew(s) => h.pc = "dRenew"
          BY Zenon DEF DeleteBlob, DeleteRenew, At
        <5>b. /\ DeleteRows(s) => h.pc = "dRows"
              /\ DeleteMark(s) => h.pc = "dMark"
          BY Zenon DEF DeleteRows, DeleteMark, At
        <5>1. g.pc = "dRenew" => h.pc = "dBlob"
          BY <2>0, <5>a DEF Arrives
        <5>2. g.pc = "dMark" => h.pc = "dRenew"
          BY <2>0, <5>a DEF Arrives
        <5>3. g.pc = "dBlob" => h.pc \in {"dRows", "dMark"}
          BY <2>0, <5>b DEF Arrives
        <5>4. g.pc = "dLast" => h.pc \in {"dRows", "dMark"}
          BY <2>0, <5>b DEF Arrives
        <5> QED BY <3>4, <5>1, <5>2, <5>3, <5>4 DEF WipeBlob, WipeOn
      <4>3. entries' = entries
        BY <2>0, <4>1, <4>2, EntriesStay DEF Wiping
      <4> QED BY <3>1, <3>2, <4>1, <4>3
    <3>5. CASE WipeRow(s)
      <4>1. PICK i \in h.rows : g.rows = h.rows \ {i} /\ entries'[i].status = "absent"
        BY <3>5 DEF WipeRow
      <4>2. h.pc = "dUnlink" /\ left = h.rows
        BY <3>2, <3>5 DEF WipeRow, Wiping
      <4>3. i \in Ids /\ OwnedAs(entries, i, "deleting", o)
        BY <4>2
      <4>4. entries' # entries
        BY <4>1, <4>3 DEF OwnedAs
      <4>5. PICK k \in Ids : RowDropped(s, k)
        BY <2>0, <4>2, <4>4 DEF Effect, EntriesEffect, RowInserted, RowPublished, TreeClaimed, UploadDropped
      <4>6. entries' = [entries EXCEPT ![k] = Absent]
        BY <4>5 DEF RowDropped
      <4>7. k = i
        BY <1>0, <4>1, <4>3, <4>6, Tables DEF OwnedAs, KeyedRows
      <4>8. /\ \A j \in Ids \ {i} : entries'[j] = entries[j]
            /\ entries'[i].status = "absent"
        BY <1>0, <4>1, <4>6, <4>7, Tables DEF KeyedRows
      <4>9. leftNext = left \ {i}
        BY <3>1, <4>8 DEF OwnedAs
      <4> QED BY <4>1, <4>2, <4>9
    <3> QED BY <1>0, <1>2, <2>2, <3>3, <3>4, <3>5, WipingSteps
  <2>3. ASSUME g.pc \in {"kRenew", "kDone", "tDone"} PROVE leftNext = {}
    <3>0. g.pc \in Settling
      BY <2>3 DEF Settling
    <3>1. /\ g.cur = o /\ o \in Attempts
          /\ g.pc = "kRenew" => entries' = entries /\ (h.pc = "cByKey" \/ (DeleteRows(s) /\ h.pc = "dRows"))
          /\ g.pc = "kDone" => h.pc = "kRenew" /\ entries' = entries
          /\ g.pc = "tDone" => h.pc \in {"cRenew", "cUnlink"} \/ (h.pc = "dUnlink" /\ DeleteUnlink(s))
      BY <1>0, <1>2, <3>0, CleaningSteps
    <3>2. CASE h.pc \in {"cByKey", "cRenew", "cUnlink"}
      <4>1. ops[o].kind = "upload_cleanup" /\ ops'[o].kind = ops[o].kind
        BY <1>0, <3>1, <3>2 DEF HandlerQueued, Cleaning, Busy, RecoverPcs, OpLives
      <4>2. \A i \in Ids : entries'[i].status = "deleting" /\ entries'[i].owner = o => ops'[o].kind = "delete_tree"
        BY <1>0 DEF RowOK
      <4> QED BY <3>1, <4>1, <4>2 DEF OwnedAs
    <3>3. CASE g.pc = "kRenew" /\ DeleteRows(s)
      <4>1. left = {}
        BY <1>0, <1>1, <3>3, GivenUp
      <4> QED BY <3>1, <3>3, <4>1
    <3>4. CASE g.pc = "kDone"
      BY <1>0, <3>1, <3>4 DEF HandlerClaims
    <3>5. CASE g.pc = "tDone" /\ h.pc = "dUnlink" /\ DeleteUnlink(s)
      <4>1. left = h.rows
        BY <1>0, <3>5 DEF HandlerClaims, Wiping
      <4>2. ASSUME NEW i \in h.rows PROVE Deleted(entries, i, "deleting", o)[i].status = "absent"
        <5>1. i \in Ids /\ OwnedAs(entries, i, "deleting", o)
          BY <4>1
        <5> QED BY <1>0, <5>1, Tables DEF Deleted, Absent, KeyedRows
      <4>3. h.rows = {} /\ entries' = entries
        BY <1>0, <3>5, <4>2, GivenUp
      <4> QED BY <3>1, <4>1, <4>3
    <3> QED BY <2>3, <3>1, <3>2, <3>3, <3>4, <3>5
  <2> QED BY <2>1, <2>2, <2>3 DEF HandlerClaims
<1>3. CASE Mutate \/ UNCHANGED vars
  <2>1. UNCHANGED <<ops, slot>>
    BY <1>0, <1>3, Arrangements DEF vars
  <2>2. ASSUME NEW i \in Ids PROVE OwnedAs(entries', i, "deleting", o) <=> OwnedAs(entries, i, "deleting", o)
    <3>1. Arranged(i)
      BY <1>0, <1>3, Arrangements DEF vars, Arranged
    <3> QED BY <3>1 DEF Arranged, OwnedAs
  <2>3. leftNext = left
    BY <2>1, <2>2
  <2> QED BY <1>0, <2>1, <2>3 DEF HandlerClaims
<1>4. ASSUME NEW q \in Attempts, OperationAges(q) PROVE HandlerClaims(s)'
  <2>1. UNCHANGED <<entries, slot>> /\ \A r \in Attempts : ops'[r].state = ops[r].state
    BY <1>0, <1>4, Ageing
  <2>2. h.pc = "xClaim" => h.attempt \in Attempts
    BY <1>0 DEF SlotOK, DeletePcs
  <2>3. leftNext = left
    BY <2>1
  <2> QED BY <1>0, <2>1, <2>2, <2>3 DEF HandlerClaims
<1> QED BY <1>2, <1>3, <1>4, Cases

\* A claimed tree has an operation until it is gone.
LEMMA DeletionsCovered ==
  ASSUME Layers, ClaimInv, JournalCoversDeletions, [Next]_vars
  PROVE  JournalCoversDeletions'
<1> SUFFICES ASSUME NEW i \in Ids, entries'[i].status = "deleting"
             PROVE  ops'[entries'[i].owner].state \notin {"absent", "completed"}
  BY DEF JournalCoversDeletions, Active
<1> DEFINE o == entries[i].owner
<1>0. /\ TypeInv /\ RowOK(i) /\ \A q \in Attempts : OpLives(q)
      /\ \A s \in Handlers : HandlerClaims(s) /\ SlotOK(slot[s])
  <2>1. TypeInv /\ AttemptInv /\ RowInv
    BY DEF Layers
  <2> QED BY <2>1, Tables, OpsLive DEF ClaimInv, RowInv
<1>1. entries[i].status = "deleting" => o \in Attempts /\ ops[o].state \notin {"absent", "completed"}
  BY <1>0 DEF JournalCoversDeletions, Active, RowOK
<1>a. ASSUME NEW s \in Handlers, HandlerStep(s) PROVE ops'[entries'[i].owner].state \notin {"absent", "completed"}
  <2>1. Effect(s) /\ RowChange(s, i)
    BY <1>0, <1>a, Effects, RowChanges
  <2>2. CASE entries'[i] = entries[i]
    <3>1. o \in Attempts /\ ops[o].state \notin {"absent", "completed"} /\ OpChange(s, o) /\ OpLives(o)
      BY <1>0, <1>1, <2>1, <2>2, OpChanges
    <3>2. ~(slot[s].pc \in {"kDone", "tDone"} /\ slot[s].cur = o)
      BY <1>0, <2>2 DEF HandlerClaims, OwnedAs
    <3>3. ops'[o].state # "completed"
      BY <3>1, <3>2 DEF OpChange
    <3> QED BY <2>2, <3>1, <3>3 DEF OpLives
  <2>3. CASE TreeClaimed(s) /\ entries'[i].owner = slot[s].attempt
    <3> DEFINE k == slot[s].attempt
    <3>1. slot[s].pc = "xClaim"
      BY <2>3 DEF TreeClaimed
    <3>2. k \in Attempts /\ ops[k].state = "pending"
      BY <1>0, <3>1 DEF SlotOK, DeletePcs, HandlerClaims
    <3>3. OpChange(s, k)
      BY <1>0, <2>1, <3>2, OpChanges
    <3>4. ops'[k].state # "completed"
      BY <3>1, <3>2, <3>3 DEF OpChange
    <3> QED BY <1>0, <2>3, <3>2, <3>4 DEF OpLives
  <2> QED BY <2>1, <2>2, <2>3 DEF RowChange, Absent
<1>b. CASE Mutate
  <2>1. Arranged(i) /\ ops' = ops
    BY <1>0, <1>b, Arrangements
  <2> QED BY <1>0, <1>1, <2>1 DEF Arranged
<1>c. CASE UNCHANGED vars
  BY <1>1, <1>c DEF vars
<1>d. ASSUME NEW q \in Attempts, OperationAges(q) PROVE ops'[entries'[i].owner].state \notin {"absent", "completed"}
  <2>1. entries' = entries /\ (o \in Attempts => ops'[o].state = ops[o].state)
    BY <1>0, <1>d, Ageing
  <2> QED BY <1>1, <2>1
<1> QED BY <1>a, <1>b, <1>c, <1>d, Cases

AloneInv == Layers /\ ClaimInv /\ JournalCoversDeletions

\* The invariant of one handler holds at first.
LEMMA AloneStarts == Init => AloneInv
<1> SUFFICES ASSUME Init PROVE AloneInv
  OBVIOUS
<1>1. Layers
  BY InvStarts DEF Inv
<1>2. \A i \in Ids : entries[i].status # "deleting"
  BY DEF Init, Absent
<1>3. \A s \in Handlers : slot[s].pc = "idle"
  BY DEF Init, Idle
<1> QED BY <1>1, <1>2, <1>3 DEF AloneInv, ClaimInv, ClaimedWhole, HandlerClaims, Wiping, JournalCoversDeletions

\* With one handler, what a claim says is inductive.
LEMMA AloneHolds == ASSUME NEW s \in Handlers, Handlers = {s} PROVE AloneInv /\ [Next]_vars => AloneInv'
<1> SUFFICES ASSUME AloneInv, [Next]_vars PROVE AloneInv'
  OBVIOUS
<1>1. HandlerClaims(s)'
  BY ClaimsHold DEF AloneInv
<1>2. ClaimedWhole'
  BY ClaimedHold DEF AloneInv, ClaimInv
<1>3. ClaimInv'
  BY <1>1, <1>2 DEF ClaimInv
<1> QED BY <1>3, LayersHold, DeletionsCovered DEF AloneInv

\* As long as one request is served at a time, whatever fails and however often a worker is
\* evicted: a claimed tree keeps an operation until it is gone.
THEOREM DeletionsAreCovered ==
  ASSUME NEW s \in Handlers, Handlers = {s}
  PROVE  Spec => []JournalCoversDeletions
<1>1. AloneInv => JournalCoversDeletions
  BY DEF AloneInv
<1>2. AloneInv /\ [Next]_vars => AloneInv'
  BY AloneHolds
<1> QED BY <1>1, <1>2, AloneStarts, PTL DEF Spec

\* And a deletion that was reported to have succeeded left nothing of its tree, and never will.
THEOREM DeletedIsGone ==
  ASSUME NEW s \in Handlers, Handlers = {s}
  PROVE  Spec => []DeletedMeansGone
<1>1. AloneInv => DeletedMeansGone
  <2> SUFFICES ASSUME AloneInv, NEW t \in Handlers, slot[t].deleted, NEW i \in Ids,
                      OwnedAs(entries, i, "deleting", slot[t].attempt)
               PROVE  FALSE
    BY DEF DeletedMeansGone
  <2>1. ops[slot[t].attempt].state = "completed"
    BY DEF AloneInv, Layers, AttemptInv, HandlerQueued
  <2>2. Active(ops, slot[t].attempt)
    BY DEF AloneInv, JournalCoversDeletions, OwnedAs
  <2> QED BY <2>1, <2>2 DEF Active
<1>2. AloneInv /\ [Next]_vars => AloneInv'
  BY AloneHolds
<1> QED BY <1>1, <1>2, AloneStarts, PTL DEF Spec

-----------------------------------------------------------------------------
(* Copies.  A copy is not in the journal: nothing but what it remembers     *)
(* itself says whose its blob is, until its row is there.                  *)

\* A key that nothing but its copy knows.
Unused(k) ==
  /\ Foreign(k)
  /\ \A i \in Ids : entries[i].key # k
  /\ \A t \in Handlers : slot[t].pc \in Wiping => k \notin slot[t].keys

\* The destination of a copy, and the folders it has made.
Stacks == {q \in Seq(Frames) : q # <<>> /\ \A n \in 2..Len(q) : q[n].made # Root}

\* A copy has its stack, and a key of its own for its blob.
HandlerCopies(s) ==
  LET c == copying[s]
  IN /\ c.pc # "idle" => c.stack \in Stacks
     /\ c.pc \in {"file", "unput"} => c.key \in Attempts /\ Unused(c.key)
     /\ c.pc = "file" => c.key \in blobs

CopyInv ==
  /\ CopyTypeOK
  /\ \A s \in Handlers : HandlerCopies(s)
  /\ \A s, t \in Handlers :
       copying[s].pc \in {"file", "unput"} /\ copying[t].pc \in {"file", "unput"} /\ s # t =>
         copying[s].key # copying[t].key

\* While a copy has a key, nobody else comes to know it, and its blob stays.
LEMMA UnusedStays ==
  ASSUME Layers, [Next]_vars, NEW k \in Attempts, Unused(k)
  PROVE  Unused(k)' /\ (k \in blobs => k \in blobs')
<1>0. /\ TypeInv /\ AttemptInv /\ k # None /\ Absent.key = None
      /\ Foreign(k) /\ Foreign(k)'
      /\ \A i \in Ids : entries[i].key # k
      /\ \A t \in Handlers : slot[t].pc \in Wiping => k \notin slot[t].keys
  BY ForeignStays, Constants DEF Layers, Unused, Absent
<1>1. \A s \in Handlers : slot[s].attempt # k /\ (slot[s].pc \in Busy => slot[s].cur # k)
  BY <1>0 DEF Foreign, AttemptInv, HandlerQueued
<1>a. ASSUME NEW s \in Handlers, HandlerStep(s) PROVE Unused(k)' /\ (k \in blobs => k \in blobs')
  <2>1. Effect(s) /\ \A t \in Handlers \ {s} : slot'[t] = slot[t]
    BY <1>0, <1>a, Effects, Landings
  <2>2. ASSUME NEW i \in Ids PROVE entries'[i].key # k
    <3>1. RowChange(s, i)
      BY <1>0, <2>1, RowChanges
    <3> QED BY <1>0, <1>1, <3>1 DEF RowChange
  <2>3. ASSUME slot'[s].pc \in Wiping PROVE k \notin slot'[s].keys
    <3>1. WipeStarts(s) \/ WipeBlob(s) \/ WipeRow(s) \/ WipeOn(s)
      BY <1>0, <1>a, <2>3, WipingSteps
    <3>2. WipeStarts(s) => k \notin slot'[s].keys
      BY <1>0, Constants DEF WipeStarts, KeysOf
    <3>3. WipeBlob(s) \/ WipeRow(s) \/ WipeOn(s) => slot[s].pc \in Wiping /\ slot'[s].keys \subseteq slot[s].keys
      BY DEF WipeBlob, WipeRow, WipeOn, Wiping
    <3> QED BY <1>0, <3>1, <3>2, <3>3
  <2>4. k \in blobs => k \in blobs'
    <3>1. "cBlob" \in Busy /\ "dBlob" \in Wiping
      BY DEF Busy, RecoverPcs, Wiping
    <3> QED BY <1>0, <1>1, <2>1, <3>1, BlobChanges
  <2> QED BY <1>0, <2>1, <2>2, <2>3, <2>4 DEF Unused
<1>b. CASE Mutate
  <2>1. ASSUME NEW i \in Ids PROVE entries'[i].key # k
    <3>1. Arranged(i)
      BY <1>0, <1>b, Arrangements
    <3> QED BY <1>0, <3>1 DEF Arranged
  <2> QED BY <1>0, <1>b, <2>1, Arrangements DEF Unused
<1>c. CASE UNCHANGED vars
  BY <1>0, <1>c DEF vars, Unused
<1>d. ASSUME NEW o \in Attempts, OperationAges(o) PROVE Unused(k)' /\ (k \in blobs => k \in blobs')
  BY <1>0, <1>d, Ageing DEF Unused
<1> QED BY <1>a, <1>b, <1>c, <1>d, Cases

\* What the calls of a copy, answered or not, do to the tables and the bucket.
RowCopied(s, i, p, n, k) ==
  /\ Fresh(i) /\ CanInsert(entries, i, p, n)
  /\ \/ i \in FolderIds /\ k = None
     \/ i \in FileIds /\ AtCopy(s, "file") /\ k = copying[s].key
  /\ entries' = [entries EXCEPT ![i] = [status |-> "ready", parent |-> p, name |-> n, owner |-> None, key |-> k]]
  /\ UNCHANGED <<blobs, attempts>>

BlobCopied ==
  /\ attempts < MaxAttempts /\ attempts' = attempts + 1
  /\ blobs' \in {blobs, blobs \cup {attempts + 1}}
  /\ UNCHANGED entries

BlobTakenBack(s) ==
  /\ AtCopy(s, "unput") /\ blobs' = blobs \ {copying[s].key}
  /\ UNCHANGED <<entries, attempts>>

CopyWrites(s) ==
  /\ UNCHANGED <<ops, slot>> /\ Budget
  /\ \/ UNCHANGED <<entries, blobs, attempts>>
     \/ \E i \in Ids, p \in Folders, n \in Names \cup {NoName}, k \in Attempts \cup {None} : RowCopied(s, i, p, n, k)
     \/ BlobCopied
     \/ BlobTakenBack(s)

\* What they do to row i.
CopiedRow(s, i) ==
  LET e == entries[i]
      f == entries'[i]
  IN \/ f = e
     \/ /\ e = Absent /\ Fresh(i)
        /\ f.status = "ready" /\ f.owner = None /\ ReadyFolder(entries, f.parent)
        /\ \/ i \in FolderIds /\ f.key = None
           \/ i \in FileIds /\ AtCopy(s, "file") /\ f.key = copying[s].key

\* The calls of a copy add a row or a blob that is nobody else's, or take such a blob away.
LEMMA CopyChanges ==
  ASSUME Layers, CopyInv, NEW s \in Handlers, CopyWrites(s)
  PROVE  /\ UNCHANGED <<ops, slot, late>> /\ faults' \in Nat /\ faults' <= faults
         /\ attempts \in Nat /\ attempts' \in Nat /\ attempts <= attempts'
         /\ \A i \in Ids : CopiedRow(s, i)
         /\ \A k \in Attempts : Foreign(k) => Foreign(k)'
         /\ \A k \in Attempts : k \in blobs' /\ k \notin blobs => k > attempts /\ k <= attempts'
         /\ \A k \in Attempts : k \in blobs /\ k \notin blobs' => Unused(k) /\ AtCopy(s, "unput") /\ copying[s].key = k
         /\ AtCopy(s, "file") \/ AtCopy(s, "unput") => copying[s].key \in Attempts /\ Unused(copying[s].key)
         /\ AtCopy(s, "file") => copying[s].key \in blobs
<1>0. /\ TypeInv /\ RowInv /\ attempts \in Nat /\ faults \in Nat /\ entries \in [Ids -> Entries]
      /\ MaxAttempts \in Nat /\ HandlerCopies(s)
  BY MaxAttemptsAssumption, MaxFaultsAssumption DEF Layers, TypeInv, TypeOK, CopyInv
<1>1. UNCHANGED <<ops, slot, late>> /\ faults' \in Nat /\ faults' <= faults
  BY <1>0 DEF CopyWrites, Budget
<1>2. attempts' \in Nat /\ attempts <= attempts'
  BY <1>0 DEF CopyWrites, RowCopied, BlobCopied, BlobTakenBack
<1>3. ASSUME NEW i \in Ids PROVE CopiedRow(s, i)
  <2>1. CASE entries' = entries
    BY <2>1 DEF CopiedRow
  <2>2. ASSUME NEW j \in Ids, NEW p \in Folders, NEW n \in Names \cup {NoName}, NEW k \in Attempts \cup {None},
               RowCopied(s, j, p, n, k)
        PROVE  CopiedRow(s, i)
    <3>1. CASE i # j
      BY <1>0, <2>2, <3>1 DEF RowCopied, CopiedRow
    <3>2. CASE i = j
      <4>1. entries[i] = Absent
        BY <1>0, <2>2, <3>2 DEF RowCopied, CanInsert, Present, RowInv, RowOK
      <4> QED BY <1>0, <2>2, <3>2, <4>1 DEF RowCopied, CanInsert, CopiedRow
    <3> QED BY <3>1, <3>2
  <2> QED BY <2>1, <2>2 DEF CopyWrites, BlobCopied, BlobTakenBack
<1>4. \A k \in Attempts : Foreign(k) => Foreign(k)'
  <2>1. \A k \in Attempts : k \in Nat
    BY Constants
  <2> QED BY <1>0, <1>1, <1>2, <2>1 DEF Foreign
<1>5. AtCopy(s, "file") \/ AtCopy(s, "unput") => copying[s].key \in Attempts /\ Unused(copying[s].key)
  BY <1>0 DEF HandlerCopies, AtCopy
<1>6. AtCopy(s, "file") => copying[s].key \in blobs
  BY <1>0 DEF HandlerCopies, AtCopy
<1>7. \A k \in Attempts : k \in blobs' /\ k \notin blobs => k > attempts /\ k <= attempts'
  <2>1. \A k \in Attempts : k \in blobs' /\ k \notin blobs => BlobCopied /\ k = attempts + 1
    BY DEF CopyWrites, RowCopied, BlobCopied, BlobTakenBack
  <2> QED BY <1>0, <2>1 DEF BlobCopied
<1>8. \A k \in Attempts : k \in blobs /\ k \notin blobs' => Unused(k) /\ AtCopy(s, "unput") /\ copying[s].key = k
  BY <1>5 DEF CopyWrites, RowCopied, BlobCopied, BlobTakenBack
<1> QED BY <1>0, <1>1, <1>2, <1>3, <1>4, <1>5, <1>6, <1>7, <1>8

\* An attempt that is known is not one a copy makes up.
LEMMA KnownAttempts ==
  ASSUME Layers
  PROVE  /\ attempts \in Nat /\ Attempts \subseteq Nat
         /\ \A o \in Attempts : ops[o].state # "absent" => o <= attempts /\ ~Foreign(o)
         /\ \A k \in Attempts : Dead(k) => k <= attempts
         /\ \A i \in Ids : entries[i].key \in Attempts => entries[i].key <= attempts
         /\ \A s \in Handlers : slot[s].attempt <= attempts
         /\ \A s \in Handlers : slot[s].pc \in Busy =>
              slot[s].cur \in Attempts /\ ops[slot[s].cur].state # "absent"
<1>0. TypeInv /\ AttemptInv /\ RowInv
  BY DEF Layers
<1>1. attempts \in Nat /\ Attempts \subseteq Nat
  BY <1>0, MaxAttemptsAssumption, Constants DEF TypeInv, TypeOK
<1>2. \A o \in Attempts : ops[o].state # "absent" => o <= attempts /\ ~Foreign(o)
  BY <1>0, <1>1 DEF AttemptInv, AttemptsInOrder, Foreign
<1>3. \A k \in Attempts : Dead(k) => k <= attempts
  BY <1>2 DEF Dead, Foreign
<1>4. ASSUME NEW i \in Ids, entries[i].key \in Attempts PROVE entries[i].key <= attempts
  <2>1. Queued(entries[i].key, "upload_cleanup", i) \/ Foreign(entries[i].key)
    BY <1>0, <1>4, Constants DEF RowInv, RowOK
  <2> QED BY <1>2, <1>4, <2>1 DEF Queued, Foreign
<1>5. \A s \in Handlers : slot[s].attempt <= attempts
  BY <1>0 DEF AttemptInv, AttemptsInOrder
<1>6. \A s \in Handlers : slot[s].pc \in Busy =>
        slot[s].cur \in Attempts /\ ops[slot[s].cur].state # "absent"
  BY <1>0, Tables DEF AttemptInv, HandlerQueued, SlotOK
<1> QED BY <1>1, <1>2, <1>3, <1>4, <1>5, <1>6

\* The calls of a copy keep the types.
LEMMA TypesCopied ==
  ASSUME Layers, CopyInv, NEW s \in Handlers, CopyWrites(s)
  PROVE  TypeInv'
<1>0. /\ TypeInv /\ entries \in KeyedRows /\ entries \in [Ids -> Entries]
      /\ MaxAttempts \in Nat /\ attempts \in 0..MaxAttempts /\ blobs \subseteq Attempts
  BY MaxAttemptsAssumption DEF Layers, TypeInv, TypeOK, KeyedRows
<1>1. UNCHANGED <<ops, slot, late>> /\ faults' \in 0..MaxFaults
  <2>1. faults \in 0..MaxFaults
    BY <1>0 DEF TypeInv, TypeOK
  <2> QED BY <2>1, CopyChanges, MaxFaultsAssumption
<1>2. attempts' \in 0..MaxAttempts /\ blobs' \subseteq Attempts
  <2>1. attempts < MaxAttempts => attempts + 1 \in Attempts
    BY <1>0 DEF Attempts
  <2> QED BY <1>0, <2>1 DEF CopyWrites, RowCopied, BlobCopied, BlobTakenBack
<1>3. entries' \in [Ids -> Entries]
  <2>1. ASSUME NEW i \in Ids, NEW p \in Folders, NEW n \in Names \cup {NoName}, NEW k \in Attempts \cup {None},
               RowCopied(s, i, p, n, k)
        PROVE  entries' \in [Ids -> Entries]
    <3>1. [status |-> "ready", parent |-> p, name |-> n, owner |-> None, key |-> k] \in Entries
      BY DEF Entries
    <3> QED BY <1>0, <2>1, <3>1 DEF RowCopied
  <2> QED BY <1>0, <2>1 DEF CopyWrites, BlobCopied, BlobTakenBack
<1>4. ASSUME NEW i \in FileIds, Present(entries', i) PROVE entries'[i].key \in Attempts
  <2>1. CopiedRow(s, i) /\ i \in Ids /\ i \notin FolderIds
    BY CopyChanges, Constants
  <2>2. AtCopy(s, "file") => copying[s].key \in Attempts
    BY CopyChanges
  <2> QED BY <1>0, <1>4, <2>1, <2>2 DEF CopiedRow, KeyedRows, Present
<1> QED BY <1>0, <1>1, <1>2, <1>3, <1>4 DEF TypeInv, TypeOK, KeyedRows

\* Attempts stay in order: a row or a blob of a copy has a key without an operation.
LEMMA AttemptsCopied ==
  ASSUME Layers, CopyInv, NEW s \in Handlers, CopyWrites(s)
  PROVE  AttemptInv'
<1>0. AttemptInv /\ UNCHANGED <<ops, slot>> /\ attempts \in Nat /\ attempts' \in Nat /\ attempts <= attempts'
  BY CopyChanges DEF Layers
<1>1. \A t \in Handlers : slot[t].attempt \in Nat
  BY Tables, Constants DEF Layers, Slots
<1>2. ASSUME NEW o \in Attempts, ops[o].state = "absent"
      PROVE  /\ \A i \in Ids : entries'[i].owner # o
             /\ Foreign(o)' \/ (o \notin blobs' /\ \A i \in Ids : entries'[i].key # o)
  <2>1. \A i \in Ids : CopiedRow(s, i)
    BY CopyChanges
  <2>2. \A i \in Ids : entries'[i].owner # o
    BY <1>0, <1>2, <2>1, Constants DEF CopiedRow, AttemptInv, AttemptsInOrder
  <2>3. CASE Foreign(o)
    BY <2>2, <2>3, CopyChanges
  <2>4. CASE ~Foreign(o)
    <3>1. o \notin blobs /\ \A i \in Ids : entries[i].key # o
      BY <1>0, <1>2, <2>4 DEF AttemptInv, AttemptsInOrder
    <3>2. AtCopy(s, "file") => copying[s].key # o
      BY <2>4, CopyChanges DEF Unused
    <3>3. \A i \in Ids : entries'[i].key # o
      BY <2>1, <3>1, <3>2, Constants DEF CopiedRow
    <3>4. CASE o \in blobs'
      <4>1. o > attempts /\ o <= attempts'
        BY <3>1, <3>4, CopyChanges
      <4>2. \A t \in Handlers : slot[t].attempt # o
        BY <1>0, <1>1, <4>1, Constants DEF AttemptInv, AttemptsInOrder
      <4> QED BY <1>0, <1>2, <2>2, <4>1, <4>2 DEF Foreign
    <3> QED BY <2>2, <3>3, <3>4
  <2> QED BY <2>3, <2>4
<1>3. AttemptsInOrder'
  <2>1. \A t \in Handlers : slot[t].attempt <= attempts'
    BY <1>0, <1>1 DEF AttemptInv, AttemptsInOrder
  <2>2. ASSUME NEW o \in Attempts, o > attempts' PROVE ops[o].state = "absent"
    <3>1. o > attempts
      BY <1>0, <2>2, Constants
    <3> QED BY <1>0, <3>1 DEF AttemptInv, AttemptsInOrder
  <2> QED BY <1>0, <1>2, <2>1, <2>2 DEF AttemptInv, AttemptsInOrder
<1>4. \A t \in Handlers : HandlerQueued(t)'
  BY <1>0 DEF AttemptInv, HandlerQueued, Queued
<1> QED BY <1>3, <1>4 DEF AttemptInv

\* A row that is copied has a key of its own.
LEMMA RowsCopied ==
  ASSUME Layers, CopyInv, NEW s \in Handlers, CopyWrites(s)
  PROVE  RowInv'
<1>0. RowInv /\ UNCHANGED <<ops, slot>> /\ \A i \in Ids : CopiedRow(s, i)
  BY CopyChanges DEF Layers
<1>1. \A k \in Attempts : Foreign(k) => Foreign(k)'
  BY CopyChanges
<1>2. AtCopy(s, "file") =>
        copying[s].key \in Attempts /\ Foreign(copying[s].key) /\ \A i \in Ids : entries[i].key # copying[s].key
  BY CopyChanges DEF Unused
<1>3. ASSUME NEW i \in Ids PROVE RowOK(i)'
  <2>1. ASSUME NEW k \in Attempts, entries'[i].key = k
        PROVE  Foreign(k)' \/ (ops[k].state # "absent" /\ ops[k].kind = "upload_cleanup" /\ ops[k].entry = i)
    <3>1. CASE entries'[i] = entries[i]
      BY <1>0, <1>1, <2>1, <3>1, Constants DEF RowInv, RowOK, Queued
    <3> QED BY <1>0, <1>1, <1>2, <2>1, <3>1, Constants DEF CopiedRow
  <2>2. entries'[i].key # None =>
          Foreign(entries[i].key)' \/ (ops[entries'[i].key].state # "absent" /\ ops[entries'[i].key].kind = "upload_cleanup"
                                       /\ ops[entries'[i].key].entry = i)
    <3>1. entries'[i].key \in Attempts \cup {None}
      BY TypesCopied DEF TypeInv, TypeOK, Entries
    <3> QED BY <2>1, <3>1
  <2>3. CASE entries'[i] = entries[i]
    BY <1>0, <2>2, <2>3 DEF RowInv, RowOK, Queued
  <2>4. CASE entries'[i] # entries[i]
    <3>1. FolderIds \cap FileIds = {} /\ Root \notin FileIds
      BY IdsAssumption
    <3> QED BY <1>0, <1>2, <2>2, <2>4, <3>1, Constants DEF CopiedRow, RowOK, Queued
  <2> QED BY <2>3, <2>4
<1>4. ASSUME NEW i \in Ids, NEW j \in Ids, i # j, entries'[i].key = entries'[j].key PROVE entries'[i].key = None
  <2>1. CASE entries'[i] = entries[i] /\ entries'[j] = entries[j]
    BY <1>0, <1>4, <2>1 DEF RowInv
  <2>2. CASE entries'[i] # entries[i] \/ entries'[j] # entries[j]
    <3>1. PICK m \in Ids, p \in Folders, n \in Names \cup {NoName}, k \in Attempts \cup {None} : RowCopied(s, m, p, n, k)
      BY <2>2 DEF CopyWrites, BlobCopied, BlobTakenBack
    <3>2. /\ \A q \in Ids \ {m} : entries'[q] = entries[q]
          /\ entries'[m].key = k
      BY <3>1 DEF Layers, TypeInv, TypeOK, RowCopied
    <3>3. k # None => \A q \in Ids : entries[q].key # k
      BY <1>2, <3>1 DEF RowCopied
    <3> QED BY <1>4, <3>2, <3>3, <1>0 DEF RowInv
  <2> QED BY <2>1, <2>2
<1> QED BY <1>3, <1>4 DEF RowInv

\* A row is copied into a folder that is ready, so the tree stays whole.
LEMMA TreeCopied ==
  ASSUME Layers, CopyInv, NEW s \in Handlers, CopyWrites(s)
  PROVE  TreeInv'
<1>0. /\ entries[Root].status = "ready" /\ Usable(entries) /\ Whole(entries)
      /\ entries \in [Ids -> Entries] /\ entries' \in [Ids -> Entries]
  BY TreeParts, TypesCopied DEF Layers, RootStays, TypeInv, TypeOK
<1>1. CASE entries' = entries
  BY <1>0, <1>1, TreeParts1
<1>2. ASSUME NEW i \in Ids, NEW p \in Folders, NEW n \in Names \cup {NoName}, NEW k \in Attempts \cup {None},
             RowCopied(s, i, p, n, k)
      PROVE  TreeInv'
  <2>1. /\ \A j \in Ids \ {i} : entries'[j] = entries[j]
        /\ entries'[i].parent = p /\ entries'[i].status = "ready"
        /\ ReadyFolder(entries, p) /\ ~Present(entries, i)
    BY <1>0, <1>2 DEF RowCopied, CanInsert
  <2>2. i \in Ids \ {Root} /\ p \in Ids
    BY <1>0, <2>1, Constants DEF Present
  <2>3. Whole(entries')
    <3>1. Present(entries', i) /\ Present(entries, entries'[i].parent)
      BY <2>1 DEF Present, ReadyFolder
    <3> QED BY <1>0, <2>1, <2>2, <3>1, WholeAfterInsert
  <2>4. Usable(entries')
    <3>1. \A q \in Ids : ReadyFolder(entries, q) => ReadyFolder(entries', q)
      BY <2>1 DEF ReadyFolder, Present
    <3>2. \A j \in Ids : entries[j].parent \in Ids
      BY <1>0, Constants DEF Entries
    <3> QED BY <1>0, <2>1, <2>2, <3>1, <3>2 DEF Usable
  <2> QED BY <1>0, <2>1, <2>2, <2>3, <2>4, Constants, TreeParts1
<1> QED BY <1>1, <1>2 DEF CopyWrites, BlobCopied, BlobTakenBack

\* No copy touches an upload that is not published.
LEMMA UnpublishedCopied ==
  ASSUME Layers, CopyInv, NEW s \in Handlers, CopyWrites(s)
  PROVE  UnpublishedInv'
<1>0. /\ slot' = slot /\ UnpublishedInv /\ \A i \in Ids : CopiedRow(s, i)
      /\ AtCopy(s, "file") => Foreign(copying[s].key)
  BY CopyChanges DEF Layers, Unused
<1>1. \A t \in Handlers : slot[t].pc \in Early => slot[t].attempt \in Attempts
  BY Tables DEF Layers, SlotOK, Early, UploadPcs
<1>2. ASSUME NEW t \in Handlers, slot[t].pc \in Early, NEW i \in Ids, entries'[i].key = slot[t].attempt
      PROVE  entries'[i] = entries[i]
  BY <1>0, <1>1, <1>2, Constants DEF CopiedRow, Foreign
<1>3. ASSUME NEW t \in Handlers, slot[t].pc \in Early, slot[t].attempt \notin blobs PROVE slot[t].attempt \notin blobs'
  BY <1>1, <1>3, CopyChanges, KnownAttempts
<1> QED BY <1>0, <1>2, <1>3 DEF UnpublishedInv, At, Early

\* No copy gives a deletion more than it has seen, nor brings a dead key back.
LEMMA DeletionsCopied ==
  ASSUME Layers, CopyInv, NEW s \in Handlers, CopyWrites(s)
  PROVE  DeleteInv'
<1>0. /\ UNCHANGED <<ops, slot>> /\ DeleteInv /\ \A i \in Ids : CopiedRow(s, i)
      /\ ops \in [Attempts -> Operations] /\ \A t \in Handlers : slot[t] \in Slots
      /\ AtCopy(s, "file") => copying[s].key \in blobs /\ Unused(copying[s].key)
  BY CopyChanges, Tables DEF Layers
<1>1. ASSUME NEW k \in Attempts, Dead(k), AtCopy(s, "file") => copying[s].key # k
      PROVE  Dead(k)'
  <2>1. \A i \in Ids : entries'[i].key = k => entries'[i].status = "deleting"
    BY <1>0, <1>1, Constants DEF CopiedRow, Dead
  <2> QED BY <1>0, <1>1, <2>1, CopyChanges DEF Dead
<1>2. ASSUME NEW k \in Attempts, Dead(k), k \notin blobs PROVE Dead(k)' /\ k \notin blobs'
  <2>1. k \notin blobs'
    BY <1>2, CopyChanges, KnownAttempts
  <2> QED BY <1>0, <1>1, <1>2, <2>1
<1>3. ASSUME NEW i \in Ids, entries'[i].status = "deleting" PROVE entries'[i] = entries[i]
  BY <1>0, <1>3 DEF CopiedRow
<1>4. ASSUME NEW t \in Handlers PROVE HandlerWipes(t)'
  <2> DEFINE h == slot[t]
  <2>0. HandlerWipes(t) /\ h.wiped \subseteq Attempts /\ h.keys \subseteq Attempts
    BY <1>0 DEF DeleteInv, Slots
  <2>1. h.pc \in Wiping \cup {"dRows"} => \A k \in h.wiped : Dead(k)' /\ k \notin blobs'
    BY <1>2, <2>0 DEF HandlerWipes
  <2>2. h.pc \in Wiping => \A k \in h.keys : Dead(k)'
    BY <1>0, <1>1, <2>0 DEF HandlerWipes, Unused
  <2>3. ASSUME h.pc \in Wiping, NEW i \in h.rows, OwnedAs(entries', i, "deleting", h.cur)
        PROVE  /\ \A j \in Ids \ {Root} : Present(entries', j) /\ entries'[j].parent = i => j \in h.rows
               /\ i \in FileIds /\ ~h.more => entries'[i].key \in h.keys \cup h.wiped
    <3>1. i \in Ids /\ entries'[i] = entries[i] /\ OwnedAs(entries, i, "deleting", h.cur)
      BY <1>0, <1>3, <2>3 DEF OwnedAs, Slots
    <3>2. \A j \in Ids : Present(entries', j) /\ entries'[j].parent = i => Present(entries, j) /\ entries[j].parent = i
      BY <1>0, <3>1 DEF CopiedRow, ReadyFolder, OwnedAs, Present
    <3> QED BY <2>0, <2>3, <3>1, <3>2 DEF HandlerWipes
  <2> QED BY <1>0, <2>0, <2>1, <2>2, <2>3 DEF HandlerWipes, At
<1>5. \A o \in Attempts : ops[o].kind = "delete_tree" => \A k \in ops[o].wiped : Dead(k)' /\ k \notin blobs'
  <2>1. \A o \in Attempts : ops[o].wiped \subseteq Attempts
    BY <1>0 DEF Operations
  <2> QED BY <1>0, <1>2, <2>1 DEF DeleteInv
<1>6. \A i \in Ids, t \in Handlers :
        entries'[i].status = "deleting" /\ At(t, "xClaim") => slot[t].attempt # entries'[i].owner
  BY <1>0, <1>3 DEF DeleteInv
<1> QED BY <1>0, <1>4, <1>5, <1>6 DEF DeleteInv, At

\* No copy takes a row or a blob from an upload.
LEMMA UploadsCopied ==
  ASSUME Layers, CopyInv, NEW s \in Handlers, CopyWrites(s)
  PROVE  UploadInv' /\ (LateAndFailed => LateAndFailed')
<1>0. /\ UNCHANGED <<ops, slot, late>> /\ UploadInv /\ \A i \in Ids : CopiedRow(s, i)
      /\ faults' \in Nat /\ faults' <= faults /\ faults \in Nat /\ MaxFaults \in Nat
  BY CopyChanges, MaxFaultsAssumption DEF Layers, TypeInv, TypeOK
<1>1. (late => faults' < MaxFaults) /\ (LateAndFailed => LateAndFailed')
  <2>1. late => faults < MaxFaults
    BY <1>0 DEF UploadInv
  <2>2. late' = late
    BY <1>0
  <2>3. (faults < MaxFaults => faults' < MaxFaults) /\ (faults + 2 <= MaxFaults => faults' + 2 <= MaxFaults)
    <3>1. \A m, n, b \in Nat : m <= n => (n < b => m < b) /\ (n + 2 <= b => m + 2 <= b)
      OBVIOUS
    <3>2. faults' \in Nat /\ faults \in Nat /\ MaxFaults \in Nat /\ faults' <= faults
      BY <1>0
    <3> QED BY <3>1, <3>2
  <2> QED BY <2>1, <2>2, <2>3, Zenon DEF LateAndFailed
<1>2. ASSUME NEW t \in Handlers PROVE HandlerUploads(t)'
  <2> DEFINE h == slot[t]
  <2>1. HandlerUploads(t) /\ h \in Slots /\ SlotOK(h)
    BY <1>0, Tables DEF UploadInv, Layers
  <2>2. OwnedAs(entries, h.id, "uploading", h.attempt) => OwnedAs(entries', h.id, "uploading", h.attempt)
    BY <1>0, <2>1 DEF OwnedAs, CopiedRow, Slots, Absent
  <2>3. h.pc \in {"uTouch", "uFinalize"} /\ h.attempt \in blobs => h.attempt \in blobs'
    <3>1. h.pc \in {"uTouch", "uFinalize"} => h.attempt \in Attempts
      BY <2>1 DEF SlotOK, UploadPcs
    <3> QED BY <3>1, CopyChanges DEF Unused, Foreign
  <2> QED BY <1>0, <1>1, <2>1, <2>2, <2>3 DEF HandlerUploads, Beating
<1> QED BY <1>0, <1>1, <1>2 DEF UploadInv

\* No copy changes what a recovery has found.
LEMMA CleaningsCopied ==
  ASSUME Layers, CopyInv, NEW s \in Handlers, CopyWrites(s)
  PROVE  CleanInv'
<1>0. /\ UNCHANGED <<ops, slot, late>> /\ CleanInv /\ \A i \in Ids : CopiedRow(s, i)
      /\ LateAndFailed => LateAndFailed'
      /\ AtCopy(s, "file") => Foreign(copying[s].key)
  BY CopyChanges, UploadsCopied DEF Layers, Unused
<1>1. ASSUME NEW t \in Handlers, slot[t].pc \in Settling PROVE HandlerCleans(t)'
  <2> DEFINE h == slot[t]
  <2>1. HandlerCleans(t) /\ h.cur \in Attempts /\ h.cur # None /\ ops[h.cur].state # "absent" /\ ~Foreign(h.cur)
    BY <1>0, <1>1, KnownAttempts, Constants DEF CleanInv, Settling, Busy, RecoverPcs
  <2>2. ASSUME NEW i \in Ids
        PROVE  /\ entries'[i].key = h.cur \/ entries'[i].status = "uploading" => entries'[i] = entries[i]
               /\ entries[i].key = h.cur => entries'[i] = entries[i]
    BY <1>0, <2>1 DEF CopiedRow, Absent
  <2>3. h.cur \notin blobs => h.cur \notin blobs'
    BY <2>1, CopyChanges, KnownAttempts
  <2>4. h.cur \in blobs' => h.cur \in blobs
    BY <2>3
  <2>5. FileIds \subseteq Ids
    BY Constants
  <2> QED BY <1>0, <2>1, <2>2, <2>3, <2>4, <2>5 DEF HandlerCleans, OwnedAs
<1>2. ASSUME NEW t \in Handlers, slot[t].pc \notin Settling PROVE HandlerCleans(t)'
  BY <1>0, <1>2 DEF HandlerCleans, Settling
<1> QED BY <1>1, <1>2 DEF CleanInv

\* All layers are kept by the calls of a copy.
LEMMA LayersCopied ==
  ASSUME Layers, CopyInv, NEW s \in Handlers, CopyWrites(s)
  PROVE  Layers'
BY TypesCopied, AttemptsCopied, RowsCopied, TreeCopied, UnpublishedCopied, DeletionsCopied, UploadsCopied,
   CleaningsCopied DEF Layers

-----------------------------------------------------------------------------
\* A copy that goes on to a folder, and one that goes on in a folder.
LEMMA StackGrows ==
  ASSUME NEW q \in Stacks, NEW i \in FolderIds
  PROVE  Append(q, [made |-> i, rest |-> {}]) \in Stacks
<1> DEFINE f == [made |-> i, rest |-> {}]
<1>1. q \in Seq(Frames) /\ Len(q) \in Nat /\ Len(q) >= 1 /\ f \in Frames /\ i # Root
  BY IdsAssumption, Constants DEF Stacks, Frames
<1>2. Append(q, f) \in Seq(Frames) /\ Len(Append(q, f)) = Len(q) + 1
  BY <1>1
<1>3. ASSUME NEW n \in 2..(Len(q) + 1) PROVE Append(q, f)[n].made # Root
  BY <1>1, <1>3 DEF Stacks
<1>4. Append(q, f) # <<>>
  BY <1>1, <1>2
<1> QED BY <1>1, <1>2, <1>3, <1>4 DEF Stacks

\* The children of the innermost folder are listed.
LEMMA StackListed ==
  ASSUME NEW q \in Stacks, NEW R \in SUBSET Rows, NEW n \in DOMAIN q
  PROVE  [q EXCEPT ![n].rest = R] \in Stacks
<1> DEFINE r == [q EXCEPT ![n].rest = R]
<1>1. q \in Seq(Frames) /\ Len(q) \in Nat /\ q \in [1..Len(q) -> Frames] /\ q # <<>>
  BY DEF Stacks
<1>2. [q[n] EXCEPT !.rest = R] \in Frames /\ [q[n] EXCEPT !.rest = R].made = q[n].made
  BY <1>1 DEF Frames
<1>3. r \in [1..Len(q) -> Frames] /\ \A m \in 1..Len(q) : r[m].made = q[m].made
  BY <1>1, <1>2
<1>4. r \in Seq(Frames) /\ Len(r) = Len(q)
  BY <1>1, <1>3
<1>5. r # <<>>
  BY <1>1, <1>4
<1>6. \A m \in 2..Len(q) : r[m].made # Root
  BY <1>1, <1>3 DEF Stacks
<1> QED BY <1>4, <1>5, <1>6 DEF Stacks

\* The next row of folder n is taken.
LEMMA StackTaken ==
  ASSUME NEW q \in Stacks, NEW n \in DOMAIN q, NEW row \in Rows
  PROVE  Append(SubSeq(q, 1, n - 1), [q[n] EXCEPT !.rest = @ \ {row}]) \in Stacks
<1> DEFINE f == [q[n] EXCEPT !.rest = @ \ {row}]
           b == SubSeq(q, 1, n - 1)
<1>1. q \in Seq(Frames) /\ Len(q) \in Nat /\ n \in 1..Len(q) /\ q[n] \in Frames
  BY DEF Stacks
<1>2. f \in Frames /\ f.made = q[n].made
  BY <1>1 DEF Frames
<1>3. b \in Seq(Frames) /\ Len(b) = n - 1 /\ \A m \in 1..(n - 1) : b[m] = q[m]
  BY <1>1
<1>4. Append(b, f) \in Seq(Frames) /\ Len(Append(b, f)) = n /\ Append(b, f) # <<>>
  BY <1>1, <1>2, <1>3
<1>5. ASSUME NEW m \in 2..n PROVE Append(b, f)[m].made # Root
  BY <1>1, <1>2, <1>3, <1>5 DEF Stacks
<1> QED BY <1>4, <1>5 DEF Stacks

\* The innermost folder is left.
LEMMA StackShrinks ==
  ASSUME NEW q \in Stacks, Len(q) # 1
  PROVE  Front(q) \in Stacks /\ Last(q).made \in Folders \ {Root}
<1>0. q \in Seq(Frames) /\ Len(q) \in Nat /\ q # <<>> /\ \A n \in 2..Len(q) : q[n].made # Root
  BY DEF Stacks
<1>1. Len(q) >= 2 /\ q[Len(q)] \in Frames /\ q[Len(q)].made # Root
  <2>1. Len(q) # 0
    BY <1>0
  <2>2. Len(q) \in Nat /\ Len(q) >= 2
    <3>1. \A m \in Nat : m # 0 /\ m # 1 => m >= 2
      OBVIOUS
    <3> QED BY <1>0, <2>1, <3>1
  <2>3. Len(q) \in 2..Len(q) /\ Len(q) \in 1..Len(q)
    BY <2>2
  <2> QED BY <1>0, <2>2, <2>3
<1>2. Front(q) \in Seq(Frames) /\ Len(Front(q)) = Len(q) - 1 /\ \A m \in 1..(Len(q) - 1) : Front(q)[m] = q[m]
  BY <1>0, <1>1 DEF Front
<1>3. Front(q) # <<>>
  BY <1>0, <1>1, <1>2
<1>4. \A m \in 2..Len(Front(q)) : Front(q)[m].made # Root
  BY <1>0, <1>1, <1>2
<1> QED BY <1>1, <1>2, <1>3, <1>4 DEF Stacks, Last, Frames

\* The destination of what is copied next.
LEMMA StackTop == ASSUME NEW q \in Stacks PROVE Len(q) \in DOMAIN q /\ Last(q).made \in Folders
<1>0. q \in Seq(Frames) /\ Len(q) \in Nat /\ q # <<>>
  BY DEF Stacks
<1>1. Len(q) # 0
  BY <1>0
<1>2. Len(q) \in 1..Len(q)
  BY <1>0, <1>1
<1>3. q[Len(q)] \in Frames
  BY <1>0, <1>2
<1> QED BY <1>0, <1>2, <1>3 DEF Last, Frames

\* What a step leaves of the copies: the one of s is at a place of CopySlots, with its stack.
Arrived(s) ==
  /\ copying' \in [Handlers -> CopySlots]
  /\ \A t \in Handlers \ {s} : copying'[t] = copying[t]
  /\ copying'[s].pc # "idle" => copying'[s].stack \in Stacks

\* A copy that goes to x.
LEMMA Becoming ==
  ASSUME CopyInv, NEW s \in Handlers, NEW x \in CopySlots, Becomes(s, x), x.pc # "idle" => x.stack \in Stacks
  PROVE  Arrived(s) /\ copying'[s] = x
BY DEF CopyInv, CopyTypeOK, Becomes, Arrived

\* A copy that goes to another place with all it has.
LEMMA Goes ==
  ASSUME CopyInv, NEW s \in Handlers, ~AtCopy(s, "idle"),
         NEW pc \in {"idle", "name", "folder", "list", "get", "put", "file", "unput", "undo"},
         Becomes(s, Copying(s, pc))
  PROVE  Arrived(s) /\ copying'[s].pc = pc /\ copying'[s].key = copying[s].key
<1>1. copying[s] \in CopySlots /\ copying[s].stack \in Stacks
  BY DEF CopyInv, CopyTypeOK, HandlerCopies, AtCopy
<1>2. /\ Copying(s, pc) \in CopySlots
      /\ Copying(s, pc).pc = pc /\ Copying(s, pc).key = copying[s].key /\ Copying(s, pc).stack = copying[s].stack
  BY <1>1 DEF Copying, CopySlots
<1> QED BY <1>1, <1>2, Becoming

\* A copy that ends.
LEMMA Ends ==
  ASSUME CopyInv, NEW s \in Handlers, Becomes(s, NoCopy)
  PROVE  Arrived(s) /\ copying'[s].pc = "idle"
<1>1. NoCopy \in CopySlots /\ NoCopy.pc = "idle"
  BY Constants DEF NoCopy, NoRow, CopySlots, Rows
<1> QED BY <1>1, Becoming

\* A copy that goes on with the next row.
LEMMA Proceeds ==
  ASSUME CopyInv, NEW s \in Handlers, NEW q \in Stacks, Proceed(s, q)
  PROVE  Arrived(s) /\ copying'[s].pc \in {"idle", "name"}
<1>1. CASE Becomes(s, NoCopy)
  BY <1>1, Ends
<1>2. ASSUME NEW n \in DOMAIN q, NEW row \in q[n].rest,
             Becomes(s, [NoCopy EXCEPT !.pc = "name", !.row = row,
                           !.stack = Append(SubSeq(q, 1, n - 1), [q[n] EXCEPT !.rest = @ \ {row}])])
      PROVE  Arrived(s) /\ copying'[s].pc \in {"idle", "name"}
  <2> DEFINE r == Append(SubSeq(q, 1, n - 1), [q[n] EXCEPT !.rest = @ \ {row}])
             x == [NoCopy EXCEPT !.pc = "name", !.row = row, !.stack = r]
  <2>1. row \in Rows
    <3>1. q \in Seq(Frames)
      BY DEF Stacks
    <3>2. q[n] \in Frames
      BY <3>1
    <3> QED BY <3>2 DEF Frames
  <2>2. r \in Stacks
    BY <2>1, StackTaken
  <2>3. r \in Seq(Frames)
    BY <2>2 DEF Stacks
  <2> HIDE DEF r
  <2>4. x \in CopySlots /\ x.pc = "name" /\ x.stack = r
    BY <2>1, <2>3 DEF NoCopy, NoRow, CopySlots
  <2>5. Becomes(s, x)
    BY <1>2 DEF r
  <2> HIDE DEF x
  <2> QED BY <2>2, <2>4, <2>5, Becoming
<1> QED BY <1>1, <1>2 DEF Proceed

\* What a call leaves of the tables and the bucket.
LEMMA CopyCalls ==
  ASSUME NEW E, NEW B, Answered(E, B) \/ Silent(E, B)
  PROVE  UNCHANGED <<ops, slot, attempts>> /\ Budget /\ (UNCHANGED <<entries, blobs>> \/ (entries' = E /\ blobs' = B))
BY DEF Answered, Silent, Fault, Budget

\* A blob that has been written under a new key is in the hands of its copy.
KeyMade(s) ==
  /\ attempts < MaxAttempts /\ attempts' = attempts + 1 /\ blobs' = blobs \cup {attempts + 1}
  /\ UNCHANGED entries
  /\ copying'[s].pc = "file" /\ copying'[s].key = attempts + 1

\* A copy with a key has made it or had it; one that gives it up has forgotten it, deleted
\* its blob or inserted its row.
KeyMoves(s) ==
  LET c == copying[s]
      d == copying'[s]
  IN /\ leaked \subseteq leaked' /\ leaked' \subseteq Attempts
     /\ d.pc \in {"file", "unput"} =>
          \/ KeyMade(s)
          \/ c.pc = "file" /\ d.pc = "unput" /\ d.key = c.key /\ UNCHANGED <<entries, blobs, attempts>>
     /\ c.pc \in {"file", "unput"} =>
          \/ c.key \in leaked' \/ c.key \notin blobs'
          \/ \E i \in FileIds : entries'[i].key = c.key
          \/ d.pc = "unput" /\ d.key = c.key
     /\ \A k \in blobs' \ blobs : KeyMade(s) \/ k \in leaked'

CopyMoves(s) == CopyWrites(s) /\ Arrived(s) /\ KeyMoves(s)

\* Another handler's step, a deletion that begins or an eviction, and what it leaves of the copy.
CopyYields(s) ==
  /\ [Next]_vars /\ Arrived(s) /\ copying'[s].pc \notin {"file", "unput"}
  /\ leaked \subseteq leaked' /\ leaked' \subseteq Attempts
  /\ copying[s].pc \in {"file", "unput"} => copying[s].key \in leaked'

\* The call that reads a row, checks its name, lists a folder or reads a blob.
LEMMA Looks ==
  ASSUME Layers, CopyInv, NEW s \in Handlers, CopyName(s) \/ CopyList(s) \/ CopyGet(s)
  PROVE  CopyMoves(s)
<1>0. /\ copying[s] \in CopySlots /\ leaked \subseteq Attempts
      /\ ~AtCopy(s, "idle") => copying[s].stack \in Stacks
  BY DEF CopyInv, CopyTypeOK, HandlerCopies, AtCopy
<1>1. leaked' = leaked /\ CopyWrites(s) /\ UNCHANGED <<entries, blobs>>
  <2>1. Answered(entries, blobs) \/ Silent(entries, blobs)
    BY DEF CopyName, CopyList, CopyGet
  <2>2. leaked' = leaked
    BY DEF CopyName, CopyList, CopyGet
  <2> QED BY <2>1, <2>2, CopyCalls DEF CopyWrites
<1>2. copying[s].pc \in {"name", "list", "get"}
  BY DEF CopyName, CopyList, CopyGet, AtCopy
<1>3. Arrived(s) /\ copying'[s].pc \notin {"file", "unput"}
  <2>1. CASE CopyName(s) \/ CopyGet(s)
    <3>1. PICK pc \in {"folder", "get", "put", "undo"} : Becomes(s, Copying(s, pc))
      BY <2>1 DEF CopyName, CopyGet, Failed
    <3> QED BY <1>2, <3>1, Goes DEF AtCopy
  <2>2. CASE CopyList(s)
    <3>1. CASE Failed(s)
      BY <1>2, <3>1, Goes DEF Failed, AtCopy
    <3>2. CASE ~Failed(s)
      <4> DEFINE c == copying[s]
                 children == {Row(j) : j \in {k \in Ids \ {Root} : entries[k].status = "ready" /\ entries[k].parent = c.row.id}}
      <4>1. Proceed(s, [c.stack EXCEPT ![Len(c.stack)].rest = children])
        BY <2>2, <3>2 DEF CopyList
      <4>2. children \in SUBSET Rows
        <5>1. entries \in [Ids -> Entries]
          BY DEF Layers, TypeInv, TypeOK
        <5>2. \A j \in Ids : Row(j) \in Rows
          BY <5>1 DEF Row, Rows, Entries
        <5> QED BY <5>2
      <4>3. c.stack \in Stacks /\ Len(c.stack) \in DOMAIN c.stack
        BY <1>0, <1>2, StackTop DEF AtCopy
      <4> HIDE DEF children
      <4>4. [c.stack EXCEPT ![Len(c.stack)].rest = children] \in Stacks
        BY <4>2, <4>3, StackListed
      <4> QED BY <4>1, <4>4, Proceeds
    <3> QED BY <3>1, <3>2
  <2> QED BY <2>1, <2>2
<1> QED BY <1>0, <1>1, <1>2, <1>3 DEF CopyMoves, KeyMoves

\* The call that makes a folder.
LEMMA MakesFolder ==
  ASSUME Layers, CopyInv, NEW s \in Handlers, CopyFolder(s)
  PROVE  CopyMoves(s)
<1> DEFINE c == copying[s]
           p == Parent(s)
<1>0. c \in CopySlots /\ c.row.name \in Names \cup {NoName} /\ leaked \subseteq Attempts /\ c.pc = "folder" /\ c.stack \in Stacks
  BY DEF CopyInv, CopyTypeOK, HandlerCopies, CopyFolder, AtCopy, CopySlots, Rows
<1>1. p \in Folders
  BY <1>0, StackTop DEF Parent
<1>2. PICK i \in FolderIds :
        /\ Fresh(i)
        /\ LET hit == CanInsert(entries, i, p, c.row.name)
               E == IF hit THEN InsertFolder(entries, i, p, c.row.name) ELSE entries
           IN /\ Answered(E, blobs) \/ Silent(E, blobs)
              /\ \/ hit /\ Becomes(s, [Copying(s, "list") EXCEPT !.stack = Append(@, [made |-> i, rest |-> {}])])
                 \/ Failed(s)
  BY DEF CopyFolder
<1>3. leaked' = leaked /\ CopyWrites(s) /\ blobs' = blobs
  <2> DEFINE hit == CanInsert(entries, i, p, c.row.name)
             E == IF hit THEN InsertFolder(entries, i, p, c.row.name) ELSE entries
  <2>1. /\ UNCHANGED <<ops, slot, attempts>> /\ Budget
        /\ UNCHANGED <<entries, blobs>> \/ (entries' = E /\ blobs' = blobs)
    BY <1>2, CopyCalls
  <2>2. leaked' = leaked
    BY DEF CopyFolder
  <2>3. CASE UNCHANGED <<entries, blobs>>
    BY <2>1, <2>2, <2>3 DEF CopyWrites
  <2>4. CASE hit /\ entries' = InsertFolder(entries, i, p, c.row.name) /\ blobs' = blobs
    <3>1. i \in Ids
      BY Constants
    <3>2. RowCopied(s, i, p, c.row.name, None)
      BY <1>2, <2>1, <2>4 DEF RowCopied, InsertFolder
    <3> QED BY <1>0, <1>1, <2>1, <2>2, <2>4, <3>1, <3>2 DEF CopyWrites
  <2> QED BY <2>1, <2>3, <2>4
<1>4. Arrived(s) /\ copying'[s].pc \in {"list", "undo"}
  <2>1. CASE Failed(s)
    BY <1>0, <2>1, Goes DEF Failed, AtCopy
  <2>2. CASE Becomes(s, [Copying(s, "list") EXCEPT !.stack = Append(@, [made |-> i, rest |-> {}])])
    <3> DEFINE r == Append(c.stack, [made |-> i, rest |-> {}])
               x == [Copying(s, "list") EXCEPT !.stack = r]
    <3>1. r \in Stacks
      BY <1>0, StackGrows
    <3>2. r \in Seq(Frames)
      BY <3>1 DEF Stacks
    <3>3. Becomes(s, x)
      BY <1>0, <2>2 DEF Copying, CopySlots
    <3> HIDE DEF r
    <3>4. x \in CopySlots /\ x.pc = "list" /\ x.stack = r
      BY <1>0, <3>2 DEF Copying, CopySlots
    <3> HIDE DEF x
    <3> QED BY <3>1, <3>3, <3>4, Becoming
  <2> QED BY <1>2, <2>1, <2>2
<1> QED BY <1>0, <1>3, <1>4 DEF CopyMoves, KeyMoves

\* The call that writes a blob.
LEMMA PutsBlob ==
  ASSUME Layers, CopyInv, NEW s \in Handlers, CopyPut(s)
  PROVE  CopyMoves(s)
<1>0. copying[s] \in CopySlots /\ leaked \subseteq Attempts /\ copying[s].pc = "put" /\ copying[s].stack \in Stacks
  BY DEF CopyInv, CopyTypeOK, HandlerCopies, CopyPut, AtCopy
<1>1. attempts + 1 \in Attempts
  BY MaxAttemptsAssumption DEF Layers, TypeInv, TypeOK, CopyPut, Attempts
<1>2. CopyWrites(s)
  BY DEF CopyPut, CopyWrites, BlobCopied, Budget, Fault
<1>3. CASE Failed(s) /\ leaked' = leaked \cup {attempts + 1} /\ blobs' \in {blobs, blobs \cup {attempts + 1}}
  <2>1. Arrived(s) /\ copying'[s].pc = "undo"
    BY <1>0, <1>3, Goes DEF Failed, AtCopy
  <2> QED BY <1>0, <1>1, <1>2, <1>3, <2>1 DEF CopyMoves, KeyMoves
<1>4. CASE /\ Becomes(s, [Copying(s, "file") EXCEPT !.key = attempts + 1])
           /\ leaked' = leaked /\ blobs' = blobs \cup {attempts + 1}
  <2> DEFINE x == [Copying(s, "file") EXCEPT !.key = attempts + 1]
  <2>1. x \in CopySlots /\ x.pc = "file" /\ x.key = attempts + 1 /\ x.stack = copying[s].stack
    BY <1>0, <1>1 DEF Copying, CopySlots
  <2>2. Becomes(s, x)
    BY <1>4
  <2> HIDE DEF x
  <2>3. Arrived(s) /\ copying'[s] = x
    BY <1>0, <2>1, <2>2, Becoming
  <2>4. KeyMade(s)
    BY <1>4, <2>1, <2>3 DEF KeyMade, CopyPut
  <2> QED BY <1>0, <1>2, <1>4, <2>3, <2>4 DEF CopyMoves, KeyMoves
<1> QED BY <1>3, <1>4 DEF CopyPut

\* The call that inserts the row of a blob.
LEMMA InsertsRow ==
  ASSUME Layers, CopyInv, NEW s \in Handlers, CopyFile(s)
  PROVE  CopyMoves(s)
<1> DEFINE c == copying[s]
           p == Parent(s)
<1>0. /\ c \in CopySlots /\ c.row.name \in Names \cup {NoName} /\ leaked \subseteq Attempts
      /\ c.pc = "file" /\ c.key \in Attempts /\ c.stack \in Stacks
  BY DEF CopyInv, CopyTypeOK, HandlerCopies, CopyFile, AtCopy, CopySlots, Rows
<1>1. p \in Folders
  BY <1>0, StackTop DEF Parent
<1>2. CASE Answered(entries, blobs)
  <2>1. UNCHANGED <<entries, blobs, attempts>> /\ CopyWrites(s)
    BY <1>2, CopyCalls DEF CopyWrites
  <2>2. CASE Failed(s) /\ Lost(s)
    <3>1. Arrived(s) /\ copying'[s].pc = "undo"
      BY <1>0, <2>2, Goes DEF Failed, AtCopy
    <3> QED BY <1>0, <2>1, <2>2, <3>1 DEF CopyMoves, KeyMoves, Lost
  <2>3. CASE Becomes(s, Copying(s, "unput")) /\ leaked' = leaked
    <3>1. Arrived(s) /\ copying'[s].pc = "unput" /\ copying'[s].key = c.key
      BY <1>0, <2>3, Goes DEF AtCopy
    <3> QED BY <1>0, <2>1, <2>3, <3>1 DEF CopyMoves, KeyMoves
  <2>4. ASSUME NEW i \in FileIds, Fresh(i), CanInsert(entries, i, p, c.row.name),
               entries' = InsertFile(entries, i, p, c.row, c.key)
        PROVE  CopyMoves(s)
    <3>1. entries'[i].key = c.key
      BY <2>4, Constants DEF Layers, TypeInv, TypeOK, InsertFile
    <3>2. entries[i].key # c.key
      BY <1>0, Constants DEF CopyInv, HandlerCopies, Unused
    <3> QED BY <2>1, <3>1, <3>2
  <2> QED BY <1>2, <2>2, <2>3, <2>4 DEF CopyFile, Answered, Silent, Fault
<1>3. ASSUME NEW i \in FileIds, Fresh(i), CanInsert(entries, i, p, c.row.name),
             \/ Answered(InsertFile(entries, i, p, c.row, c.key), blobs) /\ Proceed(s, c.stack) /\ leaked' = leaked
             \/ Silent(InsertFile(entries, i, p, c.row, c.key), blobs) /\ Failed(s) /\ Lost(s)
      PROVE  CopyMoves(s)
  <2> DEFINE E == InsertFile(entries, i, p, c.row, c.key)
  <2>1. /\ UNCHANGED <<ops, slot, attempts>> /\ Budget
        /\ UNCHANGED <<entries, blobs>> \/ (entries' = E /\ blobs' = blobs)
    BY <1>3, CopyCalls
  <2>2. CopyWrites(s)
    <3>1. CASE UNCHANGED <<entries, blobs>>
      BY <2>1, <3>1 DEF CopyWrites
    <3>2. CASE entries' = E /\ blobs' = blobs
      <4>1. i \in Ids
        BY Constants
      <4>2. RowCopied(s, i, p, c.row.name, c.key)
        BY <1>0, <1>3, <2>1, <3>2 DEF RowCopied, InsertFile, AtCopy
      <4> QED BY <1>0, <1>1, <2>1, <4>1, <4>2 DEF CopyWrites
    <3> QED BY <2>1, <3>1, <3>2
  <2>3. CASE Failed(s) /\ Lost(s)
    <3>1. Arrived(s) /\ copying'[s].pc = "undo"
      BY <1>0, <2>3, Goes DEF Failed, AtCopy
    <3> QED BY <1>0, <2>1, <2>2, <2>3, <3>1 DEF CopyMoves, KeyMoves, Lost
  <2>4. CASE Answered(E, blobs) /\ Proceed(s, c.stack) /\ leaked' = leaked
    <3>1. Arrived(s) /\ copying'[s].pc \in {"idle", "name"}
      BY <1>0, <2>4, Proceeds
    <3>2. entries'[i].key = c.key /\ blobs' = blobs
      BY <2>4, Constants DEF Layers, TypeInv, TypeOK, InsertFile, Answered
    <3> QED BY <1>0, <2>2, <2>4, <3>1, <3>2 DEF CopyMoves, KeyMoves
  <2> QED BY <1>3, <2>3, <2>4
<1> QED BY <1>2, <1>3 DEF CopyFile

\* The call that takes a blob back.
LEMMA TakesBack ==
  ASSUME Layers, CopyInv, NEW s \in Handlers, CopyUnput(s)
  PROVE  CopyMoves(s)
<1>0. /\ copying[s] \in CopySlots /\ leaked \subseteq Attempts /\ copying[s].pc = "unput" /\ copying[s].key \in Attempts
  BY DEF CopyInv, CopyTypeOK, HandlerCopies, CopyUnput, AtCopy
<1>1. Arrived(s) /\ copying'[s].pc = "undo"
  BY <1>0, Goes DEF CopyUnput, Failed, AtCopy
<1>2. Answered(entries, blobs \ {copying[s].key}) \/ Silent(entries, blobs \ {copying[s].key})
  BY DEF CopyUnput
<1>3. CopyWrites(s) /\ blobs' \subseteq blobs
  BY <1>0, <1>2, CopyCalls DEF CopyWrites, BlobTakenBack, AtCopy
<1>4. copying[s].key \in leaked' \/ copying[s].key \notin blobs'
  BY DEF CopyUnput, Answered, Lost
<1>5. leaked \subseteq leaked' /\ leaked' \subseteq Attempts
  BY <1>0 DEF CopyUnput, Lost
<1> QED BY <1>0, <1>1, <1>3, <1>4, <1>5 DEF CopyMoves, KeyMoves

\* A folder that was made is deleted, or its deletion fails.
LEMMA Undoes ==
  ASSUME Layers, CopyInv, NEW s \in Handlers, CopyUndo(s)
  PROVE  CopyMoves(s) \/ CopyYields(s)
<1> DEFINE c == copying[s]
<1>0. c \in CopySlots /\ leaked \subseteq Attempts /\ leaked' = leaked /\ c.pc = "undo" /\ c.stack \in Stacks
  BY DEF CopyInv, CopyTypeOK, HandlerCopies, CopyUndo, AtCopy
<1>1. CASE Len(c.stack) = 1
  <2>1. Becomes(s, NoCopy) /\ UNCHANGED vars
    BY <1>1 DEF CopyUndo
  <2>2. CopyWrites(s)
    BY <2>1 DEF CopyWrites, vars, Budget
  <2> QED BY <1>0, <2>1, <2>2, Ends DEF CopyMoves, KeyMoves, vars
<1>2. CASE Len(c.stack) # 1
  <2> DEFINE r == Front(c.stack)
             i == Last(c.stack).made
             x == [Copying(s, "undo") EXCEPT !.stack = r]
  <2>1. r \in Stacks /\ i \in Folders \ {Root}
    BY <1>0, <1>2, StackShrinks
  <2>2. r \in Seq(Frames) /\ i \in Ids \ {Root}
    BY <2>1, Constants DEF Stacks
  <2>3. Becomes(s, x)
    BY <1>0, <1>2 DEF CopyUndo, Copying, CopySlots
  <2>4. \/ DeleteStart(s, i)
        \/ Answered(entries, blobs)
        \/ Silent(entries, blobs)
    BY <1>2 DEF CopyUndo
  <2> HIDE DEF r, i
  <2>5. x \in CopySlots /\ x.pc = "undo" /\ x.stack = r
    BY <1>0, <2>2 DEF Copying, CopySlots
  <2> HIDE DEF x
  <2>6. Arrived(s) /\ copying'[s].pc = "undo"
    BY <2>1, <2>3, <2>5, Becoming
  <2>7. DeleteStart(s, i) => Next
    BY <2>2 DEF Next, Start
  <2>8. CASE DeleteStart(s, i)
    BY <1>0, <2>6, <2>7, <2>8 DEF CopyYields
  <2>9. CASE Answered(entries, blobs) \/ Silent(entries, blobs)
    <3>1. CopyWrites(s) /\ blobs' = blobs
      BY <2>9, CopyCalls DEF CopyWrites
    <3> QED BY <1>0, <2>6, <3>1 DEF CopyMoves, KeyMoves
  <2> QED BY <2>4, <2>8, <2>9
<1> QED BY <1>1, <1>2

\* A copy is cut off.
LEMMA CutOff ==
  ASSUME Layers, CopyInv, NEW s \in Handlers, CopyEvict(s)
  PROVE  CopyMoves(s) \/ CopyYields(s)
<1> DEFINE c == copying[s]
<1>0. /\ c \in CopySlots /\ leaked \subseteq Attempts
      /\ c.pc \in {"file", "unput"} => c.key \in Attempts
  BY DEF CopyInv, CopyTypeOK, HandlerCopies
<1>1. Arrived(s) /\ copying'[s].pc = "idle"
  BY Ends DEF CopyEvict
<1>2. /\ leaked \subseteq leaked' /\ leaked' \subseteq Attempts
      /\ c.pc \in {"file", "unput"} => c.key \in leaked'
  BY <1>0 DEF CopyEvict, Lost, AtCopy
<1>3. CASE Evict(s)
  <2>1. Next
    BY <1>3 DEF Next
  <2> QED BY <1>1, <1>2, <2>1 DEF CopyYields
<1>4. CASE Silent(entries, blobs)
  <2>1. CopyWrites(s) /\ blobs' = blobs
    BY <1>4, CopyCalls DEF CopyWrites
  <2> QED BY <1>1, <1>2, <2>1 DEF CopyMoves, KeyMoves
<1> QED BY <1>3, <1>4 DEF CopyEvict

\* A copy begins.
LEMMA Begins ==
  ASSUME Layers, CopyInv, NEW s \in Handlers, NEW i \in Ids, NEW p \in Folders, CopyStart(s, i, p)
  PROVE  CopyMoves(s)
<1> DEFINE r == <<[made |-> p, rest |-> {}]>>
           x == [NoCopy EXCEPT !.pc = "name", !.row = Row(i), !.stack = r]
<1>1. leaked' = leaked /\ leaked \subseteq Attempts /\ CopyWrites(s) /\ blobs' = blobs /\ copying[s].pc = "idle"
  BY DEF CopyStart, CopyWrites, Budget, vars, AtCopy, CopyInv, CopyTypeOK
<1>2. Row(i) \in Rows
  BY DEF Layers, TypeInv, TypeOK, Row, Rows, Entries
<1>3. r \in Stacks /\ r \in Seq(Frames)
  <2>1. [made |-> p, rest |-> {}] \in Frames
    BY DEF Frames
  <2>2. r \in Seq(Frames) /\ Len(r) = 1 /\ r # <<>>
    BY <2>1
  <2> QED BY <2>2 DEF Stacks
<1>4. Becomes(s, x)
  BY DEF CopyStart
<1> HIDE DEF r
<1>5. x \in CopySlots /\ x.pc = "name" /\ x.stack = r
  BY <1>2, <1>3 DEF NoCopy, NoRow, CopySlots
<1> HIDE DEF x
<1>6. Arrived(s) /\ copying'[s].pc = "name"
  BY <1>3, <1>4, <1>5, Becoming
<1> QED BY <1>1, <1>6 DEF CopyMoves, KeyMoves

\* A step with copies is one of the native storage, or one of a copy.
LEMMA CopyCases ==
  ASSUME Layers, CopyInv, [CopyNext]_allVars
  PROVE  \/ [Next]_vars /\ UNCHANGED copyVars
         \/ \E s \in Handlers : CopyMoves(s) \/ CopyYields(s)
<1>1. ASSUME NEW s \in Handlers, CopyStep(s)
      PROVE  CopyMoves(s) \/ CopyYields(s)
  BY <1>1, Looks, MakesFolder, PutsBlob, InsertsRow, TakesBack, Undoes DEF CopyStep
<1>2. ASSUME NEW s \in Handlers, OtherStart(s) \/ Step(s) \/ Evict(s), UNCHANGED copyVars
      PROVE  Next
  <2>1. OtherStart(s) => Start(s) \/ \E all \in BOOLEAN : OtherRequest(s, all)
    BY DEF OtherStart, Start
  <2> QED BY <1>2, <2>1 DEF Next
<1>3. CASE UNCHANGED allVars
  BY <1>3 DEF allVars
<1>4. CASE CopyNext
  <2>1. CASE (Mutate \/ \E o \in Attempts : OperationAges(o)) /\ UNCHANGED copyVars
    BY <2>1 DEF Next
  <2>2. ASSUME NEW s \in Handlers,
               \/ \E i \in Ids, p \in Folders : CopyStart(s, i, p)
               \/ CopyStep(s) \/ CopyEvict(s)
               \/ (OtherStart(s) \/ Step(s) \/ Evict(s)) /\ UNCHANGED copyVars
        PROVE  \/ [Next]_vars /\ UNCHANGED copyVars
               \/ CopyMoves(s) \/ CopyYields(s)
    BY <1>1, <1>2, <2>2, Begins, CutOff
  <2> QED BY <1>4, <2>1, <2>2 DEF CopyNext
<1> QED BY <1>3, <1>4

-----------------------------------------------------------------------------
\* A key that is made up is nobody's.
LEMMA NewKeyUnused ==
  ASSUME Layers, NEW k \in Attempts, k = attempts + 1, attempts' = k, UNCHANGED <<entries, ops, slot>>
  PROVE  Unused(k)'
<1>0. /\ attempts \in Nat /\ AttemptInv /\ DeleteInv /\ TypeInv
      /\ \A i \in Ids : entries[i].key \in Attempts => entries[i].key <= attempts
      /\ \A q \in Attempts : Dead(q) => q <= attempts
      /\ \A t \in Handlers : slot[t].attempt <= attempts /\ slot[t].attempt \in Nat
  BY KnownAttempts, Tables, Constants DEF Layers, Slots
<1>1. Foreign(k)'
  <2>1. ops[k].state = "absent"
    BY <1>0 DEF AttemptInv, AttemptsInOrder
  <2>2. \A t \in Handlers : slot[t].attempt # k
    BY <1>0
  <2> QED BY <1>0, <2>1, <2>2 DEF Foreign
<1>2. \A i \in Ids : entries'[i].key # k
  BY <1>0
<1>3. ASSUME NEW t \in Handlers, slot[t].pc \in Wiping PROVE k \notin slot[t].keys
  <2>1. \A q \in slot[t].keys : Dead(q)
    BY <1>0, <1>3 DEF DeleteInv, HandlerWipes
  <2> QED BY <1>0, <2>1
<1> QED BY <1>1, <1>2, <1>3 DEF Unused

\* The calls of one copy leave the key of another alone.
LEMMA OthersUnused ==
  ASSUME Layers, CopyInv, NEW s \in Handlers, CopyWrites(s), NEW k \in Attempts, Unused(k),
         AtCopy(s, "file") \/ AtCopy(s, "unput") => copying[s].key # k
  PROVE  Unused(k)' /\ (k \in blobs => k \in blobs')
<1>0. /\ UNCHANGED slot /\ Foreign(k)' /\ k # None
      /\ \A i \in Ids : CopiedRow(s, i)
  BY CopyChanges, Constants DEF Unused
<1>1. ASSUME NEW i \in Ids PROVE entries'[i].key # k
  BY <1>0, CopyChanges DEF CopiedRow, Unused
<1>2. k \in blobs => k \in blobs'
  BY CopyChanges
<1> QED BY <1>0, <1>1, <1>2 DEF Unused

\* The invariant of the copies is inductive, together with the layers.
LEMMA CopyInvHolds == Layers /\ CopyInv /\ [CopyNext]_allVars => Layers' /\ CopyInv'
<1> SUFFICES ASSUME Layers, CopyInv, [CopyNext]_allVars PROVE Layers' /\ CopyInv'
  OBVIOUS
<1> DEFINE Holds(c) == c.pc \in {"file", "unput"}
<1>0. /\ copying \in [Handlers -> CopySlots] /\ leaked \subseteq Attempts
      /\ \A t \in Handlers : HandlerCopies(t)
      /\ \A t, u \in Handlers : Holds(copying[t]) /\ Holds(copying[u]) /\ t # u => copying[t].key # copying[u].key
  BY DEF CopyInv, CopyTypeOK
<1>1. Layers' => TypeOK'
  BY DEF Layers, TypeInv
<1>2. CASE [Next]_vars /\ UNCHANGED copyVars
  <2>1. Layers' /\ UNCHANGED <<copying, leaked>>
    BY <1>2, LayersHold DEF copyVars
  <2>2. ASSUME NEW t \in Handlers PROVE HandlerCopies(t)'
    BY <1>0, <1>2, <2>1, UnusedStays DEF HandlerCopies
  <2> QED BY <1>0, <1>1, <2>1, <2>2 DEF CopyInv, CopyTypeOK
<1>3. ASSUME NEW s \in Handlers, CopyYields(s) PROVE Layers' /\ CopyInv'
  <2>1. Layers' /\ leaked' \subseteq Attempts /\ Arrived(s) /\ ~Holds(copying'[s])
    BY <1>3, LayersHold DEF CopyYields
  <2>2. ASSUME NEW t \in Handlers PROVE HandlerCopies(t)'
    <3>1. CASE t = s
      BY <2>1, <3>1 DEF HandlerCopies, Arrived
    <3>2. CASE t # s
      BY <1>0, <1>3, <2>1, <3>2, UnusedStays DEF HandlerCopies, Arrived, CopyYields
    <3> QED BY <3>1, <3>2
  <2>3. \A t, u \in Handlers : Holds(copying'[t]) /\ Holds(copying'[u]) /\ t # u => copying'[t].key # copying'[u].key
    BY <1>0, <2>1 DEF Arrived
  <2> QED BY <1>1, <2>1, <2>2, <2>3 DEF CopyInv, CopyTypeOK, Arrived
<1>4. ASSUME NEW s \in Handlers, CopyMoves(s) PROVE Layers' /\ CopyInv'
  <2>1. /\ Layers' /\ CopyWrites(s) /\ Arrived(s) /\ KeyMoves(s) /\ UNCHANGED <<ops, slot>>
        /\ leaked' \subseteq Attempts
    BY <1>4, LayersCopied, CopyChanges DEF CopyMoves, KeyMoves
  <2>2. /\ attempts \in Nat
        /\ \A t \in Handlers : Holds(copying[t]) => copying[t].key \in Attempts /\ copying[t].key <= attempts
    BY <1>0, KnownAttempts DEF HandlerCopies, Unused, Foreign
  <2>3. ASSUME NEW t \in Handlers, t # s PROVE HandlerCopies(t)'
    <3>1. Holds(copying[t]) =>
            \E k \in Attempts : k = copying[t].key /\ Unused(k)' /\ (k \in blobs => k \in blobs')
      <4>1. Holds(copying[t]) => copying[t].key \in Attempts /\ Unused(copying[t].key)
        BY <1>0 DEF HandlerCopies
      <4>2. Holds(copying[t]) => (AtCopy(s, "file") \/ AtCopy(s, "unput") => copying[s].key # copying[t].key)
        BY <1>0, <2>3 DEF AtCopy
      <4> HIDE DEF Holds
      <4> QED BY <2>1, <4>1, <4>2, OthersUnused
    <3> QED BY <1>0, <2>1, <2>3, <3>1 DEF HandlerCopies, Arrived
  <2>4. CASE KeyMade(s)
    <3>1. attempts + 1 \in Attempts
      BY <2>2, <2>4, MaxAttemptsAssumption DEF KeyMade, Attempts
    <3>2. PICK k \in Attempts : k = attempts + 1
      BY <3>1
    <3>3. HandlerCopies(s)'
      <4>1. Unused(k)'
        BY <2>1, <2>4, <3>2, NewKeyUnused DEF KeyMade
      <4>2. copying'[s].pc = "file" /\ copying'[s].key = k /\ k \in blobs' /\ copying'[s].stack \in Stacks
        BY <2>1, <2>4, <3>2 DEF KeyMade, Arrived
      <4> QED BY <4>1, <4>2 DEF HandlerCopies
    <3>4. \A t, u \in Handlers : Holds(copying'[t]) /\ Holds(copying'[u]) /\ t # u => copying'[t].key # copying'[u].key
      BY <1>0, <2>1, <2>2, <2>4 DEF Arrived, KeyMade
    <3> QED BY <1>1, <2>1, <2>3, <3>3, <3>4 DEF CopyInv, CopyTypeOK, Arrived
  <2>5. CASE /\ copying[s].pc = "file" /\ copying'[s].pc = "unput" /\ copying'[s].key = copying[s].key
             /\ UNCHANGED <<entries, blobs, attempts>>
    <3>1. \E k \in Attempts : k = copying[s].key /\ Unused(k)'
      BY <1>0, <2>1, <2>5 DEF HandlerCopies, Unused, Foreign
    <3>2. HandlerCopies(s)'
      BY <2>1, <2>5, <3>1 DEF HandlerCopies, Arrived
    <3>3. \A t, u \in Handlers : Holds(copying'[t]) /\ Holds(copying'[u]) /\ t # u => copying'[t].key # copying'[u].key
      BY <1>0, <2>1, <2>5 DEF Arrived
    <3> QED BY <1>1, <2>1, <2>3, <3>2, <3>3 DEF CopyInv, CopyTypeOK, Arrived
  <2>6. CASE ~Holds(copying'[s])
    <3>1. HandlerCopies(s)'
      BY <2>1, <2>6 DEF HandlerCopies, Arrived
    <3>2. \A t, u \in Handlers : Holds(copying'[t]) /\ Holds(copying'[u]) /\ t # u => copying'[t].key # copying'[u].key
      BY <1>0, <2>1, <2>6 DEF Arrived
    <3> QED BY <1>1, <2>1, <2>3, <3>1, <3>2 DEF CopyInv, CopyTypeOK, Arrived
  <2> QED BY <2>1, <2>4, <2>5, <2>6 DEF KeyMoves
<1> QED BY <1>2, <1>3, <1>4, CopyCases

\* A copy publishes content that is there, and deletes none that is published.
LEMMA CopyFilesHold == Layers /\ CopyInv /\ FilesInv /\ [CopyNext]_allVars => FilesInv'
<1> SUFFICES ASSUME Layers, CopyInv, FilesInv, [CopyNext]_allVars PROVE FilesInv'
  OBVIOUS
<1>1. ASSUME [Next]_vars PROVE FilesInv'
  BY <1>1, FilesHold
<1>2. ASSUME NEW s \in Handlers, CopyWrites(s) PROVE FilesInv'
  <2>1. CASE LateAndFailed
    BY <1>2, <2>1, UploadsCopied DEF FilesInv
  <2>2. CASE ReadyFilesHaveBlobs
    <3>1. ASSUME NEW i \in FileIds, entries'[i].status = "ready" PROVE entries'[i].key \in blobs'
      <4>1. i \in Ids /\ i \notin FolderIds /\ CopiedRow(s, i)
        BY <1>2, CopyChanges, Constants
      <4>2. blobs \subseteq Attempts
        BY DEF Layers, TypeInv, TypeOK
      <4>3. CASE entries'[i] = entries[i]
        <5>1. entries[i].key \in blobs
          BY <2>2, <3>1, <4>3 DEF ReadyFilesHaveBlobs
        <5> QED BY <1>2, <4>1, <4>2, <4>3, <5>1, CopyChanges DEF Unused
      <4>4. CASE AtCopy(s, "file") /\ entries'[i].key = copying[s].key
        BY <1>2, <4>4, CopyChanges DEF AtCopy
      <4> QED BY <4>1, <4>3, <4>4 DEF CopiedRow
    <3> QED BY <3>1 DEF FilesInv, ReadyFilesHaveBlobs
  <2> QED BY <2>1, <2>2 DEF FilesInv
<1> QED BY <1>1, <1>2, CopyCases DEF CopyMoves, CopyYields

\* A blob a copy has written belongs to a row, to the copy, or is given up for good.
LEMMA CopyOwnedHold == Layers /\ CopyInv /\ CopiedBlobsAreOwned /\ [CopyNext]_allVars => CopiedBlobsAreOwned'
<1> SUFFICES ASSUME Layers, CopyInv, CopiedBlobsAreOwned, [CopyNext]_allVars, ~late', NEW k \in blobs'
             PROVE  \/ Owned(k)'
                    \/ \E t \in Handlers : copying'[t].key = k /\ copying'[t].pc \in {"file", "unput"}
                    \/ k \in leaked'
  BY DEF CopiedBlobsAreOwned, Owned, AtCopy
<1> DEFINE Holder(t) == copying[t].key = k /\ copying[t].pc \in {"file", "unput"}
<1>0. ~late /\ k \in blobs => Owned(k) \/ (\E t \in Handlers : Holder(t)) \/ k \in leaked
  BY DEF CopiedBlobsAreOwned, Owned, AtCopy
<1>1. TypeInv /\ (\A t \in Handlers : HandlerCopies(t)) /\ k # None
  <2>1. blobs' \subseteq Attempts
    BY CopyInvHolds DEF Layers, TypeInv, TypeOK
  <2> QED BY <2>1, Constants DEF CopyInv, Layers
<1>2. ASSUME [Next]_vars PROVE ~late /\ (Owned(k)' \/ (k \in blobs /\ ~Owned(k)))
  <2>1. ~late
    BY <1>1, <1>2, Losses
  <2>2. CASE k \in blobs => Owned(k)
    BY <1>2, <2>1, <2>2, OwnedStays
  <2> QED BY <2>1, <2>2
<1>3. CASE [Next]_vars /\ UNCHANGED copyVars
  BY <1>0, <1>2, <1>3 DEF copyVars
<1>4. ASSUME NEW s \in Handlers, CopyYields(s)
      PROVE  \/ Owned(k)'
             \/ \E t \in Handlers : copying'[t].key = k /\ copying'[t].pc \in {"file", "unput"}
             \/ k \in leaked'
  BY <1>0, <1>2, <1>4 DEF CopyYields, Arrived
<1>5. ASSUME NEW s \in Handlers, CopyMoves(s)
      PROVE  \/ Owned(k)'
             \/ \E t \in Handlers : copying'[t].key = k /\ copying'[t].pc \in {"file", "unput"}
             \/ k \in leaked'
  <2>1. ~late /\ ops' = ops /\ \A i \in Ids : CopiedRow(s, i)
    BY <1>5, CopyChanges DEF CopyMoves
  <2>2. CASE k \notin blobs
    <3>1. KeyMade(s) \/ k \in leaked'
      BY <1>5, <2>2 DEF CopyMoves, KeyMoves
    <3>2. KeyMade(s) => copying'[s].key = k /\ copying'[s].pc = "file"
      BY <2>2 DEF KeyMade
    <3> QED BY <3>1, <3>2
  <2>3. CASE k \in blobs
    <3>1. CASE Owned(k)
      <4>1. \A i \in FileIds : entries[i].key = k => entries'[i] = entries[i]
        BY <1>1, <2>1, Constants DEF CopiedRow, Absent
      <4> QED BY <2>1, <3>1, <4>1 DEF Owned, Active
    <3>2. ASSUME NEW t \in Handlers, Holder(t), t # s PROVE copying'[t] = copying[t]
      BY <1>5, <3>2 DEF CopyMoves, Arrived
    <3>3. CASE Holder(s)
      BY <1>5, <3>3 DEF CopyMoves, KeyMoves, Owned
    <3>4. CASE k \in leaked
      BY <1>5, <3>4 DEF CopyMoves, KeyMoves
    <3> QED BY <1>0, <2>1, <2>3, <3>1, <3>2, <3>3, <3>4
  <2> QED BY <2>2, <2>3
<1> QED BY <1>3, <1>4, <1>5, CopyCases

\* A copy takes no operation from an unfinished upload.
LEMMA CopyUploadsCovered == Layers /\ CopyInv /\ JournalCoversUploads /\ [CopyNext]_allVars => JournalCoversUploads'
<1> SUFFICES ASSUME Layers, CopyInv, JournalCoversUploads, [CopyNext]_allVars PROVE JournalCoversUploads'
  OBVIOUS
<1>1. ASSUME NEW s \in Handlers, CopyWrites(s) PROVE JournalCoversUploads'
  <2>1. ops' = ops /\ \A i \in Ids : CopiedRow(s, i)
    BY <1>1, CopyChanges
  <2>2. \A i \in FileIds : entries'[i].status = "uploading" => entries'[i] = entries[i]
    BY <2>1, Constants DEF CopiedRow
  <2> QED BY <2>1, <2>2 DEF JournalCoversUploads, Active
<1> QED BY <1>1, UploadsCovered, CopyCases DEF CopyMoves, CopyYields

\* A copy adds rows, and changes none.
LEMMA CopyLifecycle == Layers /\ CopyInv /\ [CopyNext]_allVars => LifecycleStep
<1> SUFFICES ASSUME Layers, CopyInv, [CopyNext]_allVars PROVE LifecycleStep
  OBVIOUS
<1>1. ASSUME NEW s \in Handlers, CopyWrites(s) PROVE LifecycleStep
  <2>1. \A i \in Ids : entries[i].status # "absent" => entries'[i] = entries[i]
    BY <1>1, CopyChanges DEF CopiedRow, Absent
  <2> QED BY <2>1 DEF LifecycleStep
<1> QED BY <1>1, Lifecycle, CopyCases DEF CopyMoves, CopyYields

-----------------------------------------------------------------------------
\* Trees on the shelves are what the layers say.
LEMMA CopyStarts ==
  ASSUME ShelvesAreWhole, CopyInit
  PROVE  Layers /\ CopyInv /\ FilesInv /\ CopiedBlobsAreOwned /\ JournalCoversUploads
<1> DEFINE rows(o) == {i \in FileIds : entries[i].key = o}
           op(o) == [state |-> IF o < FirstFree THEN "completed" ELSE "absent", kind |-> "upload_cleanup",
                     entry |-> IF rows(o) = {} THEN Root ELSE CHOOSE i \in rows(o) : TRUE,
                     claimer |-> Nobody, aged |-> FALSE, wiped |-> {}]
<1>0. /\ \A s \in Handlers : slot[s] = Idle /\ copying[s] = NoCopy
      /\ copying = [s \in Handlers |-> NoCopy] /\ slot = [s \in Handlers |-> Idle]
      /\ blobs = {entries[i].key : i \in {j \in FileIds : Present(entries, j)}}
      /\ late = FALSE /\ leaked = {} /\ faults = MaxFaults /\ attempts = FirstFree - 1
      /\ ops = [o \in Attempts |-> op(o)]
  BY DEF CopyInit
<1>1. /\ Idle.pc = "idle" /\ Idle.job = "none" /\ Idle.attempt = None /\ Idle.deleted = FALSE
      /\ Absent.status = "absent" /\ Absent.owner = None /\ Absent.key = None /\ Absent.parent = Root
      /\ NoCopy.pc = "idle"
  BY DEF Idle, Absent, NoCopy
<1>2. /\ entries \in [Ids -> Entries] /\ entries[Root].status = "ready"
      /\ \A i \in Ids : \/ entries[i] = Absent
                        \/ /\ entries[i].status = "ready" /\ entries[i].owner = None
                           /\ i \in FileIds => entries[i].key \in 1..(FirstFree - 1)
                           /\ i \notin FileIds => entries[i].key = None
      /\ \A i, j \in FileIds : entries[i].key = entries[j].key /\ i # j => entries[i].key = None
      /\ \A i \in Ids \ {Root} :
           Present(entries, i) => ReadyFolder(entries, entries[i].parent) /\ Root \in Ancestors(entries, i)
  BY DEF CopyInit, ShelvesAreWhole
<1>3. /\ FirstFree \in Nat /\ FirstFree >= 1 /\ FirstFree <= MaxAttempts + 1
      /\ 1..(FirstFree - 1) \subseteq Attempts /\ attempts \in 0..MaxAttempts /\ attempts \in Nat /\ None = 0
      /\ \A k \in 1..(FirstFree - 1) : k < FirstFree /\ k <= attempts
      /\ \A o \in Attempts : (o < FirstFree <=> o <= attempts) /\ o \in Nat /\ o # 0
  BY <1>0, MaxAttemptsAssumption DEF ShelvesAreWhole, Attempts, None
<1>4. ASSUME NEW o \in Attempts
      PROVE  /\ ops[o].state = (IF o <= attempts THEN "completed" ELSE "absent")
             /\ ops[o].kind = "upload_cleanup" /\ ops[o].wiped = {}
             /\ \A i \in FileIds : entries[i].key = o => ops[o].entry = i
             /\ op(o) \in Operations
  <2>1. ops[o] = op(o)
    BY <1>0
  <2>2. ASSUME NEW i \in FileIds, entries[i].key = o PROVE op(o).entry = i
    <3>1. i \in rows(o) /\ \A j \in rows(o) : j = i
      BY <1>2, <1>3, <2>2
    <3> HIDE DEF rows
    <3>2. (CHOOSE j \in rows(o) : TRUE) = i
      BY <3>1
    <3> QED BY <3>1, <3>2
  <2>3. op(o).entry \in Ids
    <3>1. CASE rows(o) = {}
      BY <3>1, Constants
    <3>2. ASSUME NEW i \in rows(o) PROVE op(o).entry \in Ids
      BY <2>2, <3>2, Constants
    <3> QED BY <3>1, <3>2
  <2>4. op(o) \in Operations
    <3>1. op(o).state \in {"absent", "completed"}
      OBVIOUS
    <3> HIDE DEF rows
    <3> QED BY <2>3 DEF Operations
  <2> QED BY <1>3, <2>1, <2>2, <2>4
<1>5. TypeInv
  <2>1. entries \in KeyedRows
    <3>1. \A i \in FileIds : Present(entries, i) => entries[i].key \in Attempts
      BY <1>1, <1>2, <1>3, Constants DEF Present
    <3> QED BY <1>2, <3>1 DEF KeyedRows
  <2>2. ops \in [Attempts -> Operations]
    <3> HIDE DEF op
    <3> QED BY <1>0, <1>4
  <2>3. blobs \subseteq Attempts
    BY <1>0, <2>1 DEF KeyedRows
  <2>4. Idle \in Slots /\ SlotOK(Idle)
    BY Constants DEF Idle, Slots, SlotOK, UploadPcs, DeletePcs, Busy, RecoverPcs
  <2>5. slot \in [Handlers -> Slots]
    BY <1>0, <2>4
  <2>6. TypeOK
    <3>1. faults \in 0..MaxFaults /\ late \in BOOLEAN
      <4>1. MaxFaults \in 0..MaxFaults
        BY MaxFaultsAssumption
      <4>2. faults = MaxFaults /\ late = FALSE
        BY <1>0
      <4> QED BY <4>1, <4>2, Zenon
    <3>2. entries \in [Ids -> Entries] /\ attempts \in 0..MaxAttempts
      BY <1>2, <1>3
    <3> QED BY <2>2, <2>3, <2>5, <3>1, <3>2 DEF TypeOK
  <2> QED BY <1>0, <2>1, <2>4, <2>6 DEF TypeInv
<1>6. AttemptInv
  <2>1. \A s \in Handlers : HandlerQueued(s)
    BY <1>0, <1>1 DEF HandlerQueued, Busy, RecoverPcs, Cleaning, Wiping
  <2>2. \A s \in Handlers : slot[s].attempt = None /\ slot[s].attempt <= attempts
    BY <1>0, <1>1, <1>3
  <2>3. ASSUME NEW o \in Attempts, ops[o].state = "absent"
        PROVE  (\A i \in Ids : entries[i].owner # o /\ entries[i].key # o) /\ o \notin blobs
    <3>1. o > attempts
      <4>1. ~(o <= attempts) /\ o \in Nat /\ attempts \in Nat
        BY <1>3, <1>4, <2>3
      <4> QED BY <4>1
    <3>2. \A i \in Ids : entries[i].owner # o /\ entries[i].key # o
      BY <1>1, <1>2, <1>3, <3>1
    <3> QED BY <1>0, <3>2, Constants
  <2>4. ASSUME NEW o \in Attempts, o > attempts PROVE ops[o].state = "absent"
    <3>1. o \in Nat /\ attempts \in Nat
      BY <1>3
    <3>2. ~(o <= attempts)
      BY <2>4, <3>1
    <3> QED BY <1>4, <3>2
  <2>5. AttemptsInOrder
    BY <2>2, <2>3, <2>4 DEF AttemptsInOrder
  <2> QED BY <2>1, <2>5 DEF AttemptInv
<1>7. RowInv
  <2>1. ASSUME NEW i \in Ids PROVE RowOK(i)
    <3>1. CASE entries[i] = Absent
      BY <1>1, <3>1 DEF RowOK
    <3>2. CASE entries[i] # Absent /\ i \in FileIds
      <4>1. entries[i].status = "ready" /\ entries[i].owner = None /\ entries[i].key \in 1..(FirstFree - 1)
        BY <1>2, <3>2
      <4>2. Queued(entries[i].key, "upload_cleanup", i)
        BY <1>3, <1>4, <3>2, <4>1 DEF Queued
      <4>3. i \notin Folders
        BY <3>2, Constants
      <4> QED BY <1>3, <3>2, <4>1, <4>2, <4>3 DEF RowOK
    <3>3. CASE entries[i] # Absent /\ i \notin FileIds
      BY <1>2, <3>3 DEF RowOK
    <3> QED BY <3>1, <3>2, <3>3
  <2>2. \A i, j \in Ids : entries[i].key = entries[j].key /\ i # j => entries[i].key = None
    BY <1>1, <1>2
  <2> QED BY <2>1, <2>2 DEF RowInv
<1>8. TreeInv
  BY <1>2 DEF TreeInv, RootStays, UsableUnderUsable, Present, ReadyFolder
<1>9. UnpublishedInv /\ UploadInv /\ CleanInv
  BY <1>0, <1>1 DEF UnpublishedInv, UploadInv, CleanInv, HandlerUploads, HandlerCleans, Early
<1>10. DeleteInv
  <2>1. \A i \in Ids : entries[i].status # "deleting"
    BY <1>1, <1>2
  <2> QED BY <1>0, <1>1, <1>4, <2>1 DEF DeleteInv, HandlerWipes, Wiping, At
<1>11. FilesInv /\ JournalCoversUploads
  <2>1. \A i \in FileIds : entries[i].status # "uploading"
    BY <1>1, <1>2, Constants
  <2>2. \A i \in FileIds : entries[i].status = "ready" => entries[i].key \in blobs
    BY <1>0 DEF Present
  <2> QED BY <2>1, <2>2 DEF FilesInv, ReadyFilesHaveBlobs, JournalCoversUploads
<1>12. CopiedBlobsAreOwned
  BY <1>0 DEF CopiedBlobsAreOwned
<1>13. CopyInv
  <2>1. NoCopy \in CopySlots
    BY Constants DEF NoCopy, NoRow, CopySlots, Rows
  <2>2. CopyTypeOK
    BY <1>0, <1>5, <2>1 DEF CopyTypeOK, TypeInv
  <2> QED BY <1>0, <1>1, <2>2 DEF CopyInv, HandlerCopies
<1> QED BY <1>5, <1>6, <1>7, <1>8, <1>9, <1>10, <1>11, <1>12, <1>13 DEF Layers

\* What holds of the native storage while entries are copied.
CopiesInv == Layers /\ CopyInv /\ FilesInv /\ CopiedBlobsAreOwned /\ JournalCoversUploads

\* The inductive invariant of the copies.
THEOREM CopyInvariance == ASSUME ShelvesAreWhole PROVE CopySpec => []CopiesInv
<1>1. CopyInit => CopiesInv
  BY CopyStarts DEF CopiesInv
<1>2. CopiesInv /\ [CopyNext]_allVars => CopiesInv'
  BY CopyInvHolds, CopyFilesHold, CopyOwnedHold, CopyUploadsCovered DEF CopiesInv
<1> QED BY <1>1, <1>2, PTL DEF CopySpec

\* Copies, with uploads, deletions and recoveries meanwhile, leave the tree usable, forget no
\* blob but those whose copy was cut off, found the name taken or had no answer, and show a
\* file without its content only where the native storage alone could.
THEOREM CopiesKeepTheStorage ==
  ASSUME ShelvesAreWhole
  PROVE  CopySpec => [](CopiedBlobsAreOwned /\ UsableUnderUsable /\ (ReadyFilesHaveBlobs \/ LateAndFailed))
<1>1. CopiesInv => CopiedBlobsAreOwned /\ UsableUnderUsable /\ (ReadyFilesHaveBlobs \/ LateAndFailed)
  BY DEF CopiesInv, Layers, TreeInv, FilesInv
<1> QED BY <1>1, CopyInvariance, PTL

\* So with a single failure a copy puts nothing usable under what is not, shows no file
\* without its content and forgets none.
THEOREM CopiesStayWhole ==
  ASSUME ShelvesAreWhole, MaxFaults <= 1
  PROVE  CopySpec => []CopiesAreWhole
<1>1. CopiesInv => CopiesAreWhole
  <2>1. CopiesInv => ~LateAndFailed
    BY MaxFaultsAssumption DEF CopiesInv, Layers, TypeInv, TypeOK, LateAndFailed
  <2> QED BY <2>1 DEF CopiesInv, Layers, TreeInv, FilesInv, CopiesAreWhole
<1> QED BY <1>1, CopyInvariance, PTL

\* The name of an unfinished upload keeps its operation while entries are copied.
THEOREM CopiesLeaveUploadsCovered == ASSUME ShelvesAreWhole PROVE CopySpec => []JournalCoversUploads
<1>1. CopiesInv => JournalCoversUploads
  BY DEF CopiesInv
<1> QED BY <1>1, CopyInvariance, PTL

\* A copy takes no row back that it finds, and changes none: rows are born, claimed and gone as
\* without copies.
THEOREM CopiesKeepLifecycle == ASSUME ShelvesAreWhole PROVE CopySpec => [][LifecycleStep]_allVars
<1>1. CopiesInv /\ [CopyNext]_allVars => LifecycleStep
  BY CopyLifecycle DEF CopiesInv
<1> QED BY <1>1, CopyInvariance, PTL DEF CopySpec
=============================================================================

---------------------------- MODULE NativeStorage ----------------------------
(***************************************************************************)
(* file-system.ts: uploads into the native storage, deletions of trees and *)
(* the recovery of whatever they left behind, between D1 (entries, ops)    *)
(* and R2 (blobs), which share no transaction.  A handler is a slot that   *)
(* moves from one await to the next; the recovery runs inside the handlers *)
(* of uploads and deletions, there is no background job.                   *)
(*                                                                         *)
(* `faults` is a budget of failures: a D1 statement or an R2 call throws,  *)
(* with or without effect, a worker is evicted, or the heartbeats of a     *)
(* live worker do not get through for as long as an R2 call lasts (`late`  *)
(* remembers that this happened).                                          *)
(***************************************************************************)
EXTENDS StorageTables

CONSTANTS
  MaxBlobDeletes,  \* blobs one pass over a tree may delete (100; the deletion itself: all)
  MaxFaults,       \* bound on failures
  Rearranged       \* the entries that are moved and renamed meanwhile

ASSUME MaxBlobDeletesAssumption == MaxBlobDeletes \in Nat \ {0}
ASSUME MaxFaultsAssumption == MaxFaults \in Nat
ASSUME RearrangedAssumption == Rearranged \subseteq Ids

VARIABLES entries, ops, blobs, slot, attempts, faults, late

vars == <<entries, ops, blobs, slot, attempts, faults, late>>

UploadPcs == {"uEnqueue", "uInsert", "uUndo", "uPut", "uTouch", "uFinalize", "uDone", "uList",
              "uGiveUp", "uAgain", "uReply"}
DeletePcs == {"xEnqueue", "xClaim", "xReconcile", "xCheck"}
RecoverPcs == {"rList", "rClaim", "rClaimed", "cRow", "cByKey", "cBlob", "cRenew", "cMark",
               "cUnlink", "dRows", "dBlob", "dRenew", "dMark", "dLast", "dMeta", "dUnlink",
               "kRenew", "kDone", "tDone", "tRetry"}

Slots ==
  [job : {"none", "upload", "delete", "other"},
   pc : {"idle"} \cup UploadPcs \cup DeletePcs \cup RecoverPcs,
   id : Ids, parent : Folders, name : Names \cup {NoName}, attempt : Attempts \cup {None},
   after : {"idle", "uReply", "uAgain", "xCheck"},  \* where a reconcile returns to
   catch : {"idle", "uGiveUp", "uAgain"},           \* and where its exceptions land
   all : BOOLEAN,           \* limit 20 instead of 1
   todo : SUBSET Attempts,  \* operations listed and not yet processed
   cur : Attempts \cup {None},
   mine : BOOLEAN,          \* the row is still the one this operation cleans up
   rows : SUBSET Ids, keys : SUBSET Attempts, more : BOOLEAN, wiped : SUBSET Attempts,
   deleted : BOOLEAN]  \* the client was told that its tree is deleted

Idle == [job |-> "none", pc |-> "idle", id |-> Root, parent |-> Root, name |-> NoName,
         attempt |-> None, after |-> "idle", catch |-> "idle", all |-> FALSE, todo |-> {},
         cur |-> None, mine |-> FALSE, rows |-> {}, keys |-> {}, more |-> FALSE, wiped |-> {},
         deleted |-> FALSE]

TypeOK ==
  /\ entries \in [Ids -> Entries]
  /\ ops \in [Attempts -> Operations]
  /\ blobs \subseteq Attempts
  /\ slot \in [Handlers -> Slots]
  /\ attempts \in 0..MaxAttempts
  /\ faults \in 0..MaxFaults
  /\ late \in BOOLEAN

\* The empty store of a new deployment: the canonical root, nothing else.
Init ==
  /\ entries = [i \in Ids |-> IF i = Root THEN [Absent EXCEPT !.status = "ready"] ELSE Absent]
  /\ ops = [o \in Attempts |-> [state |-> "absent", kind |-> "upload_cleanup", entry |-> Root,
                                claimer |-> Nobody, aged |-> FALSE, wiped |-> {}]]
  /\ blobs = {}
  /\ slot = [s \in Handlers |-> Idle]
  /\ attempts = 0
  /\ faults = MaxFaults
  /\ late = FALSE

-----------------------------------------------------------------------------
(* The ways a step can end.                                                *)

At(s, pc) == slot[s].pc = pc

Become(s, h) == slot' = [slot EXCEPT ![s] = h]

Goto(s, pc) == [slot[s] EXCEPT !.pc = pc]

\* The response of a deletion, kept to check it against what follows.
ReportDeleted(s) == [Idle EXCEPT !.attempt = slot[s].attempt, !.deleted = TRUE]

Fault == faults > 0 /\ faults' = faults - 1 /\ UNCHANGED late

\* A statement that answered: the tables are E and O, the handler h.
Sql(s, E, O, h) ==
  /\ entries' = E /\ ops' = O
  /\ Become(s, h)
  /\ UNCHANGED <<blobs, attempts, faults, late>>

Read(s, h) == Sql(s, entries, ops, h)

\* A statement that threw, with or without effect; the handler goes on as h.
SqlFault(s, E, O, h) ==
  /\ Fault
  /\ \/ UNCHANGED <<entries, ops>>
     \/ entries' = E /\ ops' = O
  /\ Become(s, h)
  /\ UNCHANGED <<blobs, attempts>>

ReadFault(s, h) == SqlFault(s, entries, ops, h)

R2(s, B, h) ==
  /\ blobs' = B
  /\ Become(s, h)
  /\ UNCHANGED <<entries, ops, attempts, faults, late>>

R2Fault(s, B, h) ==
  /\ Fault
  /\ blobs' \in {blobs, B}
  /\ Become(s, h)
  /\ UNCHANGED <<entries, ops, attempts>>

Reconcile(s, all, after, catch) ==
  [slot[s] EXCEPT !.pc = "rList", !.all = all, !.after = after, !.catch = catch]

\* An exception inside a reconcile that no catch of its own holds.
Escape(s) ==
  IF slot[s].catch = "idle" THEN Idle
  ELSE [Goto(s, slot[s].catch) EXCEPT !.todo = {}, !.cur = None, !.mine = FALSE, !.rows = {},
                                      !.keys = {}, !.more = FALSE, !.wiped = {}]

\* The operation is settled, or lost to another worker: on to the next one.
NextOperation(s) ==
  [Goto(s, "rClaim") EXCEPT !.cur = None, !.mine = FALSE, !.rows = {}, !.keys = {},
                            !.more = FALSE, !.wiped = {}]

-----------------------------------------------------------------------------
(* Operations that are a single statement once their checks have passed;   *)
(* the statement repeats every check.                                      *)

Plainly(E) == entries' = E /\ UNCHANGED <<ops, blobs, slot, attempts, faults, late>>

\* A folder id is a new UUID: never one that was deleted before.
CreateFolder(i, p, n) ==
  /\ \A o \in Attempts : ops[o].entry # i
  /\ CanInsert(entries, i, p, n)
  /\ Plainly(InsertFolder(entries, i, p, n))

MoveEntry(i, p) == i \in Rearranged /\ CanMove(entries, i, p) /\ Plainly(Moved(entries, i, p))

PatchEntry(i, n) == i \in Rearranged /\ CanRename(entries, i, n) /\ Plainly(Renamed(entries, i, n))

-----------------------------------------------------------------------------
(* uploadFile.                                                             *)

\* The checks before the operation; the INSERT repeats them.
UploadStart(s, i, p, n) ==
  /\ At(s, "idle")
  /\ attempts < MaxAttempts
  /\ CanInsert(entries, i, p, n)
  /\ attempts' = attempts + 1
  /\ Become(s, [Idle EXCEPT !.job = "upload", !.pc = "uEnqueue", !.id = i, !.parent = p,
                            !.name = n, !.attempt = attempts + 1])
  /\ UNCHANGED <<entries, ops, blobs, faults, late>>

UploadEnqueue(s) ==
  /\ At(s, "uEnqueue")
  /\ LET h == slot[s]
         hit == CanEnqueue(ops, "upload_cleanup", h.id)
         O == IF hit THEN Enqueued(ops, h.attempt, "upload_cleanup", h.id, "held") ELSE ops
     IN \/ Sql(s, entries, O, IF hit THEN Goto(s, "uInsert") ELSE Idle)
        \/ SqlFault(s, entries, O, Goto(s, "uUndo"))

UploadInsert(s) ==
  /\ At(s, "uInsert")
  /\ LET h == slot[s]
         hit == CanInsert(entries, h.id, h.parent, h.name)
         E == IF hit THEN InsertUpload(entries, h.id, h.parent, h.name, h.attempt) ELSE entries
     IN \/ Sql(s, E, ops, Goto(s, IF hit THEN "uPut" ELSE "uUndo"))
        \/ SqlFault(s, E, ops, Goto(s, "uUndo"))

\* activate 'cleanup_blob', whose own failure is swallowed; the error is rethrown.
UploadUndo(s) ==
  /\ At(s, "uUndo")
  /\ LET O == Activated(ops, slot[s].attempt)
     IN Sql(s, entries, O, Idle) \/ SqlFault(s, entries, O, Idle)

UploadPut(s) ==
  /\ At(s, "uPut")
  /\ LET B == blobs \cup {slot[s].attempt}
     IN R2(s, B, Goto(s, "uTouch")) \/ R2Fault(s, B, Goto(s, "uGiveUp"))

\* The last heartbeat: a heartbeat that throws is swallowed, one that finds the
\* operation gone means that a recovery took over.
UploadTouch(s) ==
  /\ At(s, "uTouch")
  /\ LET o == slot[s].attempt
     IN \/ Sql(s, entries, Touched(ops, o),
               Goto(s, IF CanTouch(ops, o) THEN "uFinalize" ELSE "uGiveUp"))
        \/ SqlFault(s, entries, Touched(ops, o), Goto(s, "uFinalize"))

UploadFinalize(s) ==
  /\ At(s, "uFinalize")
  /\ LET h == slot[s]
         hit == CanFinalize(entries, h.id, h.attempt)
         E == IF hit THEN Finalized(entries, h.id) ELSE entries
     IN \/ Sql(s, E, ops, Goto(s, IF hit THEN "uDone" ELSE "uGiveUp"))
        \/ SqlFault(s, E, ops, Goto(s, "uGiveUp"))

UploadDone(s) ==
  /\ At(s, "uDone")
  /\ LET O == Activated(ops, slot[s].attempt)
     IN Sql(s, entries, O, Goto(s, "uList")) \/ SqlFault(s, entries, O, Goto(s, "uList"))

UploadList(s) ==
  /\ At(s, "uList")
  /\ \/ Read(s, IF ops[slot[s].attempt].state = "pending"
                THEN Reconcile(s, FALSE, "uReply", "uGiveUp") ELSE Goto(s, "uReply"))
     \/ ReadFault(s, Goto(s, "uGiveUp"))

\* The catch: activate, reconcile, and answer 502.
UploadGiveUp(s) ==
  /\ At(s, "uGiveUp")
  /\ LET O == Activated(ops, slot[s].attempt)
         h == Reconcile(s, FALSE, "uAgain", "uAgain")
     IN Sql(s, entries, O, h) \/ SqlFault(s, entries, O, h)

\* reconcileAfterStorageFailure, which every 502 of an upload ends in.
UploadAgain(s) == At(s, "uAgain") /\ Read(s, Reconcile(s, FALSE, "idle", "idle"))

UploadReply(s) ==
  /\ At(s, "uReply")
  /\ \/ Read(s, IF entries[slot[s].id].status = "ready" THEN Idle ELSE Goto(s, "uAgain"))
     \/ ReadFault(s, Idle)

-----------------------------------------------------------------------------
(* deleteEntryTrees, for one id.                                           *)

DeleteStart(s, i) ==
  /\ At(s, "idle")
  /\ attempts < MaxAttempts
  /\ entries[i].status = "ready"
  /\ attempts' = attempts + 1
  /\ Become(s, [Idle EXCEPT !.job = "delete", !.pc = "xEnqueue", !.id = i,
                            !.attempt = attempts + 1])
  /\ UNCHANGED <<entries, ops, blobs, faults, late>>

DeleteEnqueue(s) ==
  /\ At(s, "xEnqueue")
  /\ LET h == slot[s]
         hit == CanEnqueue(ops, "delete_tree", h.id)
         O == IF hit THEN Enqueued(ops, h.attempt, "delete_tree", h.id, "pending") ELSE ops
     IN \/ Sql(s, entries, O, IF hit THEN Goto(s, "xClaim") ELSE Idle)
        \/ SqlFault(s, entries, O, Idle)

DeleteClaim(s) ==
  /\ At(s, "xClaim")
  /\ LET h == slot[s]
         hit == CanClaimTree(entries, h.id)
         E == IF hit THEN ClaimedTree(entries, h.id, h.attempt) ELSE entries
     IN \/ Sql(s, E, ops, IF hit THEN Reconcile(s, TRUE, "xCheck", "idle") ELSE Idle)
        \/ SqlFault(s, E, ops, Idle)

\* Mutant: the state of the operation is not looked at.
DeleteCheckTrusts(s) == At(s, "xCheck") /\ (Read(s, ReportDeleted(s)) \/ ReadFault(s, Idle))

DeleteCheck(s) ==
  /\ At(s, "xCheck")
  /\ \/ Read(s, IF ops[slot[s].attempt].state = "completed" THEN ReportDeleted(s) ELSE Idle)
     \/ ReadFault(s, Idle)

-----------------------------------------------------------------------------
(* reconcileStorageRecovery.                                               *)

\* Another upload or deletion of the same storage, seen only by its reconcile.
OtherRequest(s, all) ==
  /\ At(s, "idle")
  /\ \E o \in Attempts : Runnable(ops, o)
  /\ Read(s, [Idle EXCEPT !.job = "other", !.pc = "rList", !.all = all])

\* The oldest operation, or up to 20: then all of them.
RecoverList(s) ==
  /\ At(s, "rList")
  /\ LET found == {o \in Attempts : Runnable(ops, o)}
     IN \/ /\ slot[s].all \/ found = {}
           /\ Read(s, [Goto(s, "rClaim") EXCEPT !.todo = found])
        \/ ~slot[s].all /\ \E o \in found : Read(s, [Goto(s, "rClaim") EXCEPT !.todo = {o}])
        \/ ReadFault(s, Escape(s))

RecoverClaim(s) ==
  /\ At(s, "rClaim")
  /\ \/ /\ slot[s].todo = {}
        /\ Read(s, IF slot[s].after = "idle" THEN Idle ELSE Goto(s, slot[s].after))
     \/ \E o \in slot[s].todo :
          LET hit == Runnable(ops, o)
              O == IF hit THEN Claimed(ops, o, s) ELSE ops
              h == [slot[s] EXCEPT !.todo = @ \ {o}]
          IN \/ Sql(s, entries, O, IF hit THEN [h EXCEPT !.cur = o, !.pc = "rClaimed"] ELSE h)
             \/ SqlFault(s, entries, O, Escape(s))

\* The SELECT behind the claim.
RecoverClaimed(s) ==
  /\ At(s, "rClaimed")
  /\ LET o == slot[s].cur
         start == IF ops[o].kind = "upload_cleanup" THEN "cRow" ELSE "dRows"
     IN \/ RunBy(ops, o, s) /\ Read(s, [Goto(s, start) EXCEPT !.wiped = ops[o].wiped])
        \/ ~RunBy(ops, o, s) /\ Read(s, NextOperation(s))
        \/ ReadFault(s, Escape(s))

\* A heartbeat between two steps: a renewal that finds the claim gone ends this
\* operation here, one that throws is swallowed.
Renew(s, then) ==
  LET o == slot[s].cur
      O == IF CanRenew(ops, o, s) THEN [ops EXCEPT ![o].aged = FALSE] ELSE ops
  IN \/ Sql(s, entries, O, IF CanRenew(ops, o, s) THEN Goto(s, then) ELSE NextOperation(s))
     \/ SqlFault(s, entries, O, Goto(s, then))

\* Nothing is left to do: renew, then complete, outside of any try.
KeepRenew(s) == At(s, "kRenew") /\ Renew(s, "kDone")

KeepDone(s) ==
  /\ At(s, "kDone")
  /\ LET O == Finished(ops, slot[s].cur, s, "completed")
     IN Sql(s, entries, O, NextOperation(s)) \/ SqlFault(s, entries, O, Escape(s))

TryDone(s) ==
  /\ At(s, "tDone")
  /\ LET O == Finished(ops, slot[s].cur, s, "completed")
     IN Sql(s, entries, O, NextOperation(s)) \/ SqlFault(s, entries, O, Goto(s, "tRetry"))

\* Mutant: a failed operation is closed.
TryRetryCloses(s) ==
  /\ At(s, "tRetry")
  /\ LET O == Finished(ops, slot[s].cur, s, "completed")
     IN Sql(s, entries, O, NextOperation(s)) \/ SqlFault(s, entries, O, Escape(s))

\* The catch of both recoveries.
TryRetry(s) ==
  /\ At(s, "tRetry")
  /\ LET O == Finished(ops, slot[s].cur, s, "retry")
     IN Sql(s, entries, O, NextOperation(s)) \/ SqlFault(s, entries, O, Escape(s))

-----------------------------------------------------------------------------
(* recoverUploadCleanup.                                                   *)

\* Mutant: the row goes first, its blob later.
CleanRowFirst(s) ==
  /\ At(s, "cRow")
  /\ LET o == slot[s].cur
         mine == OwnedAs(entries, ops[o].entry, "uploading", o)
     IN \/ Read(s, [Goto(s, IF mine THEN "cMark" ELSE "cByKey") EXCEPT !.mine = mine])
        \/ ReadFault(s, Escape(s))

CleanRow(s) ==
  /\ At(s, "cRow")
  /\ LET o == slot[s].cur
         mine == OwnedAs(entries, ops[o].entry, "uploading", o)
     IN \/ Read(s, [Goto(s, IF mine THEN "cBlob" ELSE "cByKey") EXCEPT !.mine = mine])
        \/ ReadFault(s, Escape(s))

\* Mutant: the blob goes without asking whether an entry uses it.
CleanByKeyBlind(s) == At(s, "cByKey") /\ (Read(s, Goto(s, "cBlob")) \/ ReadFault(s, Escape(s)))

CleanByKey(s) ==
  /\ At(s, "cByKey")
  /\ LET used == \E i \in Ids : entries[i].key = slot[s].cur
     IN Read(s, Goto(s, IF used THEN "kRenew" ELSE "cBlob")) \/ ReadFault(s, Escape(s))

CleanBlob(s) ==
  /\ At(s, "cBlob")
  /\ LET B == blobs \ {slot[s].cur}
     IN R2(s, B, Goto(s, "cRenew")) \/ R2Fault(s, B, Goto(s, "tRetry"))

CleanRenew(s) == At(s, "cRenew") /\ Renew(s, IF slot[s].mine THEN "cMark" ELSE "tDone")

CleanMark(s) ==
  /\ At(s, "cMark")
  /\ LET o == slot[s].cur
         O == Wiped(ops, o, s, {o})
     IN \/ Sql(s, entries, O, Goto(s, IF RunBy(ops, o, s) THEN "cUnlink" ELSE "tRetry"))
        \/ SqlFault(s, entries, O, Goto(s, "tRetry"))

CleanUnlink(s) ==
  /\ At(s, "cUnlink")
  /\ LET o == slot[s].cur
         E == Deleted(entries, ops[o].entry, "uploading", o)
     IN Sql(s, E, ops, Goto(s, "tDone")) \/ SqlFault(s, E, ops, Goto(s, "tRetry"))

-----------------------------------------------------------------------------
(* recoverDeleteTree.                                                      *)

\* At most MaxBlobDeletes of the keys, in the order of the rows: any of them.
Passes(s, keys) ==
  IF slot[s].job = "delete" \/ Cardinality(keys) <= MaxBlobDeletes THEN {keys}
  ELSE {K \in SUBSET keys : Cardinality(K) = MaxBlobDeletes}

DeleteRows(s) ==
  /\ At(s, "dRows")
  /\ LET o == slot[s].cur
         rows == Tree(entries, ops[o].entry)
         keys == KeysOf(entries, rows) \ slot[s].wiped
         owned == rows # {} /\ \A i \in rows : OwnedAs(entries, i, "deleting", o)
     IN \/ ~owned /\ Read(s, Goto(s, "kRenew"))
        \/ /\ owned
           /\ \E K \in Passes(s, keys) :
                Read(s, [Goto(s, IF K = {} THEN "dLast" ELSE "dBlob") EXCEPT
                           !.rows = rows, !.keys = K, !.more = K # keys])
        \/ ReadFault(s, Escape(s))

DeleteBlob(s) ==
  /\ At(s, "dBlob")
  /\ \E k \in slot[s].keys :
       \/ R2(s, blobs \ {k}, [Goto(s, "dRenew") EXCEPT !.keys = @ \ {k}, !.wiped = @ \cup {k}])
       \/ R2Fault(s, blobs \ {k}, Goto(s, "tRetry"))

DeleteRenew(s) == At(s, "dRenew") /\ Renew(s, "dMark")

DeleteMark(s) ==
  /\ At(s, "dMark")
  /\ LET h == slot[s]
         O == Wiped(ops, h.cur, s, h.wiped)
         then == IF h.keys = {} THEN "dLast" ELSE "dBlob"
     IN \/ Sql(s, entries, O, Goto(s, IF RunBy(ops, h.cur, s) THEN then ELSE "tRetry"))
        \/ SqlFault(s, entries, O, Goto(s, "tRetry"))

DeleteLast(s) == At(s, "dLast") /\ Renew(s, IF slot[s].more THEN "tRetry" ELSE "dMeta")

DeleteMeta(s) ==
  /\ At(s, "dMeta")
  /\ LET h == slot[s]
         O == Wiped(ops, h.cur, s, h.wiped)
     IN \/ Sql(s, entries, O, Goto(s, IF RunBy(ops, h.cur, s) THEN "dUnlink" ELSE "tRetry"))
        \/ SqlFault(s, entries, O, Goto(s, "tRetry"))

\* Children before their folders.  A row that is gone is passed over; one that
\* is there with another owner ends the deletion.
DeleteUnlink(s) ==
  /\ At(s, "dUnlink")
  /\ LET h == slot[s]
         leaf(i) == \A j \in h.rows \ {i} : entries[j].parent # i
     IN \/ h.rows = {} /\ Read(s, Goto(s, "tDone"))
        \/ \E i \in {j \in h.rows : leaf(j)} :
             LET E == Deleted(entries, i, "deleting", h.cur)
                 gone == E[i].status = "absent"
             IN \/ Sql(s, E, ops, IF gone THEN [h EXCEPT !.rows = @ \ {i}] ELSE Goto(s, "tDone"))
                \/ SqlFault(s, E, ops, Goto(s, "tRetry"))

-----------------------------------------------------------------------------
(* The environment.                                                        *)

\* The worker is evicted between two steps.
Evict(s) ==
  /\ ~At(s, "idle")
  /\ Fault
  /\ Become(s, Idle)
  /\ UNCHANGED <<entries, ops, blobs, attempts>>

\* The live handler that keeps operation o fresh by its heartbeats, if any.
Keepers(o) ==
  {s \in Handlers : ~At(s, "idle") /\
     \/ ops[o].state = "held" /\ slot[s].job = "upload" /\ slot[s].attempt = o
     \/ slot[s].cur = o /\ RunBy(ops, o, s)}

\* Nobody touches a held operation for five minutes, or renews a claim for 30 s.
\* With a live keeper this takes an R2 call as long as that (a D1 statement is
\* not) and heartbeats that all fail meanwhile.
OperationAges(o) ==
  /\ ops[o].state \in {"held", "running"} /\ ~ops[o].aged
  /\ ops' = [ops EXCEPT ![o].aged = TRUE]
  /\ \/ Keepers(o) = {} /\ UNCHANGED <<faults, late>>
     \/ /\ \E s \in Keepers(o) : slot[s].pc \in {"uPut", "cBlob", "dBlob"}
        /\ faults > 0 /\ faults' = faults - 1 /\ late' = TRUE
  /\ UNCHANGED <<entries, blobs, slot, attempts>>

-----------------------------------------------------------------------------

Mutate ==
  \/ \E i \in FolderIds, p \in Folders, n \in Names : CreateFolder(i, p, n)
  \/ \E i \in Ids, p \in Folders : MoveEntry(i, p)
  \/ \E i \in Ids, n \in Names : PatchEntry(i, n)

Start(s) ==
  \/ \E i \in FileIds, p \in Folders, n \in Names : UploadStart(s, i, p, n)
  \/ \E i \in Ids \ {Root} : DeleteStart(s, i)

UploadStep(s) ==
  \/ UploadEnqueue(s) \/ UploadInsert(s) \/ UploadUndo(s) \/ UploadPut(s) \/ UploadTouch(s)
  \/ UploadFinalize(s) \/ UploadDone(s) \/ UploadList(s) \/ UploadGiveUp(s) \/ UploadAgain(s)
  \/ UploadReply(s)

DeleteStep(s) == DeleteEnqueue(s) \/ DeleteClaim(s) \/ DeleteCheck(s)

RecoverStep(s) ==
  \/ RecoverList(s) \/ RecoverClaim(s) \/ RecoverClaimed(s)
  \/ KeepRenew(s) \/ KeepDone(s) \/ TryDone(s) \/ TryRetry(s)
  \/ CleanRow(s) \/ CleanByKey(s) \/ CleanBlob(s) \/ CleanRenew(s) \/ CleanMark(s)
  \/ CleanUnlink(s)
  \/ DeleteRows(s) \/ DeleteBlob(s) \/ DeleteRenew(s) \/ DeleteMark(s) \/ DeleteLast(s)
  \/ DeleteMeta(s) \/ DeleteUnlink(s)

Step(s) == UploadStep(s) \/ DeleteStep(s) \/ RecoverStep(s)

Next ==
  \/ Mutate
  \/ \E s \in Handlers :
       Start(s) \/ Step(s) \/ Evict(s) \/ \E all \in BOOLEAN : OtherRequest(s, all)
  \/ \E o \in Attempts : OperationAges(o)

Spec == Init /\ [][Next]_vars

-----------------------------------------------------------------------------
(* Safety.                                                                 *)

\* A file that is shown and served has its content, whatever uploads, deletions
\* and recoveries of it and of earlier attempts are under way or failed.
ReadyFilesHaveBlobs ==
  \A i \in FileIds : entries[i].status = "ready" => entries[i].key \in blobs

\* No content is forgotten: a blob belongs to an entry, or an operation that is
\* still to run will delete it.  (A PUT that outlives its heartbeats can land
\* after its operation ran.)
BlobsAreOwned ==
  ~late =>
    \A k \in blobs :
      \/ \E i \in FileIds : entries[i].key = k
      \/ Active(ops, k) /\ ops[k].kind = "upload_cleanup"

\* A name taken by an unfinished upload is given back by an operation.
JournalCoversUploads ==
  \A i \in FileIds : entries[i].status = "uploading" => Active(ops, entries[i].owner)

\* A tree claimed for deletion keeps an operation until it is gone.
JournalCoversDeletions ==
  \A i \in Ids : entries[i].status = "deleting" => Active(ops, entries[i].owner)

\* A deletion that was reported to have succeeded left nothing of its tree.
DeletedMeansGone ==
  \A s \in Handlers :
    slot[s].deleted =>
      \A i \in Ids : ~OwnedAs(entries, i, "deleting", slot[s].attempt)

\* Uploads, moves and new folders never slip under a folder that is being
\* deleted or is gone: what can be used hangs from the root by usable folders.
UsableUnderUsable ==
  \A i \in Ids \ {Root} :
    /\ entries[i].status \in {"ready", "uploading"} => ReadyFolder(entries, entries[i].parent)
    /\ Present(entries, i) => Present(entries, entries[i].parent) /\ Root \in Ancestors(entries, i)

\* A ready entry ends only by a claim of its tree and never under another
\* content, a claimed row is never given back, and metadata outlives the blob.
LifecycleStep ==
  \A i \in Ids :
    LET e == entries[i]
        f == entries'[i]
    IN /\ e.status = "ready" => f.status \in {"ready", "deleting"} /\ f.key = e.key
       /\ e.status = "uploading" =>
            \/ f = e
            \/ f.status = "ready" /\ f.key = e.key
            \/ f = Absent /\ (e.key \notin blobs' \/ late')
       /\ e.status = "deleting" => f = e \/ (f = Absent /\ e.key \notin blobs')

EntryLifecycle == [][LifecycleStep]_vars

-----------------------------------------------------------------------------
(* Liveness.  Handlers run to their end, untouched operations age, and      *)
(* uploads and deletions keep coming, so a reconcile keeps being run.       *)

Fairness ==
  /\ \A s \in Handlers : WF_vars(Step(s))
  /\ \A o \in Attempts : WF_vars(OperationAges(o) /\ faults' = faults)
  /\ SF_vars(\E s \in Handlers : OtherRequest(s, TRUE))

LiveSpec == Spec /\ Fairness

\* Whatever failed, an unfinished upload and a claimed tree do not stay.
LeftoversGo ==
  \A o \in Attempts :
    (\E i \in Ids : entries[i].owner = o) ~> (\A i \in Ids : entries[i].owner # o)
=============================================================================

---------------------------- MODULE StorageTables ----------------------------
(***************************************************************************)
(* The tables behind the native storage of a mount and the SQL statements  *)
(* db.ts runs on them: `entries`, the tree of folders and files, and       *)
(* `storage_recovery_operations`, the journal of work that must not be     *)
(* lost.  E stands for the entries, O for the operations; a statement is a *)
(* guard (its WHERE clause and the constraints of the schema) and the      *)
(* table it leaves.                                                        *)
(*                                                                         *)
(* An attempt is the UUID an upload or a deletion makes up.  It is the     *)
(* owner of the rows it claims, the identity of its operation and, for an  *)
(* upload, the storage key of its blob.                                    *)
(***************************************************************************)
EXTENDS Integers, FiniteSets

CONSTANTS
  Root, FolderIds, FileIds,  \* entry ids; those of files are chosen by clients
  Names, NoName,             \* entry names; the root's is empty
  MaxAttempts,               \* bound on uploads and deletions
  Handlers,                  \* request handlers; they own the recovery claims
  Nobody                     \* claim_owner IS NULL

ASSUME IdsAssumption ==
  Root \notin FolderIds \cup FileIds /\ FolderIds \cap FileIds = {}
ASSUME MaxAttemptsAssumption == MaxAttempts \in Nat \ {0}
ASSUME NobodyAssumption == Nobody \notin Handlers

Folders == {Root} \cup FolderIds
Ids == Folders \cup FileIds

Attempts == 1..MaxAttempts
None == 0  \* NULL in lifecycle_owner and storage_key

Entries ==
  [status : {"absent", "uploading", "ready", "deleting"},
   parent : Folders, name : Names \cup {NoName}, owner : Attempts \cup {None}, key : Attempts \cup {None}]

\* `aged`: updated_at of a held operation is five minutes old, or the claim of a
\* running one has expired.  `wiped` is the payload, the keys already deleted.
Operations ==
  [state : {"absent", "held", "pending", "running", "retry", "completed"},
   kind : {"upload_cleanup", "delete_tree"}, entry : Ids,
   claimer : Handlers \cup {Nobody}, aged : BOOLEAN, wiped : SUBSET Attempts]

Absent == [status |-> "absent", parent |-> Root, name |-> NoName, owner |-> None,
           key |-> None]

-----------------------------------------------------------------------------
(* The tree.                                                               *)

Present(E, i) == E[i].status # "absent"

ReadyFolder(E, i) == i \in Folders /\ E[i].status = "ready"

\* The rows of the recursive query `ancestors`: the least set with i in it that has, with
\* a row, the parent of the row.  All of them but i are folders.
Climbs(E, S) == \A j \in S \ {Root} : E[j].parent \in S

Ancestors(E, i) ==
  LET above == {S \in SUBSET Folders : Climbs(E, S \cup {i})}
  IN {i} \cup {k \in Folders : \A S \in above : k \in S}

KeysOf(E, rows) == {E[i].key : i \in rows \cap FileIds}

\* The rows of the recursive query `descendants`, the root of the tree included.
Tree(E, i) == {j \in Ids : Present(E, j) /\ i \in Ancestors(E, j)}

NameTaken(E, p, n) ==
  \E j \in Ids \ {Root} : Present(E, j) /\ E[j].parent = p /\ E[j].name = n

\* Mutant: the INSERT does not look at the parent again.
CanInsertAnywhere(E, i, p, n) == ~Present(E, i) /\ ~NameTaken(E, p, n)

\* INSERT ... WHERE EXISTS (ready parent), under UNIQUE (id) and (parent, name).
CanInsert(E, i, p, n) == ReadyFolder(E, p) /\ ~Present(E, i) /\ ~NameTaken(E, p, n)

InsertFolder(E, i, p, n) ==
  [E EXCEPT ![i] = [status |-> "ready", parent |-> p, name |-> n, owner |-> None, key |-> None]]

InsertUpload(E, i, p, n, o) ==
  [E EXCEPT ![i] = [status |-> "uploading", parent |-> p, name |-> n, owner |-> o, key |-> o]]

\* What requireMutable reads and the statements that move and rename check again.
Mutable(E, i) == i # Root /\ E[i].status = "ready"

\* UPDATE ... SET parent_id, under the unique name and the trigger against cycles.
CanMove(E, i, p) ==
  /\ Mutable(E, i)
  /\ ReadyFolder(E, p)
  /\ i \notin Ancestors(E, p)
  /\ E[i].parent = p \/ ~NameTaken(E, p, E[i].name)

Moved(E, i, p) == [E EXCEPT ![i].parent = p]

CanRename(E, i, n) == Mutable(E, i) /\ (E[i].name = n \/ ~NameTaken(E, E[i].parent, n))

Renamed(E, i, n) == [E EXCEPT ![i].name = n]

CanFinalize(E, i, o) == E[i].status = "uploading" /\ E[i].owner = o

Finalized(E, i) == [E EXCEPT ![i].status = "ready", ![i].owner = None]

CanClaimTree(E, i) == Tree(E, i) # {} /\ \A j \in Tree(E, i) : E[j].status = "ready"

ClaimedTree(E, i, o) ==
  [j \in Ids |-> IF j \in Tree(E, i)
                 THEN [E[j] EXCEPT !.status = "deleting", !.owner = o] ELSE E[j]]

OwnedAs(E, i, status, o) == E[i].status = status /\ E[i].owner = o

\* DELETE FROM entries WHERE id, status and lifecycle_owner match.
Deleted(E, i, status, o) == IF OwnedAs(E, i, status, o) THEN [E EXCEPT ![i] = Absent] ELSE E

-----------------------------------------------------------------------------
(* The journal.                                                            *)

Active(O, o) == O[o].state \notin {"absent", "completed"}

\* INSERT OR IGNORE, under the unique index on the active (entry_id, operation_kind).
CanEnqueue(O, kind, i) ==
  ~ \E o \in Attempts : Active(O, o) /\ O[o].kind = kind /\ O[o].entry = i

Enqueued(O, o, kind, i, state) ==
  [O EXCEPT ![o] = [state |-> state, kind |-> kind, entry |-> i, claimer |-> Nobody,
                    aged |-> FALSE, wiped |-> {}]]

CanTouch(O, o) == O[o].state = "held"
Touched(O, o) == IF CanTouch(O, o) THEN [O EXCEPT ![o].aged = FALSE] ELSE O

Activated(O, o) ==
  IF O[o].state = "held" THEN [O EXCEPT ![o].state = "pending", ![o].aged = FALSE] ELSE O

\* Mutant: a held operation is up for recovery at once.
RunnableWhileHeld(O, o) ==
  \/ O[o].state \in {"held", "pending", "retry"}
  \/ O[o].state = "running" /\ O[o].aged

\* Mutant: a claim never runs out.
RunnableUnclaimed(O, o) ==
  \/ O[o].state \in {"pending", "retry"}
  \/ O[o].state = "held" /\ O[o].aged

\* What listStorageRecoveryOperations lists and claimStorageRecoveryOperation takes.
Runnable(O, o) ==
  \/ O[o].state \in {"pending", "retry"}
  \/ O[o].state \in {"running", "held"} /\ O[o].aged

Claimed(O, o, who) ==
  [O EXCEPT ![o].state = "running", ![o].claimer = who, ![o].aged = FALSE]

RunBy(O, o, who) == O[o].state = "running" /\ O[o].claimer = who

CanRenew(O, o, who) == RunBy(O, o, who) /\ ~O[o].aged

Wiped(O, o, who, keys) == IF RunBy(O, o, who) THEN [O EXCEPT ![o].wiped = keys] ELSE O

\* completeStorageRecoveryOperation and retryStorageRecoveryOperation.
Finished(O, o, who, state) ==
  IF RunBy(O, o, who)
  THEN [O EXCEPT ![o].state = state, ![o].claimer = Nobody, ![o].aged = FALSE]
  ELSE O
=============================================================================

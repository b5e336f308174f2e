----------------------------- MODULE NativeCopies -----------------------------
(***************************************************************************)
(* copyEntries of file-system.ts, for one entry: a file, or a folder with  *)
(* all it holds, copied row by row and blob by blob while other requests   *)
(* delete, upload and copy.  A copy has no operation in the journal.  When *)
(* it fails, the folders it made are deleted again, from the innermost to  *)
(* the outermost, by the deletion of NativeStorage, whose outcome is       *)
(* ignored.                                                                *)
(***************************************************************************)
EXTENDS NativeStorage, SequencesExt

CONSTANTS
  Shelves,    \* the trees to begin with; the keys of their files are below FirstFree
  FirstFree,
  Copiers,    \* the handlers that copy; the others delete, upload and recover
  Arrivals    \* the requests that come meanwhile: "delete", "upload", "change"

VARIABLES
  copying,  \* the copies that are under way
  leaked    \* history: blobs of copies that do not know what became of them

copyVars == <<copying, leaked>>
allVars == <<vars, copyVars>>

\* A row as a copy has read it.
Row(i) == [id |-> i, name |-> entries[i].name, key |-> entries[i].key]
Rows == [id : Ids, name : Names \cup {NoName}, key : Attempts \cup {None}]

\* A folder that was made, and the children of its source still to be copied.  The
\* first frame is the destination.
Frames == [made : Folders, rest : SUBSET Rows]

NoRow == [id |-> Root, name |-> NoName, key |-> None]
NoCopy == [pc |-> "idle", row |-> NoRow, key |-> None, stack |-> <<>>]

CopySlots ==
  [pc : {"idle", "name", "folder", "list", "get", "put", "file", "unput", "undo"},
   row : Rows, key : Attempts \cup {None}, stack : Seq(Frames)]

CopyTypeOK ==
  /\ TypeOK
  /\ leaked \subseteq Attempts
  /\ copying \in [Handlers -> CopySlots]

\* The shelves hold trees as they are between requests: every row is ready and under a
\* ready folder, and every file has a key of its own, below FirstFree.
ShelvesAreWhole ==
  /\ FirstFree \in 1..(MaxAttempts + 1)
  /\ \A E \in Shelves :
       /\ E \in [Ids -> Entries] /\ E[Root].status = "ready"
       /\ \A i \in Ids :
            \/ E[i] = Absent
            \/ /\ E[i].status = "ready" /\ E[i].owner = None
               /\ E[i].key \in (IF i \in FileIds THEN 1..(FirstFree - 1) ELSE {None})
       /\ \A i, j \in FileIds : E[i].key = E[j].key /\ i # j => E[i].key = None
       /\ \A i \in Ids \ {Root} :
            Present(E, i) => ReadyFolder(E, E[i].parent) /\ Root \in Ancestors(E, i)

\* What is on the shelves was uploaded, and its uploads are completed.
CopyInit ==
  /\ entries \in Shelves
  /\ blobs = {entries[i].key : i \in {j \in FileIds : Present(entries, j)}}
  /\ attempts = FirstFree - 1
  /\ ops = [o \in Attempts |->
              LET rows == {i \in FileIds : entries[i].key = o}
              IN [state |-> IF o < FirstFree THEN "completed" ELSE "absent", kind |-> "upload_cleanup",
                  entry |-> IF rows = {} THEN Root ELSE CHOOSE i \in rows : TRUE,
                  claimer |-> Nobody, aged |-> FALSE, wiped |-> {}]]
  /\ slot = [s \in Handlers |-> Idle]
  /\ faults = MaxFaults
  /\ late = FALSE
  /\ copying = [s \in Handlers |-> NoCopy]
  /\ leaked = {}

-----------------------------------------------------------------------------
(* The ways a step can end.                                                *)

AtCopy(s, pc) == copying[s].pc = pc

Copying(s, pc) == [copying[s] EXCEPT !.pc = pc]
Becomes(s, c) == copying' = [copying EXCEPT ![s] = c]

Parent(s) == Last(copying[s].stack).made

\* The error goes up through the folders that were made.
Failed(s) == Becomes(s, Copying(s, "undo"))

\* A node is copied: the next one, or the copy has succeeded.
Proceed(s, stack) ==
  LET open == {n \in DOMAIN stack : stack[n].rest # {}}
  IN \/ open = {} /\ Becomes(s, NoCopy)
     \/ \E n \in open :
          /\ \A m \in open : m <= n
          /\ \E row \in stack[n].rest :
               Becomes(s, [NoCopy EXCEPT !.pc = "name", !.row = row,
                                         !.stack = Append(SubSeq(stack, 1, n - 1),
                                                          [stack[n] EXCEPT !.rest = @ \ {row}])])

\* The tables and the bucket after a call that answered, and after one that did not.
Answered(E, B) == entries' = E /\ blobs' = B /\ UNCHANGED <<ops, slot, attempts, faults, late>>
Silent(E, B) ==
  /\ Fault
  /\ \/ UNCHANGED <<entries, blobs>>
     \/ entries' = E /\ blobs' = B
  /\ UNCHANGED <<ops, slot, attempts>>

Lost(s) == leaked' = leaked \cup {copying[s].key}

-----------------------------------------------------------------------------
(* copyEntries.                                                            *)

\* The row is read and the destination checked; its INSERT checks that again.
CopyStart(s, i, p) ==
  /\ At(s, "idle") /\ AtCopy(s, "idle")
  /\ i # Root /\ entries[i].status = "ready"
  /\ ReadyFolder(entries, p) /\ i \notin Ancestors(entries, p)
  /\ ~NameTaken(entries, p, entries[i].name)
  /\ Becomes(s, [NoCopy EXCEPT !.pc = "name", !.row = Row(i), !.stack = <<[made |-> p, rest |-> {}]>>])
  /\ UNCHANGED <<vars, leaked>>

\* copyNativeEntryTree: ensureNameAvailable, which throws when the name is taken.
CopyName(s) ==
  /\ AtCopy(s, "name")
  /\ LET row == copying[s].row
         free == ~NameTaken(entries, Parent(s), row.name)
     IN \/ /\ Answered(entries, blobs)
           /\ IF free THEN Becomes(s, Copying(s, IF row.id \in Folders THEN "folder" ELSE "get")) ELSE Failed(s)
        \/ Silent(entries, blobs) /\ Failed(s)
  /\ UNCHANGED leaked

\* A new UUID.
Fresh(i) ==
  /\ ~Present(entries, i)
  /\ \A o \in Attempts : ops[o].entry # i
  /\ \A s \in Handlers : slot[s].id # i

\* The INSERT of a folder is outside of the try: an error leaves to the folder above.
CopyFolder(s) ==
  /\ AtCopy(s, "folder")
  /\ \E i \in {j \in FolderIds : Fresh(j)} :
       LET row == copying[s].row
           hit == CanInsert(entries, i, Parent(s), row.name)
           E == IF hit THEN InsertFolder(entries, i, Parent(s), row.name) ELSE entries
       IN \/ /\ Answered(E, blobs)
             /\ IF hit THEN Becomes(s, [Copying(s, "list") EXCEPT !.stack = Append(@, [made |-> i, rest |-> {}])])
                ELSE Failed(s)
          \/ Silent(E, blobs) /\ Failed(s)
  /\ UNCHANGED leaked

\* listChildRows: those that are ready.
CopyList(s) ==
  /\ AtCopy(s, "list")
  /\ LET c == copying[s]
         children == {Row(j) : j \in {k \in Ids \ {Root} : entries[k].status = "ready" /\ entries[k].parent = c.row.id}}
         n == Len(c.stack)
     IN \/ Answered(entries, blobs) /\ Proceed(s, [c.stack EXCEPT ![n].rest = children])
        \/ Silent(entries, blobs) /\ Failed(s)
  /\ UNCHANGED leaked

CopyGet(s) ==
  /\ AtCopy(s, "get")
  /\ \/ /\ Answered(entries, blobs)
        /\ IF copying[s].row.key \in blobs THEN Becomes(s, Copying(s, "put")) ELSE Failed(s)
     \/ Silent(entries, blobs) /\ Failed(s)
  /\ UNCHANGED leaked

\* The blob gets a key of its own.
CopyPut(s) ==
  /\ AtCopy(s, "put")
  /\ attempts < MaxAttempts
  /\ attempts' = attempts + 1
  /\ \/ /\ blobs' = blobs \cup {attempts + 1}
        /\ Becomes(s, [Copying(s, "file") EXCEPT !.key = attempts + 1])
        /\ UNCHANGED <<faults, late, leaked>>
     \/ /\ Fault
        /\ blobs' \in {blobs, blobs \cup {attempts + 1}}
        /\ leaked' = leaked \cup {attempts + 1}
        /\ Failed(s)
  /\ UNCHANGED <<entries, ops, slot>>

InsertFile(E, i, p, row, k) ==
  [E EXCEPT ![i] = [status |-> "ready", parent |-> p, name |-> row.name, owner |-> None, key |-> k]]

\* Mutant: a refused INSERT is an error like any other, and the blob stays.
CopyFileKeepsBlob(s) ==
  /\ AtCopy(s, "file")
  /\ LET c == copying[s]
         taken == NameTaken(entries, Parent(s), c.row.name)
         refused == ~ReadyFolder(entries, Parent(s))
     IN \/ taken /\ Answered(entries, blobs) /\ Failed(s) /\ Lost(s)
        \/ refused /\ Answered(entries, blobs) /\ Failed(s) /\ UNCHANGED leaked
        \/ \E i \in {j \in FileIds : Fresh(j) /\ CanInsert(entries, j, Parent(s), c.row.name)} :
             LET E == InsertFile(entries, i, Parent(s), c.row, c.key)
             IN \/ Answered(E, blobs) /\ Proceed(s, c.stack) /\ UNCHANGED leaked
                \/ Silent(E, blobs) /\ Failed(s) /\ Lost(s)

\* An INSERT that finds the name taken throws, like one that fails; one that finds
\* the parent gone inserts nothing.
CopyFile(s) ==
  /\ AtCopy(s, "file")
  /\ LET c == copying[s]
         taken == NameTaken(entries, Parent(s), c.row.name)
         refused == ~ReadyFolder(entries, Parent(s))
     IN \/ taken /\ ~refused /\ Answered(entries, blobs) /\ Failed(s) /\ Lost(s)
        \/ refused /\ Answered(entries, blobs) /\ Becomes(s, Copying(s, "unput")) /\ UNCHANGED leaked
        \/ \E i \in {j \in FileIds : Fresh(j) /\ CanInsert(entries, j, Parent(s), c.row.name)} :
             LET E == InsertFile(entries, i, Parent(s), c.row, c.key)
             IN \/ Answered(E, blobs) /\ Proceed(s, c.stack) /\ UNCHANGED leaked
                \/ Silent(E, blobs) /\ Failed(s) /\ Lost(s)

\* Its own failure is swallowed.
CopyUnput(s) ==
  /\ AtCopy(s, "unput")
  /\ \/ Answered(entries, blobs \ {copying[s].key}) /\ UNCHANGED leaked
     \/ Silent(entries, blobs \ {copying[s].key}) /\ Lost(s)
  /\ Failed(s)

\* deleteEntryTrees([newId]), for the innermost folder that was made.
CopyUndo(s) ==
  /\ AtCopy(s, "undo") /\ At(s, "idle")
  /\ LET stack == copying[s].stack
         i == Last(stack).made
     IN IF Len(stack) = 1 THEN Becomes(s, NoCopy) /\ UNCHANGED vars
        ELSE /\ Becomes(s, [Copying(s, "undo") EXCEPT !.stack = Front(@)])
             /\ \/ DeleteStart(s, i)
                \/ entries[i].status # "ready" /\ Answered(entries, blobs)
                \/ Silent(entries, blobs)
  /\ UNCHANGED leaked

CopyEvict(s) ==
  /\ ~AtCopy(s, "idle")
  /\ Becomes(s, NoCopy)
  /\ Evict(s) \/ (At(s, "idle") /\ Silent(entries, blobs))
  /\ IF AtCopy(s, "file") \/ AtCopy(s, "unput") THEN Lost(s) ELSE UNCHANGED leaked

-----------------------------------------------------------------------------

CopyStep(s) ==
  \/ CopyName(s) \/ CopyFolder(s) \/ CopyList(s) \/ CopyGet(s) \/ CopyPut(s) \/ CopyFile(s)
  \/ CopyUnput(s) \/ CopyUndo(s)

\* Another request; a handler that rolls back is one with its deletion.
OtherStart(s) ==
  /\ s \notin Copiers
  /\ \/ "upload" \in Arrivals /\ \E i \in FileIds, p \in Folders, n \in Names : UploadStart(s, i, p, n)
     \/ "delete" \in Arrivals /\ \E i \in Ids \ {Root} : DeleteStart(s, i)
     \/ \E all \in BOOLEAN : OtherRequest(s, all)

CopyNext ==
  \/ \E s \in Handlers :
       \/ s \in Copiers /\ \E i \in Ids, p \in Folders : CopyStart(s, i, p)
       \/ CopyStep(s) \/ CopyEvict(s)
       \/ /\ OtherStart(s) \/ Step(s) \/ (AtCopy(s, "idle") /\ Evict(s))
          /\ UNCHANGED copyVars
  \/ "change" \in Arrivals /\ Mutate /\ UNCHANGED copyVars
  \/ (\E o \in Attempts : OperationAges(o)) /\ UNCHANGED copyVars

CopySpec == CopyInit /\ [][CopyNext]_allVars

-----------------------------------------------------------------------------

\* BlobsAreOwned with copies, which are not in the journal: the content a copy has
\* written belongs to its row, is in the hands of the copy, or is given up by a copy
\* that was cut off or found the name taken (file-system.ts:452).
CopiedBlobsAreOwned ==
  ~late =>
    \A k \in blobs :
      \/ \E i \in FileIds : entries[i].key = k
      \/ Active(ops, k) /\ ops[k].kind = "upload_cleanup"
      \/ \E s \in Handlers : copying[s].key = k /\ (AtCopy(s, "file") \/ AtCopy(s, "unput"))
      \/ k \in leaked

\* A copy puts nothing usable under what is not, shows no file without its content and
\* forgets none.
CopiesAreWhole == ReadyFilesHaveBlobs /\ CopiedBlobsAreOwned /\ UsableUnderUsable
=============================================================================

------------------------------- MODULE S3Files -------------------------------
(***************************************************************************)
(* The files of an S3 mount: drivers/s3/driver.ts as the routes call it    *)
(* (router.ts, external-entries.ts).  There is no table of these files;    *)
(* the tree is the set of keys in the bucket, and every operation is a     *)
(* series of S3 requests, none of which is repeated when it fails.         *)
(*                                                                         *)
(* An action of a handler is one S3 request with the code up to the next.  *)
(* Requests are atomic, and reads see what was written before them.  A     *)
(* listing is one request: a page holds 1000 keys.                         *)
(*                                                                         *)
(* A key is its segments between slashes, so that of a folder ends with an *)
(* empty one: "a/x" is <<"a", "x">> and "a/" is <<"a", "">>.  The key of   *)
(* the mount's root prefix is "".  Left out: encodings, credentials, what  *)
(* a read returns to the browser, and tools that use the bucket directly.  *)
(***************************************************************************)
EXTENDS Naturals, Sequences, FiniteSetsExt, BucketPromises

CONSTANTS
  Handlers,   \* concurrent requests
  Keys,       \* bound on the keys of the bucket
  Marker,     \* what the object of a folder holds
  Stocks,     \* the buckets to begin with
  MaxBatch,   \* bound on the entries of one request
  MaxQuota    \* bound on the requests of the browser and the S3 requests that fail, together

VARIABLES
  task,     \* the handlers
  quota     \* requests and failures left

vars == <<store, fate, task, quota>>

Root == <<"">>
IsFolder(k) == k[Len(k)] = ""
Folders == {k \in Keys : IsFolder(k)} \cup {Root}

\* key.startsWith(prefix), for the key of a folder.
Under(k, prefix) ==
  Len(k) >= Len(prefix) /\ SubSeq(k, 1, Len(prefix) - 1) = SubSeq(prefix, 1, Len(prefix) - 1)

\* The path of a key, without the slash at its end, and that of its folder.
Path(k) == IF IsFolder(k) THEN SubSeq(k, 1, Len(k) - 1) ELSE k
Parent(k) == SubSeq(Path(k), 1, Len(Path(k)) - 1)
Join(folder, name) == Append(SubSeq(folder, 1, Len(folder) - 1), name)

\* The same name, as the same kind of entry, in another folder.
Into(folder, item) ==
  LET file == Join(folder, Path(item)[Len(Path(item))])
  IN IF IsFolder(item) THEN Append(file, "") ELSE file

\* `${target}${key.slice(item.length)}`.
Mapped(k, item, target) ==
  IF IsFolder(item) THEN SubSeq(target, 1, Len(target) - 1) \o SubSeq(k, Len(item), Len(k)) ELSE target

Subtree(item) == IF IsFolder(item) THEN {k \in DOMAIN store : Under(k, item)} ELSE {item} \cap DOMAIN store

-----------------------------------------------------------------------------
(* Handlers.                                                               *)

Jobs == {"create", "rename", "move", "copy", "remove"}
Steps == {"idle", "stat", "check", "put", "list", "copy", "delete"}
Kinds == {"file", "folder"}

Tasks == [job     : Jobs,
          at      : Steps,
          rest    : SUBSET (Keys \cup {Root}), \* the items still to come: entries, or the parent of a new one
          into    : Folders,                   \* the destination of a batch
          item    : Keys \cup {Root},          \* the item at hand
          target  : Keys \cup {Root},          \* the new key
          checks  : SUBSET Kinds,              \* what assertNameAvailable has yet to look for
          sources : SUBSET Keys,               \* the keys to move, copy or delete
          todo    : SUBSET Keys]               \* those the present loop has before it

Idle == [job |-> "create", at |-> "idle", rest |-> {}, into |-> Root, item |-> Root, target |-> Root,
         checks |-> {}, sources |-> {}, todo |-> {}]

Buckets == UNION {[D -> Contents \cup {Marker}] : D \in SUBSET Keys}
Fates == {"none", "kept", "uncertain", "forfeited"}

TypeOK ==
  /\ store \in Buckets
  /\ fate \in [Contents -> Fates]
  /\ task \in [Handlers -> Tasks]
  /\ quota \in 0..MaxQuota

Init ==
  /\ store \in Stocks
  /\ fate = [c \in Contents |-> IF \E k \in DOMAIN store : store[k] = c THEN "kept" ELSE "none"]
  /\ task = [s \in Handlers |-> Idle]
  /\ quota = MaxQuota

Spend == quota > 0 /\ quota' = quota - 1

Go(s, t) == task' = [task EXCEPT ![s] = t]

\* An item is done, well or not: a batch goes on with the next.
Done(s, t) ==
  Go(s, IF t.rest = {} THEN Idle
        ELSE [Idle EXCEPT !.job = t.job, !.at = "stat", !.rest = t.rest, !.into = t.into])

\* The loop over `sources` begins, or there is nothing to do.
Loop(s, t, step, keys) ==
  IF keys = {} THEN Done(s, t)
  ELSE Go(s, [t EXCEPT !.at = step, !.checks = {}, !.sources = keys, !.todo = keys])

Relocates(t) == t.job \in {"rename", "move"}

\* Key k is done with; after the copies a relocation deletes what it has copied.
\* Mutant: it deletes what the source holds by then.
AfterListingAgain(s, k) ==
  IF task[s].todo # {k} THEN Go(s, [task[s] EXCEPT !.todo = @ \ {k}])
  ELSE IF Relocates(task[s]) /\ task[s].at = "copy" THEN Loop(s, task[s], "delete", Subtree(task[s].item))
  ELSE Done(s, task[s])

After(s, k) ==
  IF task[s].todo # {k} THEN Go(s, [task[s] EXCEPT !.todo = @ \ {k}])
  ELSE IF Relocates(task[s]) /\ task[s].at = "copy" THEN Loop(s, task[s], "delete", task[s].sources)
  ELSE Done(s, task[s])

-----------------------------------------------------------------------------
(* The requests of the browser.  Each is for entries it has listed, and   *)
(* keys that stay within Keys.                                             *)

Fits(item, target) ==
  target \in Keys /\ \A k \in Keys : IsFolder(item) /\ Under(k, item) => Mapped(k, item, target) \in Keys

Listed == {k \in Keys : Subtree(k) # {}}
Batches == UNION {kSubset(n, Listed) : n \in 1..MaxBatch}

New(s, keys) ==
  /\ task[s].at = "idle"
  /\ \E parent \in Folders, k \in keys :
       /\ parent = Root \/ parent \in Listed
       /\ Join(parent, Path(k)[Len(Path(k))]) = Path(k)
       /\ Go(s, [Idle EXCEPT !.job = "create", !.at = "stat", !.rest = {parent}, !.target = k])
  /\ Spend
  /\ UNCHANGED <<store, fate>>

CreateFolder(s) == New(s, Keys \cap Folders)

\* PUT files; a resumable upload too looks at the name when it starts, and only then.
UploadFile(s) == New(s, Keys \ Folders)

\* PATCH: a new name in the same folder.
Rename(s) ==
  /\ task[s].at = "idle"
  /\ \E item \in Listed, k \in Keys :
       /\ IsFolder(item) <=> IsFolder(k)
       /\ Path(k) = Join(Append(Parent(item), ""), Path(k)[Len(Path(k))])
       /\ Fits(item, k)
       /\ Go(s, [Idle EXCEPT !.job = "rename", !.at = "stat", !.rest = {item}, !.target = k])
  /\ Spend
  /\ UNCHANGED <<store, fate>>

\* Any entries, into one folder.
Batch(s, job) ==
  /\ task[s].at = "idle"
  /\ \E folder \in Folders, batch \in Batches :
       /\ \A item \in batch : Fits(item, Into(folder, item))
       /\ Go(s, [Idle EXCEPT !.job = job, !.at = "stat", !.rest = batch, !.into = folder])
  /\ Spend
  /\ UNCHANGED <<store, fate>>

Move(s) == Batch(s, "move")
Copy(s) == Batch(s, "copy")

Remove(s) ==
  /\ task[s].at = "idle"
  /\ \E batch \in Batches : Go(s, [Idle EXCEPT !.job = "remove", !.at = "stat", !.rest = batch])
  /\ Spend
  /\ UNCHANGED <<store, fate>>

-----------------------------------------------------------------------------
(* The driver.                                                             *)

\* An entry goes into itself, or a rename or move leads nowhere.
Refused(t) ==
  \/ Relocates(t) /\ t.target = t.item
  \/ t.job \in {"move", "copy"} /\ IsFolder(t.item) /\ Under(t.into, t.item)

\* moveExternalEntries, copyExternalEntries, deleteExternalEntries take their items
\* one by one; resolveExternalEntry, up to the first request of the operation itself.
Stat(s) ==
  /\ task[s].at = "stat"
  /\ \E item \in task[s].rest :
       LET t == [task[s] EXCEPT !.rest = @ \ {item}, !.item = item,
                                !.target = IF task[s].job \in {"move", "copy"} THEN Into(task[s].into, item) ELSE @]
       IN IF (item # Root /\ Subtree(item) = {}) \/ Refused(t) THEN Done(s, t)
          ELSE IF t.job # "remove" THEN Go(s, [t EXCEPT !.at = "check", !.checks = Kinds])
          ELSE IF IsFolder(item) THEN Go(s, [t EXCEPT !.at = "list"])
          ELSE Loop(s, t, "delete", {item})
  /\ UNCHANGED <<store, fate, quota>>

Exists(key) == key \in DOMAIN store

\* Is there a file, or anything in a folder, with the path of the new key?
Taken(path, kind) ==
  IF kind = "file" THEN Exists(path) ELSE \E k \in DOMAIN store : Under(k, Append(path, ""))

\* assertNameAvailable sends both of its requests at once.
AssertNameAvailable(s) ==
  /\ task[s].at = "check"
  /\ \E kind \in task[s].checks :
       LET t == task[s]
       IN IF Taken(Path(t.target), kind) THEN Done(s, t)
          ELSE IF t.checks # {kind} THEN Go(s, [t EXCEPT !.checks = @ \ {kind}])
          ELSE IF t.job = "create" THEN Go(s, [t EXCEPT !.at = "put", !.checks = {}])
          ELSE IF IsFolder(t.item) THEN Go(s, [t EXCEPT !.at = "list", !.checks = {}])
          ELSE Loop(s, t, "copy", {t.item})
  /\ UNCHANGED <<store, fate, quota>>

\* listAllKeys.
ListAllKeys(s) ==
  /\ task[s].at = "list"
  /\ Loop(s, task[s], IF task[s].job = "remove" THEN "delete" ELSE "copy", Subtree(task[s].item))
  /\ UNCHANGED <<store, fate, quota>>

\* S3 lists a folder before what it holds; keys are deleted the longest first.
FirstOf(keys) == {k \in keys : \A j \in keys : IsFolder(j) /\ Under(k, j) => j = k}
LastOf(keys) == {k \in keys : \A j \in keys : IsFolder(k) /\ Under(j, k) => j = k}

\* History: a running relocation deletes what it has copied, whatever was put there since.
Doomed(k) ==
  \E s \in Handlers :
    /\ Relocates(task[s])
    /\ \/ task[s].at = "copy" /\ k \in task[s].sources \ task[s].todo
       \/ task[s].at = "delete" /\ k \in task[s].todo

Written(k, c) == [j \in DOMAIN store \cup {k} |-> IF j = k THEN c ELSE store[j]]
Without(k) == [j \in DOMAIN store \ {k} |-> store[j]]
Becomes(c, what) == [fate EXCEPT ![c] = what]

\* Mutant: the write is unconditional.
VacantToAnyone(k) == TRUE

\* If-None-Match: *.
Vacant(k) == k \notin DOMAIN store

\* The object comes into being; the handler knows (`acknowledged`) or not.
Uploaded(s, acknowledged) ==
  LET k == task[s].target
  IN IF IsFolder(k) THEN store' = Written(k, Marker) /\ UNCHANGED fate
     ELSE \E c \in Contents :
            /\ fate[c] = "none"
            /\ store' = Written(k, c)
            /\ fate' = Becomes(c, IF ~acknowledged THEN "uncertain" ELSE IF Doomed(k) THEN "forfeited" ELSE "kept")

PutObject(s) ==
  /\ task[s].at = "put"
  /\ Done(s, task[s])
  /\ IF Vacant(task[s].target) THEN Uploaded(s, TRUE) ELSE UNCHANGED <<store, fate>>
  /\ UNCHANGED quota

\* A copy of k, which exists.
Copied(s, k) ==
  LET to == Mapped(k, task[s].item, task[s].target)
  IN /\ store' = Written(to, store[k])
     /\ fate' = IF store[k] \in Contents /\ Doomed(to) THEN Becomes(store[k], "forfeited") ELSE fate

Copies(s, k) == k \in DOMAIN store /\ Vacant(Mapped(k, task[s].item, task[s].target))

\* copyWithoutOverwrite; the first copy that fails ends the operation.
CopyObject(s) ==
  /\ task[s].at = "copy"
  /\ \E k \in FirstOf(task[s].todo) :
       IF Copies(s, k) THEN Copied(s, k) /\ After(s, k)
       ELSE Done(s, task[s]) /\ UNCHANGED <<store, fate>>
  /\ UNCHANGED quota

\* What a removal deletes is gone with the user's consent.
Deleted(s, k) ==
  /\ store' = Without(k)
  /\ fate' = IF task[s].job = "remove" /\ k \in DOMAIN store /\ store[k] \in Contents
             THEN Becomes(store[k], "forfeited") ELSE fate

\* Deleting a key that is not there succeeds.
DeleteObject(s) ==
  /\ task[s].at = "delete"
  /\ \E k \in LastOf(task[s].todo) : Deleted(s, k) /\ After(s, k)
  /\ UNCHANGED quota

\* The pending request takes effect, but its answer is lost.
Unanswered(s) ==
  \/ task[s].at = "put" /\ Vacant(task[s].target) /\ Uploaded(s, FALSE)
  \/ task[s].at = "copy" /\ \E k \in FirstOf(task[s].todo) : Copies(s, k) /\ Copied(s, k)
  \/ task[s].at = "delete" /\ \E k \in LastOf(task[s].todo) : Deleted(s, k)

\* The item has failed, or the worker goes away and the rest of the batch with it.
Abandons(s) ==
  \/ Go(s, Idle)
  \/ task[s].at # "stat" /\ Done(s, task[s])
  \/ task[s].at = "stat" /\ \E item \in task[s].rest : Done(s, [task[s] EXCEPT !.rest = @ \ {item}])

\* A request fails, before or after it takes effect.
RequestFails(s) ==
  /\ task[s].at # "idle"
  /\ Spend
  /\ Abandons(s)
  /\ Unanswered(s) \/ UNCHANGED <<store, fate>>

-----------------------------------------------------------------------------

Operate(s) ==
  \/ CreateFolder(s) \/ UploadFile(s) \/ Rename(s) \/ Move(s) \/ Copy(s) \/ Remove(s)
  \/ Stat(s) \/ AssertNameAvailable(s) \/ ListAllKeys(s)
  \/ PutObject(s) \/ CopyObject(s) \/ DeleteObject(s)
  \/ RequestFails(s)

Next == \E s \in Handlers : Operate(s)

Spec == Init /\ [][Next]_vars
=============================================================================

---------------------------- MODULE UploadService ----------------------------
(***************************************************************************)
(* upload-service.ts: concurrent requests against one resumable upload.    *)
(* A request handler is a slot that moves from one await to the next; each *)
(* step is one D1 statement or one provider call, together with the        *)
(* synchronous code that runs on its answer, up to the next await.  Any    *)
(* amount of time may pass between two steps, so leases expire under slow  *)
(* handlers, and handlers that lost their lease keep going.                *)
(*                                                                         *)
(* A step may also meet a fault (from the budget `faults`): the statement  *)
(* or call throws, and it may or may not have taken effect; or the worker  *)
(* is evicted and the handler never runs its next step.                    *)
(***************************************************************************)
EXTENDS UploadAdapters

CONSTANTS
  LeaseTime,     \* PART_CLAIM_DURATION_MS and TERMINAL_CLAIM_DURATION_MS
  MaxTime,       \* bound on the clock
  MaxFaults,     \* bound on lost calls and evictions
  FaultHorizon,  \* no fault later than this
  RowsMayVanish  \* may the owning login session or the mount be deleted?

ASSUME LeaseTimeAssumption == LeaseTime \in Nat \ {0}
ASSUME MaxTimeAssumption == MaxTime \in Nat
ASSUME MaxFaultsAssumption == MaxFaults \in Nat
ASSUME FaultHorizonAssumption == FaultHorizon \in Nat
ASSUME RowsMayVanishAssumption == RowsMayVanish \in BOOLEAN

VARIABLES
  row,     \* the row of the upload session in D1
  slot,    \* the request handlers
  prov,    \* the session at the storage provider
  clock,   \* Date.now()
  faults   \* faults left

vars == <<row, slot, prov, clock, faults>>

\* Which exported function a handler is inside of.  An abort that meets a
\* finished item and a cleanup of one both run completeResumableUpload.
Jobs == {"none", "create", "part", "complete", "abort", "cleanup"}

CreatePcs == {"nInsert", "nUndo"}
PartPcs ==
  {"pDriver", "pClaim", "pClaimed", "pPut", "pRow", "pCas", "pAfter", "pReload", "pRelease"}
CompletePcs == {"cRead", "cClaim", "cClaimed", "cPut", "cPersist", "cReload", "cRelease"}
AbortPcs == {"aClaim", "aReload", "aClaimed", "aPut", "aMark", "aLost", "aGiveBack", "aRelease"}
Pcs == {"idle"} \cup CreatePcs \cup PartPcs \cup CompletePcs \cup AbortPcs

\* What the client was told: "ok", or "already", the 409 UPLOAD_ALREADY_COMPLETED
\* that answers a cancellation.  Every other error promises nothing: "none".
Replies == {"none", "ok", "already"}

Snapshots == [parts : SUBSET Parts, state : ProviderStates, item : BOOLEAN]

NoSnapshot == [parts |-> {}, state |-> [next |-> 0, until |-> 0], item |-> FALSE]

Snapshot(r) == [parts |-> r.parts, state |-> r.state, item |-> r.item]

Results == [state : ProviderStates, item : BOOLEAN]

NoResult == [state |-> NoSnapshot.state, item |-> FALSE]

Handlers == [job : Jobs, pc : Pcs, part : 0..NParts,
             at : Nat,           \* `now`, sampled before the claim
             seen : Snapshots,   \* the record this handler works from
             res : Results,      \* what uploadPart returned
             reply : Replies]

Idle == [job |-> "none", pc |-> "idle", part |-> 0, at |-> 0,
         seen |-> NoSnapshot, res |-> NoResult, reply |-> "none"]

\* claimExpiresAt, completionExpiresAt, terminalExpiresAt.
Exp(h) == h.at + LeaseTime

TypeOK ==
  /\ row \in Rows
  /\ slot \in [Requests -> Handlers]
  /\ prov \in ProviderSessions
  /\ clock \in 0..MaxTime
  /\ faults \in 0..MaxFaults

Init ==
  /\ row = NoRow
  /\ slot = [s \in Requests |-> Idle]
  /\ prov \in {NoSession(k) : k \in Providers}
  /\ clock = 0
  /\ faults = MaxFaults

-----------------------------------------------------------------------------
(* The ways a step can end.                                                *)

Become(s, h) == slot' = [slot EXCEPT ![s] = h]

Goto(s, pc) == [slot[s] EXCEPT !.pc = pc]

\* The response of a handler; the rest of its state is gone.
Answer(s, reply) == [Idle EXCEPT !.job = slot[s].job, !.part = slot[s].part, !.reply = reply]

\* An error response, or the end of a cleanup.
Fail == Idle

\* How completeResumableUpload returns to its caller.
Completed(s) ==
  CASE slot[s].job = "complete" -> Answer(s, "ok")
    [] slot[s].job = "abort"    -> Answer(s, "already")
    [] OTHER                    -> Idle

\* A D1 statement or a SELECT that answered: the row is r, the handler h.
Db(s, r, h) ==
  /\ row' = r
  /\ Become(s, h)
  /\ UNCHANGED <<prov, clock, faults>>

Fault ==
  /\ faults > 0
  /\ clock <= FaultHorizon
  /\ faults' = faults - 1

\* A statement that threw: it took effect (r) or not, the catch leads to h.
DbFault(s, r, h) ==
  /\ Fault
  /\ row' \in {row, r}
  /\ Become(s, h)
  /\ UNCHANGED <<prov, clock>>

\* A provider call that answered.
Call(s, p, h) ==
  /\ prov' = p
  /\ Become(s, h)
  /\ UNCHANGED <<row, clock, faults>>

CallFault(s, p, h) ==
  /\ Fault
  /\ prov' \in {prov, p}
  /\ Become(s, h)
  /\ UNCHANGED <<row, clock>>

At(s, pc) == slot[s].pc = pc

Exists == row.status # "absent"

-----------------------------------------------------------------------------
(* createResumableUpload: the provider session first, then the row.  One   *)
(* session is created; more sessions are more, independent, rows.          *)

CreateStart(s) ==
  /\ At(s, "idle")
  /\ prov.phase = "none"
  /\ LET h == [Idle EXCEPT !.job = "create", !.pc = "nInsert", !.seen.state = FreshState(clock)]
     IN \/ Call(s, Opened(prov, clock), h)
        \/ CallFault(s, Opened(prov, clock), Fail)

CreateInsert(s) ==
  /\ At(s, "nInsert")
  /\ LET st == slot[s].seen.state
         new == NewRow(st, st.until)
     IN \/ Db(s, new, Answer(s, "ok"))
        \/ DbFault(s, new, Goto(s, "nUndo"))

\* bestEffortAbort swallows what the provider answers.
CreateUndo(s) ==
  /\ At(s, "nUndo")
  /\ LET o == Abort(prov, slot[s].seen.state, clock)
     IN Call(s, o.prov, Fail) \/ CallFault(s, o.prov, Fail)

-----------------------------------------------------------------------------
(* uploadResumablePart.                                                    *)

\* A record that answers a request for part n: recorded, and no abort under way.
Recorded(n) ==
  /\ n \in row.parts
  /\ row.status \notin {"absent", "aborted"}
  /\ row.termOp # "abort"

PartStart(s, n) ==
  /\ At(s, "idle")
  /\ LET h == [Idle EXCEPT !.job = "part", !.part = n]
         current == Exists /\ ~IsExpired(row, clock)
     IN \/ current /\ Recorded(n) /\ Db(s, row, [h EXCEPT !.reply = "ok"])
        \/ /\ current /\ ~Recorded(n) /\ row.status = "active"
           /\ Db(s, row, [h EXCEPT !.pc = "pDriver"])
        \/ ~(current /\ (Recorded(n) \/ row.status = "active")) /\ Db(s, row, Fail)

\* sessionDriver, then `now` is sampled for the claim.
PartDriver(s) ==
  /\ At(s, "pDriver")
  /\ \/ Db(s, row, [Goto(s, "pClaim") EXCEPT !.at = clock])
     \/ DbFault(s, row, Fail)

PartClaim(s) ==
  /\ At(s, "pClaim")
  /\ LET hit == ClaimPartWhere(row, slot[s].at)
         r == IF hit THEN ClaimPartSet(row, slot[s].part, Exp(slot[s])) ELSE row
     IN \/ Db(s, r, Goto(s, IF hit THEN "pClaimed" ELSE "pReload"))
        \/ DbFault(s, r, Fail)

\* The claim failed: the part may have been recorded by someone else.
PartReload(s) ==
  /\ At(s, "pReload")
  /\ \/ /\ Recorded(slot[s].part) /\ ~IsExpired(row, slot[s].at)
        /\ Db(s, row, Answer(s, "ok"))
     \/ ~(Recorded(slot[s].part) /\ ~IsExpired(row, slot[s].at)) /\ Db(s, row, Fail)
     \/ DbFault(s, row, Fail)

\* The SELECT behind the claim, whose provider state goes to the provider.
PartClaimed(s) ==
  /\ At(s, "pClaimed")
  /\ \/ Exists /\ Db(s, row, [Goto(s, "pPut") EXCEPT !.seen = Snapshot(row)])
     \/ ~Exists /\ Db(s, row, Fail)
     \/ DbFault(s, row, Fail)

PartPut(s) ==
  /\ At(s, "pPut")
  /\ \E o \in UploadPart(prov, slot[s].seen.state, slot[s].part, clock) :
       \/ /\ o.ok
          /\ Call(s, o.prov, [Goto(s, "pRow") EXCEPT !.seen = NoSnapshot,
                                                     !.res = [state |-> o.state, item |-> o.item]])
       \/ ~o.ok /\ Call(s, o.prov, Goto(s, "pRelease"))
       \/ CallFault(s, o.prov, Goto(s, "pRelease"))

\* recordUploadPart, first half: read the row and decide.
PartRow(s) ==
  /\ At(s, "pRow")
  /\ LET n == slot[s].part
         owns == HoldsPart(row, n, Exp(slot[s]))
     IN \/ owns /\ Db(s, row, [Goto(s, "pCas") EXCEPT !.seen = Snapshot(row)])
        \/ ~owns /\ Recorded(n) /\ Db(s, row, Answer(s, "ok"))
        \/ ~owns /\ ~Recorded(n) /\ Db(s, row, Fail)
        \/ DbFault(s, row, Goto(s, "pRelease"))

\* recordUploadPart, second half: the compare-and-set.
PartCas(s) ==
  /\ At(s, "pCas")
  /\ LET h == slot[s]
         r == IF RecordPartWhere(row, h.part, Exp(h), h.seen)
              THEN RecordPartSet(row, h.part, h.res.state, h.res.item, h.seen)
              ELSE row
     IN \/ Db(s, r, Goto(s, "pAfter"))
        \/ DbFault(s, r, Goto(s, "pRelease"))

\* Mutant: the answer does not look at what the compare-and-set left.
PartAfterBlind(s) ==
  At(s, "pAfter") /\ (Db(s, row, Answer(s, "ok")) \/ DbFault(s, row, Goto(s, "pRelease")))

\* Whether or not the compare-and-set hit, the row it left is read again.
PartAfter(s) ==
  /\ At(s, "pAfter")
  /\ \/ Recorded(slot[s].part) /\ Db(s, row, Answer(s, "ok"))
     \/ ~Recorded(slot[s].part) /\ Db(s, row, Fail)
     \/ DbFault(s, row, Goto(s, "pRelease"))

PartRelease(s) ==
  /\ At(s, "pRelease")
  /\ LET r == IF HoldsPart(row, slot[s].part, Exp(slot[s])) THEN ReleasePartSet(row) ELSE row
     IN Db(s, r, Fail) \/ DbFault(s, r, Fail)

-----------------------------------------------------------------------------
(* completeResumableUpload, for a client, an abort or the cleanup.         *)

CompleteRead(s, job) ==
  LET h == [Idle EXCEPT !.job = job]
      answer == CASE job = "complete" -> [h EXCEPT !.reply = "ok"]
                  [] job = "abort"    -> [h EXCEPT !.reply = "already"]
                  [] OTHER            -> Idle
      proceed == /\ row.status \in {"active", "completing"}
                 /\ row.item \/ ~IsExpired(row, clock)
                 /\ row.parts = Parts
  IN \/ row.status = "completed" /\ Db(s, row, answer)
     \/ proceed /\ Db(s, row, [h EXCEPT !.pc = "cClaim", !.at = clock])
     \/ row.status # "completed" /\ ~proceed /\ Db(s, row, Fail)
     \/ DbFault(s, row, Fail)

CompleteStart(s) == At(s, "idle") /\ CompleteRead(s, "complete")

CompleteEnter(s) == At(s, "cRead") /\ CompleteRead(s, slot[s].job)

CompleteClaim(s) ==
  /\ At(s, "cClaim")
  /\ LET hit == ClaimTerminalWhere(row, "complete", slot[s].at)
         r == IF hit THEN ClaimTerminalSet(row, "complete", s, Exp(slot[s])) ELSE row
     IN \/ Db(s, r, Goto(s, IF hit THEN "cClaimed" ELSE "cReload"))
        \/ DbFault(s, r, Fail)

\* The SELECT behind the claim (a throw leaves the lease to expire), then
\* sessionDriver (a throw releases it).
CompleteClaimed(s) ==
  /\ At(s, "cClaimed")
  /\ \/ Exists /\ Db(s, row, [Goto(s, "cPut") EXCEPT !.seen = Snapshot(row)])
     \/ ~Exists /\ Db(s, row, Fail)
     \/ DbFault(s, row, Fail)
     \/ DbFault(s, row, Goto(s, "cRelease"))

CompletePut(s) ==
  /\ At(s, "cPut")
  /\ LET seen == slot[s].seen
         o == Complete(prov, seen.state, seen.parts, seen.item, clock)
         next(pc) == [Goto(s, pc) EXCEPT !.seen = NoSnapshot]
     IN \/ o.ok /\ Call(s, o.prov, next("cPersist"))
        \/ ~o.ok /\ Call(s, o.prov, next("cRelease"))
        \/ CallFault(s, o.prov, next("cRelease"))

CompletePersist(s) ==
  /\ At(s, "cPersist")
  /\ LET hit == CompleteWhere(row, s, Exp(slot[s]))
         r == IF hit THEN CompleteSet(row) ELSE row
     IN \/ Db(s, r, IF hit THEN Completed(s) ELSE Goto(s, "cReload"))
        \/ DbFault(s, r, Goto(s, "cRelease"))

\* The claim or the persist changed no row: someone else may have completed.
CompleteReload(s) ==
  /\ At(s, "cReload")
  /\ \/ row.status = "completed" /\ Db(s, row, Completed(s))
     \/ row.status # "completed" /\ Db(s, row, Fail)
     \/ DbFault(s, row, Fail)

CompleteRelease(s) ==
  /\ At(s, "cRelease")
  /\ LET r == IF ReleaseTerminalWhere(row, "complete", s, Exp(slot[s]))
              THEN ReleaseTerminalSet(row) ELSE row
     IN Db(s, r, Fail) \/ DbFault(s, r, Fail)

-----------------------------------------------------------------------------
(* abortResumableUpload and cleanupExpiredUploads.                         *)

\* What a cancellation answers to the row it reads: a finished item sends it to
\* `finish`, an unfinished upload to `unfinished`.
AbortVerdict(s, finish, unfinished) ==
  LET open == row.status \in {"active", "completing"}
      told(reply) == [Idle EXCEPT !.job = "abort", !.reply = reply]
  IN \/ row.status = "aborted" /\ Db(s, row, told("ok"))
     \/ row.status = "completed" /\ Db(s, row, told("already"))
     \/ open /\ row.item /\ Db(s, row, finish)
     \/ open /\ ~row.item /\ Db(s, row, unfinished)
     \/ ~Exists /\ Db(s, row, Fail)

AbortStart(s) ==
  /\ At(s, "idle")
  /\ LET h == [Idle EXCEPT !.job = "abort"]
     IN AbortVerdict(s, [h EXCEPT !.pc = "cRead"], [h EXCEPT !.pc = "aClaim", !.at = clock])

\* The cleanup's list, and the item it starts on; it runs inside a create or
\* a list request of any administrator.
CleanupStart(s) ==
  /\ At(s, "idle")
  /\ CleanupCandidate(row, clock)
  /\ LET h == [Idle EXCEPT !.job = "cleanup"]
     IN Db(s, row, IF row.item THEN [h EXCEPT !.pc = "cRead"]
                   ELSE [h EXCEPT !.pc = "aClaim", !.at = clock])

AbortClaim(s) ==
  /\ At(s, "aClaim")
  /\ LET hit == ClaimTerminalWhere(row, "abort", slot[s].at)
         r == IF hit THEN ClaimTerminalSet(row, "abort", s, Exp(slot[s])) ELSE row
     IN \/ hit /\ Db(s, r, Goto(s, "aClaimed"))
        \/ ~hit /\ Db(s, r, IF slot[s].job = "abort" THEN Goto(s, "aReload") ELSE Fail)
        \/ DbFault(s, r, Fail)

AbortReload(s) ==
  /\ At(s, "aReload")
  /\ \/ AbortVerdict(s, [Idle EXCEPT !.job = "abort", !.pc = "cRead"], Fail)
     \/ DbFault(s, row, Fail)

AbortClaimed(s) ==
  /\ At(s, "aClaimed")
  /\ \/ Exists /\ Db(s, row, [Goto(s, "aPut") EXCEPT !.seen = Snapshot(row)])
     \/ ~Exists /\ Db(s, row, Fail)
     \/ DbFault(s, row, Fail)
     \/ DbFault(s, row, Goto(s, "aRelease"))

AbortPut(s) ==
  /\ At(s, "aPut")
  /\ LET o == Abort(prov, slot[s].seen.state, clock)
         next(pc) == [Goto(s, pc) EXCEPT !.seen = NoSnapshot]
     IN \/ o.ok /\ Call(s, o.prov, next("aMark"))
        \/ ~o.ok /\ Call(s, o.prov, next("aRelease"))
        \/ CallFault(s, o.prov, next("aRelease"))

AbortMark(s) ==
  /\ At(s, "aMark")
  /\ LET hit == MarkAbortedWhere(row, s, Exp(slot[s]))
         r == IF hit THEN MarkAbortedSet(row) ELSE row
         client == slot[s].job = "abort"
     IN \/ hit /\ Db(s, r, IF client THEN Answer(s, "ok") ELSE Idle)
        \/ ~hit /\ Db(s, r, Goto(s, IF client THEN "aLost" ELSE "aRelease"))
        \/ DbFault(s, r, Goto(s, "aRelease"))

AbortLost(s) ==
  /\ At(s, "aLost")
  /\ \/ AbortVerdict(s, Goto(s, "aGiveBack"), Fail)
     \/ DbFault(s, row, Fail)

\* The exact-token release, before the completion (aGiveBack) or the error.
AbortRelease(s) ==
  /\ slot[s].pc \in {"aGiveBack", "aRelease"}
  /\ LET r == IF ReleaseTerminalWhere(row, "abort", s, Exp(slot[s]))
              THEN ReleaseTerminalSet(row) ELSE row
         h == IF At(s, "aGiveBack") THEN [Idle EXCEPT !.job = "abort", !.pc = "cRead"] ELSE Fail
     IN Db(s, r, h) \/ DbFault(s, r, h)

-----------------------------------------------------------------------------
(* The environment.                                                        *)

\* The worker is evicted, or the client's disconnect cancels it.
Evict(s) ==
  /\ ~At(s, "idle")
  /\ Fault
  /\ Become(s, Idle)
  /\ UNCHANGED <<row, prov, clock>>

\* Logout, expiry of the login session or deletion of the mount: the foreign
\* keys of upload_sessions cascade.
RowVanishes ==
  /\ RowsMayVanish
  /\ Exists
  /\ row' = NoRow
  /\ UNCHANGED <<slot, prov, clock, faults>>

ProviderExpires ==
  /\ prov.phase = "open"
  /\ prov.until <= clock
  /\ prov' = Closed(prov)
  /\ UNCHANGED <<row, slot, clock, faults>>

Tick ==
  /\ clock < MaxTime
  /\ clock' = clock + 1
  /\ UNCHANGED <<row, slot, prov, faults>>

-----------------------------------------------------------------------------

Start(s) ==
  \/ CreateStart(s)
  \/ \E n \in Parts : PartStart(s, n)
  \/ CompleteStart(s)
  \/ AbortStart(s)
  \/ CleanupStart(s)

CreateStep(s) == CreateInsert(s) \/ CreateUndo(s)

PartStep(s) ==
  \/ PartDriver(s) \/ PartClaim(s) \/ PartReload(s) \/ PartClaimed(s) \/ PartPut(s)
  \/ PartRow(s) \/ PartCas(s) \/ PartAfter(s) \/ PartRelease(s)

CompleteStep(s) ==
  \/ CompleteEnter(s) \/ CompleteClaim(s) \/ CompleteClaimed(s) \/ CompletePut(s)
  \/ CompletePersist(s) \/ CompleteReload(s) \/ CompleteRelease(s)

AbortStep(s) ==
  \/ AbortClaim(s) \/ AbortReload(s) \/ AbortClaimed(s) \/ AbortPut(s) \/ AbortMark(s)
  \/ AbortLost(s) \/ AbortRelease(s)

Step(s) == CreateStep(s) \/ PartStep(s) \/ CompleteStep(s) \/ AbortStep(s)

Next ==
  \/ \E s \in Requests : Start(s) \/ Step(s) \/ Evict(s)
  \/ RowVanishes \/ ProviderExpires \/ Tick

Spec == Init /\ [][Next]_vars

-----------------------------------------------------------------------------
(* Safety.                                                                 *)

\* Every row D1 ever holds passes assertStoredRow, so no reader throws on it.
RowAlwaysReadable == StoredRowIsValid(row)

\* What a client was told stays true: an acknowledged part stays recorded, an
\* acknowledged completion and a 409 UPLOAD_ALREADY_COMPLETED mean a completed
\* row, an acknowledged cancellation an aborted one (or the row is gone).
RepliesStayTrue ==
  \A s \in Requests :
    LET h == slot[s]
    IN Exists =>
         /\ h.job = "part" /\ h.reply = "ok" => h.part \in row.parts
         /\ h.job = "complete" /\ h.reply = "ok" => row.status = "completed"
         /\ h.reply = "already" => row.status = "completed"
         /\ h.job = "abort" /\ h.reply = "ok" => row.status = "aborted"

\* A recorded part is a part the provider has, so a completion never assembles
\* a file from parts that were lost on the way.
RecordedPartsHeld == row.parts \subseteq prov.parts

\* A finished item in the row, and a fortiori a completed row, stands for a
\* committed object with every part.
ItemMeansFile == row.item => prov.file /\ prov.parts = Parts

\* While a terminal lease is in force, the handler that took it owns the row:
\* nobody else can claim a part, complete, cancel or release under it.
InTerminal == {"cClaimed", "cPut", "cPersist", "aClaimed", "aPut", "aMark"}
TerminalOp(pc) == IF pc \in CompletePcs THEN "complete" ELSE "abort"
TerminalLeaseIsExclusive ==
  \A s \in Requests :
    slot[s].pc \in InTerminal /\ Exp(slot[s]) > clock /\ Exists =>
      HoldsTerminal(row, TerminalOp(slot[s].pc), s, Exp(slot[s]))

\* As long as no call was lost, a part lease in force is exclusive too.  After
\* a lost call it need not be: the lease has no owner, only a part number and
\* an expiry, and a handler that releases twice can release the lease of a
\* later handler that sampled the same clock value for the same part.
InPart == {"pClaimed", "pPut", "pRow", "pCas"}
PartLeaseIsExclusive ==
  faults = MaxFaults =>
    \A s \in Requests :
      slot[s].pc \in InPart /\ Exp(slot[s]) > clock /\ Exists =>
        HoldsPart(row, slot[s].part, Exp(slot[s]))

\* Completed and aborted are final, a finished item is never forgotten or
\* cancelled, and recorded parts are never dropped, unless the row goes.
RowOnlyAdvances ==
  [][row'.status # "absent" /\ Exists =>
       /\ row.parts \subseteq row'.parts
       /\ row.item => row'.item /\ row'.status # "aborted"
       /\ row.status = "completed" => row'.status = "completed"
       /\ row.status = "aborted" => row' = row]_row

-----------------------------------------------------------------------------
(* Liveness.  A handler that is not evicted runs to its end and time        *)
(* passes; the cleanup keeps being run, since every create and list request *)
(* runs it; the client keeps retrying parts.  The last two are strong       *)
(* fairness because the model has few slots, where the runtime always has a *)
(* free handler.  Faults are finite (MaxFaults), as is time (MaxTime).      *)

Fairness ==
  /\ \A s \in Requests : WF_vars(Step(s))
  /\ WF_vars(Tick)
  /\ WF_vars(ProviderExpires)
  /\ SF_vars(\E s \in Requests : CleanupStart(s))

ClientRetries == \A n \in Parts : SF_vars(\E s \in Requests : PartStart(s, n))

LiveSpec == Spec /\ Fairness /\ ClientRetries

\* A session whose time is up is closed by the cleanup, whatever was lost.
ExpiredSessionsGetClosed ==
  Exists /\ row.expiresAt + LeaseTime <= MaxTime
    ~> row.status \in {"absent", "completed", "aborted"}

\* While the provider session lives, a part that is retried gets recorded,
\* unless the upload ends.  Sessions that outlive the modelled time count.
RetriedPartsGetRecorded ==
  \A n \in Parts :
    LET open == row.status = "active" /\ prov.phase = "open" /\ row.expiresAt > MaxTime
    IN open /\ n \notin row.parts ~> ~open \/ n \in row.parts
=============================================================================

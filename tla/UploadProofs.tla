---------------------------- MODULE UploadProofs ----------------------------
(***************************************************************************)
(* Type correctness and safety of UploadService, and that it implements    *)
(* UploadSession, for every number of parts, every set of concurrent       *)
(* handlers, every provider, every lease time and every fault budget.      *)
(*                                                                         *)
(* The first part is the types of statements, adapters and handlers.  The  *)
(* second part looks at a step twice: Statement(s) is all that a handler   *)
(* can do to the row, whichever action it takes, and the invariants about  *)
(* the row alone follow from it; the invariants that relate a handler to   *)
(* the row need one more fact per action about the handler.  The third     *)
(* part is about the lease of a part: where a handler that works under one *)
(* came from (Arrives), and why nobody takes it away while no call was     *)
(* lost.  The last part is the refinement: on the side of the row it needs *)
(* that nobody starts to complete a session with a part missing; on the    *)
(* side of the answers that a handler which tells its client something has *)
(* just read the row; on the side of the provider that a handler records   *)
(* only what it got from it, in order.                                     *)
(***************************************************************************)
EXTENDS UploadRefinement, TLAPS

-----------------------------------------------------------------------------
(* The statements keep the type of a row.                                  *)

\* There is a first part; 0, the NULL of partNo, is a legal part number of a row.
LEMMA NPartsPositive == NParts \in Nat /\ 1 <= NParts /\ 0 \in 0..NParts /\ Parts \subseteq 0..NParts
BY NPartsAssumption DEF Parts

\* The INSERT of createUploadSessionRecord makes a row of the table.
LEMMA NewRowTypes == NoRow \in Rows /\ \A st \in ProviderStates, x \in Nat : NewRow(st, x) \in Rows
<1>1. \A st \in ProviderStates, x \in Nat : NewRow(st, x) \in Rows
  BY NPartsPositive DEF NewRow, Rows, Parts, Statuses, TerminalOps, ProviderStates
<1>2. [next |-> 0, until |-> 0] \in ProviderStates
  BY NPartsPositive DEF ProviderStates
<1>3. NewRow([next |-> 0, until |-> 0], 0) \in Rows
  BY <1>1, <1>2
<1>4. NoRow \in Rows
  BY <1>3 DEF NoRow, Rows, Parts, Statuses, TerminalOps, ProviderStates
<1> QED BY <1>1, <1>4

\* Every UPDATE of upload-session-store.ts leaves a row of the table.
LEMMA StatementTypes ==
  ASSUME NEW r \in Rows
  PROVE  /\ \A n \in Parts, e \in Nat : ClaimPartSet(r, n, e) \in Rows
         /\ \A n \in Parts, st \in ProviderStates, b \in BOOLEAN, seen \in Snapshots :
              RecordPartSet(r, n, st, b, seen) \in Rows
         /\ ReleasePartSet(r) \in Rows
         /\ \A op \in TerminalOps, who \in Requests, e \in Nat :
              ClaimTerminalSet(r, op, who, e) \in Rows
         /\ CompleteSet(r) \in Rows
         /\ MarkAbortedSet(r) \in Rows
         /\ ReleaseTerminalSet(r) \in Rows
<1>1. \A n \in Parts, e \in Nat : ClaimPartSet(r, n, e) \in Rows
  BY NPartsPositive
     DEF ClaimPartSet, WithoutTerminalClaim, Rows, Parts, Statuses, TerminalOps, ProviderStates
<1>2. ReleasePartSet(r) \in Rows
  BY NPartsPositive
     DEF ReleasePartSet, WithoutPartClaim, Rows, Parts, Statuses, TerminalOps, ProviderStates
<1>3. ASSUME NEW n \in Parts, NEW st \in ProviderStates, NEW b \in BOOLEAN, NEW seen \in Snapshots
      PROVE  RecordPartSet(r, n, st, b, seen) \in Rows
  <2>1. seen.parts \cup {n} \in SUBSET Parts /\ (seen.item \/ b) \in BOOLEAN
    BY DEF Snapshots
  <2>2. WithoutPartClaim(r) \in Rows
    BY NPartsPositive DEF WithoutPartClaim, Rows, Parts
  <2> DEFINE q  == WithoutPartClaim(r)
             ps == seen.parts \cup {n}
             i  == seen.item \/ b
  <2>3. RecordPartSet(r, n, st, b, seen) = [q EXCEPT !.parts = ps, !.state = st, !.item = i]
    BY DEF RecordPartSet
  <2>4. q \in Rows /\ ps \in SUBSET Parts /\ i \in BOOLEAN
    BY <2>1, <2>2
  <2> HIDE DEF q, ps, i
  <2>5. [q EXCEPT !.parts = ps, !.state = st, !.item = i] \in Rows
    BY <2>4 DEF Rows
  <2> QED BY <2>3, <2>5
<1>4. \A op \in TerminalOps, who \in Requests, e \in Nat : ClaimTerminalSet(r, op, who, e) \in Rows
  <2>1. WithoutPartClaim(r) \in Rows
    BY NPartsPositive DEF WithoutPartClaim, Rows, Parts
  <2> DEFINE q == WithoutPartClaim(r)
  <2>2. ASSUME NEW op \in TerminalOps, NEW who \in Requests, NEW e \in Nat
        PROVE  ClaimTerminalSet(r, op, who, e) \in Rows
    <3> DEFINE st == IF op = "complete" THEN "completing" ELSE "active"
    <3>1. ClaimTerminalSet(r, op, who, e) =
            [q EXCEPT !.status = st, !.termOp = op, !.owner = who, !.termExp = e]
      BY DEF ClaimTerminalSet
    <3>2. q \in Rows /\ st \in Statuses
      BY <2>1 DEF Statuses
    <3>3. op \in TerminalOps \cup {"none"} /\ who \in Requests \cup {NoOwner}
      OBVIOUS
    <3> HIDE DEF q, st
    <3>4. [q EXCEPT !.status = st, !.termOp = op, !.owner = who, !.termExp = e] \in Rows
      BY <3>2, <3>3 DEF Rows
    <3> QED BY <3>1, <3>4
  <2> QED BY <2>2
<1>5. CompleteSet(r) \in Rows /\ MarkAbortedSet(r) \in Rows /\ ReleaseTerminalSet(r) \in Rows
  <2>1. \A q \in Rows : WithoutTerminalClaim(q) \in Rows
    BY DEF WithoutTerminalClaim, Rows
  <2>2. \A q \in Rows : WithoutPartClaim(q) \in Rows
    BY NPartsPositive DEF WithoutPartClaim, Rows, Parts
  <2>3. \A q \in Rows, st \in Statuses, b \in BOOLEAN :
          [q EXCEPT !.status = st] \in Rows /\ [q EXCEPT !.status = st, !.item = b] \in Rows
    BY DEF Rows
  <2>4. {"active", "completed", "aborted"} \subseteq Statuses
    BY DEF Statuses
  <2> QED BY <2>1, <2>2, <2>3, <2>4 DEF CompleteSet, MarkAbortedSet, ReleaseTerminalSet
<1> QED BY <1>1, <1>2, <1>3, <1>4, <1>5

(* The adapters return outcomes.                                           *)
\* uploadPart of each of the four drivers returns an outcome.
LEMMA UploadPartTypes ==
  ASSUME NEW p \in ProviderSessions, NEW st \in ProviderStates, NEW n \in Parts,
         NEW now \in Nat
  PROVE  UploadPart(p, st, n, now) \subseteq Outcomes
<1>1. p.kind \in {"s3", "onedrive", "google", "dropbox"}
  BY ProvidersAssumption DEF ProviderSessions
<1>2. /\ Threw(p, st) \in Outcomes
      /\ \A q \in ProviderSessions, t \in ProviderStates, i \in BOOLEAN : Returned(q, t, i) \in Outcomes
  BY DEF Threw, Returned, Outcomes
<1>3. Received(p, n) \in ProviderSessions
  <2>1. p.parts \cup {n} \in SUBSET Parts
    BY DEF ProviderSessions
  <2> QED BY <2>1 DEF Received, ProviderSessions
<1>4. \A q \in ProviderSessions : Committed(q) \in ProviderSessions /\ Closed(q) \in ProviderSessions
  BY DEF Committed, Closed, ProviderSessions
<1>5. [st EXCEPT !.next = n] \in ProviderStates
  BY NPartsPositive DEF ProviderStates, Parts
<1>6. ASSUME NEW e \in Extensions
      PROVE  /\ [Received(p, n) EXCEPT !.until = p.until + e] \in ProviderSessions
             /\ [st EXCEPT !.until = p.until + e] \in ProviderStates
  <2>1. p.until + e \in Nat
    BY ExtensionsAssumption DEF ProviderSessions
  <2> QED BY <1>3, <2>1 DEF ProviderSessions, ProviderStates
<1>7. UploadPart(p, st, n, now) \subseteq Outcomes
  <2>1. S3UploadPart(p, st, n) \subseteq Outcomes
    BY <1>2, <1>3 DEF S3UploadPart
  <2>2. OneDriveUploadPart(p, st, n, now) \subseteq Outcomes
    BY <1>2, <1>3, <1>4, <1>6 DEF OneDriveUploadPart, OneDriveFragment
  <2>3. GoogleUploadPart(p, st, n, now) \subseteq Outcomes
    BY <1>2, <1>3, <1>4, <1>5 DEF GoogleUploadPart
  <2>4. DropboxUploadPart(p, st, n, now) \subseteq Outcomes
    BY <1>2, <1>3, <1>5 DEF DropboxUploadPart
  <2> QED BY <1>1, <2>1, <2>2, <2>3, <2>4 DEF UploadPart
<1> QED BY <1>7

\* complete and abort of each of the four drivers return outcomes.
LEMMA AdapterTypes ==
  ASSUME NEW p \in ProviderSessions, NEW now \in Nat
  PROVE  /\ \A st \in ProviderStates, parts \in SUBSET Parts, b \in BOOLEAN :
              Complete(p, st, parts, b, now) \in Outcomes
         /\ \A st \in ProviderStates : Abort(p, st, now) \in Outcomes
         /\ Opened(p, now) \in ProviderSessions
         /\ Closed(p) \in ProviderSessions
         /\ FreshState(now) \in ProviderStates
<1>1. p.kind \in {"s3", "onedrive", "google", "dropbox"}
  BY ProvidersAssumption DEF ProviderSessions
<1>2. \A q \in ProviderSessions, t \in ProviderStates, i \in BOOLEAN :
        Threw(q, t) \in Outcomes /\ Returned(q, t, i) \in Outcomes
  BY DEF Threw, Returned, Outcomes
<1>3. Committed(p) \in ProviderSessions /\ Closed(p) \in ProviderSessions
  BY DEF Committed, Closed, ProviderSessions
<1>4. ASSUME NEW st \in ProviderStates, NEW parts \in SUBSET Parts, NEW b \in BOOLEAN
      PROVE  Complete(p, st, parts, b, now) \in Outcomes
  <2>1. S3Complete(p, st, parts) \in Outcomes
    BY <1>2, <1>3 DEF S3Complete, S3Assembles
  <2>2. StoredItemComplete(p, st, b) \in Outcomes
    BY <1>2 DEF StoredItemComplete
  <2>3. DropboxComplete(p, st, now) \in Outcomes
    BY <1>2, <1>3 DEF DropboxComplete
  <2> QED BY <1>1, <2>1, <2>2, <2>3 DEF Complete
<1>5. \A st \in ProviderStates : Abort(p, st, now) \in Outcomes
  BY <1>1, <1>2, <1>3 DEF Abort, S3Abort, LiveAbort, DropboxClose
<1>6. Opened(p, now) \in ProviderSessions
  <2>1. now + SessionTTL \in Nat
    BY SessionTTLAssumption
  <2> QED BY <2>1 DEF Opened, ProviderSessions
<1>7. FreshState(now) \in ProviderStates
  BY SessionTTLAssumption, NPartsPositive DEF FreshState, ProviderStates
<1> QED BY <1>3, <1>4, <1>5, <1>6, <1>7

-----------------------------------------------------------------------------
(* Handlers.  TypeOK alone is not inductive: that uploadPart is called     *)
(* with the number of a part is a fact about handlers, not a type.         *)

NumberedHandlers == {h \in Handlers : h.pc \in PartPcs => h.part \in Parts}

TypeInv == TypeOK /\ slot \in [Requests -> NumberedHandlers]

OtherPcs == {"idle"} \cup CreatePcs \cup CompletePcs \cup AbortPcs

\* Every field of a handler may be given a value of its type.
LEMMA HandlerFields ==
  ASSUME NEW h \in NumberedHandlers
  PROVE  /\ \A x \in Jobs : [h EXCEPT !.job = x] \in NumberedHandlers
         /\ \A x \in OtherPcs : [h EXCEPT !.pc = x] \in NumberedHandlers
         /\ h.pc \in PartPcs => \A x \in Pcs : [h EXCEPT !.pc = x] \in NumberedHandlers
         /\ \A x \in Parts, y \in PartPcs : [h EXCEPT !.part = x, !.pc = y] \in NumberedHandlers
         /\ \A x \in Parts : [h EXCEPT !.part = x] \in NumberedHandlers
         /\ \A x \in Nat : [h EXCEPT !.at = x] \in NumberedHandlers
         /\ \A x \in Snapshots : [h EXCEPT !.seen = x] \in NumberedHandlers
         /\ \A x \in Results : [h EXCEPT !.res = x] \in NumberedHandlers
         /\ \A x \in Replies : [h EXCEPT !.reply = x] \in NumberedHandlers
<1>1. h \in Handlers /\ OtherPcs \subseteq Pcs /\ PartPcs \subseteq Pcs /\ Parts \subseteq 0..NParts
  BY NPartsPositive DEF NumberedHandlers, OtherPcs, Pcs
<1>2. OtherPcs \cap PartPcs = {}
  BY DEF OtherPcs, PartPcs, CreatePcs, CompletePcs, AbortPcs
<1>3. \A x \in OtherPcs : [h EXCEPT !.pc = x] \in NumberedHandlers
  BY <1>1, <1>2 DEF NumberedHandlers, Handlers
<1>4. h.pc \in PartPcs => \A x \in Pcs : [h EXCEPT !.pc = x] \in NumberedHandlers
  BY <1>1 DEF NumberedHandlers, Handlers
<1>5. \A x \in Parts, y \in PartPcs : [h EXCEPT !.part = x, !.pc = y] \in NumberedHandlers
  BY <1>1 DEF NumberedHandlers, Handlers
<1>6. \A x \in Jobs : [h EXCEPT !.job = x] \in NumberedHandlers
  BY DEF NumberedHandlers, Handlers
<1>7. \A x \in Parts : [h EXCEPT !.part = x] \in NumberedHandlers
  BY <1>1 DEF NumberedHandlers, Handlers
<1>8. /\ \A x \in Nat : [h EXCEPT !.at = x] \in NumberedHandlers
      /\ \A x \in Snapshots : [h EXCEPT !.seen = x] \in NumberedHandlers
      /\ \A x \in Results : [h EXCEPT !.res = x] \in NumberedHandlers
      /\ \A x \in Replies : [h EXCEPT !.reply = x] \in NumberedHandlers
  BY DEF NumberedHandlers, Handlers
<1> QED BY <1>3, <1>4, <1>5, <1>6, <1>7, <1>8

\* A handler that works on nothing is a handler.
LEMMA NothingTypes ==
  /\ NoSnapshot \in Snapshots /\ NoResult \in Results
  /\ Idle \in NumberedHandlers /\ Fail \in NumberedHandlers
<1>1. [next |-> 0, until |-> 0] \in ProviderStates
  BY NPartsPositive DEF ProviderStates
<1>2. NoSnapshot \in Snapshots
  BY <1>1 DEF NoSnapshot, Snapshots
<1>3. NoResult \in Results
  BY <1>1 DEF NoResult, NoSnapshot, Results
<1>4. Idle \in Handlers
  BY <1>2, <1>3, NPartsPositive DEF Idle, Handlers, Jobs, Pcs, Replies
<1>5. Idle.pc \notin PartPcs
  BY DEF Idle, PartPcs
<1> QED BY <1>2, <1>3, <1>4, <1>5 DEF Fail, NumberedHandlers

\* What a step reads is of its type.
LEMMA ArgumentTypes ==
  ASSUME TypeInv, NEW s \in Requests
  PROVE  /\ slot[s] \in NumberedHandlers
         /\ slot[s].pc \in PartPcs => slot[s].part \in Parts
         /\ slot[s].job \in Jobs /\ slot[s].part \in 0..NParts
         /\ slot[s].at \in Nat /\ Exp(slot[s]) \in Nat \ {0}
         /\ slot[s].seen \in Snapshots
         /\ slot[s].seen.state \in ProviderStates /\ slot[s].seen.state.until \in Nat
         /\ slot[s].seen.parts \in SUBSET Parts /\ slot[s].seen.item \in BOOLEAN
         /\ slot[s].res.state \in ProviderStates /\ slot[s].res.item \in BOOLEAN
         /\ row \in Rows /\ prov \in ProviderSessions /\ clock \in Nat
         /\ Snapshot(row) \in Snapshots
<1>1. slot[s] \in NumberedHandlers /\ slot[s] \in Handlers
  BY DEF TypeInv, NumberedHandlers
<1>2. row \in Rows /\ prov \in ProviderSessions /\ clock \in Nat
  BY MaxTimeAssumption DEF TypeInv, TypeOK
<1>3. slot[s].seen \in Snapshots /\ slot[s].res \in Results
  BY <1>1 DEF Handlers
<1>4. slot[s].at \in Nat /\ Exp(slot[s]) \in Nat \ {0}
  BY <1>1, LeaseTimeAssumption DEF Handlers, Exp
<1>5. slot[s].job \in Jobs /\ slot[s].part \in 0..NParts
  BY <1>1 DEF Handlers
<1>6. slot[s].pc \in PartPcs => slot[s].part \in Parts
  BY <1>1 DEF NumberedHandlers
<1>7. /\ slot[s].seen.state \in ProviderStates /\ slot[s].seen.state.until \in Nat
      /\ slot[s].seen.parts \in SUBSET Parts /\ slot[s].seen.item \in BOOLEAN
  BY <1>3 DEF Snapshots, ProviderStates
<1>8. slot[s].res.state \in ProviderStates /\ slot[s].res.item \in BOOLEAN
  BY <1>3 DEF Results
<1>9. Snapshot(row) \in Snapshots
  BY <1>2 DEF Snapshot, Snapshots, Rows
<1> QED BY <1>1, <1>2, <1>3, <1>4, <1>5, <1>6, <1>7, <1>8, <1>9

\* The ways a handler goes on.
LEMMA EndTypes ==
  ASSUME TypeInv, NEW s \in Requests
  PROVE  /\ \A pc \in OtherPcs : Goto(s, pc) \in NumberedHandlers
         /\ slot[s].pc \in PartPcs => \A pc \in PartPcs : Goto(s, pc) \in NumberedHandlers
         /\ \A reply \in Replies : Answer(s, reply) \in NumberedHandlers
         /\ Completed(s) \in NumberedHandlers
<1>1. slot[s] \in NumberedHandlers /\ slot[s].job \in Jobs /\ slot[s].part \in 0..NParts
  BY ArgumentTypes
<1>2. \A pc \in OtherPcs : Goto(s, pc) \in NumberedHandlers
  BY <1>1, HandlerFields DEF Goto
<1>3. slot[s].pc \in PartPcs => \A pc \in PartPcs : Goto(s, pc) \in NumberedHandlers
  <2>1. PartPcs \subseteq Pcs
    BY DEF Pcs
  <2> QED BY <1>1, <2>1, HandlerFields DEF Goto
<1>4. \A reply \in Replies : Answer(s, reply) \in NumberedHandlers
  <2>1. Idle \in Handlers /\ Idle.pc \notin PartPcs
    BY NothingTypes DEF NumberedHandlers, Idle, PartPcs
  <2> QED BY <1>1, <2>1 DEF Answer, NumberedHandlers, Handlers
<1>5. Completed(s) \in NumberedHandlers
  BY <1>4, NothingTypes DEF Completed, Replies
<1> QED BY <1>2, <1>3, <1>4, <1>5

\* The ways a step ends.
LEMMA StepTypes ==
  ASSUME TypeInv, NEW s \in Requests, NEW r \in Rows, NEW p \in ProviderSessions,
         NEW h \in NumberedHandlers,
         Db(s, r, h) \/ DbFault(s, r, h) \/ Call(s, p, h) \/ CallFault(s, p, h)
  PROVE  TypeInv'
<1>1. slot' \in [Requests -> NumberedHandlers] /\ slot' \in [Requests -> Handlers]
  BY DEF TypeInv, TypeOK, NumberedHandlers, Db, DbFault, Call, CallFault, Become
<1>2. row' \in Rows /\ prov' \in ProviderSessions /\ clock' \in 0..MaxTime
  BY DEF TypeInv, TypeOK, Db, DbFault, Call, CallFault
<1>3. faults' \in 0..MaxFaults
  BY MaxFaultsAssumption DEF TypeInv, TypeOK, Db, DbFault, Call, CallFault, Fault
<1> QED BY <1>1, <1>2, <1>3 DEF TypeInv, TypeOK

\* A statement that writes a row of the table keeps the types.
LEMMA DbTypes ==
  ASSUME TypeInv, NEW s \in Requests, NEW r \in Rows, NEW h \in NumberedHandlers,
         Db(s, r, h) \/ DbFault(s, r, h)
  PROVE  TypeInv'
BY StepTypes, ArgumentTypes

\* A provider call that ends in a legal provider session keeps the types.
LEMMA CallTypes ==
  ASSUME TypeInv, NEW s \in Requests, NEW p \in ProviderSessions, NEW h \in NumberedHandlers,
         Call(s, p, h) \/ CallFault(s, p, h)
  PROVE  TypeInv'
BY StepTypes, ArgumentTypes

-----------------------------------------------------------------------------
(* Type correctness: one step per action.                                  *)

\* The steps of createResumableUpload keep the types.
LEMMA CreateTypes ==
  ASSUME TypeInv, NEW s \in Requests, CreateStart(s) \/ CreateStep(s)
  PROVE  TypeInv'
<1>1. CASE CreateStart(s)
  <2> DEFINE h == [Idle EXCEPT !.job = "create", !.pc = "nInsert", !.seen.state = FreshState(clock)]
  <2>1. Opened(prov, clock) \in ProviderSessions /\ FreshState(clock) \in ProviderStates
    BY ArgumentTypes, AdapterTypes
  <2>2. [Idle EXCEPT !.job = "create"] \in NumberedHandlers
    BY NothingTypes, HandlerFields DEF Jobs
  <2>3. [Idle EXCEPT !.job = "create", !.pc = "nInsert"] \in NumberedHandlers
    BY <2>2, HandlerFields DEF OtherPcs, CreatePcs
  <2>4. h \in NumberedHandlers
    BY <2>1, <2>3 DEF NumberedHandlers, Handlers, Snapshots
  <2> HIDE DEF h
  <2>5. Call(s, Opened(prov, clock), h) \/ CallFault(s, Opened(prov, clock), Fail)
    BY <1>1 DEF CreateStart, h
  <2> QED BY <2>1, <2>4, <2>5, NothingTypes, CallTypes
<1>2. CASE CreateInsert(s)
  <2> DEFINE new == NewRow(slot[s].seen.state, slot[s].seen.state.until)
  <2>1. new \in Rows
    BY ArgumentTypes, NewRowTypes
  <2> HIDE DEF new
  <2>2. Db(s, new, Answer(s, "ok")) \/ DbFault(s, new, Goto(s, "nUndo"))
    BY <1>2 DEF CreateInsert, new
  <2> QED BY <2>1, <2>2, EndTypes, DbTypes DEF Replies, OtherPcs, CreatePcs
<1>3. CASE CreateUndo(s)
  <2>1. Abort(prov, slot[s].seen.state, clock).prov \in ProviderSessions
    BY ArgumentTypes, AdapterTypes DEF Outcomes
  <2> QED BY <1>3, <2>1, NothingTypes, CallTypes DEF CreateUndo
<1> QED BY <1>1, <1>2, <1>3 DEF CreateStep

\* The steps of uploadResumablePart keep the types.
LEMMA PartTypes ==
  ASSUME TypeInv, NEW s \in Requests, PartStep(s) \/ \E n \in Parts : PartStart(s, n)
  PROVE  TypeInv'
<1> DEFINE n == slot[s].part
           e == Exp(slot[s])
<1>1. /\ row \in Rows /\ e \in Nat
      /\ slot[s].pc \in PartPcs => n \in Parts
  BY ArgumentTypes
<1>2. ASSUME NEW m \in Parts, PartStart(s, m)
      PROVE  TypeInv'
  <2>1. [Idle EXCEPT !.job = "part"] \in NumberedHandlers
    BY NothingTypes, HandlerFields DEF Jobs
  <2> DEFINE h == [Idle EXCEPT !.job = "part", !.part = m]
  <2>2. h \in NumberedHandlers
    BY <2>1, HandlerFields
  <2>3. [h EXCEPT !.reply = "ok"] \in NumberedHandlers
    BY <2>2, HandlerFields DEF Replies
  <2>4. [h EXCEPT !.pc = "pDriver"] \in NumberedHandlers
    BY <2>1, HandlerFields DEF PartPcs
  <2> HIDE DEF h
  <2>5. Db(s, row, [h EXCEPT !.reply = "ok"]) \/ Db(s, row, [h EXCEPT !.pc = "pDriver"]) \/ Db(s, row, Fail)
    BY <1>2 DEF PartStart, h
  <2> QED BY <1>1, <2>3, <2>4, <2>5, NothingTypes, DbTypes
<1>3. CASE PartDriver(s)
  <2>1. Goto(s, "pClaim") \in NumberedHandlers
    BY <1>3, EndTypes DEF PartDriver, At, PartPcs
  <2>2. [Goto(s, "pClaim") EXCEPT !.at = clock] \in NumberedHandlers
    BY <2>1, HandlerFields, ArgumentTypes
  <2> QED BY <1>1, <1>3, <2>2, NothingTypes, DbTypes DEF PartDriver
<1>4. CASE PartClaim(s)
  <2>1. slot[s].pc \in PartPcs
    BY <1>4 DEF PartClaim, At, PartPcs
  <2>2. ClaimPartSet(row, n, e) \in Rows
    BY <1>1, <2>1, StatementTypes
  <2>3. Goto(s, "pClaimed") \in NumberedHandlers /\ Goto(s, "pReload") \in NumberedHandlers
    BY <2>1, EndTypes DEF PartPcs
  <2> QED BY <1>1, <1>4, <2>2, <2>3, NothingTypes, DbTypes DEF PartClaim
<1>5. CASE PartReload(s)
  BY <1>1, <1>5, NothingTypes, EndTypes, DbTypes DEF PartReload, Replies
<1>6. CASE PartClaimed(s)
  <2>1. Goto(s, "pPut") \in NumberedHandlers
    BY <1>6, EndTypes DEF PartClaimed, At, PartPcs
  <2>2. [Goto(s, "pPut") EXCEPT !.seen = Snapshot(row)] \in NumberedHandlers
    BY <2>1, HandlerFields, ArgumentTypes
  <2> QED BY <1>1, <1>6, <2>2, NothingTypes, DbTypes DEF PartClaimed
<1>7. CASE PartPut(s)
  <2>1. slot[s].pc \in PartPcs
    BY <1>7 DEF PartPut, At, PartPcs
  <2>2. PICK o \in UploadPart(prov, slot[s].seen.state, n, clock) :
          \/ Call(s, o.prov, [Goto(s, "pRow") EXCEPT !.seen = NoSnapshot,
                                                     !.res = [state |-> o.state, item |-> o.item]])
          \/ Call(s, o.prov, Goto(s, "pRelease"))
          \/ CallFault(s, o.prov, Goto(s, "pRelease"))
    BY <1>7 DEF PartPut
  <2>3. o \in Outcomes
    BY <1>1, <2>1, ArgumentTypes, UploadPartTypes
  <2>4. o.prov \in ProviderSessions /\ [state |-> o.state, item |-> o.item] \in Results
    BY <2>3 DEF Outcomes, Results
  <2>5. Goto(s, "pRow") \in NumberedHandlers /\ Goto(s, "pRelease") \in NumberedHandlers
    BY <2>1, EndTypes DEF PartPcs
  <2>6. [Goto(s, "pRow") EXCEPT !.seen = NoSnapshot] \in NumberedHandlers
    BY <2>5, HandlerFields, NothingTypes
  <2>7. [Goto(s, "pRow") EXCEPT !.seen = NoSnapshot, !.res = [state |-> o.state, item |-> o.item]]
          \in NumberedHandlers
    BY <2>4, <2>6, HandlerFields
  <2> QED BY <2>2, <2>4, <2>5, <2>7, CallTypes
<1>8. CASE PartRow(s)
  <2>1. Goto(s, "pCas") \in NumberedHandlers /\ Goto(s, "pRelease") \in NumberedHandlers
    BY <1>8, EndTypes DEF PartRow, At, PartPcs
  <2>2. [Goto(s, "pCas") EXCEPT !.seen = Snapshot(row)] \in NumberedHandlers
    BY <2>1, HandlerFields, ArgumentTypes
  <2> QED BY <1>1, <1>8, <2>1, <2>2, NothingTypes, EndTypes, DbTypes DEF PartRow, Replies
<1>9. CASE PartCas(s)
  <2>1. slot[s].pc \in PartPcs
    BY <1>9 DEF PartCas, At, PartPcs
  <2>2. RecordPartSet(row, n, slot[s].res.state, slot[s].res.item, slot[s].seen) \in Rows
    BY <1>1, <2>1, ArgumentTypes, StatementTypes
  <2>3. Goto(s, "pAfter") \in NumberedHandlers /\ Goto(s, "pRelease") \in NumberedHandlers
    BY <2>1, EndTypes DEF PartPcs
  <2> QED BY <1>1, <1>9, <2>2, <2>3, DbTypes DEF PartCas
<1>10. CASE PartAfter(s)
  <2>1. Goto(s, "pRelease") \in NumberedHandlers
    BY <1>10, EndTypes DEF PartAfter, At, PartPcs
  <2> QED BY <1>1, <1>10, <2>1, NothingTypes, EndTypes, DbTypes DEF PartAfter, Replies
<1>11. CASE PartRelease(s)
  BY <1>1, <1>11, StatementTypes, NothingTypes, DbTypes DEF PartRelease
<1> QED BY <1>2, <1>3, <1>4, <1>5, <1>6, <1>7, <1>8, <1>9, <1>10, <1>11 DEF PartStep

\* The first read of completeResumableUpload keeps the types.
LEMMA CompleteReadTypes ==
  ASSUME TypeInv, NEW s \in Requests, NEW job \in Jobs, CompleteRead(s, job)
  PROVE  TypeInv'
<1> DEFINE h == [Idle EXCEPT !.job = job]
           proceed == [h EXCEPT !.pc = "cClaim", !.at = clock]
<1>1. h \in NumberedHandlers
  BY NothingTypes, HandlerFields
<1>2. [h EXCEPT !.reply = "ok"] \in NumberedHandlers /\ [h EXCEPT !.reply = "already"] \in NumberedHandlers
  BY <1>1, HandlerFields DEF Replies
<1>3. [h EXCEPT !.pc = "cClaim"] \in NumberedHandlers
  BY <1>1, HandlerFields DEF OtherPcs, CompletePcs
<1>4. proceed \in NumberedHandlers
  BY <1>3, HandlerFields, ArgumentTypes
<1> HIDE DEF h, proceed
<1>5. \/ Db(s, row, [h EXCEPT !.reply = "ok"]) \/ Db(s, row, [h EXCEPT !.reply = "already"])
      \/ Db(s, row, Idle) \/ Db(s, row, proceed) \/ Db(s, row, Fail) \/ DbFault(s, row, Fail)
  BY DEF CompleteRead, h, proceed
<1> QED BY <1>2, <1>4, <1>5, NothingTypes, ArgumentTypes, DbTypes

\* The steps of completeResumableUpload keep the types.
LEMMA CompleteTypes ==
  ASSUME TypeInv, NEW s \in Requests, CompleteStep(s) \/ CompleteStart(s)
  PROVE  TypeInv'
<1> DEFINE e == Exp(slot[s])
<1>1. row \in Rows /\ e \in Nat /\ slot[s].job \in Jobs
  BY ArgumentTypes
<1>2. \A pc \in CompletePcs : Goto(s, pc) \in NumberedHandlers
  BY EndTypes DEF OtherPcs
<1>3. CASE CompleteStart(s) \/ CompleteEnter(s)
  <2>1. PICK job \in Jobs : CompleteRead(s, job)
    BY <1>1, <1>3 DEF CompleteStart, CompleteEnter, Jobs
  <2> QED BY <2>1, CompleteReadTypes
<1>4. CASE CompleteClaim(s)
  <2>1. ClaimTerminalSet(row, "complete", s, e) \in Rows
    BY <1>1, StatementTypes DEF TerminalOps
  <2>2. Goto(s, "cClaimed") \in NumberedHandlers /\ Goto(s, "cReload") \in NumberedHandlers
    BY <1>2 DEF CompletePcs
  <2> QED BY <1>1, <1>4, <2>1, <2>2, NothingTypes, DbTypes DEF CompleteClaim
<1>5. CASE CompleteClaimed(s)
  <2>1. Goto(s, "cPut") \in NumberedHandlers /\ Goto(s, "cRelease") \in NumberedHandlers
    BY <1>2 DEF CompletePcs
  <2>2. [Goto(s, "cPut") EXCEPT !.seen = Snapshot(row)] \in NumberedHandlers
    BY <2>1, HandlerFields, ArgumentTypes
  <2> QED BY <1>1, <1>5, <2>1, <2>2, NothingTypes, DbTypes DEF CompleteClaimed
<1>6. CASE CompletePut(s)
  <2> DEFINE o == Complete(prov, slot[s].seen.state, slot[s].seen.parts, slot[s].seen.item, clock)
             next(pc) == [Goto(s, pc) EXCEPT !.seen = NoSnapshot]
  <2>1. o \in Outcomes
    BY ArgumentTypes, AdapterTypes
  <2>2. o.prov \in ProviderSessions
    BY <2>1 DEF Outcomes
  <2>3. next("cPersist") \in NumberedHandlers /\ next("cRelease") \in NumberedHandlers
    <3>1. Goto(s, "cPersist") \in NumberedHandlers /\ Goto(s, "cRelease") \in NumberedHandlers
      BY <1>2 DEF CompletePcs
    <3> QED BY <3>1, HandlerFields, NothingTypes
  <2>4. Call(s, o.prov, next("cPersist")) \/ Call(s, o.prov, next("cRelease"))
        \/ CallFault(s, o.prov, next("cRelease"))
    BY <1>6 DEF CompletePut
  <2> HIDE DEF o, next
  <2> QED BY <2>2, <2>3, <2>4, CallTypes
<1>7. CASE CompletePersist(s)
  <2>1. Goto(s, "cReload") \in NumberedHandlers /\ Goto(s, "cRelease") \in NumberedHandlers
    BY <1>2 DEF CompletePcs
  <2> QED BY <1>1, <1>7, <2>1, StatementTypes, EndTypes, DbTypes DEF CompletePersist
<1>8. CASE CompleteReload(s)
  BY <1>1, <1>8, NothingTypes, EndTypes, DbTypes DEF CompleteReload
<1>9. CASE CompleteRelease(s)
  BY <1>1, <1>9, StatementTypes, NothingTypes, DbTypes DEF CompleteRelease
<1> QED BY <1>3, <1>4, <1>5, <1>6, <1>7, <1>8, <1>9 DEF CompleteStep

\* Whatever abortResumableUpload answers to the row it reads keeps the types.
LEMMA VerdictTypes ==
  ASSUME TypeInv, NEW s \in Requests, NEW f \in NumberedHandlers, NEW u \in NumberedHandlers,
         AbortVerdict(s, f, u)
  PROVE  TypeInv'
<1>1. [Idle EXCEPT !.job = "abort"] \in NumberedHandlers
  BY NothingTypes, HandlerFields DEF Jobs
<1>2. /\ [Idle EXCEPT !.job = "abort", !.reply = "ok"] \in NumberedHandlers
      /\ [Idle EXCEPT !.job = "abort", !.reply = "already"] \in NumberedHandlers
  BY <1>1, HandlerFields DEF Replies
<1>3. \/ Db(s, row, [Idle EXCEPT !.job = "abort", !.reply = "ok"])
      \/ Db(s, row, [Idle EXCEPT !.job = "abort", !.reply = "already"])
      \/ Db(s, row, f) \/ Db(s, row, u) \/ Db(s, row, Fail)
  BY DEF AbortVerdict
<1> QED BY <1>2, <1>3, NothingTypes, ArgumentTypes, DbTypes

\* The steps of abortResumableUpload and of the cleanup keep the types.
LEMMA AbortTypes ==
  ASSUME TypeInv, NEW s \in Requests, AbortStep(s) \/ AbortStart(s) \/ CleanupStart(s)
  PROVE  TypeInv'
<1> DEFINE e == Exp(slot[s])
           asked == [Idle EXCEPT !.job = "abort"]
           cleaning == [Idle EXCEPT !.job = "cleanup"]
<1>1. row \in Rows /\ e \in Nat
  BY ArgumentTypes
<1>2. \A pc \in AbortPcs : Goto(s, pc) \in NumberedHandlers
  BY EndTypes DEF OtherPcs
<1>3. asked \in NumberedHandlers /\ cleaning \in NumberedHandlers
  BY NothingTypes, HandlerFields DEF Jobs
<1>4. \A h \in {asked, cleaning} :
        [h EXCEPT !.pc = "cRead"] \in NumberedHandlers /\ [h EXCEPT !.pc = "aClaim"] \in NumberedHandlers
  BY <1>3, HandlerFields DEF OtherPcs, CompletePcs, AbortPcs
<1>5. \A h \in {asked, cleaning} : [h EXCEPT !.pc = "aClaim", !.at = clock] \in NumberedHandlers
  BY <1>4, HandlerFields, ArgumentTypes
<1>6. CASE AbortStart(s)
  <2>1. AbortVerdict(s, [asked EXCEPT !.pc = "cRead"], [asked EXCEPT !.pc = "aClaim", !.at = clock])
    BY <1>6 DEF AbortStart
  <2> HIDE DEF asked
  <2> QED BY <1>4, <1>5, <2>1, VerdictTypes
<1>7. CASE CleanupStart(s)
  <2>1. Db(s, row, [cleaning EXCEPT !.pc = "cRead"])
        \/ Db(s, row, [cleaning EXCEPT !.pc = "aClaim", !.at = clock])
    BY <1>7 DEF CleanupStart
  <2> HIDE DEF cleaning
  <2> QED BY <1>1, <1>4, <1>5, <2>1, DbTypes
<1>8. CASE AbortClaim(s)
  <2>1. ClaimTerminalSet(row, "abort", s, e) \in Rows
    BY <1>1, StatementTypes DEF TerminalOps
  <2>2. Goto(s, "aClaimed") \in NumberedHandlers /\ Goto(s, "aReload") \in NumberedHandlers
    BY <1>2 DEF AbortPcs
  <2> QED BY <1>1, <1>8, <2>1, <2>2, NothingTypes, DbTypes DEF AbortClaim
<1>9. CASE AbortReload(s)
  <2>1. AbortVerdict(s, [asked EXCEPT !.pc = "cRead"], Fail) \/ DbFault(s, row, Fail)
    BY <1>9 DEF AbortReload
  <2> HIDE DEF asked
  <2> QED BY <1>1, <1>4, <2>1, NothingTypes, VerdictTypes, DbTypes
<1>10. CASE AbortClaimed(s)
  <2>1. Goto(s, "aPut") \in NumberedHandlers /\ Goto(s, "aRelease") \in NumberedHandlers
    BY <1>2 DEF AbortPcs
  <2>2. [Goto(s, "aPut") EXCEPT !.seen = Snapshot(row)] \in NumberedHandlers
    BY <2>1, HandlerFields, ArgumentTypes
  <2> QED BY <1>1, <1>10, <2>1, <2>2, NothingTypes, DbTypes DEF AbortClaimed
<1>11. CASE AbortPut(s)
  <2> DEFINE o == Abort(prov, slot[s].seen.state, clock)
             next(pc) == [Goto(s, pc) EXCEPT !.seen = NoSnapshot]
  <2>1. o \in Outcomes
    BY ArgumentTypes, AdapterTypes
  <2>2. o.prov \in ProviderSessions
    BY <2>1 DEF Outcomes
  <2>3. next("aMark") \in NumberedHandlers /\ next("aRelease") \in NumberedHandlers
    <3>1. Goto(s, "aMark") \in NumberedHandlers /\ Goto(s, "aRelease") \in NumberedHandlers
      BY <1>2 DEF AbortPcs
    <3> QED BY <3>1, HandlerFields, NothingTypes
  <2>4. Call(s, o.prov, next("aMark")) \/ Call(s, o.prov, next("aRelease"))
        \/ CallFault(s, o.prov, next("aRelease"))
    BY <1>11 DEF AbortPut
  <2> HIDE DEF o, next
  <2> QED BY <2>2, <2>3, <2>4, CallTypes
<1>12. CASE AbortMark(s)
  <2>1. Goto(s, "aLost") \in NumberedHandlers /\ Goto(s, "aRelease") \in NumberedHandlers
    BY <1>2 DEF AbortPcs
  <2> QED BY <1>1, <1>12, <2>1, NothingTypes, StatementTypes, EndTypes, DbTypes DEF AbortMark, Replies
<1>13. CASE AbortLost(s)
  <2>1. Goto(s, "aGiveBack") \in NumberedHandlers
    BY <1>2 DEF AbortPcs
  <2> QED BY <1>1, <1>13, <2>1, NothingTypes, VerdictTypes, DbTypes DEF AbortLost
<1>14. CASE AbortRelease(s)
  BY <1>1, <1>4, <1>14, NothingTypes, StatementTypes, DbTypes DEF AbortRelease
<1> QED BY <1>6, <1>7, <1>8, <1>9, <1>10, <1>11, <1>12, <1>13, <1>14 DEF AbortStep

\* Evictions, vanishing rows, provider expiry and time keep the types.
LEMMA EnvironmentTypes ==
  ASSUME TypeInv, RowVanishes \/ ProviderExpires \/ Tick \/ \E s \in Requests : Evict(s)
  PROVE  TypeInv'
<1>1. CASE RowVanishes
  BY <1>1, NewRowTypes DEF RowVanishes, TypeInv, TypeOK
<1>2. CASE ProviderExpires
  BY <1>2, AdapterTypes, MaxTimeAssumption DEF ProviderExpires, TypeInv, TypeOK
<1>3. CASE Tick
  BY <1>3, MaxTimeAssumption DEF Tick, TypeInv, TypeOK
<1>4. ASSUME NEW s \in Requests, Evict(s)
      PROVE  TypeInv'
  <2>1. slot' \in [Requests -> NumberedHandlers] /\ slot' \in [Requests -> Handlers]
    BY <1>4, NothingTypes DEF Evict, Become, TypeInv, TypeOK, NumberedHandlers
  <2> QED BY <1>4, <2>1, MaxFaultsAssumption DEF Evict, Fault, TypeInv, TypeOK
<1> QED BY <1>1, <1>2, <1>3, <1>4

\* Before the first request everything has its type.
LEMMA InitTypes == Init => TypeInv
<1> SUFFICES ASSUME Init PROVE TypeInv
  OBVIOUS
<1>1. \A k \in Providers : NoSession(k) \in ProviderSessions
  BY DEF NoSession, ProviderSessions
<1>2. row \in Rows /\ prov \in ProviderSessions
  BY <1>1, NewRowTypes DEF Init
<1>3. slot \in [Requests -> NumberedHandlers] /\ slot \in [Requests -> Handlers]
  BY NothingTypes DEF Init, NumberedHandlers
<1>4. clock \in 0..MaxTime /\ faults \in 0..MaxFaults
  BY MaxTimeAssumption, MaxFaultsAssumption DEF Init
<1> QED BY <1>2, <1>3, <1>4 DEF TypeInv, TypeOK

\* Every variable keeps its type, and every handler of uploadResumablePart
\* carries the number of a part, whatever is lost, evicted or overtaken.
THEOREM TypeCorrect == Spec => []TypeInv
<1>1. TypeInv /\ [Next]_vars => TypeInv'
  <2> SUFFICES ASSUME TypeInv, [Next]_vars PROVE TypeInv'
    OBVIOUS
  <2>1. ASSUME NEW s \in Requests, Start(s) \/ Step(s)
        PROVE  TypeInv'
    BY <2>1, CreateTypes, PartTypes, CompleteTypes, AbortTypes DEF Start, Step
  <2>2. CASE UNCHANGED vars
    BY <2>2 DEF vars, TypeInv, TypeOK
  <2> QED BY <2>1, <2>2, EnvironmentTypes DEF Next
<1> QED BY <1>1, InitTypes, PTL DEF Spec

\* Every reachable state has the types TypeOK lists; the runs check the same invariant.
THEOREM TypesHold == Spec => []TypeOK
BY TypeCorrect, PTL DEF TypeInv

-----------------------------------------------------------------------------
(* What a step of a handler can do to the row.                             *)

Statement(s) ==
  LET h == slot[s]
  IN \/ row' = row
     \/ At(s, "nInsert") /\ row' = NewRow(h.seen.state, h.seen.state.until)
     \/ /\ At(s, "pClaim") /\ ClaimPartWhere(row, h.at) /\ h.part \in Parts
        /\ row' = ClaimPartSet(row, h.part, Exp(h))
     \/ /\ At(s, "pCas") /\ RecordPartWhere(row, h.part, Exp(h), h.seen) /\ h.part \in Parts
        /\ row' = RecordPartSet(row, h.part, h.res.state, h.res.item, h.seen)
     \/ At(s, "pRelease") /\ HoldsPart(row, h.part, Exp(h)) /\ row' = ReleasePartSet(row)
     \/ \E op \in TerminalOps :
          /\ ClaimTerminalWhere(row, op, h.at) /\ row' = ClaimTerminalSet(row, op, s, Exp(h))
          /\ op = "complete" => At(s, "cClaim")
     \/ At(s, "cPersist") /\ CompleteWhere(row, s, Exp(h)) /\ row' = CompleteSet(row)
     \/ MarkAbortedWhere(row, s, Exp(h)) /\ row' = MarkAbortedSet(row)
     \/ \E op \in TerminalOps :
          ReleaseTerminalWhere(row, op, s, Exp(h)) /\ row' = ReleaseTerminalSet(row)

\* createResumableUpload changes the row by its INSERT only.
LEMMA CreateStatements ==
  ASSUME NEW s \in Requests, CreateStart(s) \/ CreateStep(s)
  PROVE  Statement(s)
BY DEF CreateStart, CreateStep, CreateInsert, CreateUndo, Db, DbFault, Call, CallFault, Statement

\* uploadResumablePart changes the row by claim, record and release of a part only.
LEMMA PartStatements ==
  ASSUME TypeInv, NEW s \in Requests, PartStep(s) \/ \E n \in Parts : PartStart(s, n)
  PROVE  Statement(s)
<1>1. slot[s].pc \in PartPcs => slot[s].part \in Parts
  BY ArgumentTypes
<1>2. (\E n \in Parts : PartStart(s, n)) => row' = row
  BY DEF PartStart, Db
<1>3. PartDriver(s) \/ PartReload(s) \/ PartClaimed(s) \/ PartPut(s) \/ PartRow(s) \/ PartAfter(s) => row' = row
  BY DEF PartDriver, PartReload, PartClaimed, PartPut, PartRow, PartAfter, Db, DbFault, Call, CallFault
<1>4. CASE PartClaim(s)
  BY <1>1, <1>4 DEF PartClaim, At, PartPcs, Db, DbFault, Statement
<1>5. CASE PartCas(s)
  BY <1>1, <1>5 DEF PartCas, At, PartPcs, Db, DbFault, Statement
<1>6. CASE PartRelease(s)
  BY <1>6 DEF PartRelease, Db, DbFault, Statement
<1> QED BY <1>2, <1>3, <1>4, <1>5, <1>6 DEF PartStep, Statement

\* completeResumableUpload changes the row by claim, complete and release only.
LEMMA CompleteStatements ==
  ASSUME NEW s \in Requests, CompleteStep(s) \/ CompleteStart(s)
  PROVE  Statement(s)
<1>1. CASE CompleteStart(s) \/ CompleteEnter(s)
  BY <1>1 DEF CompleteStart, CompleteEnter, CompleteRead, Db, DbFault, Statement
<1>2. CASE CompleteClaim(s)
  BY <1>2 DEF CompleteClaim, Db, DbFault, Statement, TerminalOps
<1>3. CASE CompleteClaimed(s) \/ CompletePut(s) \/ CompleteReload(s)
  BY <1>3 DEF CompleteClaimed, CompletePut, CompleteReload, Db, DbFault, Call, CallFault, Statement
<1>4. CASE CompletePersist(s)
  BY <1>4 DEF CompletePersist, Db, DbFault, Statement
<1>5. CASE CompleteRelease(s)
  BY <1>5 DEF CompleteRelease, Db, DbFault, Statement, TerminalOps
<1> QED BY <1>1, <1>2, <1>3, <1>4, <1>5 DEF CompleteStep

\* Cancellation and cleanup change the row by claim, mark and release only.
LEMMA AbortStatements ==
  ASSUME NEW s \in Requests, AbortStep(s) \/ AbortStart(s) \/ CleanupStart(s)
  PROVE  Statement(s)
<1>1. CASE AbortStart(s) \/ CleanupStart(s) \/ AbortReload(s) \/ AbortLost(s)
  BY <1>1 DEF AbortStart, CleanupStart, AbortReload, AbortLost, AbortVerdict, Db, DbFault, Statement
<1>2. CASE AbortClaim(s)
  BY <1>2 DEF AbortClaim, Db, DbFault, Statement, TerminalOps
<1>3. CASE AbortClaimed(s) \/ AbortPut(s)
  BY <1>3 DEF AbortClaimed, AbortPut, Db, DbFault, Call, CallFault, Statement
<1>4. CASE AbortMark(s)
  BY <1>4 DEF AbortMark, Db, DbFault, Statement
<1>5. CASE AbortRelease(s)
  BY <1>5 DEF AbortRelease, Db, DbFault, Statement, TerminalOps
<1> QED BY <1>1, <1>2, <1>3, <1>4, <1>5 DEF AbortStep

\* A step leaves the row alone, deletes it, or runs a statement of one handler.
LEMMA RowSteps ==
  ASSUME TypeInv, [Next]_vars
  PROVE  row' \in {row, NoRow} \/ \E s \in Requests : Statement(s)
<1>1. ASSUME NEW s \in Requests, Start(s) \/ Step(s)
      PROVE  Statement(s)
  BY <1>1, CreateStatements, PartStatements, CompleteStatements, AbortStatements DEF Start, Step
<1>2. ASSUME NEW s \in Requests, Evict(s)
      PROVE  row' = row
  BY <1>2 DEF Evict
<1>3. RowVanishes \/ ProviderExpires \/ Tick \/ UNCHANGED vars => row' \in {row, NoRow}
  BY DEF RowVanishes, ProviderExpires, Tick, vars
<1> QED BY <1>1, <1>2, <1>3 DEF Next

-----------------------------------------------------------------------------
(* The rows that D1 holds.                                                 *)

\* Every statement turns a row that assertStoredRow accepts into another one.
LEMMA StatementsKeepRowsReadable ==
  ASSUME TypeInv, RowAlwaysReadable, NEW s \in Requests, Statement(s)
  PROVE  RowAlwaysReadable'
<1> DEFINE h == slot[s]
<1>1. /\ h.part \in 0..NParts /\ Exp(h) \in Nat \ {0} /\ row \in Rows
      /\ h.seen.state \in ProviderStates /\ h.seen.state.until \in Nat
      /\ h.seen.parts \in SUBSET Parts /\ h.res.state \in ProviderStates
  BY ArgumentTypes
<1>2. CASE row' = row
  BY <1>2 DEF RowAlwaysReadable
<1>3. CASE row' = NewRow(h.seen.state, h.seen.state.until)
  BY <1>3 DEF RowAlwaysReadable, StoredRowIsValid, NewRow, NoPartClaim, NoTerminalClaim
<1>4. CASE ClaimPartWhere(row, h.at) /\ h.part \in Parts /\ row' = ClaimPartSet(row, h.part, Exp(h))
  BY <1>1, <1>4, NoOwnerAssumption
     DEF ClaimPartWhere, ClaimPartSet, WithoutTerminalClaim, Rows,
         RowAlwaysReadable, StoredRowIsValid, NoPartClaim, NoTerminalClaim
<1>5. CASE /\ RecordPartWhere(row, h.part, Exp(h), h.seen) /\ h.part \in Parts
           /\ row' = RecordPartSet(row, h.part, h.res.state, h.res.item, h.seen)
  BY <1>1, <1>5
     DEF RecordPartWhere, HoldsPart, RecordPartSet, WithoutPartClaim, Rows,
         RowAlwaysReadable, StoredRowIsValid, NoPartClaim, NoTerminalClaim
<1>6. CASE HoldsPart(row, h.part, Exp(h)) /\ row' = ReleasePartSet(row)
  BY <1>1, <1>6
     DEF HoldsPart, ReleasePartSet, WithoutPartClaim, Rows,
         RowAlwaysReadable, StoredRowIsValid, NoPartClaim, NoTerminalClaim
<1>7. ASSUME NEW op \in TerminalOps, ClaimTerminalWhere(row, op, h.at),
             row' = ClaimTerminalSet(row, op, s, Exp(h))
      PROVE  RowAlwaysReadable'
  BY <1>1, <1>7, NoOwnerAssumption
     DEF ClaimTerminalWhere, ClaimTerminalSet, WithoutPartClaim, Rows, TerminalOps,
         RowAlwaysReadable, StoredRowIsValid, NoPartClaim, NoTerminalClaim
<1>8. CASE CompleteWhere(row, s, Exp(h)) /\ row' = CompleteSet(row)
  BY <1>1, <1>8
     DEF CompleteWhere, CompleteSet, WithoutTerminalClaim, Rows,
         RowAlwaysReadable, StoredRowIsValid, NoPartClaim, NoTerminalClaim
<1>9. CASE MarkAbortedWhere(row, s, Exp(h)) /\ row' = MarkAbortedSet(row)
  BY <1>1, <1>9
     DEF MarkAbortedWhere, MarkAbortedSet, WithoutPartClaim, WithoutTerminalClaim, Rows,
         RowAlwaysReadable, StoredRowIsValid, NoPartClaim, NoTerminalClaim
<1>10. ASSUME NEW op \in TerminalOps, ReleaseTerminalWhere(row, op, s, Exp(h)),
              row' = ReleaseTerminalSet(row)
       PROVE  RowAlwaysReadable'
  BY <1>1, <1>10
     DEF ReleaseTerminalWhere, ReleaseTerminalSet, WithoutTerminalClaim, Rows,
         RowAlwaysReadable, StoredRowIsValid, NoPartClaim, NoTerminalClaim
<1> QED BY <1>2, <1>3, <1>4, <1>5, <1>6, <1>7, <1>8, <1>9, <1>10 DEF Statement

\* The missing row counts as readable.
LEMMA NoRowIsReadable == StoredRowIsValid(NoRow)
BY DEF StoredRowIsValid, NoRow, NewRow, NoPartClaim, NoTerminalClaim

\* No statement, in whatever order the handlers run them, and no lost reply
\* leaves a row that assertStoredRow rejects.
THEOREM RowsStayReadable == Spec => []RowAlwaysReadable
<1>1. Init => RowAlwaysReadable
  BY NoRowIsReadable DEF Init, RowAlwaysReadable
<1>2. TypeInv /\ RowAlwaysReadable /\ [Next]_vars => RowAlwaysReadable'
  BY RowSteps, StatementsKeepRowsReadable, NoRowIsReadable DEF RowAlwaysReadable
<1> QED BY <1>1, <1>2, TypeCorrect, PTL DEF Spec

-----------------------------------------------------------------------------
(* What a step of a handler does to the handler.                           *)

WellRun(h) ==
  /\ h.pc \in CreatePcs => h.job = "create"
  /\ h.pc \in PartPcs => h.job = "part"
  /\ h.pc # "idle" => h.reply = "none"

\* A handler that holds a terminal lease after the step took it in this step,
\* or had it before and did not touch the row.
LeaseFrom(s, g) ==
  g.pc \in InTerminal =>
    \/ /\ slot[s].pc \in InTerminal /\ TerminalOp(g.pc) = TerminalOp(slot[s].pc)
       /\ g.at = slot[s].at /\ row' = row
    \/ HoldsTerminal(row', TerminalOp(g.pc), s, Exp(g))

\* The body of RepliesStayTrue, for a handler h and a row r.
Told(h, r) ==
  r.status # "absent" =>
    /\ h.job = "part" /\ h.reply = "ok" => h.part \in r.parts
    /\ h.job = "complete" /\ h.reply = "ok" => r.status = "completed"
    /\ h.reply = "already" => r.status = "completed"
    /\ h.job = "abort" /\ h.reply = "ok" => r.status = "aborted"

Outcome(s) ==
  LET g == slot'[s]
  IN /\ clock' = clock /\ faults' \in {faults, faults - 1}
     /\ \A t \in Requests \ {s} : slot'[t] = slot[t]
     /\ g.at <= clock
     /\ WellRun(g)
     /\ g.pc = "nInsert" => CreateStart(s)
     /\ prov.phase # "none" => prov'.phase # "none"
     /\ LeaseFrom(s, g)
     /\ Told(g, row')

HandlerInv ==
  /\ TypeInv
  /\ \A s \in Requests : slot[s].at <= clock /\ WellRun(slot[s])

\* A step that ends in D1 touches its own handler only.
LEMMA DbMoves ==
  ASSUME TypeInv, NEW s \in Requests, NEW r, NEW h, Db(s, r, h) \/ DbFault(s, r, h)
  PROVE  /\ clock' = clock /\ prov' = prov /\ row' \in {row, r} /\ faults' \in {faults, faults - 1}
         /\ slot'[s] = h /\ \A t \in Requests \ {s} : slot'[t] = slot[t]
BY DEF TypeInv, Db, DbFault, Fault, Become

\* A step that ends in a provider call touches its own handler and no row.
LEMMA CallMoves ==
  ASSUME TypeInv, NEW s \in Requests, NEW p, NEW h, Call(s, p, h) \/ CallFault(s, p, h)
  PROVE  /\ clock' = clock /\ row' = row /\ prov' \in {prov, p} /\ faults' \in {faults, faults - 1}
         /\ slot'[s] = h /\ \A t \in Requests \ {s} : slot'[t] = slot[t]
BY DEF TypeInv, Call, CallFault, Fault, Become

\* No call takes a provider session that exists back to one that does not.
LEMMA PhasesAdvance ==
  ASSUME NEW p \in ProviderSessions, p.phase # "none", NEW st \in ProviderStates, NEW now \in Nat
  PROVE  /\ \A n \in Parts : \A o \in UploadPart(p, st, n, now) : o.prov.phase # "none"
         /\ \A parts \in SUBSET Parts, b \in BOOLEAN : Complete(p, st, parts, b, now).prov.phase # "none"
         /\ Abort(p, st, now).prov.phase # "none"
<1> DEFINE Begun == {q \in ProviderSessions : q.phase # "none"}
           Fine(o) == o.prov.phase # "none"
<1>1. p.kind \in {"s3", "onedrive", "google", "dropbox"} /\ p \in Begun
  BY ProvidersAssumption DEF ProviderSessions
<1>2. \A q \in Begun, t \in ProviderStates, i \in BOOLEAN : Fine(Threw(q, t)) /\ Fine(Returned(q, t, i))
  BY DEF Threw, Returned
<1>3. \A q \in Begun : Committed(q) \in Begun /\ Closed(q) \in Begun
  BY DEF Committed, Closed, ProviderSessions
<1>4. ASSUME NEW n \in Parts
      PROVE  /\ Received(p, n) \in Begun
             /\ \A u \in Nat : [Received(p, n) EXCEPT !.until = u] \in Begun
  <2>1. p.parts \cup {n} \in SUBSET Parts
    BY DEF ProviderSessions
  <2>2. Received(p, n) \in Begun
    BY <2>1 DEF Received, ProviderSessions
  <2> QED BY <2>2 DEF ProviderSessions
<1>5. \A n \in Parts : [st EXCEPT !.next = n] \in ProviderStates
  BY NPartsPositive DEF ProviderStates, Parts
<1>6. \A e \in Extensions : p.until + e \in Nat /\ [st EXCEPT !.until = p.until + e] \in ProviderStates
  BY ExtensionsAssumption DEF ProviderStates, ProviderSessions
<1> HIDE DEF Begun, Fine
<1>7. ASSUME NEW n \in Parts
      PROVE  \A o \in UploadPart(p, st, n, now) : Fine(o)
  <2>1. \A o \in S3UploadPart(p, st, n) : Fine(o)
    BY <1>1, <1>2, <1>4 DEF S3UploadPart
  <2>2. \A o \in OneDriveUploadPart(p, st, n, now) : Fine(o)
    BY <1>1, <1>2, <1>3, <1>4, <1>6 DEF OneDriveUploadPart, OneDriveFragment
  <2>3. \A o \in GoogleUploadPart(p, st, n, now) : Fine(o)
    BY <1>1, <1>2, <1>3, <1>4, <1>5 DEF GoogleUploadPart
  <2>4. \A o \in DropboxUploadPart(p, st, n, now) : Fine(o)
    BY <1>1, <1>2, <1>4, <1>5 DEF DropboxUploadPart
  <2> QED BY <1>1, <2>1, <2>2, <2>3, <2>4 DEF UploadPart
<1>8. ASSUME NEW parts \in SUBSET Parts, NEW b \in BOOLEAN
      PROVE  Fine(Complete(p, st, parts, b, now))
  <2>1. Fine(S3Complete(p, st, parts))
    BY <1>1, <1>2, <1>3 DEF S3Complete, S3Assembles
  <2>2. Fine(StoredItemComplete(p, st, b))
    BY <1>1, <1>2 DEF StoredItemComplete
  <2>3. Fine(DropboxComplete(p, st, now))
    BY <1>1, <1>2, <1>3 DEF DropboxComplete
  <2> QED BY <1>1, <2>1, <2>2, <2>3 DEF Complete
<1>9. Fine(Abort(p, st, now))
  BY <1>1, <1>2, <1>3 DEF Abort, S3Abort, LiveAbort, DropboxClose
<1> QED BY <1>7, <1>8, <1>9 DEF Fine

\* The conditions of Outcome that do not name the variables: all that is left
\* to show when a step ends in Db, DbFault, Call or CallFault.
Becomes(s, g, r) ==
  /\ g.at <= clock
  /\ WellRun(g)
  /\ g.pc = "nInsert" => CreateStart(s)
  /\ g.pc \in InTerminal =>
       \/ /\ slot[s].pc \in InTerminal /\ TerminalOp(g.pc) = TerminalOp(slot[s].pc)
          /\ g.at = slot[s].at /\ r = row
       \/ HoldsTerminal(r, TerminalOp(g.pc), s, Exp(g))
  /\ Told(g, r)

\* A statement that leads to a handler allowed by Becomes is an outcome.
LEMMA DbOutcome ==
  ASSUME TypeInv, NEW s \in Requests, NEW r, NEW h,
         \/ Db(s, r, h) /\ Becomes(s, h, r)
         \/ DbFault(s, r, h) /\ Becomes(s, h, r) /\ Becomes(s, h, row)
  PROVE  Outcome(s)
BY DbMoves DEF Db, Outcome, Becomes, LeaseFrom

\* A provider call that leads to a handler allowed by Becomes is an outcome.
LEMMA CallOutcome ==
  ASSUME TypeInv, NEW s \in Requests, NEW p, NEW h, prov.phase # "none" => p.phase # "none",
         Call(s, p, h) \/ CallFault(s, p, h), Becomes(s, h, row)
  PROVE  Outcome(s)
BY CallMoves DEF Outcome, Becomes, LeaseFrom

\* The two shapes of a handler after a step: over, or under way.
LEMMA OverBecomes ==
  ASSUME HandlerInv, NEW s \in Requests, NEW r
  PROVE  /\ Becomes(s, Idle, r) /\ Becomes(s, Fail, r)
         /\ \A j \in Jobs, n \in 0..NParts, y \in Replies :
              LET g == [Idle EXCEPT !.job = j, !.part = n, !.reply = y]
              IN Told(g, r) => Becomes(s, g, r)
<1>1. clock \in Nat
  BY ArgumentTypes DEF HandlerInv
<1> QED BY <1>1 DEF Becomes, Fail, Idle, WellRun, Told, InTerminal, CreatePcs, PartPcs, Pcs

\* An answer is allowed by Becomes as soon as the row agrees with it.
LEMMA AnswerBecomes ==
  ASSUME HandlerInv, NEW s \in Requests, NEW r, NEW y \in Replies,
         r.status # "absent" =>
           /\ slot[s].job = "part" /\ y = "ok" => slot[s].part \in r.parts
           /\ slot[s].job = "complete" /\ y = "ok" => r.status = "completed"
           /\ y = "already" => r.status = "completed"
           /\ slot[s].job = "abort" /\ y = "ok" => r.status = "aborted"
  PROVE  Becomes(s, Answer(s, y), r)
<1> DEFINE g == Answer(s, y)
<1>1. /\ g.pc = "idle" /\ g.at = 0 /\ g.reply = y
      /\ g.job = slot[s].job /\ g.part = slot[s].part
  BY DEF Answer, Idle
<1>2. clock \in Nat
  BY ArgumentTypes DEF HandlerInv
<1> HIDE DEF g
<1>3. g.at <= clock
  BY <1>1, <1>2
<1>4. Told(g, r)
  BY <1>1 DEF Told
<1>5. WellRun(g) /\ g.pc # "nInsert" /\ g.pc \notin InTerminal
  BY <1>1 DEF WellRun, InTerminal, CreatePcs, PartPcs
<1>6. Becomes(s, g, r)
  BY <1>3, <1>4, <1>5 DEF Becomes
<1> QED BY <1>6 DEF g

\* A handler that is under way without a reply is allowed by Becomes.
LEMMA UnderWayBecomes ==
  ASSUME HandlerInv, NEW s \in Requests, NEW r, NEW g,
         g.reply = "none", g.at \in {slot[s].at, clock}, g.pc # "nInsert",
         g.pc = "nUndo" => g.job = "create", g.pc \in PartPcs => g.job = "part",
         g.pc \in InTerminal =>
           \/ /\ slot[s].pc \in InTerminal /\ TerminalOp(g.pc) = TerminalOp(slot[s].pc)
              /\ g.at = slot[s].at /\ r = row
           \/ HoldsTerminal(r, TerminalOp(g.pc), s, Exp(g))
  PROVE  Becomes(s, g, r)
<1>1. slot[s].at <= clock /\ clock \in Nat /\ slot[s].at \in Nat
  BY ArgumentTypes DEF HandlerInv
<1>2. Told(g, r)
  BY DEF Told
<1>3. WellRun(g)
  BY DEF WellRun, CreatePcs
<1>4. g.at <= clock
  BY <1>1
<1> QED BY <1>2, <1>3, <1>4 DEF Becomes

\* A handler under way that only moves on, whatever it remembers of the record.
GoesOn(s, g, pc) ==
  /\ g.pc = pc /\ g.job = slot[s].job
  /\ g.at = slot[s].at /\ g.reply = slot[s].reply

\* Goto keeps the job, the part, the claim time and the reply.
LEMMA GotoGoesOn ==
  ASSUME TypeInv, NEW s \in Requests, NEW pc
  PROVE  /\ GoesOn(s, Goto(s, pc), pc)
         /\ \A x : GoesOn(s, [Goto(s, pc) EXCEPT !.seen = x], pc)
         /\ \A x, y : GoesOn(s, [Goto(s, pc) EXCEPT !.seen = x, !.res = y], pc)
BY DEF TypeInv, TypeOK, Handlers, GoesOn, Goto

\* A handler that goes on with the same claim is allowed by Becomes.
LEMMA GoesOnBecomes ==
  ASSUME HandlerInv, NEW s \in Requests, ~At(s, "idle"), NEW r, NEW g, NEW pc, GoesOn(s, g, pc)
  PROVE  /\ pc = "nUndo" /\ slot[s].job = "create" => Becomes(s, g, r)
         /\ pc \in PartPcs /\ slot[s].pc \in PartPcs => Becomes(s, g, r)
         /\ pc \in (CompletePcs \cup AbortPcs) \ InTerminal => Becomes(s, g, r)
         /\ pc \in InTerminal =>
              /\ HoldsTerminal(r, TerminalOp(pc), s, Exp(slot[s])) => Becomes(s, g, r)
              /\ slot[s].pc \in InTerminal /\ TerminalOp(pc) = TerminalOp(slot[s].pc) => Becomes(s, g, row)
<1>1. slot[s].reply = "none" /\ (slot[s].pc \in PartPcs => slot[s].job = "part")
  BY DEF HandlerInv, WellRun, At
<1>2. /\ g.reply = "none" /\ g.at = slot[s].at /\ g.job = slot[s].job /\ g.pc = pc
      /\ Exp(g) = Exp(slot[s])
  BY <1>1 DEF GoesOn, Exp
<1>3. CASE pc = "nUndo" /\ slot[s].job = "create"
  BY <1>2, <1>3, UnderWayBecomes DEF PartPcs, InTerminal
<1>4. CASE pc \in PartPcs /\ slot[s].pc \in PartPcs
  BY <1>1, <1>2, <1>4, UnderWayBecomes DEF PartPcs, InTerminal
<1>5. CASE pc \in (CompletePcs \cup AbortPcs) \ InTerminal
  BY <1>2, <1>5, UnderWayBecomes DEF CompletePcs, AbortPcs, PartPcs, InTerminal
<1>6. CASE pc \in InTerminal /\ HoldsTerminal(r, TerminalOp(pc), s, Exp(slot[s]))
  BY <1>2, <1>6, UnderWayBecomes DEF PartPcs, InTerminal
<1>7. CASE /\ pc \in InTerminal
           /\ slot[s].pc \in InTerminal /\ TerminalOp(pc) = TerminalOp(slot[s].pc)
  BY <1>2, <1>7, UnderWayBecomes DEF PartPcs, InTerminal
<1> QED BY <1>3, <1>4, <1>5, <1>6, <1>7

\* Goto to a later phase is allowed by Becomes.
LEMMA GotoBecomes ==
  ASSUME HandlerInv, NEW s \in Requests, ~At(s, "idle")
  PROVE  /\ \A pc \in (CompletePcs \cup AbortPcs) \ InTerminal : \A r :
              /\ Becomes(s, Goto(s, pc), r)
              /\ \A x : Becomes(s, [Goto(s, pc) EXCEPT !.seen = x], r)
         /\ \A pc \in InTerminal : \A r :
              HoldsTerminal(r, TerminalOp(pc), s, Exp(slot[s])) => Becomes(s, Goto(s, pc), r)
         /\ \A pc \in InTerminal : \A x :
              slot[s].pc \in InTerminal /\ TerminalOp(pc) = TerminalOp(slot[s].pc) =>
                Becomes(s, [Goto(s, pc) EXCEPT !.seen = x], row)
<1>1. \A pc : GoesOn(s, Goto(s, pc), pc) /\ \A x : GoesOn(s, [Goto(s, pc) EXCEPT !.seen = x], pc)
  BY GotoGoesOn DEF HandlerInv
<1>2. ASSUME NEW pc \in (CompletePcs \cup AbortPcs) \ InTerminal, NEW r
      PROVE  /\ Becomes(s, Goto(s, pc), r)
             /\ \A x : Becomes(s, [Goto(s, pc) EXCEPT !.seen = x], r)
  BY <1>1, GoesOnBecomes
<1>3. ASSUME NEW pc \in InTerminal, NEW r, HoldsTerminal(r, TerminalOp(pc), s, Exp(slot[s]))
      PROVE  Becomes(s, Goto(s, pc), r)
  BY <1>1, <1>3, GoesOnBecomes
<1>4. ASSUME NEW pc \in InTerminal, NEW x,
             slot[s].pc \in InTerminal, TerminalOp(pc) = TerminalOp(slot[s].pc)
      PROVE  Becomes(s, [Goto(s, pc) EXCEPT !.seen = x], row)
  BY <1>1, <1>4, GoesOnBecomes
<1> QED BY <1>2, <1>3, <1>4

\* Every step of createResumableUpload is an outcome.
LEMMA CreateOutcome ==
  ASSUME HandlerInv, NEW s \in Requests, CreateStart(s) \/ CreateStep(s)
  PROVE  Outcome(s)
<1>1. TypeInv /\ clock \in Nat /\ WellRun(slot[s])
  BY ArgumentTypes DEF HandlerInv
<1>2. CASE CreateStart(s)
  <2> DEFINE h == [Idle EXCEPT !.job = "create", !.pc = "nInsert", !.seen.state = FreshState(clock)]
  <2>1. Becomes(s, h, row)
    BY <1>1, <1>2 DEF Becomes, Idle, WellRun, Told, InTerminal, CreatePcs, PartPcs
  <2>2. Opened(prov, clock).phase # "none"
    BY ArgumentTypes DEF Opened, ProviderSessions, HandlerInv
  <2> HIDE DEF h
  <2>3. Call(s, Opened(prov, clock), h) \/ CallFault(s, Opened(prov, clock), Fail)
    BY <1>2 DEF CreateStart, h
  <2> QED BY <1>1, <2>1, <2>2, <2>3, OverBecomes, CallOutcome
<1>3. CASE CreateInsert(s)
  <2> DEFINE new == NewRow(slot[s].seen.state, slot[s].seen.state.until)
  <2>1. slot[s].job = "create"
    BY <1>1, <1>3 DEF CreateInsert, At, WellRun, CreatePcs
  <2>2. \A r : Becomes(s, Answer(s, "ok"), r)
    BY <2>1, AnswerBecomes DEF Replies
  <2>3. \A r : Becomes(s, Goto(s, "nUndo"), r)
    BY <1>1, <1>3, <2>1, GotoGoesOn, GoesOnBecomes DEF CreateInsert, At
  <2> HIDE DEF new
  <2>4. Db(s, new, Answer(s, "ok")) \/ DbFault(s, new, Goto(s, "nUndo"))
    BY <1>3 DEF CreateInsert, new
  <2> QED BY <1>1, <2>2, <2>3, <2>4, DbOutcome
<1>4. CASE CreateUndo(s)
  <2>1. prov.phase # "none" => Abort(prov, slot[s].seen.state, clock).prov.phase # "none"
    BY ArgumentTypes, PhasesAdvance DEF HandlerInv
  <2> QED BY <1>1, <1>4, <2>1, OverBecomes, CallOutcome DEF CreateUndo
<1> QED BY <1>2, <1>3, <1>4 DEF CreateStep

\* Every step of uploadResumablePart is an outcome.
LEMMA PartOutcome ==
  ASSUME HandlerInv, NEW s \in Requests, PartStep(s) \/ \E n \in Parts : PartStart(s, n)
  PROVE  Outcome(s)
<1>1. TypeInv /\ clock \in Nat /\ WellRun(slot[s])
  BY ArgumentTypes DEF HandlerInv
<1>2. ASSUME NEW n \in Parts, PartStart(s, n)
      PROVE  Outcome(s)
  <2> DEFINE h == [Idle EXCEPT !.job = "part", !.part = n]
  <2>1. Recorded(n) => Becomes(s, [h EXCEPT !.reply = "ok"], row)
    BY <1>1 DEF Becomes, Recorded, Told, Idle, WellRun, InTerminal, CreatePcs, PartPcs
  <2>2. Becomes(s, [h EXCEPT !.pc = "pDriver"], row)
    BY <1>1 DEF Becomes, Told, Idle, WellRun, InTerminal, CreatePcs, PartPcs
  <2> HIDE DEF h
  <2>3. \/ Recorded(n) /\ Db(s, row, [h EXCEPT !.reply = "ok"])
        \/ Db(s, row, [h EXCEPT !.pc = "pDriver"])
        \/ Db(s, row, Fail)
    BY <1>2 DEF PartStart, h
  <2> QED BY <1>1, <2>1, <2>2, <2>3, OverBecomes, DbOutcome
<1>3. CASE PartStep(s)
  <2> DEFINE n == slot[s].part
  <2>1. slot[s].pc \in PartPcs /\ ~At(s, "idle") /\ slot[s].job = "part"
    BY <1>1, <1>3
       DEF PartStep, PartDriver, PartClaim, PartReload, PartClaimed, PartPut, PartRow, PartCas,
           PartAfter, PartRelease, At, PartPcs, WellRun
  <2>2. Recorded(n) => Becomes(s, Answer(s, "ok"), row)
    BY <2>1, AnswerBecomes DEF Recorded, Replies
  <2>3. \A pc \in PartPcs : \A r : Becomes(s, Goto(s, pc), r)
    BY <1>1, <2>1, GotoGoesOn, GoesOnBecomes
  <2>4. \A r, x : Becomes(s, [Goto(s, "pPut") EXCEPT !.seen = x], r)
                  /\ Becomes(s, [Goto(s, "pCas") EXCEPT !.seen = x], r)
    BY <1>1, <2>1, GotoGoesOn, GoesOnBecomes DEF PartPcs
  <2>5. \A x, y : Becomes(s, [Goto(s, "pRow") EXCEPT !.seen = x, !.res = y], row)
    BY <1>1, <2>1, GotoGoesOn, GoesOnBecomes DEF PartPcs
  <2>6. CASE PartDriver(s)
    <3>1. Becomes(s, [Goto(s, "pClaim") EXCEPT !.at = clock], row)
      BY <1>1, <2>1 DEF Becomes, Goto, Told, WellRun, InTerminal, CreatePcs, PartPcs, At,
                        TypeInv, TypeOK, Handlers
    <3> QED BY <1>1, <2>6, <3>1, OverBecomes, DbOutcome DEF PartDriver
  <2>7. CASE PartClaim(s)
    BY <1>1, <2>3, <2>7, OverBecomes, DbOutcome DEF PartClaim, PartPcs
  <2>8. CASE PartReload(s)
    BY <1>1, <2>2, <2>8, OverBecomes, DbOutcome DEF PartReload
  <2>9. CASE PartClaimed(s)
    BY <1>1, <2>4, <2>9, OverBecomes, DbOutcome DEF PartClaimed
  <2>10. CASE PartPut(s)
    <3>1. PICK o \in UploadPart(prov, slot[s].seen.state, n, clock) :
            \/ Call(s, o.prov, [Goto(s, "pRow") EXCEPT !.seen = NoSnapshot,
                                                       !.res = [state |-> o.state, item |-> o.item]])
            \/ Call(s, o.prov, Goto(s, "pRelease"))
            \/ CallFault(s, o.prov, Goto(s, "pRelease"))
      BY <2>10 DEF PartPut
    <3>2. prov.phase # "none" => o.prov.phase # "none"
      BY <1>1, <2>1, ArgumentTypes, PhasesAdvance
    <3>3. Becomes(s, Goto(s, "pRelease"), row)
      BY <2>3 DEF PartPcs
    <3> QED BY <1>1, <2>5, <3>1, <3>2, <3>3, CallOutcome
  <2>11. CASE PartRow(s)
    <3>1. /\ Becomes(s, [Goto(s, "pCas") EXCEPT !.seen = Snapshot(row)], row)
          /\ Becomes(s, Goto(s, "pRelease"), row) /\ Becomes(s, Fail, row)
      BY <2>3, <2>4, OverBecomes DEF PartPcs
    <3>2. \/ Db(s, row, [Goto(s, "pCas") EXCEPT !.seen = Snapshot(row)])
          \/ Recorded(n) /\ Db(s, row, Answer(s, "ok"))
          \/ Db(s, row, Fail)
          \/ DbFault(s, row, Goto(s, "pRelease"))
      BY <2>11 DEF PartRow
    <3> QED BY <1>1, <2>2, <3>1, <3>2, DbOutcome
  <2>12. CASE PartCas(s)
    <3> DEFINE r == IF RecordPartWhere(row, slot[s].part, Exp(slot[s]), slot[s].seen)
                      THEN RecordPartSet(row, slot[s].part, slot[s].res.state, slot[s].res.item,
                                         slot[s].seen)
                      ELSE row
    <3>1. /\ \A q : Becomes(s, Goto(s, "pAfter"), q) /\ Becomes(s, Goto(s, "pRelease"), q)
          /\ \A q : Becomes(s, Fail, q)
      BY <2>3, OverBecomes DEF PartPcs
    <3>2. \/ Db(s, r, Goto(s, "pAfter"))
          \/ DbFault(s, r, Goto(s, "pRelease"))
      BY <2>12 DEF PartCas
    <3> HIDE DEF r
    <3> QED BY <1>1, <3>1, <3>2, DbOutcome
  <2>13. CASE PartAfter(s)
    BY <1>1, <2>2, <2>3, <2>13, OverBecomes, DbOutcome DEF PartAfter, PartPcs
  <2>14. CASE PartRelease(s)
    BY <1>1, <2>14, OverBecomes, DbOutcome DEF PartRelease
  <2> QED BY <1>3, <2>6, <2>7, <2>8, <2>9, <2>10, <2>11, <2>12, <2>13, <2>14 DEF PartStep
<1> QED BY <1>2, <1>3

\* The first read of completeResumableUpload is an outcome.
LEMMA CompleteReadOutcome ==
  ASSUME HandlerInv, NEW s \in Requests, NEW job \in Jobs, CompleteRead(s, job)
  PROVE  Outcome(s)
<1> DEFINE h == [Idle EXCEPT !.job = job]
           proceed == [h EXCEPT !.pc = "cClaim", !.at = clock]
<1>1. TypeInv /\ clock \in Nat
  BY ArgumentTypes DEF HandlerInv
<1>2. row.status = "completed" =>
        /\ job = "complete" => Becomes(s, [h EXCEPT !.reply = "ok"], row)
        /\ job = "abort" => Becomes(s, [h EXCEPT !.reply = "already"], row)
  BY <1>1 DEF Becomes, Told, Idle, WellRun, InTerminal, CreatePcs, PartPcs
<1>3. Becomes(s, proceed, row)
  BY <1>1 DEF Becomes, Told, Idle, WellRun, InTerminal, CreatePcs, PartPcs
<1> HIDE DEF h, proceed
<1>4. \/ /\ row.status = "completed"
         /\ \/ job = "complete" /\ Db(s, row, [h EXCEPT !.reply = "ok"])
            \/ job = "abort" /\ Db(s, row, [h EXCEPT !.reply = "already"])
            \/ Db(s, row, Idle)
      \/ Db(s, row, proceed) \/ Db(s, row, Fail) \/ DbFault(s, row, Fail)
  BY DEF CompleteRead, h, proceed
<1> QED BY <1>1, <1>2, <1>3, <1>4, OverBecomes, DbOutcome

\* Every step of completeResumableUpload is an outcome.
LEMMA CompleteOutcome ==
  ASSUME HandlerInv, NEW s \in Requests, CompleteStep(s) \/ CompleteStart(s)
  PROVE  Outcome(s)
<1> DEFINE e == Exp(slot[s])
<1>1. TypeInv /\ clock \in Nat /\ WellRun(slot[s]) /\ row \in Rows
  BY ArgumentTypes DEF HandlerInv
<1>2. CASE CompleteStart(s)
  BY <1>2, CompleteReadOutcome DEF CompleteStart, Jobs
<1>3. CASE CompleteEnter(s)
  BY <1>1, <1>3, ArgumentTypes, CompleteReadOutcome DEF CompleteEnter
<1>4. ASSUME ~At(s, "idle")
      PROVE  /\ \A r : /\ Becomes(s, Goto(s, "cRelease"), r)
                       /\ Becomes(s, Goto(s, "cReload"), r)
             /\ \A x : Becomes(s, [Goto(s, "cRelease") EXCEPT !.seen = x], row)
             /\ \A r : HoldsTerminal(r, "complete", s, e) => Becomes(s, Goto(s, "cClaimed"), r)
             /\ At(s, "cClaimed") => \A x : Becomes(s, [Goto(s, "cPut") EXCEPT !.seen = x], row)
             /\ At(s, "cPut") => \A x : Becomes(s, [Goto(s, "cPersist") EXCEPT !.seen = x], row)
  BY <1>4, GotoBecomes DEF CompletePcs, InTerminal, TerminalOp, At
<1>5. CASE CompleteClaim(s)
  <2>1. ~At(s, "idle")
    BY <1>5 DEF CompleteClaim, At
  <2>2. HoldsTerminal(ClaimTerminalSet(row, "complete", s, e), "complete", s, e)
    BY <1>1 DEF HoldsTerminal, ClaimTerminalSet, WithoutPartClaim, Rows
  <2> QED BY <1>1, <1>4, <1>5, <2>1, <2>2, OverBecomes, DbOutcome DEF CompleteClaim
<1>6. CASE CompleteClaimed(s)
  BY <1>1, <1>4, <1>6, OverBecomes, DbOutcome DEF CompleteClaimed, At
<1>7. CASE CompletePut(s)
  <2> DEFINE o == Complete(prov, slot[s].seen.state, slot[s].seen.parts, slot[s].seen.item, clock)
  <2>1. prov.phase # "none" => o.prov.phase # "none"
    BY <1>1, ArgumentTypes, PhasesAdvance
  <2>2. \/ Call(s, o.prov, [Goto(s, "cPersist") EXCEPT !.seen = NoSnapshot])
        \/ Call(s, o.prov, [Goto(s, "cRelease") EXCEPT !.seen = NoSnapshot])
        \/ CallFault(s, o.prov, [Goto(s, "cRelease") EXCEPT !.seen = NoSnapshot])
    BY <1>7 DEF CompletePut
  <2>3. ~At(s, "idle") /\ At(s, "cPut")
    BY <1>7 DEF CompletePut, At
  <2> HIDE DEF o
  <2> QED BY <1>1, <1>4, <2>1, <2>2, <2>3, CallOutcome
<1>8. \A r : r.status = "completed" => Becomes(s, Completed(s), r)
  BY <1>1, OverBecomes, ArgumentTypes DEF Completed, Answer, Told, Idle, Replies, Jobs
<1>9. Becomes(s, Completed(s), CompleteSet(row))
  <2>1. CompleteSet(row).status = "completed"
    BY <1>1 DEF CompleteSet, WithoutTerminalClaim, Rows
  <2> QED BY <1>8, <2>1
<1>10. CASE CompletePersist(s)
  BY <1>1, <1>4, <1>9, <1>10, OverBecomes, DbOutcome DEF CompletePersist, At
<1>11. CASE CompleteReload(s)
  BY <1>1, <1>8, <1>11, OverBecomes, DbOutcome DEF CompleteReload
<1>12. CASE CompleteRelease(s)
  BY <1>1, <1>12, OverBecomes, DbOutcome DEF CompleteRelease
<1> QED BY <1>2, <1>3, <1>5, <1>6, <1>7, <1>10, <1>11, <1>12 DEF CompleteStep

\* What abortResumableUpload answers to the row it reads is an outcome.
LEMMA VerdictOutcome ==
  ASSUME HandlerInv, NEW s \in Requests, NEW f, NEW u, AbortVerdict(s, f, u),
         Becomes(s, f, row), Becomes(s, u, row)
  PROVE  Outcome(s)
<1> DEFINE told(y) == [Idle EXCEPT !.job = "abort", !.reply = y]
<1>1. TypeInv /\ clock \in Nat
  BY ArgumentTypes DEF HandlerInv
<1>2. /\ row.status = "aborted" => Becomes(s, told("ok"), row)
      /\ row.status = "completed" => Becomes(s, told("already"), row)
  BY <1>1 DEF Becomes, Told, Idle, WellRun, InTerminal, CreatePcs, PartPcs
<1> HIDE DEF told
<1>3. \/ row.status = "aborted" /\ Db(s, row, told("ok"))
      \/ row.status = "completed" /\ Db(s, row, told("already"))
      \/ Db(s, row, f) \/ Db(s, row, u) \/ Db(s, row, Fail)
  BY DEF AbortVerdict, told
<1> QED BY <1>1, <1>2, <1>3, OverBecomes, DbOutcome

\* Every step of cancellation and cleanup is an outcome.
LEMMA AbortOutcome ==
  ASSUME HandlerInv, NEW s \in Requests, AbortStep(s) \/ AbortStart(s) \/ CleanupStart(s)
  PROVE  Outcome(s)
<1> DEFINE e == Exp(slot[s])
           asked == [Idle EXCEPT !.job = "abort"]
           cleaning == [Idle EXCEPT !.job = "cleanup"]
<1>1. TypeInv /\ clock \in Nat /\ WellRun(slot[s]) /\ row \in Rows
  BY ArgumentTypes DEF HandlerInv
<1>2. \A h \in {asked, cleaning} : \A r :
        Becomes(s, [h EXCEPT !.pc = "cRead"], r) /\ Becomes(s, [h EXCEPT !.pc = "aClaim", !.at = clock], r)
  BY <1>1 DEF Becomes, Told, Idle, WellRun, InTerminal, CreatePcs, PartPcs
<1>3. ASSUME ~At(s, "idle")
      PROVE  /\ \A r : /\ Becomes(s, Goto(s, "aReload"), r) /\ Becomes(s, Goto(s, "aRelease"), r)
                       /\ Becomes(s, Goto(s, "aLost"), r) /\ Becomes(s, Goto(s, "aGiveBack"), r)
             /\ \A x : Becomes(s, [Goto(s, "aRelease") EXCEPT !.seen = x], row)
             /\ \A r : HoldsTerminal(r, "abort", s, e) => Becomes(s, Goto(s, "aClaimed"), r)
             /\ At(s, "aClaimed") => \A x : Becomes(s, [Goto(s, "aPut") EXCEPT !.seen = x], row)
             /\ At(s, "aPut") => \A x : Becomes(s, [Goto(s, "aMark") EXCEPT !.seen = x], row)
  <2>1. \A pc \in {"aReload", "aRelease", "aLost", "aGiveBack"} : pc \in AbortPcs \ InTerminal
    BY DEF AbortPcs, InTerminal
  <2>2. \A pc \in {"aClaimed", "aPut", "aMark"} : pc \in InTerminal /\ TerminalOp(pc) = "abort"
    BY DEF InTerminal, TerminalOp, CompletePcs
  <2> QED BY <1>3, <2>1, <2>2, GotoBecomes DEF At
<1>4. CASE AbortStart(s)
  <2>1. AbortVerdict(s, [asked EXCEPT !.pc = "cRead"], [asked EXCEPT !.pc = "aClaim", !.at = clock])
    BY <1>4 DEF AbortStart
  <2> HIDE DEF asked
  <2> QED BY <1>2, <2>1, VerdictOutcome
<1>5. CASE CleanupStart(s)
  <2>1. Db(s, row, [cleaning EXCEPT !.pc = "cRead"])
        \/ Db(s, row, [cleaning EXCEPT !.pc = "aClaim", !.at = clock])
    BY <1>5 DEF CleanupStart
  <2> HIDE DEF cleaning
  <2> QED BY <1>1, <1>2, <2>1, DbOutcome
<1>6. CASE AbortClaim(s)
  <2>1. ~At(s, "idle")
    BY <1>6 DEF AbortClaim, At
  <2>2. HoldsTerminal(ClaimTerminalSet(row, "abort", s, e), "abort", s, e)
    BY <1>1 DEF HoldsTerminal, ClaimTerminalSet, WithoutPartClaim, Rows
  <2> QED BY <1>1, <1>3, <1>6, <2>1, <2>2, OverBecomes, DbOutcome DEF AbortClaim
<1>7. CASE AbortReload(s)
  <2>1. AbortVerdict(s, [asked EXCEPT !.pc = "cRead"], Fail) \/ DbFault(s, row, Fail)
    BY <1>7 DEF AbortReload
  <2> HIDE DEF asked
  <2> QED BY <1>1, <1>2, <2>1, OverBecomes, VerdictOutcome, DbOutcome
<1>8. CASE AbortClaimed(s)
  BY <1>1, <1>3, <1>8, OverBecomes, DbOutcome DEF AbortClaimed, At
<1>9. CASE AbortPut(s)
  <2> DEFINE o == Abort(prov, slot[s].seen.state, clock)
  <2>1. prov.phase # "none" => o.prov.phase # "none"
    BY <1>1, ArgumentTypes, PhasesAdvance
  <2>2. \/ Call(s, o.prov, [Goto(s, "aMark") EXCEPT !.seen = NoSnapshot])
        \/ Call(s, o.prov, [Goto(s, "aRelease") EXCEPT !.seen = NoSnapshot])
        \/ CallFault(s, o.prov, [Goto(s, "aRelease") EXCEPT !.seen = NoSnapshot])
    BY <1>9 DEF AbortPut
  <2>3. ~At(s, "idle") /\ At(s, "aPut")
    BY <1>9 DEF AbortPut, At
  <2> HIDE DEF o
  <2> QED BY <1>1, <1>3, <2>1, <2>2, <2>3, CallOutcome
<1>10. CASE AbortMark(s)
  <2>1. slot[s].job = "abort" => Becomes(s, Answer(s, "ok"), MarkAbortedSet(row))
    <3>1. MarkAbortedSet(row).status = "aborted"
      BY <1>1 DEF MarkAbortedSet, WithoutPartClaim, WithoutTerminalClaim, Rows
    <3> QED BY <3>1, AnswerBecomes DEF Replies
  <2>2. ~At(s, "idle")
    BY <1>10 DEF AbortMark, At
  <2> QED BY <1>1, <1>3, <1>10, <2>1, <2>2, OverBecomes, DbOutcome DEF AbortMark
<1>11. CASE AbortLost(s)
  <2>1. ~At(s, "idle")
    BY <1>11 DEF AbortLost, At
  <2>2. AbortVerdict(s, Goto(s, "aGiveBack"), Fail) \/ DbFault(s, row, Fail)
    BY <1>11 DEF AbortLost
  <2>3. Becomes(s, Goto(s, "aGiveBack"), row) /\ Becomes(s, Fail, row)
    BY <1>3, <2>1, OverBecomes
  <2>4. CASE AbortVerdict(s, Goto(s, "aGiveBack"), Fail)
    BY <2>3, <2>4, VerdictOutcome
  <2>5. CASE DbFault(s, row, Fail)
    BY <1>1, <2>3, <2>5, DbOutcome
  <2> QED BY <2>2, <2>4, <2>5
<1>12. CASE AbortRelease(s)
  <2> DEFINE r == IF ReleaseTerminalWhere(row, "abort", s, e) THEN ReleaseTerminalSet(row) ELSE row
             h == IF At(s, "aGiveBack") THEN [asked EXCEPT !.pc = "cRead"] ELSE Fail
  <2>1. Db(s, r, h) \/ DbFault(s, r, h)
    BY <1>12 DEF AbortRelease
  <2>2. \A x : Becomes(s, [asked EXCEPT !.pc = "cRead"], x)
    BY <1>2
  <2> HIDE DEF asked, r
  <2>3. Becomes(s, h, r) /\ Becomes(s, h, row)
    BY <2>2, OverBecomes
  <2> HIDE DEF h
  <2> QED BY <1>1, <2>1, <2>3, DbOutcome
<1> QED BY <1>4, <1>5, <1>6, <1>7, <1>8, <1>9, <1>10, <1>11, <1>12 DEF AbortStep

\* An eviction is an outcome.
LEMMA EvictOutcome ==
  ASSUME HandlerInv, NEW s \in Requests, Evict(s)
  PROVE  Outcome(s)
BY ArgumentTypes DEF HandlerInv, TypeInv, Evict, Fault, Become, Outcome, LeaseFrom, WellRun, Told, Idle,
                     InTerminal, CreatePcs, PartPcs

\* Every step of the system that moves a handler is an outcome of that handler.
LEMMA HandlerSteps ==
  ASSUME HandlerInv, NEW s \in Requests, Start(s) \/ Step(s) \/ Evict(s)
  PROVE  Outcome(s) /\ Statement(s)
<1>1. Outcome(s)
  BY CreateOutcome, PartOutcome, CompleteOutcome, AbortOutcome, EvictOutcome DEF Start, Step
<1>2. Statement(s)
  BY CreateStatements, PartStatements, CompleteStatements, AbortStatements
     DEF HandlerInv, Start, Step, Evict, Statement
<1> QED BY <1>1, <1>2

-----------------------------------------------------------------------------
(* Only one row is ever inserted: while a handler is about to insert it    *)
(* nothing has happened yet, and until then nothing can.                   *)

Fresh ==
  /\ prov.phase = "none" => row = NoRow /\ \A t \in Requests : slot[t] = Idle
  /\ \A s \in Requests :
       At(s, "nInsert") =>
         prov.phase # "none" /\ row = NoRow /\ \A t \in Requests \ {s} : slot[t] = Idle

\* Until the INSERT there is no row, so no other handler gets past its first read.
LEMMA QuietStart ==
  ASSUME TypeInv, row = NoRow, NEW t \in Requests, slot[t] = Idle, Start(t) \/ Step(t) \/ Evict(t)
  PROVE  \/ CreateStart(t)
         \/ slot'[t] = Idle /\ row' = NoRow /\ prov' = prov
<1>1. row.status = "absent" /\ slot[t].pc = "idle"
  BY DEF NoRow, NewRow, Idle
<1>2. ~Step(t) /\ ~Evict(t)
  BY <1>1
     DEF Step, CreateStep, PartStep, CompleteStep, AbortStep, CreateInsert, CreateUndo, PartDriver,
         PartClaim, PartReload, PartClaimed, PartPut, PartRow, PartCas, PartAfter, PartRelease,
         CompleteEnter, CompleteClaim, CompleteClaimed, CompletePut, CompletePersist, CompleteReload,
         CompleteRelease, AbortClaim, AbortReload, AbortClaimed, AbortPut, AbortMark, AbortLost,
         AbortRelease, Evict, At
<1>3. Db(t, row, Fail) \/ DbFault(t, row, Fail) => slot'[t] = Idle /\ row' = NoRow /\ prov' = prov
  BY DbMoves DEF Fail
<1>4. (\E n \in Parts : PartStart(t, n)) => Db(t, row, Fail)
  BY <1>1 DEF PartStart, Exists
<1>5. CompleteStart(t) => Db(t, row, Fail) \/ DbFault(t, row, Fail)
  BY <1>1 DEF CompleteStart, CompleteRead
<1>6. AbortStart(t) => Db(t, row, Fail)
  BY <1>1 DEF AbortStart, AbortVerdict
<1>7. ~CleanupStart(t)
  BY <1>1 DEF CleanupStart, CleanupCandidate, IsExpired
<1> QED BY <1>2, <1>3, <1>4, <1>5, <1>6, <1>7 DEF Start

\* Only one row is ever inserted, and only before any other handler holds a lease.
LEMMA FreshSteps ==
  ASSUME HandlerInv, Fresh, [Next]_vars
  PROVE  Fresh'
<1>1. ASSUME NEW s \in Requests, Start(s) \/ Step(s) \/ Evict(s)
      PROVE  Fresh'
  <2>1. Outcome(s) /\ TypeInv
    BY <1>1, HandlerSteps DEF HandlerInv
  <2>2. \A t \in Requests \ {s} : slot'[t] = slot[t]
    BY <2>1 DEF Outcome
  <2>3. CASE CreateStart(s)
    <3>1. prov.phase = "none" /\ row = NoRow /\ \A t \in Requests : slot[t] = Idle
      BY <2>3 DEF CreateStart, Fresh
    <3>2. row' = NoRow
      BY <2>3, <3>1 DEF CreateStart, Call, CallFault
    <3>3. slot'[s] = Idle \/ prov'.phase # "none"
      BY <2>1, <2>3, CallMoves, ArgumentTypes
         DEF CreateStart, Call, Fail, Opened, ProviderSessions
    <3>4. ~At(s, "nInsert")' \/ prov'.phase # "none"
      BY <3>3 DEF At, Idle
    <3>5. \A t \in Requests \ {s} : slot'[t] = Idle /\ ~At(t, "nInsert")'
      BY <2>2, <3>1 DEF At, Idle
    <3> QED BY <3>2, <3>3, <3>4, <3>5 DEF Fresh
  <2>4. CASE ~CreateStart(s) /\ prov.phase = "none"
    <3>1. row = NoRow /\ \A t \in Requests : slot[t] = Idle
      BY <2>4 DEF Fresh
    <3>2. row' = NoRow /\ prov' = prov /\ slot'[s] = Idle
      BY <1>1, <2>1, <2>4, <3>1, QuietStart
    <3>3. \A t \in Requests : slot'[t] = Idle /\ ~At(t, "nInsert")'
      BY <2>2, <3>1, <3>2 DEF At, Idle
    <3> QED BY <3>2, <3>3 DEF Fresh
  <2>5. CASE ~CreateStart(s) /\ prov.phase # "none"
    <3>1. prov'.phase # "none" /\ ~At(s, "nInsert")'
      BY <2>1, <2>5 DEF Outcome, At
    <3>2. ASSUME NEW u \in Requests \ {s}, At(u, "nInsert")'
          PROVE  row' = NoRow /\ \A t \in Requests \ {u} : slot'[t] = Idle
      <4>1. row = NoRow /\ \A t \in Requests \ {u} : slot[t] = Idle
        BY <2>2, <3>2 DEF Fresh, At
      <4>2. row' = NoRow /\ slot'[s] = Idle
        BY <1>1, <2>1, <2>5, <4>1, QuietStart
      <4> QED BY <2>2, <4>1, <4>2
    <3> QED BY <3>1, <3>2 DEF Fresh
  <2> QED BY <2>3, <2>4, <2>5
<1>2. CASE RowVanishes
  BY <1>2 DEF RowVanishes, Fresh, At
<1>3. CASE ProviderExpires
  <2>1. prov'.phase # "none" /\ prov.phase # "none"
    BY <1>3, ArgumentTypes DEF HandlerInv, TypeInv, TypeOK, ProviderExpires, Closed, ProviderSessions
  <2> QED BY <1>3, <2>1 DEF ProviderExpires, Fresh, At
<1>4. CASE Tick \/ UNCHANGED vars
  BY <1>4 DEF Tick, vars, Fresh, At
<1> QED BY <1>1, <1>2, <1>3, <1>4 DEF Next

\* Handlers past their claim keep the job and the reply they started with.
LEMMA HandlersStayWellRun ==
  ASSUME HandlerInv, [Next]_vars, TypeInv'
  PROVE  HandlerInv'
<1>1. ASSUME NEW s \in Requests, Start(s) \/ Step(s) \/ Evict(s)
      PROVE  HandlerInv'
  BY <1>1, HandlerSteps DEF HandlerInv, Outcome
<1>2. CASE RowVanishes \/ ProviderExpires \/ UNCHANGED vars
  BY <1>2 DEF RowVanishes, ProviderExpires, vars, HandlerInv
<1>3. CASE Tick
  BY <1>3, ArgumentTypes DEF Tick, HandlerInv
<1> QED BY <1>1, <1>2, <1>3 DEF Next

-----------------------------------------------------------------------------
(* Rows only advance.                                                      *)

Advances(r, q) ==
  q # r /\ q.status # "absent" /\ r.status # "absent" =>
    /\ r.parts \subseteq q.parts
    /\ r.item => q.item /\ q.status # "aborted"
    /\ r.status = "completed" => q.status = "completed"
    /\ r.status = "aborted" => q = r

\* A statement drops no recorded part, forgets no item and revives no final row.
LEMMA StatementsAdvance ==
  ASSUME TypeInv, NEW s \in Requests, Statement(s), At(s, "nInsert") => row = NoRow
  PROVE  Advances(row, row') /\ (row.status = "absent" => At(s, "nInsert") \/ row' = row)
<1>1. row \in Rows /\ slot[s].res.item \in BOOLEAN /\ slot[s].seen.item \in BOOLEAN
  BY ArgumentTypes
<1> DEFINE h == slot[s]
           Goal == Advances(row, row') /\ (row.status = "absent" => At(s, "nInsert") \/ row' = row)
<1>2. CASE row' = row
  BY <1>2 DEF Advances
<1>3. CASE At(s, "nInsert")
  BY <1>3 DEF Advances, NoRow, NewRow
<1>4. CASE ClaimPartWhere(row, h.at) /\ row' = ClaimPartSet(row, h.part, Exp(h))
  BY <1>1, <1>4 DEF ClaimPartWhere, ClaimPartSet, WithoutTerminalClaim, Advances, Rows
<1>5. CASE /\ RecordPartWhere(row, h.part, Exp(h), h.seen)
           /\ row' = RecordPartSet(row, h.part, h.res.state, h.res.item, h.seen)
  BY <1>1, <1>5 DEF RecordPartWhere, HoldsPart, RecordPartSet, WithoutPartClaim, Advances, Rows
<1>6. CASE HoldsPart(row, h.part, Exp(h)) /\ row' = ReleasePartSet(row)
  BY <1>1, <1>6 DEF HoldsPart, ReleasePartSet, WithoutPartClaim, Advances, Rows
<1>7. ASSUME NEW op \in TerminalOps, ClaimTerminalWhere(row, op, h.at),
             row' = ClaimTerminalSet(row, op, s, Exp(h))
      PROVE  Goal
  BY <1>1, <1>7 DEF ClaimTerminalWhere, ClaimTerminalSet, WithoutPartClaim, Advances, Rows
<1>8. CASE CompleteWhere(row, s, Exp(h)) /\ row' = CompleteSet(row)
  BY <1>1, <1>8 DEF CompleteWhere, CompleteSet, WithoutTerminalClaim, Advances, Rows
<1>9. CASE MarkAbortedWhere(row, s, Exp(h)) /\ row' = MarkAbortedSet(row)
  BY <1>1, <1>9
     DEF MarkAbortedWhere, MarkAbortedSet, WithoutPartClaim, WithoutTerminalClaim, Advances, Rows
<1>10. ASSUME NEW op \in TerminalOps, ReleaseTerminalWhere(row, op, s, Exp(h)),
              row' = ReleaseTerminalSet(row)
       PROVE  Goal
  BY <1>1, <1>10 DEF ReleaseTerminalWhere, ReleaseTerminalSet, WithoutTerminalClaim, Advances, Rows
<1> QED BY <1>2, <1>3, <1>4, <1>5, <1>6, <1>7, <1>8, <1>9, <1>10 DEF Statement

\* A step of the system keeps what RowOnlyAdvances keeps.
LEMMA StepsAdvance ==
  ASSUME HandlerInv, Fresh, [Next]_vars
  PROVE  Advances(row, row')
<1>1. TypeInv
  BY DEF HandlerInv
<1>2. ASSUME NEW s \in Requests, Statement(s)
      PROVE  Advances(row, row')
  BY <1>1, <1>2, StatementsAdvance DEF Fresh
<1>3. Advances(row, row) /\ Advances(row, NoRow)
  BY DEF Advances, NoRow, NewRow
<1> QED BY <1>1, <1>2, <1>3, RowSteps

-----------------------------------------------------------------------------
(* Terminal leases.                                                        *)

\* A lease in force stops the statements of everybody else.
LEMMA LeaseBlocks ==
  ASSUME TypeInv, NEW s \in Requests, NEW u \in Requests \ {s}, slot[s].at <= clock,
         NEW op \in TerminalOps, NEW e \in Nat, e > clock, HoldsTerminal(row, op, u, e), Statement(s)
  PROVE  row' = row \/ At(s, "nInsert")
<1>1. row.owner = u /\ row.termExp = e /\ row.termOp = op /\ row.owner # NoOwner /\ row.owner # s
  BY NoOwnerAssumption DEF HoldsTerminal
<1>2. clock \in Nat /\ slot[s].at \in Nat
  BY ArgumentTypes
<1>3. ~NoTerminalClaim(row) /\ ~TerminalClaimFree(row, slot[s].at)
  BY <1>1, <1>2 DEF NoTerminalClaim, TerminalClaimFree
<1>4. \A o, x : ~HoldsTerminal(row, o, s, x)
  BY <1>1 DEF HoldsTerminal
<1> QED BY <1>3, <1>4
        DEF Statement, ClaimPartWhere, RecordPartWhere, HoldsPart, ClaimTerminalWhere, CompleteWhere,
            MarkAbortedWhere, ReleaseTerminalWhere

\* No step of anyone takes a terminal lease in force from its handler.
LEMMA LeasesStayExclusive ==
  ASSUME HandlerInv, Fresh, TerminalLeaseIsExclusive, [Next]_vars
  PROVE  TerminalLeaseIsExclusive'
<1> DEFINE InForce(u) == slot[u].pc \in InTerminal /\ Exp(slot[u]) > clock
           Holds(u) == HoldsTerminal(row, TerminalOp(slot[u].pc), u, Exp(slot[u]))
<1>1. TypeInv
  BY DEF HandlerInv
<1>2. ASSUME NEW s \in Requests, Start(s) \/ Step(s) \/ Evict(s)
      PROVE  TerminalLeaseIsExclusive'
  <2>1. Outcome(s) /\ Statement(s) /\ clock' = clock
    BY <1>2, HandlerSteps DEF Outcome
  <2>2. ASSUME InForce(s)', Exists'
        PROVE  Holds(s)'
    <3>1. LeaseFrom(s, slot'[s])
      BY <2>1 DEF Outcome
    <3>2. CASE /\ slot[s].pc \in InTerminal /\ TerminalOp(slot'[s].pc) = TerminalOp(slot[s].pc)
               /\ slot'[s].at = slot[s].at /\ row' = row
      <4>1. Exp(slot'[s]) = Exp(slot[s])
        BY <3>2 DEF Exp
      <4>2. Holds(s)
        BY <2>1, <2>2, <3>2, <4>1 DEF TerminalLeaseIsExclusive, Exists
      <4> QED BY <3>2, <4>1, <4>2 DEF HoldsTerminal
    <3> QED BY <2>2, <3>1, <3>2 DEF LeaseFrom
  <2>3. ASSUME NEW u \in Requests \ {s}, InForce(u)', Exists'
        PROVE  Holds(u)'
    <3>1. slot'[u] = slot[u] /\ InForce(u)
      BY <2>1, <2>3 DEF Outcome
    <3>2. ~At(s, "nInsert")
      BY <3>1 DEF Fresh, Idle, InTerminal
    <3>3. Exists
      BY <1>1, <2>1, <2>3, <3>2, StatementsAdvance DEF Exists
    <3>4. Holds(u)
      BY <3>1, <3>3 DEF TerminalLeaseIsExclusive
    <3>5. TerminalOp(slot[u].pc) \in TerminalOps
      BY DEF TerminalOp, TerminalOps
    <3>6. row' = row
      <4>1. slot[s].at <= clock /\ Exp(slot[u]) \in Nat
        BY <1>1, ArgumentTypes DEF HandlerInv
      <4> QED BY <1>1, <2>1, <3>1, <3>2, <3>4, <3>5, <4>1, LeaseBlocks
    <3> QED BY <3>1, <3>4, <3>6
  <2> QED BY <2>2, <2>3 DEF TerminalLeaseIsExclusive
<1>3. CASE RowVanishes
  BY <1>3 DEF RowVanishes, TerminalLeaseIsExclusive, Exists, NoRow, NewRow
<1>4. CASE Tick
  <2>1. \A u \in Requests : Exp(slot[u]) \in Nat
    BY <1>1, ArgumentTypes
  <2>2. clock \in Nat /\ clock' = clock + 1 /\ slot' = slot /\ row' = row
    BY <1>1, <1>4, ArgumentTypes, MaxTimeAssumption DEF Tick, TypeInv, TypeOK
  <2> QED BY <2>1, <2>2 DEF TerminalLeaseIsExclusive, Exists
<1>5. CASE ProviderExpires \/ UNCHANGED vars
  BY <1>5 DEF ProviderExpires, vars, TerminalLeaseIsExclusive, Exists
<1> QED BY <1>2, <1>3, <1>4, <1>5 DEF Next

-----------------------------------------------------------------------------
(* Where a handler that holds or has used a part lease, or is about to     *)
(* complete, comes from.                                                   *)

\* The phases in which a handler may hold a part lease.
Leased == {"pClaimed", "pPut", "pRow", "pCas", "pRelease"}
Watched == Leased \cup {"cClaimed", "cPut", "cPersist"}

Arrives(s) ==
  LET h == slot[s]
      g == slot'[s]
      reads == Exists /\ g.seen = Snapshot(row) /\ row' = row /\ prov' = prov
  IN /\ g.pc \in Leased => g.part = h.part /\ g.at = h.at /\ g.part \in Parts
     /\ g.pc = "pClaimed" =>
          h.pc = "pClaim" /\ ClaimPartWhere(row, h.at) /\ row' = ClaimPartSet(row, h.part, Exp(h))
     /\ g.pc = "pPut" => h.pc = "pClaimed" /\ reads
     /\ g.pc = "pRow" =>
          /\ h.pc = "pPut" /\ row' = row
          /\ \E o \in UploadPart(prov, h.seen.state, h.part, clock) :
               o.ok /\ prov' = o.prov /\ g.res = [state |-> o.state, item |-> o.item]
     /\ g.pc = "pCas" => h.pc = "pRow" /\ g.res = h.res /\ row' = row /\ prov' = prov
     /\ g.pc = "pRelease" => (h.pc = "pPut" /\ row' = row) \/ faults' # faults
     /\ g.pc = "cClaimed" => h.pc = "cClaim" /\ Exists /\ row'.parts = row.parts
     /\ g.pc = "cPut" => h.pc = "cClaimed" /\ reads
     /\ g.pc = "cPersist" =>
          /\ h.pc = "cPut" /\ row' = row
          /\ LET o == Complete(prov, h.seen.state, h.seen.parts, h.seen.item, clock)
             IN o.ok /\ prov' = o.prov

\* The fields of a handler after its step.
LEMMA MoveFields ==
  ASSUME TypeInv, NEW s \in Requests
  PROVE  /\ Idle.pc \notin Watched /\ Fail.pc \notin Watched /\ Completed(s).pc \notin Watched
         /\ \A y : Answer(s, y).pc \notin Watched
         /\ \A pc : /\ Goto(s, pc).pc = pc /\ Goto(s, pc).part = slot[s].part
                    /\ Goto(s, pc).at = slot[s].at /\ Goto(s, pc).res = slot[s].res
         /\ \A pc, x : LET g == [Goto(s, pc) EXCEPT !.seen = x]
                       IN /\ g.pc = pc /\ g.part = slot[s].part /\ g.at = slot[s].at /\ g.res = slot[s].res
                          /\ g.seen = x
         /\ \A pc, x, y : LET g == [Goto(s, pc) EXCEPT !.seen = x, !.res = y]
                          IN g.pc = pc /\ g.part = slot[s].part /\ g.at = slot[s].at /\ g.res = y
         /\ \A pc, x : [Goto(s, pc) EXCEPT !.at = x].pc = pc
<1>1. slot[s] \in Handlers
  BY DEF TypeInv, TypeOK
<1>2. Idle.pc = "idle" /\ Fail.pc = "idle" /\ \A y : Answer(s, y).pc = "idle"
  BY DEF Idle, Fail, Answer
<1>3. Completed(s).pc = "idle"
  BY <1>2 DEF Completed
<1>4. "idle" \notin Watched
  BY DEF Watched, Leased
<1>5. \A pc : /\ Goto(s, pc).pc = pc /\ Goto(s, pc).part = slot[s].part /\ Goto(s, pc).at = slot[s].at
              /\ Goto(s, pc).res = slot[s].res
  BY <1>1 DEF Goto, Handlers
<1>6. \A pc, x : LET g == [Goto(s, pc) EXCEPT !.seen = x]
                 IN /\ g.pc = pc /\ g.part = slot[s].part /\ g.at = slot[s].at /\ g.res = slot[s].res
                    /\ g.seen = x
  BY <1>1 DEF Goto, Handlers
<1>7. \A pc, x, y : LET g == [Goto(s, pc) EXCEPT !.seen = x, !.res = y]
                    IN g.pc = pc /\ g.part = slot[s].part /\ g.at = slot[s].at /\ g.res = y
  BY <1>1 DEF Goto, Handlers
<1>8. \A pc, x : [Goto(s, pc) EXCEPT !.at = x].pc = pc
  BY <1>1 DEF Goto, Handlers
<1> HIDE DEF Goto, Fail
<1> QED BY <1>2, <1>3, <1>4, <1>5, <1>6, <1>7, <1>8

\* A step that leads elsewhere arrives.
LEMMA Elsewhere ==
  ASSUME TypeInv, NEW s \in Requests, NEW r, NEW p, NEW h, h.pc \notin Watched,
         Db(s, r, h) \/ DbFault(s, r, h) \/ Call(s, p, h) \/ CallFault(s, p, h)
  PROVE  Arrives(s)
<1>1. slot'[s].pc \notin Watched
  BY DbMoves, CallMoves
<1> QED BY <1>1 DEF Arrives, Watched, Leased

\* A step that leads to a release of a part lease after a fault arrives.
LEMMA Releasing ==
  ASSUME TypeInv, NEW s \in Requests, slot[s].pc \in PartPcs, NEW r, NEW p, NEW h, h = Goto(s, "pRelease"),
         DbFault(s, r, h) \/ CallFault(s, p, h)
  PROVE  Arrives(s)
<1>0. faults \in Nat
  BY MaxFaultsAssumption DEF TypeInv, TypeOK
<1>1. slot'[s] = h /\ faults' # faults
  BY <1>0, DbMoves, CallMoves DEF DbFault, CallFault, Fault
<1>2. h.pc = "pRelease" /\ h.part = slot[s].part /\ h.at = slot[s].at /\ h.part \in Parts
  BY MoveFields, ArgumentTypes
<1> QED BY <1>1, <1>2 DEF Arrives
\* Every step of a handler, an eviction included, arrives.
LEMMA CreateArrives ==
  ASSUME TypeInv, NEW s \in Requests, CreateStart(s) \/ CreateStep(s)
  PROVE  Arrives(s)
<1> DEFINE h == [Idle EXCEPT !.job = "create", !.pc = "nInsert", !.seen.state = FreshState(clock)]
<1>1. h.pc \notin Watched /\ Goto(s, "nUndo").pc \notin Watched
  BY MoveFields DEF Idle, Watched, Leased
<1> HIDE DEF h
<1>2. CreateStart(s) => Arrives(s)
  <2>1. CreateStart(s) => Call(s, Opened(prov, clock), h) \/ CallFault(s, Opened(prov, clock), Fail)
    BY DEF CreateStart, h
  <2> QED BY <1>1, <2>1, MoveFields, Elsewhere
<1>3. CreateInsert(s) \/ CreateUndo(s) => Arrives(s)
  BY <1>1, MoveFields, Elsewhere DEF CreateInsert, CreateUndo
<1> QED BY <1>2, <1>3 DEF CreateStep

\* The same of uploadResumablePart.
LEMMA PartArrives ==
  ASSUME TypeInv, NEW s \in Requests, PartStep(s) \/ \E n \in Parts : PartStart(s, n)
  PROVE  Arrives(s)
<1> DEFINE k == slot[s]
<1>0. Fail.pc \notin Watched /\ \A y : Answer(s, y).pc \notin Watched
  BY MoveFields
<1>1. PartStep(s) => k.pc \in PartPcs
  BY DEF PartStep, PartDriver, PartClaim, PartReload, PartClaimed, PartPut, PartRow, PartCas, PartAfter,
         PartRelease, At, PartPcs
<1>2. PartStep(s) => k.part \in Parts
  BY <1>1, ArgumentTypes
<1>3. \A pc : pc \notin Watched => Goto(s, pc).pc \notin Watched
  BY MoveFields
<1>4. ASSUME NEW n \in Parts, PartStart(s, n) PROVE Arrives(s)
  <2> DEFINE h == [Idle EXCEPT !.job = "part", !.part = n]
  <2>1. [h EXCEPT !.reply = "ok"].pc \notin Watched /\ [h EXCEPT !.pc = "pDriver"].pc \notin Watched
    BY DEF Idle, Watched, Leased
  <2> HIDE DEF h
  <2>2. Db(s, row, [h EXCEPT !.reply = "ok"]) \/ Db(s, row, [h EXCEPT !.pc = "pDriver"]) \/ Db(s, row, Fail)
    BY <1>4 DEF PartStart, h
  <2> QED BY <1>0, <2>1, <2>2, Elsewhere
<1>5. CASE PartDriver(s)
  <2>1. [Goto(s, "pClaim") EXCEPT !.at = clock].pc \notin Watched
    BY MoveFields DEF Watched, Leased
  <2> QED BY <1>0, <1>5, <2>1, Elsewhere DEF PartDriver
<1>6. CASE PartClaim(s)
  <2> DEFINE r == IF ClaimPartWhere(row, k.at) THEN ClaimPartSet(row, k.part, Exp(k)) ELSE row
  <2>1. \/ Db(s, r, Goto(s, IF ClaimPartWhere(row, k.at) THEN "pClaimed" ELSE "pReload"))
        \/ DbFault(s, r, Fail)
    BY <1>6 DEF PartClaim
  <2>2. CASE ~ClaimPartWhere(row, k.at)
    BY <1>0, <1>3, <2>1, <2>2, Elsewhere DEF Watched, Leased
  <2>3. CASE ClaimPartWhere(row, k.at) /\ Db(s, r, Goto(s, "pClaimed"))
    <3>1. slot'[s] = Goto(s, "pClaimed") /\ row' = ClaimPartSet(row, k.part, Exp(k))
      BY <2>3, DbMoves DEF Db
    <3>2. k.pc = "pClaim" /\ k.part \in Parts
      BY <1>1, <1>6, ArgumentTypes DEF PartClaim, At, PartPcs
    <3> QED BY <2>3, <3>1, <3>2, MoveFields DEF Arrives
  <2> HIDE DEF r
  <2> QED BY <1>0, <2>1, <2>2, <2>3, Elsewhere
<1>7. CASE PartReload(s) \/ PartAfter(s) \/ PartRelease(s)
  <2>1. PartReload(s) => Arrives(s)
    BY <1>0, Elsewhere DEF PartReload
  <2>2. PartAfter(s) => Arrives(s)
    BY <1>0, <1>1, Elsewhere, Releasing DEF PartAfter, At, PartPcs
  <2>3. PartRelease(s) => Arrives(s)
    BY <1>0, Elsewhere DEF PartRelease
  <2> QED BY <1>7, <2>1, <2>2, <2>3
<1>8. CASE PartClaimed(s)
  <2>1. CASE Exists /\ Db(s, row, [Goto(s, "pPut") EXCEPT !.seen = Snapshot(row)])
    <3> DEFINE g == [Goto(s, "pPut") EXCEPT !.seen = Snapshot(row)]
    <3>1. g.pc = "pPut" /\ g.part = k.part /\ g.at = k.at /\ g.seen = Snapshot(row)
      BY MoveFields
    <3> HIDE DEF g
    <3>2. slot'[s] = g /\ row' = row /\ prov' = prov
      BY <2>1, DbMoves DEF g
    <3>3. k.pc = "pClaimed" /\ k.part \in Parts
      BY <1>2, <1>8 DEF PartClaimed, At, PartStep
    <3> QED BY <2>1, <3>1, <3>2, <3>3 DEF Arrives
  <2> QED BY <1>0, <1>8, <2>1, Elsewhere DEF PartClaimed
<1>9. CASE PartPut(s)
  <2>1. k.pc = "pPut" /\ k.part \in Parts /\ k.pc \in PartPcs
    BY <1>1, <1>2, <1>9 DEF PartPut, At, PartStep
  <2>2. PICK o \in UploadPart(prov, k.seen.state, k.part, clock) :
          \/ o.ok /\ Call(s, o.prov, [Goto(s, "pRow") EXCEPT !.seen = NoSnapshot,
                                                            !.res = [state |-> o.state, item |-> o.item]])
          \/ Call(s, o.prov, Goto(s, "pRelease"))
          \/ CallFault(s, o.prov, Goto(s, "pRelease"))
    BY <1>9 DEF PartPut
  <2>3. ASSUME o.ok, Call(s, o.prov, [Goto(s, "pRow") EXCEPT !.seen = NoSnapshot,
                                                   !.res = [state |-> o.state, item |-> o.item]])
        PROVE  Arrives(s)
    <3> DEFINE y == [state |-> o.state, item |-> o.item]
               g == [Goto(s, "pRow") EXCEPT !.seen = NoSnapshot, !.res = y]
    <3>0. Call(s, o.prov, g)
      BY <2>3
    <3>1. g.pc = "pRow" /\ g.part = k.part /\ g.at = k.at /\ g.res = y
      BY MoveFields
    <3> HIDE DEF g
    <3>2. slot'[s] = g /\ row' = row /\ prov' = o.prov
      BY <3>0, CallMoves DEF Call
    <3> HIDE DEF y
    <3>3. \E q \in UploadPart(prov, k.seen.state, k.part, clock) :
            q.ok /\ prov' = q.prov /\ g.res = [state |-> q.state, item |-> q.item]
      BY <2>3, <3>1, <3>2 DEF y
    <3> QED BY <2>1, <3>1, <3>2, <3>3 DEF Arrives
  <2>4. Call(s, o.prov, Goto(s, "pRelease")) => Arrives(s)
    <3>1. Call(s, o.prov, Goto(s, "pRelease")) => slot'[s] = Goto(s, "pRelease") /\ row' = row
      BY CallMoves
    <3> QED BY <2>1, <3>1, MoveFields DEF Arrives
  <2> QED BY <2>1, <2>2, <2>3, <2>4, Releasing
<1>10. CASE PartRow(s)
  <2>1. k.pc = "pRow" /\ k.part \in Parts /\ k.pc \in PartPcs
    BY <1>1, <1>2, <1>10 DEF PartRow, At, PartStep
  <2>2. CASE Db(s, row, [Goto(s, "pCas") EXCEPT !.seen = Snapshot(row)])
    <3> DEFINE g == [Goto(s, "pCas") EXCEPT !.seen = Snapshot(row)]
    <3>1. g.pc = "pCas" /\ g.part = k.part /\ g.at = k.at /\ g.res = k.res
      BY MoveFields
    <3> HIDE DEF g
    <3>2. slot'[s] = g /\ row' = row /\ prov' = prov
      BY <2>2, DbMoves DEF g
    <3> QED BY <2>1, <3>1, <3>2 DEF Arrives
  <2>3. \/ Db(s, row, [Goto(s, "pCas") EXCEPT !.seen = Snapshot(row)])
        \/ Db(s, row, Answer(s, "ok")) \/ Db(s, row, Fail)
        \/ DbFault(s, row, Goto(s, "pRelease"))
    BY <1>10 DEF PartRow
  <2> QED BY <1>0, <2>1, <2>2, <2>3, Elsewhere, Releasing
<1>11. CASE PartCas(s)
  <2> DEFINE r == IF RecordPartWhere(row, k.part, Exp(k), k.seen)
                  THEN RecordPartSet(row, k.part, k.res.state, k.res.item, k.seen)
                  ELSE row
  <2>1. Db(s, r, Goto(s, "pAfter")) \/ DbFault(s, r, Goto(s, "pRelease"))
    BY <1>11 DEF PartCas
  <2>2. k.pc \in PartPcs /\ Goto(s, "pAfter").pc \notin Watched
    BY <1>1, <1>3, <1>11 DEF PartStep, Watched, Leased
  <2> HIDE DEF r
  <2> QED BY <2>1, <2>2, Elsewhere, Releasing
<1> QED BY <1>4, <1>5, <1>6, <1>7, <1>8, <1>9, <1>10, <1>11 DEF PartStep

\* The same of completeResumableUpload.
LEMMA CompleteArrives ==
  ASSUME TypeInv, NEW s \in Requests, CompleteStep(s) \/ CompleteStart(s)
  PROVE  Arrives(s)
<1> DEFINE k == slot[s]
<1>0. Idle.pc \notin Watched /\ Fail.pc \notin Watched /\ Completed(s).pc \notin Watched
  BY MoveFields
<1>1. \A pc : pc \notin Watched => Goto(s, pc).pc \notin Watched
  BY MoveFields
<1>2. "cReload" \notin Watched /\ "cRelease" \notin Watched
  BY DEF Watched, Leased
<1>3. ASSUME NEW job, CompleteRead(s, job) PROVE Arrives(s)
  <2> DEFINE h == [Idle EXCEPT !.job = job]
  <2>1. /\ [h EXCEPT !.reply = "ok"].pc \notin Watched /\ [h EXCEPT !.reply = "already"].pc \notin Watched
        /\ [h EXCEPT !.pc = "cClaim", !.at = clock].pc \notin Watched
    BY DEF Idle, Watched, Leased
  <2> HIDE DEF h
  <2>2. \/ Db(s, row, [h EXCEPT !.reply = "ok"]) \/ Db(s, row, [h EXCEPT !.reply = "already"])
        \/ Db(s, row, Idle) \/ Db(s, row, [h EXCEPT !.pc = "cClaim", !.at = clock])
        \/ Db(s, row, Fail) \/ DbFault(s, row, Fail)
    BY <1>3 DEF CompleteRead, h
  <2> QED BY <1>0, <2>1, <2>2, Elsewhere
<1>4. CASE CompleteStart(s) \/ CompleteEnter(s)
  BY <1>3, <1>4 DEF CompleteStart, CompleteEnter
<1>5. CASE CompleteClaim(s)
  <2> DEFINE hit == ClaimTerminalWhere(row, "complete", k.at)
             r == IF hit THEN ClaimTerminalSet(row, "complete", s, Exp(k)) ELSE row
  <2>1. Db(s, r, Goto(s, IF hit THEN "cClaimed" ELSE "cReload")) \/ DbFault(s, r, Fail)
    BY <1>5 DEF CompleteClaim
  <2>2. k.pc = "cClaim"
    BY <1>5 DEF CompleteClaim, At
  <2>3. CASE hit /\ Db(s, r, Goto(s, "cClaimed"))
    <3>1. Exists
      BY <2>3 DEF ClaimTerminalWhere, Exists
    <3>2. ClaimTerminalSet(row, "complete", s, Exp(k)).parts = row.parts
      BY ArgumentTypes DEF ClaimTerminalSet, WithoutPartClaim, Rows
    <3>3. slot'[s].pc = "cClaimed"
      BY <2>3, DbMoves, MoveFields
    <3>4. row'.parts = row.parts
      BY <2>3, <3>2 DEF Db
    <3> QED BY <2>2, <3>1, <3>3, <3>4 DEF Arrives, Leased
  <2>4. CASE ~hit
    BY <1>0, <1>1, <1>2, <2>1, <2>4, Elsewhere
  <2> HIDE DEF r, hit
  <2> QED BY <1>0, <2>1, <2>3, <2>4, Elsewhere
<1>6. CASE CompleteClaimed(s)
  <2>1. CASE Exists /\ Db(s, row, [Goto(s, "cPut") EXCEPT !.seen = Snapshot(row)])
    <3> DEFINE g == [Goto(s, "cPut") EXCEPT !.seen = Snapshot(row)]
    <3>1. g.pc = "cPut" /\ g.seen = Snapshot(row)
      BY MoveFields
    <3> HIDE DEF g
    <3>2. slot'[s] = g /\ row' = row /\ prov' = prov
      BY <2>1, DbMoves DEF g
    <3>3. k.pc = "cClaimed"
      BY <1>6 DEF CompleteClaimed, At
    <3> QED BY <2>1, <3>1, <3>2, <3>3 DEF Arrives, Leased
  <2> QED BY <1>0, <1>1, <1>2, <1>6, <2>1, Elsewhere DEF CompleteClaimed
<1>7. CASE CompletePut(s)
  <2> DEFINE o == Complete(prov, k.seen.state, k.seen.parts, k.seen.item, clock)
             g == [Goto(s, "cPersist") EXCEPT !.seen = NoSnapshot]
             f == [Goto(s, "cRelease") EXCEPT !.seen = NoSnapshot]
  <2>1. (o.ok /\ Call(s, o.prov, g)) \/ Call(s, o.prov, f) \/ CallFault(s, o.prov, f)
    BY <1>7 DEF CompletePut
  <2>2. g.pc = "cPersist" /\ f.pc \notin Watched
    BY <1>2, MoveFields
  <2>3. k.pc = "cPut"
    BY <1>7 DEF CompletePut, At
  <2> HIDE DEF f, g
  <2>4. ASSUME o.ok, Call(s, o.prov, g) PROVE Arrives(s)
    <3>1. slot'[s].pc = "cPersist" /\ row' = row /\ prov' = o.prov
      BY <2>2, <2>4, CallMoves DEF Call
    <3> QED BY <2>3, <2>4, <3>1 DEF Arrives, Leased
  <2> HIDE DEF o
  <2> QED BY <2>1, <2>2, <2>4, Elsewhere
<1>8. CASE CompletePersist(s)
  <2>1. PICK r : Db(s, r, Completed(s)) \/ Db(s, r, Goto(s, "cReload")) \/ DbFault(s, r, Goto(s, "cRelease"))
    BY <1>8 DEF CompletePersist
  <2> QED BY <1>0, <1>1, <1>2, <2>1, Elsewhere
<1>9. CASE CompleteReload(s) \/ CompleteRelease(s)
  BY <1>0, <1>9, Elsewhere DEF CompleteReload, CompleteRelease
<1> QED BY <1>4, <1>5, <1>6, <1>7, <1>8, <1>9 DEF CompleteStep

\* The same of abortResumableUpload and of the cleanup.
LEMMA AbortArrives ==
  ASSUME TypeInv, NEW s \in Requests, AbortStep(s) \/ AbortStart(s) \/ CleanupStart(s)
  PROVE  Arrives(s)
<1>0. Idle.pc \notin Watched /\ Fail.pc \notin Watched /\ \A y : Answer(s, y).pc \notin Watched
  BY MoveFields
<1>1. /\ \A pc : pc \notin Watched => Goto(s, pc).pc \notin Watched
      /\ \A pc, x : pc \notin Watched => [Goto(s, pc) EXCEPT !.seen = x].pc \notin Watched
  BY MoveFields
<1>2. AbortPcs \cap Watched = {}
  BY DEF AbortPcs, Watched, Leased
<1>3. ASSUME NEW f, NEW u, AbortVerdict(s, f, u), f.pc \notin Watched, u.pc \notin Watched PROVE Arrives(s)
  <2> DEFINE told(y) == [Idle EXCEPT !.job = "abort", !.reply = y]
  <2>1. \A y : told(y).pc \notin Watched
    BY DEF Idle, Watched, Leased
  <2> HIDE DEF told
  <2>2. \/ Db(s, row, told("ok")) \/ Db(s, row, told("already"))
        \/ Db(s, row, f) \/ Db(s, row, u) \/ Db(s, row, Fail)
    BY <1>3 DEF AbortVerdict, told
  <2> QED BY <1>0, <1>3, <2>1, <2>2, Elsewhere
<1>4. \A j : /\ [[Idle EXCEPT !.job = j] EXCEPT !.pc = "cRead"].pc \notin Watched
             /\ [[Idle EXCEPT !.job = j] EXCEPT !.pc = "aClaim", !.at = clock].pc \notin Watched
             /\ [Idle EXCEPT !.job = j, !.pc = "cRead"].pc \notin Watched
  BY DEF Idle, Watched, Leased
<1>5. CASE AbortStart(s)
  BY <1>3, <1>4, <1>5 DEF AbortStart
<1>6. CASE CleanupStart(s)
  BY <1>4, <1>6, Elsewhere DEF CleanupStart
<1>7. CASE AbortClaim(s)
  <2>1. PICK r : \/ Db(s, r, Goto(s, "aClaimed")) \/ Db(s, r, Goto(s, "aReload"))
                 \/ Db(s, r, Fail) \/ DbFault(s, r, Fail)
    BY <1>7 DEF AbortClaim
  <2> QED BY <1>0, <1>1, <1>2, <2>1, Elsewhere DEF AbortPcs
<1>8. CASE AbortReload(s)
  BY <1>0, <1>3, <1>4, <1>8, Elsewhere DEF AbortReload
<1>9. CASE AbortClaimed(s)
  BY <1>0, <1>1, <1>2, <1>9, Elsewhere DEF AbortClaimed, AbortPcs
<1>10. CASE AbortPut(s)
  <2>1. PICK p : \/ Call(s, p, [Goto(s, "aMark") EXCEPT !.seen = NoSnapshot])
                 \/ Call(s, p, [Goto(s, "aRelease") EXCEPT !.seen = NoSnapshot])
                 \/ CallFault(s, p, [Goto(s, "aRelease") EXCEPT !.seen = NoSnapshot])
    BY <1>10 DEF AbortPut
  <2> QED BY <1>1, <1>2, <2>1, Elsewhere DEF AbortPcs
<1>11. CASE AbortMark(s)
  <2>1. PICK r : \/ Db(s, r, Answer(s, "ok")) \/ Db(s, r, Idle) \/ Db(s, r, Goto(s, "aLost"))
                 \/ Db(s, r, Goto(s, "aRelease")) \/ DbFault(s, r, Goto(s, "aRelease"))
    BY <1>11 DEF AbortMark
  <2> QED BY <1>0, <1>1, <1>2, <2>1, Elsewhere DEF AbortPcs
<1>12. CASE AbortLost(s)
  BY <1>0, <1>1, <1>2, <1>3, <1>12, Elsewhere DEF AbortLost, AbortPcs
<1>13. CASE AbortRelease(s)
  <2>1. PICK r : \E h \in {[Idle EXCEPT !.job = "abort", !.pc = "cRead"], Fail} : Db(s, r, h) \/ DbFault(s, r, h)
    BY <1>13 DEF AbortRelease
  <2> QED BY <1>0, <1>4, <2>1, Elsewhere
<1> QED BY <1>5, <1>6, <1>7, <1>8, <1>9, <1>10, <1>11, <1>12, <1>13 DEF AbortStep

\* Whoever moves arrives.
LEMMA HandlersArrive ==
  ASSUME TypeInv, NEW s \in Requests, Start(s) \/ Step(s) \/ Evict(s)
  PROVE  Arrives(s)
<1>1. Evict(s) => slot'[s].pc \notin Watched
  BY MoveFields DEF Evict, Become, TypeInv
<1>2. Evict(s) => Arrives(s)
  BY <1>1 DEF Arrives, Watched, Leased
<1> QED BY <1>2, CreateArrives, PartArrives, CompleteArrives, AbortArrives DEF Start, Step

-----------------------------------------------------------------------------
(* Part leases, as long as no call is lost.                                *)

\* A part lease in force is in the row, and no two handlers have the same one.
PartLeases ==
  faults = MaxFaults =>
    \A s \in Requests : slot[s].pc \in Leased /\ Exp(slot[s]) > clock =>
      /\ Exists => HoldsPart(row, slot[s].part, Exp(slot[s]))
      /\ \A t \in Requests \ {s} : slot[t].pc \in Leased =>
           slot[t].part # slot[s].part \/ slot[t].at # slot[s].at

\* A part lease in force stops every statement but that of its own handler.
LEMMA PartLeaseBlocks ==
  ASSUME TypeInv, NEW s \in Requests, slot[s].at <= clock, NEW n \in Parts, NEW e \in Nat, e > clock,
         HoldsPart(row, n, e), Statement(s)
  PROVE  \/ row' = row \/ At(s, "nInsert")
         \/ slot[s].pc \in Leased /\ slot[s].part = n /\ Exp(slot[s]) = e
<1>1. clock \in Nat /\ slot[s].at \in Nat /\ n # 0
  BY ArgumentTypes DEF Parts
<1>2. ~PartClaimFree(row, slot[s].at) /\ NoTerminalClaim(row) /\ row.partNo = n /\ row.partExp = e
  BY <1>1 DEF PartClaimFree, NoPartClaim, HoldsPart
<1>3. \A op \in TerminalOps : \A x : ~HoldsTerminal(row, op, s, x)
  BY <1>2, NoOwnerAssumption DEF HoldsTerminal, NoTerminalClaim
<1>4. ~ClaimPartWhere(row, slot[s].at) /\ \A op : ~ClaimTerminalWhere(row, op, slot[s].at)
  BY <1>2 DEF ClaimPartWhere, ClaimTerminalWhere
<1>5. \A x : /\ \A op \in TerminalOps : ~ReleaseTerminalWhere(row, op, s, x)
             /\ ~CompleteWhere(row, s, x) /\ ~MarkAbortedWhere(row, s, x)
  BY <1>3 DEF ReleaseTerminalWhere, CompleteWhere, MarkAbortedWhere, TerminalOps
<1>6. HoldsPart(row, slot[s].part, Exp(slot[s])) => slot[s].part = n /\ Exp(slot[s]) = e
  BY <1>2 DEF HoldsPart
<1>7. At(s, "pCas") \/ At(s, "pRelease") => slot[s].pc \in Leased
  BY DEF At, Leased
<1> QED BY <1>4, <1>5, <1>6, <1>7 DEF Statement, RecordPartWhere

\* Without a lost call no step of anyone takes a part lease in force from its handler.
LEMMA PartLeasesStay ==
  ASSUME HandlerInv, Fresh, PartLeases, [Next]_vars
  PROVE  PartLeases'
<1> DEFINE Apart(t, u) == slot[t].part # slot[u].part \/ slot[t].at # slot[u].at
           InForce(u) == slot[u].pc \in Leased /\ Exp(slot[u]) > clock
           Holds(u) == HoldsPart(row, slot[u].part, Exp(slot[u]))
<1> SUFFICES ASSUME faults' = MaxFaults, NEW u \in Requests, InForce(u)'
             PROVE  /\ Exists' => Holds(u)'
                    /\ \A t \in Requests \ {u} : slot'[t].pc \in Leased => Apart(t, u)'
  BY DEF PartLeases
<1>1. TypeInv /\ faults \in 0..MaxFaults /\ MaxFaults \in Nat
  BY MaxFaultsAssumption DEF HandlerInv, TypeInv, TypeOK
<1>2. \A t \in Requests : /\ slot[t].at \in Nat /\ Exp(slot[t]) \in Nat /\ Exp(slot[t]) > slot[t].at
                          /\ slot[t].pc \in Leased => slot[t].part \in Parts
  <2>1. Leased \subseteq PartPcs
    BY DEF Leased, PartPcs
  <2> QED BY <1>1, <2>1, ArgumentTypes, LeaseTimeAssumption DEF Exp
<1>3. faults = MaxFaults /\ InForce(u) =>
        /\ Exists => Holds(u)
        /\ \A t \in Requests \ {u} : slot[t].pc \in Leased => Apart(t, u)
  BY DEF PartLeases
<1>4. ASSUME NEW s \in Requests, Start(s) \/ Step(s) \/ Evict(s)
      PROVE  /\ Exists' => Holds(u)'
             /\ \A t \in Requests \ {u} : slot'[t].pc \in Leased => Apart(t, u)'
  <2>1. Outcome(s) /\ Statement(s) /\ Arrives(s)
    BY <1>1, <1>4, HandlerSteps, HandlersArrive
  <2>2. faults = MaxFaults /\ faults' = faults /\ clock' = clock /\ \A t \in Requests \ {s} : slot'[t] = slot[t]
    BY <1>1, <2>1 DEF Outcome
  <2>3. slot'[s].pc \in Leased => slot'[s].part = slot[s].part /\ slot'[s].at = slot[s].at /\ slot'[s].part \in Parts
    BY <2>1 DEF Arrives
  <2>4. slot'[s].pc \in Leased \ {"pClaimed"} => slot[s].pc \in Leased /\ row' = row
    BY <2>1, <2>2 DEF Arrives, Leased
  <2>5. slot'[s].pc = "pClaimed" =>
          ClaimPartWhere(row, slot[s].at) /\ row' = ClaimPartSet(row, slot[s].part, Exp(slot[s]))
    BY <2>1 DEF Arrives
  <2>6. ASSUME NEW t \in Requests, slot[t].pc \in Leased, Exp(slot[t]) > clock, slot'[s].pc = "pClaimed", t # s
        PROVE  Apart(t, s)
    <3>1. PartClaimFree(row, slot[s].at) /\ Exists
      BY <2>5, <2>6 DEF ClaimPartWhere, Exists
    <3>2. Holds(t)
      BY <2>2, <2>6, <3>1 DEF PartLeases
    <3>3. row.partNo # 0 /\ row.partExp = Exp(slot[t])
      BY <1>2, <2>6, <3>2 DEF HoldsPart, Parts
    <3>4. Exp(slot[t]) <= slot[s].at
      BY <1>2, <3>1, <3>3 DEF PartClaimFree, NoPartClaim
    <3> QED BY <1>2, <3>4
  <2>7. CASE u = s
    <3>1. Exp(slot'[s]) = Exp(slot[s]) /\ Exp(slot[s]) > clock
      BY <2>2, <2>3, <2>7 DEF Exp
    <3>2. CASE slot'[s].pc = "pClaimed"
      <4>1. HoldsPart(row', slot[s].part, Exp(slot[s]))
        <5>1. row \in Rows /\ row.status = "active"
          BY <1>1, <2>5, <3>2 DEF TypeInv, TypeOK, ClaimPartWhere
        <5> QED BY <2>5, <3>2, <5>1 DEF ClaimPartSet, WithoutTerminalClaim, HoldsPart, NoTerminalClaim, Rows
      <4>2. ASSUME NEW t \in Requests \ {u}, slot'[t].pc \in Leased PROVE Apart(t, u)'
        <5>1. slot'[t] = slot[t] /\ slot[t].pc \in Leased
          BY <2>2, <2>7, <4>2
        <5>2. CASE Exp(slot[t]) > clock
          BY <2>3, <2>6, <2>7, <3>2, <5>1, <5>2
        <5>3. CASE ~(Exp(slot[t]) > clock)
          <6>1. slot[t].at # slot[s].at
            BY <3>1, <5>3 DEF Exp
          <6> QED BY <2>3, <2>7, <5>1, <6>1
        <5> QED BY <5>2, <5>3
      <4> QED BY <2>3, <2>7, <3>1, <4>1, <4>2
    <3>3. CASE slot'[s].pc # "pClaimed"
      <4>1. slot[s].pc \in Leased /\ row' = row
        BY <2>4, <2>7, <3>3
      <4>2. (Exists => Holds(u)) /\ \A t \in Requests \ {u} : slot[t].pc \in Leased => Apart(t, u)
        BY <1>3, <2>2, <2>7, <3>1, <4>1
      <4> QED BY <2>2, <2>3, <2>7, <3>1, <4>1, <4>2 DEF Exists
    <3> QED BY <3>2, <3>3
  <2>8. CASE u # s
    <3>1. slot'[u] = slot[u] /\ InForce(u)
      BY <2>2, <2>8
    <3>2. /\ Exists => Holds(u)
          /\ \A t \in Requests \ {u} : slot[t].pc \in Leased => Apart(t, u)
      BY <1>3, <2>2, <3>1
    <3>3. ASSUME NEW t \in Requests \ {u}, slot'[t].pc \in Leased PROVE Apart(t, u)'
      <4>1. CASE t # s
        BY <2>2, <3>1, <3>2, <3>3, <4>1
      <4>2. CASE t = s /\ slot'[s].pc # "pClaimed"
        BY <2>3, <2>4, <3>1, <3>2, <3>3, <4>2
      <4>3. CASE t = s /\ slot'[s].pc = "pClaimed"
        <5>1. Apart(u, s)
          BY <2>6, <2>8, <3>1, <4>3
        <5> QED BY <2>3, <3>1, <3>3, <4>3, <5>1
      <4> QED BY <4>1, <4>2, <4>3
    <3>4. ASSUME Exists' PROVE Holds(u)'
      <4>1. ~At(s, "nInsert")
        BY <2>8, <3>1 DEF Fresh, Idle, Leased
      <4>2. Exists
        BY <1>1, <2>1, <3>4, <4>1, StatementsAdvance DEF Exists
      <4>3. slot[s].at <= clock
        BY DEF HandlerInv
      <4>4. row' = row \/ (slot[s].pc \in Leased /\ slot[s].part = slot[u].part /\ Exp(slot[s]) = Exp(slot[u]))
        BY <1>1, <1>2, <2>1, <3>1, <3>2, <4>1, <4>2, <4>3, PartLeaseBlocks
      <4>5. Exp(slot[s]) = Exp(slot[u]) => slot[s].at = slot[u].at
        BY <1>2, LeaseTimeAssumption DEF Exp
      <4>6. row' = row
        BY <2>8, <3>2, <4>4, <4>5
      <4> QED BY <3>1, <3>2, <4>2, <4>6
    <3> QED BY <3>3, <3>4
  <2> QED BY <2>7, <2>8
<1>5. CASE RowVanishes
  <2>1. ~Exists'
    BY <1>5 DEF RowVanishes, Exists, NoRow, NewRow
  <2> QED BY <1>3, <1>5, <2>1 DEF RowVanishes
<1>6. CASE Tick
  <2>1. clock \in Nat /\ clock' = clock + 1 /\ slot' = slot /\ row' = row /\ faults' = faults
    BY <1>1, <1>6, ArgumentTypes DEF Tick, TypeInv, TypeOK
  <2>2. InForce(u)
    BY <1>2, <2>1
  <2> QED BY <1>3, <2>1, <2>2 DEF Exists
<1>7. CASE ProviderExpires \/ UNCHANGED vars
  BY <1>3, <1>7 DEF ProviderExpires, vars, Exists
<1> QED BY <1>4, <1>5, <1>6, <1>7 DEF Next

-----------------------------------------------------------------------------
(* Replies.                                                                *)

\* RepliesStayTrue says, handler by handler, that what was told is true of the row.
LEMMA ToldIsReplies == RepliesStayTrue <=> \A s \in Requests : Told(slot[s], row)
BY DEF RepliesStayTrue, Told, Exists

\* What was told stays true over every step, whoever takes it.
LEMMA RepliesLast ==
  ASSUME HandlerInv, Fresh, RepliesStayTrue, [Next]_vars
  PROVE  RepliesStayTrue'
<1>1. TypeInv /\ Advances(row, row')
  BY StepsAdvance DEF HandlerInv
<1>2. ASSUME NEW u \in Requests, Told(slot[u], row), row.status # "absent"
      PROVE  Told(slot[u], row')
  BY <1>1, <1>2 DEF Told, Advances
<1>3. \A r : Told(Idle, r)
  BY DEF Told, Idle
<1>4. ASSUME NEW s \in Requests, Start(s) \/ Step(s) \/ Evict(s), NEW u \in Requests
      PROVE  Told(slot[u], row)'
  <2>1. Outcome(s) /\ Statement(s)
    BY <1>4, HandlerSteps
  <2>2. CASE u = s
    BY <2>1, <2>2 DEF Outcome
  <2>3. CASE u # s
    <3>1. slot'[u] = slot[u] /\ Told(slot[u], row)
      BY <2>1, <2>3, ToldIsReplies DEF Outcome
    <3>2. CASE At(s, "nInsert")
      BY <1>3, <2>3, <3>1, <3>2 DEF Fresh
    <3>3. CASE ~At(s, "nInsert")
      <4>1. row.status = "absent" => row' = row
        BY <1>1, <2>1, <3>3, StatementsAdvance
      <4> QED BY <1>2, <3>1, <4>1 DEF Told
    <3> QED BY <3>2, <3>3
  <2> QED BY <2>2, <2>3
<1>5. CASE RowVanishes
  BY <1>5, ToldIsReplies DEF RowVanishes, Told, NoRow, NewRow, RepliesStayTrue, Exists
<1>6. CASE ProviderExpires \/ Tick \/ UNCHANGED vars
  BY <1>6 DEF ProviderExpires, Tick, vars, RepliesStayTrue, Exists
<1> QED BY <1>4, <1>5, <1>6 DEF Next, RepliesStayTrue, Told, Exists

-----------------------------------------------------------------------------
(* The inductive invariant and the theorems.                               *)

Inv == HandlerInv /\ Fresh /\ TerminalLeaseIsExclusive /\ RepliesStayTrue

\* The inductive invariant holds at first and over every step.
LEMMA InvIsInductive == (Init => Inv) /\ (Inv /\ TypeInv' /\ [Next]_vars => Inv')
<1>1. ASSUME Init
      PROVE  Inv
  <2>1. TypeInv /\ \A s \in Requests : slot[s] = Idle
    BY <1>1, InitTypes DEF Init
  <2>2. HandlerInv
    BY <1>1, <2>1 DEF HandlerInv, WellRun, Idle, CreatePcs, PartPcs, Init
  <2>3. Fresh
    BY <1>1, <2>1 DEF Fresh, Init, At, Idle
  <2>4. TerminalLeaseIsExclusive /\ RepliesStayTrue
    BY <2>1 DEF TerminalLeaseIsExclusive, RepliesStayTrue, Idle, InTerminal
  <2> QED BY <2>2, <2>3, <2>4 DEF Inv
<1>2. Inv /\ TypeInv' /\ [Next]_vars => Inv'
  BY FreshSteps, HandlersStayWellRun, LeasesStayExclusive, RepliesLast DEF Inv
<1> QED BY <1>1, <1>2

\* The inductive invariant behind the theorems below holds of every behaviour.
THEOREM Safety == Spec => []Inv
BY InvIsInductive, TypeCorrect, PTL DEF Spec

\* While the lease of a completion or a cancellation is in force no other
\* handler changes the row, however late its own statements arrive.
THEOREM TerminalLeasesExclude == Spec => []TerminalLeaseIsExclusive
BY Safety, PTL DEF Inv

\* No interleaving, lost call, eviction or retry makes a reply untrue.
THEOREM RepliesAreTrue == Spec => []RepliesStayTrue
BY Safety, PTL DEF Inv

\* Recorded parts, finished items and final states are never taken back.
THEOREM RowsAdvance == Spec => RowOnlyAdvances
<1>1. Inv /\ [Next]_vars =>
        [row'.status # "absent" /\ Exists =>
           /\ row.parts \subseteq row'.parts
           /\ row.item => row'.item /\ row'.status # "aborted"
           /\ row.status = "completed" => row'.status = "completed"
           /\ row.status = "aborted" => row' = row]_row
  BY StepsAdvance DEF Inv, Advances, Exists
<1> QED BY <1>1, Safety, PTL DEF Spec, RowOnlyAdvances

\* As long as no call was lost, the handler that took a part lease keeps it until
\* it expires: nobody claims, records, releases, completes or cancels under it.
THEOREM PartLeasesExclude == Spec => []PartLeaseIsExclusive
<1>1. Init => PartLeases
  BY DEF Init, PartLeases, Idle, Leased
<1>2. Inv /\ PartLeases /\ [Next]_vars => PartLeases'
  BY PartLeasesStay DEF Inv
<1>3. PartLeases => PartLeaseIsExclusive
  BY DEF PartLeases, PartLeaseIsExclusive, InPart, Leased
<1> QED BY <1>1, <1>2, <1>3, Safety, PTL DEF Spec

-----------------------------------------------------------------------------
(* The refinement.                                                         *)

\* Who is about to complete a session found every part in it, and so does
\* every completing or completed row hold every part.
FullBeforeCompleting ==
  /\ \A s \in Requests : At(s, "cClaim") /\ Exists => row.parts = Parts
  /\ row.status \in {"completing", "completed"} => row.parts = Parts

-----------------------------------------------------------------------------
(* The handler that answers has seen a row.                                *)

\* What a handler g knows about the row r when its step is over.
Knows(g, r) ==
  /\ Promise(g).about # "nothing" => r.status # "absent"
  /\ g.pc = "cClaim" => r.parts = Parts

\* A handler that answers nothing and is not about to complete claims nothing.
LEMMA QuietKnows ==
  ASSUME NEW g, NEW r, g.reply = "none", g.pc # "cClaim"
  PROVE  Knows(g, r)
BY DEF Knows, Promise

\* A handler that has answered knows there is a row, if there is one.
LEMMA AnsweredKnows ==
  ASSUME NEW g, NEW r, g.pc # "cClaim", r.status # "absent"
  PROVE  Knows(g, r)
BY DEF Knows

\* The ends of a handler, and the ways to go on.
LEMMA EndsKnow ==
  ASSUME HandlerInv, NEW s \in Requests, NEW r
  PROVE  /\ Knows(Idle, r) /\ Knows(Fail, r)
         /\ \A y : r.status # "absent" => Knows(Answer(s, y), r)
         /\ r.status # "absent" => Knows(Completed(s), r)
         /\ ~At(s, "idle") => \A pc : pc # "cClaim" =>
              /\ Knows(Goto(s, pc), r)
              /\ \A x : Knows([Goto(s, pc) EXCEPT !.seen = x], r)
              /\ \A x, y : Knows([Goto(s, pc) EXCEPT !.seen = x, !.res = y], r)
              /\ \A x : Knows([Goto(s, pc) EXCEPT !.at = x], r)
<1>1. Idle.reply = "none" /\ Idle.pc = "idle"
  BY DEF Idle
<1>2. Knows(Idle, r) /\ Knows(Fail, r)
  BY <1>1, QuietKnows DEF Fail
<1>3. \A y : Answer(s, y).pc = "idle"
  BY DEF Answer, Idle
<1>4. Completed(s).pc = "idle"
  BY <1>1, <1>3 DEF Completed
<1>5. ASSUME ~At(s, "idle"), NEW pc, pc # "cClaim"
      PROVE  /\ Knows(Goto(s, pc), r)
             /\ \A x : Knows([Goto(s, pc) EXCEPT !.seen = x], r)
             /\ \A x, y : Knows([Goto(s, pc) EXCEPT !.seen = x, !.res = y], r)
             /\ \A x : Knows([Goto(s, pc) EXCEPT !.at = x], r)
  <2>1. slot[s].reply = "none" /\ slot[s] \in NumberedHandlers
    BY <1>5, ArgumentTypes DEF HandlerInv, WellRun, At
  <2>2. /\ Goto(s, pc).reply = "none" /\ Goto(s, pc).pc = pc
        /\ \A x : /\ [Goto(s, pc) EXCEPT !.seen = x].reply = "none"
                  /\ [Goto(s, pc) EXCEPT !.seen = x].pc = pc
        /\ \A x, y : /\ [Goto(s, pc) EXCEPT !.seen = x, !.res = y].reply = "none"
                     /\ [Goto(s, pc) EXCEPT !.seen = x, !.res = y].pc = pc
        /\ \A x : /\ [Goto(s, pc) EXCEPT !.at = x].reply = "none"
                  /\ [Goto(s, pc) EXCEPT !.at = x].pc = pc
    BY <2>1 DEF Goto, NumberedHandlers, Handlers
  <2>3. \A g : g.reply = "none" /\ g.pc # "cClaim" => Knows(g, r)
    BY QuietKnows
  <2> HIDE DEF Goto
  <2> QED BY <1>5, <2>2, <2>3
<1>6. r.status # "absent" => Knows(Completed(s), r) /\ \A y : Knows(Answer(s, y), r)
  BY <1>3, <1>4, AnsweredKnows
<1> HIDE DEF Fail
<1> QED BY <1>2, <1>5, <1>6

-----------------------------------------------------------------------------
(* What a handler knows after each of its steps.                           *)

\* A step that ends in D1 with h leaves the handler h to a row that is still
\* there or that the statement wrote.
LEMMA DbKnows ==
  ASSUME TypeInv, NEW s \in Requests, NEW r, NEW h,
         \/ Db(s, r, h) /\ Knows(h, r)
         \/ DbFault(s, r, h) /\ Knows(h, r) /\ Knows(h, row)
  PROVE  Knows(slot'[s], row')
<1>1. slot'[s] = h /\ row' \in {row, r}
  BY DbMoves
<1>2. Db(s, r, h) => row' = r
  BY DEF Db
<1> QED BY <1>1, <1>2

\* A provider call reads no row.
LEMMA CallKnows ==
  ASSUME TypeInv, NEW s \in Requests, NEW p, NEW h, Call(s, p, h) \/ CallFault(s, p, h), Knows(h, row)
  PROVE  Knows(slot'[s], row')
BY CallMoves

\* createResumableUpload answers from the row it inserted.
LEMMA CreateKnows ==
  ASSUME HandlerInv, NEW s \in Requests, CreateStart(s) \/ CreateStep(s)
  PROVE  Knows(slot'[s], row')
<1>1. TypeInv
  BY DEF HandlerInv
<1>2. \A r : Knows(Idle, r) /\ Knows(Fail, r)
  BY EndsKnow
<1>3. CASE CreateStart(s)
  <2> DEFINE h == [Idle EXCEPT !.job = "create", !.pc = "nInsert", !.seen.state = FreshState(clock)]
  <2>1. h.reply = "none" /\ h.pc = "nInsert"
    BY DEF Idle
  <2>2. \/ Call(s, Opened(prov, clock), h)
        \/ CallFault(s, Opened(prov, clock), Fail)
    BY <1>3 DEF CreateStart
  <2> HIDE DEF h
  <2>3. Knows(h, row)
    BY <2>1, QuietKnows
  <2> QED BY <1>1, <1>2, <2>2, <2>3, CallKnows
<1>4. CASE CreateInsert(s)
  <2> DEFINE new == NewRow(slot[s].seen.state, slot[s].seen.state.until)
  <2>1. ~At(s, "idle") /\ new.status # "absent"
    BY <1>4 DEF CreateInsert, At, NewRow
  <2>2. Db(s, new, Answer(s, "ok")) \/ DbFault(s, new, Goto(s, "nUndo"))
    BY <1>4 DEF CreateInsert
  <2> HIDE DEF new
  <2>3. Knows(Answer(s, "ok"), new) /\ \A r : Knows(Goto(s, "nUndo"), r)
    BY <2>1, EndsKnow
  <2> QED BY <1>1, <2>2, <2>3, DbKnows
<1>5. CASE CreateUndo(s)
  <2>1. \E p : Call(s, p, Fail) \/ CallFault(s, p, Fail)
    BY <1>5 DEF CreateUndo
  <2> QED BY <1>1, <1>2, <2>1, CallKnows
<1> QED BY <1>3, <1>4, <1>5 DEF CreateStep

\* uploadResumablePart says a part is recorded only of a row that has it.
LEMMA PartKnows ==
  ASSUME HandlerInv, NEW s \in Requests, PartStep(s) \/ \E n \in Parts : PartStart(s, n)
  PROVE  Knows(slot'[s], row')
<1>1. TypeInv
  BY DEF HandlerInv
<1>2. \A r : Knows(Idle, r) /\ Knows(Fail, r)
  BY EndsKnow
<1>3. \A n : Recorded(n) => Knows(Answer(s, "ok"), row)
  BY EndsKnow DEF Recorded
<1>4. ASSUME NEW n \in Parts, PartStart(s, n)
      PROVE  Knows(slot'[s], row')
  <2> DEFINE h == [Idle EXCEPT !.job = "part", !.part = n]
             y == [h EXCEPT !.reply = "ok"]
             d == [h EXCEPT !.pc = "pDriver"]
  <2>1. y.pc = "idle" /\ d.pc = "pDriver" /\ d.reply = "none"
    BY DEF Idle
  <2>2. (Exists /\ Db(s, row, y)) \/ Db(s, row, d) \/ Db(s, row, Fail)
    BY <1>4 DEF PartStart
  <2> HIDE DEF y, d
  <2>3. (Exists => Knows(y, row)) /\ Knows(d, row)
    BY <2>1, QuietKnows, AnsweredKnows DEF Exists
  <2> QED BY <1>1, <1>2, <2>2, <2>3, DbKnows
<1>5. CASE PartStep(s)
  <2>1. ~At(s, "idle")
    BY <1>5 DEF PartStep, PartDriver, PartClaim, PartReload, PartClaimed, PartPut, PartRow, PartCas,
                PartAfter, PartRelease, At
  <2>2. \A r : \A pc \in PartPcs :
          /\ Knows(Goto(s, pc), r)
          /\ \A x : Knows([Goto(s, pc) EXCEPT !.seen = x], r)
          /\ \A x, y : Knows([Goto(s, pc) EXCEPT !.seen = x, !.res = y], r)
          /\ \A x : Knows([Goto(s, pc) EXCEPT !.at = x], r)
    BY <2>1, EndsKnow DEF PartPcs
  <2>3. CASE PartDriver(s)
    BY <1>1, <1>2, <2>2, <2>3, DbKnows DEF PartDriver, PartPcs
  <2>4. CASE PartClaim(s)
    <3>1. \E r : \E pc \in PartPcs : Db(s, r, Goto(s, pc)) \/ DbFault(s, r, Fail)
      BY <2>4 DEF PartClaim, PartPcs
    <3> QED BY <1>1, <1>2, <2>2, <3>1, DbKnows
  <2>5. CASE PartReload(s)
    BY <1>1, <1>2, <1>3, <2>5, DbKnows DEF PartReload
  <2>6. CASE PartClaimed(s)
    BY <1>1, <1>2, <2>2, <2>6, DbKnows DEF PartClaimed, PartPcs
  <2>7. CASE PartPut(s)
    <3>1. \E p : \/ \E x, y : Call(s, p, [Goto(s, "pRow") EXCEPT !.seen = x, !.res = y])
                \/ Call(s, p, Goto(s, "pRelease")) \/ CallFault(s, p, Goto(s, "pRelease"))
      BY <2>7 DEF PartPut
    <3> QED BY <1>1, <2>2, <3>1, CallKnows DEF PartPcs
  <2>8. CASE PartRow(s)
    BY <1>1, <1>2, <1>3, <2>2, <2>8, DbKnows DEF PartRow, PartPcs
  <2>9. CASE PartCas(s)
    <3>1. \E r : Db(s, r, Goto(s, "pAfter")) \/ DbFault(s, r, Goto(s, "pRelease"))
      BY <2>9 DEF PartCas
    <3> QED BY <1>1, <2>2, <3>1, DbKnows DEF PartPcs
  <2>10. CASE PartAfter(s)
    BY <1>1, <1>2, <1>3, <2>2, <2>10, DbKnows DEF PartAfter, PartPcs
  <2>11. CASE PartRelease(s)
    <3>1. \E r : Db(s, r, Fail) \/ DbFault(s, r, Fail)
      BY <2>11 DEF PartRelease
    <3> QED BY <1>1, <1>2, <3>1, DbKnows
  <2> QED BY <1>5, <2>3, <2>4, <2>5, <2>6, <2>7, <2>8, <2>9, <2>10, <2>11 DEF PartStep
<1> QED BY <1>4, <1>5

\* A completion goes on only with every part recorded, and answers only with
\* the row before it.
LEMMA CompleteReadKnows ==
  ASSUME HandlerInv, NEW s \in Requests, NEW job, CompleteRead(s, job)
  PROVE  Knows(slot'[s], row')
<1>1. TypeInv /\ \A r : Knows(Idle, r) /\ Knows(Fail, r)
  BY EndsKnow DEF HandlerInv
<1> DEFINE h == [Idle EXCEPT !.job = job]
           goes == [h EXCEPT !.pc = "cClaim", !.at = clock]
           yes == [h EXCEPT !.reply = "ok"]
           already == [h EXCEPT !.reply = "already"]
<1>2. goes.reply = "none" /\ yes.pc = "idle" /\ already.pc = "idle"
  BY DEF Idle
<1>3. \/ row.status = "completed" /\ (Db(s, row, yes) \/ Db(s, row, already) \/ Db(s, row, Idle))
      \/ row.parts = Parts /\ Db(s, row, goes)
      \/ Db(s, row, Fail) \/ DbFault(s, row, Fail)
  BY DEF CompleteRead
<1> HIDE DEF goes, yes, already
<1>4. row.status = "completed" => Knows(yes, row) /\ Knows(already, row)
  BY <1>2, AnsweredKnows
<1>5. row.parts = Parts => Knows(goes, row)
  BY <1>2 DEF Knows, Promise
<1> QED BY <1>1, <1>3, <1>4, <1>5, DbKnows

\* completeResumableUpload, for a client, an abort or the cleanup.
LEMMA CompleteKnows ==
  ASSUME HandlerInv, NEW s \in Requests, CompleteStep(s) \/ CompleteStart(s)
  PROVE  Knows(slot'[s], row')
<1>1. TypeInv /\ \A r : Knows(Idle, r) /\ Knows(Fail, r)
  BY EndsKnow DEF HandlerInv
<1>2. \A r : r.status = "completed" => Knows(Completed(s), r)
  BY EndsKnow
<1>3. CASE CompleteStart(s)
  BY <1>3, CompleteReadKnows DEF CompleteStart
<1>4. CASE CompleteEnter(s)
  BY <1>4, CompleteReadKnows DEF CompleteEnter
<1>5. CASE CompleteStep(s) /\ ~CompleteEnter(s)
  <2>1. ~At(s, "idle")
    BY <1>5 DEF CompleteStep, CompleteEnter, CompleteClaim, CompleteClaimed, CompletePut,
                CompletePersist, CompleteReload, CompleteRelease, At
  <2>2. \A r : \A pc \in CompletePcs \ {"cClaim"} :
          Knows(Goto(s, pc), r) /\ \A x : Knows([Goto(s, pc) EXCEPT !.seen = x], r)
    BY <2>1, EndsKnow
  <2>3. CASE CompleteClaim(s)
    <3>1. \E r : \/ Db(s, r, Goto(s, "cClaimed")) \/ Db(s, r, Goto(s, "cReload"))
                \/ DbFault(s, r, Fail)
      BY <2>3 DEF CompleteClaim
    <3> QED BY <1>1, <2>2, <3>1, DbKnows DEF CompletePcs
  <2>4. CASE CompleteClaimed(s)
    BY <1>1, <2>2, <2>4, DbKnows DEF CompleteClaimed, CompletePcs
  <2>5. CASE CompletePut(s)
    <3>1. \E p : \E x : \/ Call(s, p, [Goto(s, "cPersist") EXCEPT !.seen = x])
                       \/ Call(s, p, [Goto(s, "cRelease") EXCEPT !.seen = x])
                       \/ CallFault(s, p, [Goto(s, "cRelease") EXCEPT !.seen = x])
      BY <2>5 DEF CompletePut
    <3> QED BY <1>1, <2>2, <3>1, CallKnows DEF CompletePcs
  <2>6. CASE CompletePersist(s)
    <3>1. \E r : \/ r.status = "completed" /\ Db(s, r, Completed(s))
                \/ Db(s, r, Goto(s, "cReload")) \/ DbFault(s, r, Goto(s, "cRelease"))
      <4>1. TypeInv => CompleteSet(row).status = "completed"
        BY DEF CompleteSet, WithoutTerminalClaim, TypeInv, TypeOK, Rows
      <4> QED BY <1>1, <2>6, <4>1 DEF CompletePersist
    <3> QED BY <1>1, <1>2, <2>2, <3>1, DbKnows DEF CompletePcs
  <2>7. CASE CompleteReload(s)
    BY <1>1, <1>2, <2>7, DbKnows DEF CompleteReload
  <2>8. CASE CompleteRelease(s)
    <3>1. \E r : Db(s, r, Fail) \/ DbFault(s, r, Fail)
      BY <2>8 DEF CompleteRelease
    <3> QED BY <1>1, <3>1, DbKnows
  <2> QED BY <1>5, <2>3, <2>4, <2>5, <2>6, <2>7, <2>8 DEF CompleteStep
<1> QED BY <1>3, <1>4, <1>5

\* A cancellation answers with the row it reads, or not at all.
LEMMA VerdictKnows ==
  ASSUME HandlerInv, NEW s \in Requests, NEW f, NEW u, AbortVerdict(s, f, u),
         Knows(f, row), Knows(u, row)
  PROVE  Knows(slot'[s], row')
<1>1. TypeInv /\ \A r : Knows(Idle, r) /\ Knows(Fail, r)
  BY EndsKnow DEF HandlerInv
<1> DEFINE told(reply) == [Idle EXCEPT !.job = "abort", !.reply = reply]
<1>2. told("ok").pc = "idle" /\ told("already").pc = "idle"
  BY DEF Idle
<1>3. \/ row.status = "aborted" /\ Db(s, row, told("ok"))
      \/ row.status = "completed" /\ Db(s, row, told("already"))
      \/ Db(s, row, f) \/ Db(s, row, u) \/ Db(s, row, Fail)
  BY DEF AbortVerdict
<1> HIDE DEF told
<1>4. row.status # "absent" => Knows(told("ok"), row) /\ Knows(told("already"), row)
  BY <1>2, AnsweredKnows
<1> QED BY <1>1, <1>3, <1>4, DbKnows

\* abortResumableUpload and the cleanup.
LEMMA AbortKnows ==
  ASSUME HandlerInv, NEW s \in Requests, AbortStep(s) \/ AbortStart(s) \/ CleanupStart(s)
  PROVE  Knows(slot'[s], row')
<1>1. TypeInv /\ \A r : Knows(Idle, r) /\ Knows(Fail, r)
  BY EndsKnow DEF HandlerInv
<1>2. ASSUME NEW job, NEW r
      PROVE  LET h == [Idle EXCEPT !.job = job]
             IN Knows([h EXCEPT !.pc = "cRead"], r) /\ Knows([h EXCEPT !.pc = "aClaim", !.at = clock], r)
  <2> DEFINE h == [Idle EXCEPT !.job = job]
             g == [h EXCEPT !.pc = "cRead"]
             k == [h EXCEPT !.pc = "aClaim", !.at = clock]
  <2>1. g.reply = "none" /\ g.pc = "cRead" /\ k.reply = "none" /\ k.pc = "aClaim"
    BY DEF Idle
  <2> HIDE DEF g, k
  <2>2. Knows(g, r) /\ Knows(k, r)
    BY <2>1, QuietKnows
  <2> QED BY <2>2 DEF g, k
<1>3. ASSUME NEW r
      PROVE  Knows([Idle EXCEPT !.job = "abort", !.pc = "cRead"], r)
  <2> DEFINE g == [Idle EXCEPT !.job = "abort", !.pc = "cRead"]
  <2>1. g.reply = "none" /\ g.pc = "cRead"
    BY DEF Idle
  <2> HIDE DEF g
  <2>2. Knows(g, r)
    BY <2>1, QuietKnows
  <2> QED BY <2>2 DEF g
<1>4. CASE AbortStart(s)
  BY <1>2, <1>4, VerdictKnows DEF AbortStart
<1>5. CASE CleanupStart(s)
  BY <1>1, <1>2, <1>5, DbKnows DEF CleanupStart
<1>6. CASE AbortStep(s)
  <2>1. ~At(s, "idle")
    BY <1>6 DEF AbortStep, AbortClaim, AbortReload, AbortClaimed, AbortPut, AbortMark, AbortLost,
                AbortRelease, At
  <2>2. \A r : \A pc \in AbortPcs :
          Knows(Goto(s, pc), r) /\ \A x : Knows([Goto(s, pc) EXCEPT !.seen = x], r)
    BY <2>1, EndsKnow DEF AbortPcs
  <2>10. \A r : r.status = "aborted" => Knows(Answer(s, "ok"), r)
    BY EndsKnow
  <2>3. CASE AbortClaim(s)
    <3>1. \E r : \/ Db(s, r, Goto(s, "aClaimed")) \/ Db(s, r, Goto(s, "aReload"))
                \/ Db(s, r, Fail) \/ DbFault(s, r, Fail)
      BY <2>3 DEF AbortClaim
    <3> QED BY <1>1, <2>2, <3>1, DbKnows DEF AbortPcs
  <2>4. CASE AbortReload(s)
    BY <1>1, <1>3, <2>4, VerdictKnows, DbKnows DEF AbortReload
  <2>5. CASE AbortClaimed(s)
    BY <1>1, <2>2, <2>5, DbKnows DEF AbortClaimed, AbortPcs
  <2>6. CASE AbortPut(s)
    <3>1. \E p : \E x : \/ Call(s, p, [Goto(s, "aMark") EXCEPT !.seen = x])
                       \/ Call(s, p, [Goto(s, "aRelease") EXCEPT !.seen = x])
                       \/ CallFault(s, p, [Goto(s, "aRelease") EXCEPT !.seen = x])
      BY <2>6 DEF AbortPut
    <3> QED BY <1>1, <2>2, <3>1, CallKnows DEF AbortPcs
  <2>7. CASE AbortMark(s)
    <3>1. \E r : \/ r.status = "aborted" /\ Db(s, r, Answer(s, "ok"))
                \/ Db(s, r, Idle) \/ Db(s, r, Goto(s, "aLost")) \/ Db(s, r, Goto(s, "aRelease"))
                \/ DbFault(s, r, Goto(s, "aRelease"))
      <4>1. TypeInv => MarkAbortedSet(row).status = "aborted"
        BY DEF MarkAbortedSet, WithoutPartClaim, WithoutTerminalClaim, TypeInv, TypeOK, Rows
      <4> QED BY <1>1, <2>7, <4>1 DEF AbortMark
    <3> QED BY <1>1, <2>2, <2>10, <3>1, DbKnows DEF AbortPcs
  <2>8. CASE AbortLost(s)
    BY <1>1, <2>2, <2>8, VerdictKnows, DbKnows DEF AbortLost, AbortPcs
  <2>9. CASE AbortRelease(s)
    <3>1. \E r : \E h \in {[Idle EXCEPT !.job = "abort", !.pc = "cRead"], Fail} :
            Db(s, r, h) \/ DbFault(s, r, h)
      BY <2>9 DEF AbortRelease
    <3> QED BY <1>1, <1>3, <3>1, DbKnows
  <2> QED BY <1>6, <2>3, <2>4, <2>5, <2>6, <2>7, <2>8, <2>9 DEF AbortStep
<1> QED BY <1>4, <1>5, <1>6

\* Whatever a handler does, it knows the row it leaves.
LEMMA HandlersKnow ==
  ASSUME HandlerInv, NEW s \in Requests, Start(s) \/ Step(s) \/ Evict(s)
  PROVE  Knows(slot'[s], row')
<1>1. CASE Evict(s)
  <2>1. slot'[s] = Idle
    BY <1>1 DEF Evict, Become, HandlerInv, TypeInv
  <2> QED BY <2>1, EndsKnow
<1> QED BY <1>1, CreateKnows, PartKnows, CompleteKnows, AbortKnows DEF Start, Step

-----------------------------------------------------------------------------
(* Nobody completes a session with a part missing.                         *)

\* A statement completes only a session that has every part.
LEMMA StatementsComplete ==
  ASSUME TypeInv, FullBeforeCompleting, NEW s \in Requests, Statement(s)
  PROVE  row'.status \in {"completing", "completed"} => row'.parts = Parts
<1>1. row \in Rows
  BY DEF TypeInv, TypeOK
<1> DEFINE h == slot[s]
           Goal == row'.status \in {"completing", "completed"} => row'.parts = Parts
<1>2. CASE row' = row
  BY <1>2 DEF FullBeforeCompleting
<1>3. CASE row' = NewRow(h.seen.state, h.seen.state.until)
  BY <1>3 DEF NewRow
<1>4. CASE ClaimPartWhere(row, h.at) /\ row' = ClaimPartSet(row, h.part, Exp(h))
  BY <1>1, <1>4 DEF ClaimPartWhere, ClaimPartSet, WithoutTerminalClaim, Rows
<1>5. CASE /\ RecordPartWhere(row, h.part, Exp(h), h.seen)
           /\ row' = RecordPartSet(row, h.part, h.res.state, h.res.item, h.seen)
  BY <1>1, <1>5 DEF RecordPartWhere, HoldsPart, RecordPartSet, WithoutPartClaim, Rows
<1>6. CASE HoldsPart(row, h.part, Exp(h)) /\ row' = ReleasePartSet(row)
  BY <1>1, <1>6 DEF HoldsPart, ReleasePartSet, WithoutPartClaim, Rows
<1>7. ASSUME NEW op \in TerminalOps, ClaimTerminalWhere(row, op, h.at),
             row' = ClaimTerminalSet(row, op, s, Exp(h)), op = "complete" => At(s, "cClaim")
      PROVE  Goal
  <2>1. row'.parts = row.parts /\ (row'.status \in {"completing", "completed"} => op = "complete")
    BY <1>1, <1>7 DEF ClaimTerminalSet, WithoutPartClaim, Rows
  <2>2. Exists
    BY <1>7 DEF ClaimTerminalWhere, Exists
  <2> QED BY <1>7, <2>1, <2>2 DEF FullBeforeCompleting
<1>8. CASE CompleteWhere(row, s, Exp(h)) /\ row' = CompleteSet(row)
  BY <1>1, <1>8
     DEF CompleteWhere, CompleteSet, WithoutTerminalClaim, Rows, FullBeforeCompleting
<1>9. CASE row' = MarkAbortedSet(row)
  BY <1>1, <1>9 DEF MarkAbortedSet, WithoutPartClaim, WithoutTerminalClaim, Rows
<1>10. CASE row' = ReleaseTerminalSet(row)
  BY <1>1, <1>10 DEF ReleaseTerminalSet, WithoutTerminalClaim, Rows
<1> QED BY <1>2, <1>3, <1>4, <1>5, <1>6, <1>7, <1>8, <1>9, <1>10 DEF Statement

\* Recorded parts never go, so a handler that found every part still has them.
LEMMA FullStaysFull ==
  ASSUME HandlerInv, Fresh, FullBeforeCompleting, TypeInv', [Next]_vars
  PROVE  FullBeforeCompleting'
<1>1. TypeInv /\ row \in Rows /\ row' \in Rows
  BY DEF HandlerInv, TypeInv, TypeOK
<1>2. row'.status \in {"completing", "completed"} => row'.parts = Parts
  <2>1. row' = NoRow \/ row' = row =>
          (row'.status \in {"completing", "completed"} => row'.parts = Parts)
    BY DEF NoRow, NewRow, FullBeforeCompleting
  <2> QED BY <1>1, <2>1, StatementsComplete, RowSteps
<1>3. ASSUME NEW s \in Requests, slot'[s].pc = "cClaim", row'.status # "absent"
      PROVE  row'.parts = Parts
  <2>1. ASSUME Start(s) \/ Step(s) \/ Evict(s)
        PROVE  row'.parts = Parts
    BY <1>3, <2>1, HandlersKnow DEF Knows
  <2>2. ASSUME NEW t \in Requests \ {s}, Start(t) \/ Step(t) \/ Evict(t)
        PROVE  row'.parts = Parts
    <3>1. Statement(t) /\ slot'[s] = slot[s]
      BY <2>2, HandlerSteps DEF Outcome
    <3>2. At(s, "cClaim")
      BY <1>3, <3>1 DEF At
    <3>3. ~At(t, "nInsert")
      BY <3>2 DEF Fresh, At, Idle
    <3>4. Exists
      BY <1>1, <1>3, <3>1, <3>3, StatementsAdvance DEF Exists
    <3>5. row.parts = Parts
      BY <3>2, <3>4 DEF FullBeforeCompleting
    <3>6. row.parts \subseteq row'.parts
      BY <1>3, <3>4, StepsAdvance DEF Advances, Exists
    <3> QED BY <1>1, <3>5, <3>6 DEF Rows
  <2>3. CASE RowVanishes
    BY <1>3, <2>3 DEF RowVanishes, NoRow, NewRow
  <2>4. CASE ProviderExpires \/ Tick \/ UNCHANGED vars
    BY <1>3, <2>4 DEF ProviderExpires, Tick, vars, FullBeforeCompleting, At, Exists
  <2> QED BY <2>1, <2>2, <2>3, <2>4 DEF Next
<1> QED BY <1>2, <1>3 DEF FullBeforeCompleting, At, Exists

\* No interleaving starts a completion with a part missing.
THEOREM CompletionsAreFull == Spec => [](Inv /\ FullBeforeCompleting)
<1>1. Init => FullBeforeCompleting
  BY DEF Init, FullBeforeCompleting, At, Exists, NoRow, NewRow
<1>2. Inv /\ FullBeforeCompleting /\ TypeInv' /\ [Next]_vars => FullBeforeCompleting'
  BY FullStaysFull DEF Inv
<1> QED BY <1>1, <1>2, Safety, TypeCorrect, PTL DEF Spec

-----------------------------------------------------------------------------
(* The refinement.                                                         *)

\* A statement of a handler moves the session along its life.
LEMMA StatementsFollowTheContract ==
  ASSUME HandlerInv, Fresh, FullBeforeCompleting, NEW s \in Requests, Statement(s)
  PROVE  SessionView' \in Contract!Successors(SessionView)
<1>1. row \in Rows /\ slot[s].seen.parts \in SUBSET Parts
  BY ArgumentTypes DEF HandlerInv, TypeInv, TypeOK
<1> DEFINE h == slot[s]
           v == [status |-> row.status, parts |-> row.parts]
           w == [status |-> row'.status, parts |-> row'.parts]
           Goal == w \in Contract!Successors(v)
<1> SUFFICES Goal
  BY DEF SessionView
<1> USE DEF Contract!Successors
<1>2. CASE row'.status = row.status /\ row'.parts = row.parts
  BY <1>2
<1>3. CASE At(s, "nInsert") /\ row' = NewRow(h.seen.state, h.seen.state.until)
  <2>1. row.status = "absent"
    BY <1>3 DEF Fresh, NoRow, NewRow
  <2>2. w = Contract!OpenSession
    BY <1>3 DEF NewRow, Contract!OpenSession
  <2> QED BY <2>1, <2>2
<1>4. CASE ClaimPartWhere(row, h.at) /\ row' = ClaimPartSet(row, h.part, Exp(h))
  BY <1>1, <1>2, <1>4 DEF ClaimPartSet, WithoutTerminalClaim, Rows
<1>5. CASE /\ RecordPartWhere(row, h.part, Exp(h), h.seen) /\ h.part \in Parts
           /\ row' = RecordPartSet(row, h.part, h.res.state, h.res.item, h.seen)
  <2>1. row'.status = "active" /\ row.status = "active" /\ row'.parts = row.parts \cup {h.part}
    BY <1>1, <1>5 DEF RecordPartWhere, HoldsPart, RecordPartSet, WithoutPartClaim, Rows
  <2>2. w = Contract!WithPart(v, h.part) /\ Contract!TakesParts(v)
    BY <2>1 DEF Contract!WithPart, Contract!TakesParts
  <2> QED BY <1>5, <2>2
<1>6. CASE HoldsPart(row, h.part, Exp(h)) /\ row' = ReleasePartSet(row)
  BY <1>1, <1>2, <1>6 DEF ReleasePartSet, WithoutPartClaim, Rows
<1>7. ASSUME NEW op \in TerminalOps, ClaimTerminalWhere(row, op, h.at),
             row' = ClaimTerminalSet(row, op, s, Exp(h)), op = "complete" => At(s, "cClaim")
      PROVE  Goal
  <2>1. /\ row'.status = IF op = "complete" THEN "completing" ELSE "active"
        /\ row'.parts = row.parts /\ row.status \in {"active", "completing"}
    BY <1>1, <1>7 DEF ClaimTerminalWhere, ClaimTerminalSet, WithoutPartClaim, Rows
  <2>2. CASE op = "complete" /\ row.status = "active"
    <3>1. row.parts = Parts
      BY <1>7, <2>2 DEF FullBeforeCompleting, Exists
    <3>2. w = Contract!Completing(v) /\ Contract!MayComplete(v)
      BY <2>1, <2>2, <3>1 DEF Contract!Completing, Contract!MayComplete
    <3> QED BY <3>2
  <2>3. CASE op # "complete" /\ row.status = "completing"
    <3>1. w = Contract!Reopened(v)
      BY <2>1, <2>3 DEF Contract!Reopened
    <3> QED BY <2>3, <3>1
  <2> QED BY <1>2, <2>1, <2>2, <2>3
<1>8. CASE CompleteWhere(row, s, Exp(h)) /\ row' = CompleteSet(row)
  <2>1. row.status = "completing" /\ row'.status = "completed" /\ row'.parts = row.parts
    BY <1>1, <1>8 DEF CompleteWhere, CompleteSet, WithoutTerminalClaim, Rows
  <2>2. w = Contract!Finished(v)
    BY <2>1 DEF Contract!Finished
  <2> QED BY <2>1, <2>2
<1>9. CASE MarkAbortedWhere(row, s, Exp(h)) /\ row' = MarkAbortedSet(row)
  <2>1. row.status = "active" /\ row'.status = "aborted" /\ row'.parts = row.parts
    BY <1>1, <1>9
       DEF MarkAbortedWhere, MarkAbortedSet, WithoutPartClaim, WithoutTerminalClaim, Rows
  <2>2. w = Contract!Cancelled(v)
    BY <2>1 DEF Contract!Cancelled
  <2> QED BY <2>1, <2>2
<1>10. ASSUME NEW op \in TerminalOps, ReleaseTerminalWhere(row, op, s, Exp(h)),
              row' = ReleaseTerminalSet(row)
       PROVE  Goal
  <2>1. /\ row.status \in {"active", "completing"} /\ row'.status = "active"
        /\ row'.parts = row.parts
    BY <1>1, <1>10 DEF ReleaseTerminalWhere, ReleaseTerminalSet, WithoutTerminalClaim, Rows
  <2>2. w = Contract!Reopened(v)
    BY <2>1 DEF Contract!Reopened
  <2> QED BY <1>2, <2>1, <2>2
<1> HIDE DEF Goal
<1> QED BY <1>2, <1>3, <1>4, <1>5, <1>6, <1>7, <1>8, <1>9, <1>10 DEF Statement

\* The answer of a handler is a promise, and the session keeps it.
LEMMA AnswersKeepTheContract ==
  ASSUME NEW g \in Handlers, NEW r, Told(g, r), Knows(g, r), Promise(g) # Contract!NoPromise,
         r.status \in {"completing", "completed"} => r.parts = Parts
  PROVE  /\ Promise(g) \in Contract!Promises
         /\ Contract!Keeps([status |-> r.status, parts |-> r.parts], Promise(g))
<1>1. g.part \in Parts \cup {0}
  BY NPartsAssumption DEF Handlers, Parts
<1>2. Promise(g).about # "nothing"
  BY DEF Promise, Contract!NoPromise
<1>3. r.status # "absent"
  BY <1>2 DEF Knows
<1>4. Promise(g) \in Contract!Promises
  BY <1>1 DEF Promise, Contract!Promises
<1>5. /\ Promise(g).about = "part" => g.job = "part" /\ g.reply = "ok" /\ Promise(g).part = g.part
      /\ Promise(g).about = "completed" => g.reply = "already" \/ (g.job = "complete" /\ g.reply = "ok")
      /\ Promise(g).about = "aborted" => g.job = "abort" /\ g.reply = "ok"
  BY DEF Promise
<1> QED BY <1>3, <1>4, <1>5 DEF Told, Contract!Keeps

\* What has been told, handler by handler.
ToldAll == [s \in Requests |-> Promise(slot[s])]

\* A step of a handler is a step of its client in the contract.
LEMMA HandlersFollowTheContract ==
  ASSUME Inv, FullBeforeCompleting, TypeInv', FullBeforeCompleting', NEW s \in Requests,
         Start(s) \/ Step(s) \/ Evict(s)
  PROVE  Contract!Work(s) \/ Contract!Answer(s)
<1>1. HandlerInv /\ Fresh /\ TypeInv
  BY DEF Inv, HandlerInv
<1>2. Outcome(s) /\ Statement(s) /\ Knows(slot'[s], row')
  BY <1>1, HandlerSteps, HandlersKnow
<1>3. SessionView' \in Contract!Successors(SessionView)
  BY <1>1, <1>2, StatementsFollowTheContract
<1>4. ToldAll' = [ToldAll EXCEPT ![s] = Promise(slot'[s])]
  <2>1. \A t \in Requests : t # s => slot'[t] = slot[t]
    BY <1>2 DEF Outcome
  <2> QED BY <2>1 DEF ToldAll
<1>5. CASE Promise(slot'[s]) = Contract!NoPromise
  BY <1>3, <1>4, <1>5 DEF Contract!Work, ToldAll
<1>6. CASE Promise(slot'[s]) # Contract!NoPromise
  <2>1. slot'[s] \in Handlers
    BY DEF TypeInv, TypeOK
  <2>2. Told(slot'[s], row') /\ (row'.status \in {"completing", "completed"} => row'.parts = Parts)
    BY <1>2 DEF Outcome, FullBeforeCompleting
  <2>3. /\ Promise(slot'[s]) \in Contract!Promises
        /\ Contract!Keeps([status |-> row'.status, parts |-> row'.parts], Promise(slot'[s]))
    BY <1>2, <1>6, <2>1, <2>2, AnswersKeepTheContract
  <2>4. Contract!Keeps(SessionView', Promise(slot'[s]))
    BY <2>3 DEF SessionView
  <2> QED BY <1>3, <1>4, <2>3, <2>4 DEF Contract!Answer, ToldAll
<1> QED BY <1>5, <1>6

\* UploadService implements UploadSession: whatever the leases, the storage
\* providers, the lost calls, the evictions and the retries, the clients see a
\* session that only moves along its life and are told what is true.
THEOREM ServiceKeepsTheContract == Spec => KeepsTheContract
<1> DEFINE All == Inv /\ FullBeforeCompleting /\ TypeInv
<1>1. Init => Contract!Init
  <2> SUFFICES ASSUME Init PROVE Contract!Init
    OBVIOUS
  <2>1. SessionView = Contract!AbsentSession
    BY DEF Init, SessionView, NoRow, NewRow, Contract!AbsentSession
  <2>2. Promise(Idle) = Contract!NoPromise
    BY DEF Promise, Idle, Contract!NoPromise
  <2>3. \A c \in Requests : slot[c] = Idle
    BY DEF Init
  <2>4. ToldAll = [c \in Requests |-> Contract!NoPromise]
    BY <2>2, <2>3 DEF ToldAll
  <2> QED BY <2>1, <2>4 DEF Contract!Init, ToldAll
<1>2. All /\ All' /\ [Next]_vars => [Contract!Next]_(Contract!contractVars)
  <2> SUFFICES ASSUME All, All', [Next]_vars
               PROVE  [Contract!Next]_(Contract!contractVars)
    OBVIOUS
  <2>1. ASSUME NEW s \in Requests, Start(s) \/ Step(s) \/ Evict(s)
        PROVE  Contract!Next
    BY <2>1, HandlersFollowTheContract DEF Contract!Next
  <2>2. CASE RowVanishes
    <3>1. SessionView' = Contract!AbsentSession
      BY <2>2 DEF RowVanishes, SessionView, NoRow, NewRow, Contract!AbsentSession
    <3>2. ToldAll' = ToldAll
      BY <2>2 DEF RowVanishes, ToldAll
    <3> QED BY <3>1, <3>2 DEF Contract!Next, Contract!Vanish, ToldAll
  <2>3. CASE ProviderExpires \/ Tick \/ UNCHANGED vars
    <3>1. row' = row /\ slot' = slot
      BY <2>3 DEF ProviderExpires, Tick, vars
    <3>2. SessionView' = SessionView /\ ToldAll' = ToldAll
      BY <3>1 DEF SessionView, ToldAll
    <3> QED BY <3>2 DEF Contract!contractVars, ToldAll
  <2> QED BY <2>1, <2>2, <2>3 DEF Next
<1>3. Spec => []All
  BY CompletionsAreFull, TypeCorrect, PTL
<1> QED BY <1>1, <1>2, <1>3, PTL DEF Spec, KeepsTheContract, Contract!Spec


-----------------------------------------------------------------------------
(* What the row says of the provider.  A part is recorded after the        *)
(* provider has taken it and an item after the provider has committed the  *)
(* file; both stay true because the provider forgets nothing.  Dropbox     *)
(* commits whatever it holds at the recorded offset: there the parts also  *)
(* have to be recorded in the order in which they were sent.               *)

\* A 308 of Google, where there is Google, names all the bytes it was sent.
RangesAreWhole == ShortRanges => "google" \notin Providers

\* A handler that has sent its part and has not recorded it.
Sent == {"pRow", "pCas"}

HandlerSees(s) ==
  LET h == slot[s]
  IN /\ h.pc \in Sent => h.part \in prov.parts /\ (h.res.item => prov.file)
     /\ h.pc = "cClaimed" /\ Exists => row.parts = Parts
     /\ h.pc = "cPut" => h.seen.parts = Parts /\ (h.seen.item => prov.file)
     /\ h.pc = "cPersist" => prov.file

ProviderInv ==
  /\ prov.file => prov.parts = Parts
  /\ RecordedPartsHeld
  /\ row.item => prov.file
  /\ \A s \in Requests : HandlerSees(s)

HandlerInOrder(s) ==
  LET h == slot[s]
  IN /\ h.pc = "nInsert" => h.seen.state.next = 0
     /\ h.pc = "cPut" => h.seen.parts = 1..h.seen.state.next
     /\ h.pc = "pPut" /\ Exists => h.seen.state.next <= row.state.next
     /\ h.pc \in Sent /\ Exists =>
          /\ h.part = row.state.next + 1 /\ h.res.state.next = h.part /\ prov.parts = 1..h.part
          /\ \A t \in Requests \ {s} : slot[t].pc \notin Sent

\* With Dropbox, the recorded offset counts the recorded parts and at most one
\* handler is ahead of it, by one part.
InOrder ==
  prov.kind = "dropbox" => row.parts = 1..row.state.next /\ \A s \in Requests : HandlerInOrder(s)

\* What a handler can do to the provider session.
ProviderStep(s) ==
  LET h == slot[s]
  IN \/ prov' = prov
     \/ prov' = Opened(prov, clock)
     \/ prov' = Abort(prov, h.seen.state, clock).prov
     \/ /\ h.pc = "pPut" /\ row' = row
        /\ \E o \in UploadPart(prov, h.seen.state, h.part, clock) : prov' = o.prov
     \/ /\ h.pc = "cPut" /\ row' = row
        /\ prov' = Complete(prov, h.seen.state, h.seen.parts, h.seen.item, clock).prov

\* Five of the actions call the provider, each as ProviderStep says.
LEMMA ProviderSteps ==
  ASSUME TypeInv, NEW s \in Requests, Start(s) \/ Step(s) \/ Evict(s)
  PROVE  ProviderStep(s)
<1>1. CreateStart(s) => prov' = prov \/ prov' = Opened(prov, clock)
  BY CallMoves DEF CreateStart
<1>2. CreateUndo(s) => prov' = prov \/ prov' = Abort(prov, slot[s].seen.state, clock).prov
  BY CallMoves DEF CreateUndo
<1>3. PartPut(s) => ProviderStep(s)
  <2> SUFFICES ASSUME PartPut(s) PROVE ProviderStep(s)
    OBVIOUS
  <2>1. PICK o \in UploadPart(prov, slot[s].seen.state, slot[s].part, clock) :
          \E g : Call(s, o.prov, g) \/ CallFault(s, o.prov, g)
    BY DEF PartPut
  <2>2. slot[s].pc = "pPut" /\ row' = row /\ prov' \in {prov, o.prov}
    BY <2>1, CallMoves DEF PartPut, At
  <2> QED BY <2>1, <2>2 DEF ProviderStep
<1>4. CompletePut(s) => ProviderStep(s)
  <2> SUFFICES ASSUME CompletePut(s) PROVE ProviderStep(s)
    OBVIOUS
  <2> DEFINE p == Complete(prov, slot[s].seen.state, slot[s].seen.parts, slot[s].seen.item, clock).prov
  <2>1. PICK g : Call(s, p, g) \/ CallFault(s, p, g)
    BY DEF CompletePut
  <2>2. slot[s].pc = "cPut" /\ row' = row /\ prov' \in {prov, p}
    BY <2>1, CallMoves DEF CompletePut, At
  <2> QED BY <2>2 DEF ProviderStep
<1>5. AbortPut(s) => prov' = prov \/ prov' = Abort(prov, slot[s].seen.state, clock).prov
  <2> DEFINE p == Abort(prov, slot[s].seen.state, clock).prov
  <2>1. ASSUME AbortPut(s) PROVE \E g : Call(s, p, g) \/ CallFault(s, p, g)
    BY <2>1 DEF AbortPut
  <2> HIDE DEF p
  <2> QED BY <2>1, CallMoves DEF p
<1>6. /\ CreateInsert(s) => prov' = prov
      /\ PartDriver(s) \/ PartClaim(s) \/ PartReload(s) \/ PartClaimed(s) \/ PartRow(s) \/ PartCas(s)
           \/ PartAfter(s) \/ PartRelease(s) \/ (\E n \in Parts : PartStart(s, n)) => prov' = prov
  BY DEF CreateInsert, PartStart, PartDriver, PartClaim, PartReload, PartClaimed, PartRow, PartCas,
         PartAfter, PartRelease, Db, DbFault
<1>7. CompleteStart(s) \/ CompleteEnter(s) \/ CompleteClaim(s) \/ CompleteClaimed(s) \/ CompletePersist(s)
        \/ CompleteReload(s) \/ CompleteRelease(s) => prov' = prov
  BY DEF CompleteStart, CompleteEnter, CompleteRead, CompleteClaim, CompleteClaimed, CompletePersist,
         CompleteReload, CompleteRelease, Db, DbFault
<1>8. AbortStart(s) \/ CleanupStart(s) \/ AbortClaim(s) \/ AbortReload(s) \/ AbortClaimed(s) \/ AbortMark(s)
        \/ AbortLost(s) \/ AbortRelease(s) => prov' = prov
  BY DEF AbortStart, CleanupStart, AbortVerdict, AbortClaim, AbortReload, AbortClaimed, AbortMark,
         AbortLost, AbortRelease, Db, DbFault
<1>9. Evict(s) => prov' = prov
  BY DEF Evict
<1>10. prov' = prov \/ prov' = Opened(prov, clock) \/ prov' = Abort(prov, slot[s].seen.state, clock).prov
         => ProviderStep(s)
  BY DEF ProviderStep
<1> QED BY <1>1, <1>2, <1>3, <1>4, <1>5, <1>6, <1>7, <1>8, <1>9, <1>10
        DEF Start, Step, CreateStep, PartStep, CompleteStep, AbortStep

\* What uploadPart does, unless Google's range stops short: a part reported as
\* uploaded is there, and a finished item means a whole file.
LEMMA UploadGives ==
  ASSUME RangesAreWhole, NEW p \in ProviderSessions, NEW st \in ProviderStates, NEW n \in Parts, NEW now \in Nat,
         NEW o \in UploadPart(p, st, n, now)
  PROVE  /\ o.prov.kind = p.kind /\ p.parts \subseteq o.prov.parts /\ (p.file => o.prov.file)
         /\ o.prov.file => p.file \/ o.prov.parts = Parts
         /\ o.ok => n \in o.prov.parts
         /\ o.ok /\ o.item => o.prov.file
         /\ p.kind = "dropbox" =>
              \/ o.prov = p /\ ~o.ok
              \/ st.next = n - 1 /\ p.parts = 1..(n - 1) /\ o.prov.parts = 1..n /\ o.state.next = n
<1> DEFINE Fine(x) ==
      /\ x.prov.kind = p.kind /\ p.parts \subseteq x.prov.parts /\ (p.file => x.prov.file)
      /\ x.prov.file => p.file \/ x.prov.parts = Parts
      /\ x.ok => n \in x.prov.parts
      /\ x.ok /\ x.item => x.prov.file
<1>0. NParts \in Nat /\ n \in Nat /\ Parts = 1..NParts /\ n \in 1..NParts
  BY NPartsAssumption DEF Parts
<1>1. \A t : Fine(Threw(p, t)) /\ ~Threw(p, t).ok /\ Threw(p, t).prov = p
  BY DEF Threw
<1>2. /\ Received(p, n).kind = p.kind /\ Received(p, n).parts = p.parts \cup {n}
      /\ Received(p, n).file = p.file
      /\ \A u : LET q == [Received(p, n) EXCEPT !.until = u]
                IN q.kind = p.kind /\ q.parts = p.parts \cup {n} /\ q.file = p.file
  BY DEF Received, ProviderSessions
<1>3. LET q == Committed(Received(p, n)) IN q.kind = p.kind /\ q.parts = p.parts \cup {n} /\ q.file
  BY DEF Committed, Received, ProviderSessions
<1>a. ASSUME NEW q, q.kind = p.kind, q.parts = p.parts \cup {n}, p.file => q.file,
             q.file => p.file \/ p.parts \cup {n} = Parts, NEW t, NEW i, i => q.file
      PROVE  Fine(Returned(q, t, i))
  <2>1. /\ Returned(q, t, i).prov = q /\ Returned(q, t, i).ok /\ Returned(q, t, i).item = i
    BY DEF Returned
  <2>2. n \in q.parts /\ p.parts \subseteq q.parts
    BY <1>a
  <2> QED BY <1>a, <2>1, <2>2
<1>b. \A t : Fine(Returned(Received(p, n), t, FALSE))
  BY <1>2, <1>a
<1>c. \A t, u : Fine(Returned([Received(p, n) EXCEPT !.until = u], t, FALSE))
  BY <1>2, <1>a
<1>d. p.parts \cup {n} = Parts => \A t : Fine(Returned(Committed(Received(p, n)), t, TRUE))
  BY <1>3, <1>a
<1>9. p.kind \in {"s3", "onedrive", "google", "dropbox"}
  BY ProvidersAssumption DEF ProviderSessions
<1>e. Fine(o) <=> /\ o.prov.kind = p.kind /\ p.parts \subseteq o.prov.parts /\ (p.file => o.prov.file)
                  /\ o.prov.file => p.file \/ o.prov.parts = Parts
                  /\ o.ok => n \in o.prov.parts
                  /\ o.ok /\ o.item => o.prov.file
  OBVIOUS
<1> HIDE DEF Fine
<1>5. p.kind = "s3" => Fine(o)
  BY <1>1, <1>b DEF UploadPart, S3UploadPart
<1>6. p.kind = "onedrive" => Fine(o)
  <2> SUFFICES ASSUME p.kind = "onedrive", Live(st, now) /\ NextInOrder(p, n) PROVE Fine(o)
    BY <1>1 DEF UploadPart, OneDriveUploadPart, OneDriveFragment
  <2>1. n = NParts => p.parts \cup {n} = Parts
    BY <1>0 DEF NextInOrder
  <2>2. CASE n = NParts
    <3>1. o = Returned(Committed(Received(p, n)), st, TRUE)
      BY <2>2 DEF UploadPart, OneDriveUploadPart, OneDriveFragment
    <3> QED BY <1>d, <2>1, <2>2, <3>1
  <2>3. CASE n # NParts
    <3>1. PICK e \in Extensions :
            o = Returned([Received(p, n) EXCEPT !.until = p.until + e], [st EXCEPT !.until = p.until + e], FALSE)
      BY <2>3 DEF UploadPart, OneDriveUploadPart, OneDriveFragment
    <3> QED BY <1>c, <3>1
  <2> QED BY <2>2, <2>3
<1>7. p.kind = "google" => Fine(o)
  <2> SUFFICES ASSUME p.kind = "google", Live(st, now) /\ st.next = n - 1 /\ NextInOrder(p, n) PROVE Fine(o)
    BY <1>1 DEF UploadPart, GoogleUploadPart
  <2>1. n = NParts => p.parts \cup {n} = Parts
    BY <1>0 DEF NextInOrder
  <2>2. ~ShortRanges
    BY DEF RangesAreWhole, ProviderSessions
  <2>3. o = IF n = NParts THEN Returned(Committed(Received(p, n)), st, TRUE)
            ELSE Returned(Received(p, n), [st EXCEPT !.next = n], FALSE)
    BY <2>2 DEF UploadPart, GoogleUploadPart
  <2> QED BY <1>b, <1>d, <2>1, <2>3
<1>8. ASSUME p.kind = "dropbox"
      PROVE  /\ Fine(o)
             /\ \/ o.prov = p /\ ~o.ok
                \/ st.next = n - 1 /\ p.parts = 1..(n - 1) /\ o.prov.parts = 1..n /\ o.state.next = n
  <2>1. CASE ~(Live(st, now) /\ st.next = n - 1 /\ NextInOrder(p, n))
    BY <1>1, <1>8, <2>1 DEF UploadPart, DropboxUploadPart
  <2>2. CASE Live(st, now) /\ st.next = n - 1 /\ NextInOrder(p, n)
    <3>1. o = Returned(Received(p, n), [st EXCEPT !.next = n], FALSE)
      BY <1>8, <2>2 DEF UploadPart, DropboxUploadPart
    <3>2. p.parts = 1..(n - 1) /\ p.parts \cup {n} = 1..n
      BY <1>0, <2>2 DEF NextInOrder
    <3>3. [st EXCEPT !.next = n].next = n
      BY DEF ProviderStates
    <3>4. o.prov = Received(p, n) /\ o.state = [st EXCEPT !.next = n]
      BY <3>1 DEF Returned
    <3>5. o.prov.parts = 1..n /\ o.state.next = n
      BY <1>2, <3>2, <3>3, <3>4
    <3>6. Fine(o)
      BY <1>b, <3>1
    <3> QED BY <2>2, <3>2, <3>5, <3>6
  <2> QED BY <2>1, <2>2
<1> QED BY <1>5, <1>6, <1>7, <1>8, <1>9, <1>e

\* What complete does with a full list of parts: it loses none, and what it
\* reports as finished is a whole file.
LEMMA CompleteGives ==
  ASSUME NEW p \in ProviderSessions, NEW st \in ProviderStates, NEW b \in BOOLEAN, NEW now \in Nat,
         p.file => p.parts = Parts, b => p.file, p.kind = "dropbox" => Parts = 1..st.next
  PROVE  LET o == Complete(p, st, Parts, b, now)
         IN /\ o.prov.kind = p.kind /\ o.prov.parts = p.parts /\ (p.file => o.prov.file)
            /\ o.prov.file => o.prov.parts = Parts
            /\ o.ok => o.prov.file
<1> DEFINE Fine(o) ==
      /\ o.prov.kind = p.kind /\ o.prov.parts = p.parts /\ (p.file => o.prov.file)
      /\ o.prov.file => o.prov.parts = Parts
      /\ o.ok => o.prov.file
<1>0. p.parts \subseteq Parts
  BY DEF ProviderSessions
<1>1. \A t : Fine(Threw(p, t))
  BY DEF Threw
<1>2. p.file => \A t, i : Fine(Returned(p, t, i))
  BY DEF Returned
<1>3. p.parts = Parts => \A t, i : Fine(Returned(Committed(p), t, i))
  BY DEF Returned, Committed, ProviderSessions
<1> HIDE DEF Fine
<1>4. Fine(S3Complete(p, st, Parts))
  BY <1>0, <1>1, <1>2, <1>3 DEF S3Complete, S3Assembles
<1>5. Fine(StoredItemComplete(p, st, b))
  BY <1>1, <1>2 DEF StoredItemComplete
<1>6. p.kind = "dropbox" => Fine(DropboxComplete(p, st, now))
  BY <1>1, <1>3 DEF DropboxComplete
<1>7. p.kind \in {"s3", "onedrive", "google", "dropbox"}
  BY ProvidersAssumption DEF ProviderSessions
<1>8. Fine(Complete(p, st, Parts, b, now))
  BY <1>4, <1>5, <1>6, <1>7 DEF Complete
<1> QED BY <1>8 DEF Fine

\* Opening, cancelling and expiry lose no part and no file.
LEMMA NothingIsLost ==
  ASSUME NEW p \in ProviderSessions, NEW st, NEW now
  PROVE  \A q \in {Opened(p, now), Closed(p), Abort(p, st, now).prov} :
           q.kind = p.kind /\ q.parts = p.parts /\ q.file = p.file
<1>1. \A q \in {Opened(p, now), Closed(p)} : q.kind = p.kind /\ q.parts = p.parts /\ q.file = p.file
  BY DEF Opened, Closed, ProviderSessions
<1>2. Abort(p, st, now).prov \in {p, Closed(p)}
  <2>1. \A q, i : Threw(q, st).prov = q /\ Returned(q, st, i).prov = q
    BY DEF Threw, Returned
  <2>2. p.kind \in {"s3", "onedrive", "google", "dropbox"}
    BY ProvidersAssumption DEF ProviderSessions
  <2> QED BY <2>1, <2>2 DEF Abort, S3Abort, LiveAbort, DropboxClose
<1> QED BY <1>1, <1>2

\* The columns of a row that are about the provider change with an INSERT, with
\* the recording of a part and, for the item, with a completion.
LEMMA RowColumns ==
  ASSUME TypeInv, NEW s \in Requests, Statement(s)
  PROVE  LET h == slot[s]
         IN \/ row'.parts = row.parts /\ row'.state = row.state /\ (row'.item = row.item \/ h.pc = "cPersist")
            \/ /\ h.pc = "nInsert" /\ row'.parts = {} /\ ~row'.item
               /\ row'.state.next = h.seen.state.next
            \/ /\ h.pc = "pCas" /\ Exists /\ row'.parts = row.parts \cup {h.part}
               /\ row'.state = h.res.state /\ (row'.item => row.item \/ h.res.item)
<1> DEFINE h == slot[s]
           Same == row'.parts = row.parts /\ row'.state = row.state /\ row'.item = row.item
<1>1. row \in Rows /\ h.res.item \in BOOLEAN /\ h.seen.item \in BOOLEAN
  BY ArgumentTypes
<1>2. CASE row' = row
  BY <1>2
<1>3. CASE At(s, "nInsert") /\ row' = NewRow(h.seen.state, h.seen.state.until)
  BY <1>3 DEF NewRow, At
<1>4. CASE row' = ClaimPartSet(row, h.part, Exp(h))
  BY <1>1, <1>4 DEF ClaimPartSet, WithoutTerminalClaim, Rows
<1>5. CASE /\ At(s, "pCas") /\ RecordPartWhere(row, h.part, Exp(h), h.seen)
           /\ row' = RecordPartSet(row, h.part, h.res.state, h.res.item, h.seen)
  BY <1>1, <1>5 DEF RecordPartWhere, HoldsPart, RecordPartSet, WithoutPartClaim, Rows, At, Exists
<1>6. CASE row' = ReleasePartSet(row)
  BY <1>1, <1>6 DEF ReleasePartSet, WithoutPartClaim, Rows
<1>7. ASSUME NEW op \in TerminalOps, row' = ClaimTerminalSet(row, op, s, Exp(h))
      PROVE  Same
  BY <1>1, <1>7 DEF ClaimTerminalSet, WithoutPartClaim, Rows
<1>8. CASE At(s, "cPersist") /\ row' = CompleteSet(row)
  BY <1>1, <1>8 DEF CompleteSet, WithoutTerminalClaim, Rows, At
<1>9. CASE row' = MarkAbortedSet(row)
  BY <1>1, <1>9 DEF MarkAbortedSet, WithoutPartClaim, WithoutTerminalClaim, Rows
<1>10. CASE row' = ReleaseTerminalSet(row)
  BY <1>1, <1>10 DEF ReleaseTerminalSet, WithoutTerminalClaim, Rows
<1> QED BY <1>2, <1>3, <1>4, <1>5, <1>6, <1>7, <1>8, <1>9, <1>10 DEF Statement

\* Over a step of a handler the provider forgets nothing, and a file is whole.
LEMMA ProviderKeeps ==
  ASSUME RangesAreWhole, TypeInv, TypeInv', ProviderInv, InOrder, NEW s \in Requests, ProviderStep(s)
  PROVE  /\ prov'.kind = prov.kind /\ prov.parts \subseteq prov'.parts /\ (prov.file => prov'.file)
         /\ prov'.file => prov'.parts = Parts
<1> DEFINE h == slot[s]
           Goal == /\ prov'.kind = prov.kind /\ prov.parts \subseteq prov'.parts /\ (prov.file => prov'.file)
                   /\ prov'.file => prov'.parts = Parts
<1>0. /\ prov \in ProviderSessions /\ prov'.parts \subseteq Parts /\ clock \in Nat
      /\ h.seen.state \in ProviderStates /\ h.seen.item \in BOOLEAN /\ (h.pc = "pPut" => h.part \in Parts)
  BY ArgumentTypes DEF TypeInv, TypeOK, ProviderSessions, PartPcs
<1>1. prov.file => prov.parts = Parts
  BY DEF ProviderInv
<1>2. CASE prov' = prov
  BY <1>1, <1>2
<1>3. CASE prov' = Opened(prov, clock) \/ prov' = Abort(prov, h.seen.state, clock).prov
  BY <1>0, <1>1, <1>3, NothingIsLost
<1>4. ASSUME h.pc = "pPut", NEW o \in UploadPart(prov, h.seen.state, h.part, clock), prov' = o.prov PROVE Goal
  <2>1. /\ o.prov.kind = prov.kind /\ prov.parts \subseteq o.prov.parts /\ (prov.file => o.prov.file)
        /\ o.prov.file => prov.file \/ o.prov.parts = Parts
    BY <1>0, <1>4, UploadGives
  <2> QED BY <1>0, <1>1, <1>4, <2>1
<1>5. CASE /\ h.pc = "cPut"
           /\ prov' = Complete(prov, h.seen.state, h.seen.parts, h.seen.item, clock).prov
  <2>1. h.seen.parts = Parts /\ (h.seen.item => prov.file)
    BY <1>5 DEF ProviderInv, HandlerSees
  <2>2. prov.kind = "dropbox" => Parts = 1..h.seen.state.next
    BY <1>5, <2>1 DEF InOrder, HandlerInOrder
  <2> QED BY <1>0, <1>1, <1>5, <2>1, <2>2, CompleteGives
<1> QED BY <1>2, <1>3, <1>4, <1>5 DEF ProviderStep

\* What the row says of the provider stays true over a step of a handler.
LEMMA HandlersSee ==
  ASSUME RangesAreWhole, Inv, TypeInv', FullBeforeCompleting, FullBeforeCompleting', ProviderInv, InOrder,
         [Next]_vars, NEW s \in Requests, Start(s) \/ Step(s) \/ Evict(s)
  PROVE  ProviderInv'
<1> DEFINE h == slot[s]
           g == slot'[s]
<1>0. TypeInv /\ HandlerInv /\ Fresh
  BY DEF Inv, HandlerInv
<1>1. Outcome(s) /\ Statement(s) /\ Arrives(s) /\ ProviderStep(s)
  BY <1>0, HandlerSteps, HandlersArrive, ProviderSteps
<1>2. /\ prov'.kind = prov.kind /\ prov.parts \subseteq prov'.parts /\ (prov.file => prov'.file)
      /\ prov'.file => prov'.parts = Parts
  BY <1>0, <1>1, ProviderKeeps
<1>3. \A t \in Requests : HandlerSees(t)
  BY DEF ProviderInv
<1>4. row'.parts \subseteq prov'.parts /\ (row'.item => prov'.file)
  BY <1>0, <1>1, <1>2, <1>3, RowColumns DEF ProviderInv, RecordedPartsHeld, HandlerSees, Sent
<1>5. /\ prov \in ProviderSessions /\ clock \in Nat
      /\ h.seen.state \in ProviderStates /\ h.seen.item \in BOOLEAN /\ (h.pc = "pPut" => h.part \in Parts)
  BY <1>0, ArgumentTypes DEF PartPcs
<1>6. HandlerSees(s)'
  <2>1. ASSUME g.pc = "pRow" PROVE g.part \in prov'.parts /\ (g.res.item => prov'.file)
    <3>1. g.part = h.part /\ h.pc = "pPut"
      BY <1>1, <2>1 DEF Arrives, Leased
    <3>2. PICK o \in UploadPart(prov, h.seen.state, h.part, clock) :
            o.ok /\ prov' = o.prov /\ g.res = [state |-> o.state, item |-> o.item]
      BY <1>1, <2>1 DEF Arrives
    <3>3. g.res.item = o.item
      BY <3>2
    <3>4. (o.ok => h.part \in o.prov.parts) /\ (o.ok /\ o.item => o.prov.file)
      BY <1>5, <3>1, UploadGives
    <3> QED BY <3>1, <3>2, <3>3, <3>4
  <2>2. ASSUME g.pc = "pCas" PROVE g.part \in prov'.parts /\ (g.res.item => prov'.file)
    <3>1. g.part = h.part /\ h.pc = "pRow" /\ g.res = h.res
      BY <1>1, <2>2 DEF Arrives, Leased
    <3> QED BY <1>2, <1>3, <3>1 DEF HandlerSees, Sent
  <2>3. ASSUME g.pc = "cClaimed", Exists' PROVE row'.parts = Parts
    <3>1. h.pc = "cClaim" /\ Exists /\ row'.parts = row.parts
      BY <1>1, <2>3 DEF Arrives
    <3> QED BY <3>1 DEF FullBeforeCompleting, At
  <2>4. ASSUME g.pc = "cPut" PROVE g.seen.parts = Parts /\ (g.seen.item => prov'.file)
    <3>1. h.pc = "cClaimed" /\ Exists /\ g.seen = Snapshot(row)
      BY <1>1, <2>4 DEF Arrives
    <3>2. row.parts = Parts
      BY <1>3, <3>1 DEF HandlerSees
    <3> QED BY <1>2, <3>1, <3>2 DEF Snapshot, ProviderInv
  <2>5. ASSUME g.pc = "cPersist" PROVE prov'.file
    <3>1. h.pc = "cPut" /\ LET o == Complete(prov, h.seen.state, h.seen.parts, h.seen.item, clock)
                           IN o.ok /\ prov' = o.prov
      BY <1>1, <2>5 DEF Arrives
    <3>2. h.seen.parts = Parts /\ (h.seen.item => prov.file)
      BY <1>3, <3>1 DEF HandlerSees
    <3>3. prov.kind = "dropbox" => Parts = 1..h.seen.state.next
      BY <3>1, <3>2 DEF InOrder, HandlerInOrder
    <3>4. prov.file => prov.parts = Parts
      BY DEF ProviderInv
    <3> QED BY <1>5, <3>1, <3>2, <3>3, <3>4, CompleteGives
  <2> QED BY <2>1, <2>2, <2>3, <2>4, <2>5 DEF HandlerSees, Sent
<1>7. ASSUME NEW t \in Requests \ {s} PROVE HandlerSees(t)'
  <2>1. slot'[t] = slot[t] /\ HandlerSees(t)
    BY <1>1, <1>3 DEF Outcome
  <2>2. ASSUME slot[t].pc = "cClaimed", Exists' PROVE row'.parts = Parts
    <3>1. ~At(s, "nInsert")
      BY <1>0, <2>2 DEF Fresh, Idle
    <3>2. Exists
      BY <1>0, <1>1, <2>2, <3>1, StatementsAdvance DEF Exists
    <3>3. row.parts \subseteq row'.parts
      BY <1>0, <2>2, <3>2, StepsAdvance DEF Advances, Exists
    <3>4. row.parts = Parts /\ row'.parts \subseteq Parts
      BY <2>1, <2>2, <3>2 DEF HandlerSees, TypeInv, TypeOK, Rows
    <3> QED BY <3>3, <3>4
  <2> QED BY <1>2, <2>1, <2>2 DEF HandlerSees
<1> QED BY <1>2, <1>4, <1>6, <1>7 DEF ProviderInv, RecordedPartsHeld


\* With Dropbox, the order in which parts are sent is kept over a step of a handler.
LEMMA HandlersKeepOrder ==
  ASSUME RangesAreWhole, Inv, TypeInv', ProviderInv, InOrder, NEW s \in Requests, Start(s) \/ Step(s) \/ Evict(s)
  PROVE  InOrder'
<1> DEFINE h == slot[s]
           g == slot'[s]
           next == row.state.next
<1>0. TypeInv /\ HandlerInv /\ Fresh
  BY DEF Inv, HandlerInv
<1>1. Outcome(s) /\ Statement(s) /\ Arrives(s) /\ ProviderStep(s) /\ prov'.kind = prov.kind
  BY <1>0, HandlerSteps, HandlersArrive, ProviderSteps, ProviderKeeps
<1> SUFFICES ASSUME prov.kind = "dropbox"
             PROVE  row'.parts = 1..row'.state.next /\ \A u \in Requests : HandlerInOrder(u)'
  BY <1>1 DEF InOrder
<1>2. row.parts = 1..next /\ next \in Nat /\ row'.state.next \in Nat /\ \A u \in Requests : HandlerInOrder(u)
  BY <1>0, NPartsAssumption DEF InOrder, TypeInv, TypeOK, Rows, ProviderStates
<1>3. \A u \in Requests \ {s} : slot'[u] = slot[u]
  BY <1>1 DEF Outcome
<1>4. \/ row'.parts = row.parts /\ row'.state = row.state
      \/ h.pc = "nInsert" /\ row'.parts = {} /\ row'.state.next = 0
      \/ /\ h.pc = "pCas" /\ Exists /\ row'.parts = 1..(next + 1) /\ row'.state.next = next + 1
         /\ \A u \in Requests \ {s} : slot[u].pc \notin Sent
  <2>1. h.pc = "nInsert" => h.seen.state.next = 0
    BY <1>2 DEF HandlerInOrder
  <2>2. h.pc = "pCas" /\ Exists => /\ h.part = next + 1 /\ h.res.state.next = next + 1
                                  /\ \A u \in Requests \ {s} : slot[u].pc \notin Sent
    BY <1>2 DEF HandlerInOrder, Sent
  <2>3. (1..next) \cup {next + 1} = 1..(next + 1)
    BY <1>2
  <2> QED BY <1>0, <1>1, <1>2, <2>1, <2>2, <2>3, RowColumns
<1>5. ASSUME NEW u \in Requests \ {s}, slot[u].pc # "idle", Exists' PROVE Exists /\ row'.state.next >= next
  <2>1. ~At(s, "nInsert")
    BY <1>0, <1>5 DEF Fresh, Idle
  <2>2. Exists
    BY <1>0, <1>1, <1>5, <2>1, StatementsAdvance DEF Exists
  <2> QED BY <1>2, <1>4, <2>1, <2>2 DEF At
\* A handler whose call took effect was at the recorded offset, so nobody was ahead of it.
<1>6. ASSUME h.pc = "pPut", Exists, NEW o \in UploadPart(prov, h.seen.state, h.part, clock), prov' = o.prov
      PROVE  \/ prov' = prov /\ ~o.ok
             \/ /\ h.part = next + 1 /\ prov'.parts = 1..h.part /\ o.state.next = h.part
                /\ \A u \in Requests \ {s} : slot[u].pc \notin Sent
  <2>1. h.part \in Parts /\ h.seen.state \in ProviderStates /\ prov \in ProviderSessions /\ clock \in Nat
    BY <1>0, <1>6, ArgumentTypes DEF PartPcs
  <2>2. \/ o.prov = prov /\ ~o.ok
        \/ /\ h.seen.state.next = h.part - 1 /\ prov.parts = 1..(h.part - 1)
           /\ o.prov.parts = 1..h.part /\ o.state.next = h.part
    BY <2>1, UploadGives
  <2>3. h.seen.state.next <= next
    BY <1>2, <1>6 DEF HandlerInOrder
  <2>4. ASSUME h.seen.state.next = h.part - 1, prov.parts = 1..(h.part - 1) PROVE h.part = next + 1
    <3>1. 1..next \subseteq 1..(h.part - 1)
      BY <1>2, <2>4 DEF ProviderInv, RecordedPartsHeld
    <3>2. h.part \in Nat
      BY <2>1 DEF Parts
    <3>3. next <= h.part - 1
      <4>1. CASE next = 0
        BY <2>1, <4>1 DEF Parts
      <4>2. CASE next # 0
        BY <1>2, <3>1, <3>2, <4>2
      <4> QED BY <4>1, <4>2
    <3> QED BY <1>2, <2>3, <2>4, <3>2, <3>3
  <2>5. ASSUME h.part = next + 1, prov.parts = 1..(h.part - 1), NEW u \in Requests \ {s}, slot[u].pc \in Sent PROVE FALSE
    <3>1. prov.parts = 1..(next + 1)
      BY <1>2, <1>6, <2>5 DEF HandlerInOrder
    <3>2. prov.parts = 1..next
      BY <1>2, <2>5
    <3> QED BY <1>2, <3>1, <3>2
  <2> QED BY <1>6, <2>2, <2>4, <2>5
<1>7. ASSUME NEW u \in Requests \ {s}, slot[u].pc \in Sent, Exists'
      PROVE  Exists /\ prov'.parts = prov.parts /\ row'.state.next = next /\ g.pc \notin Sent
  <2>1. Exists /\ slot[u].pc # "idle" /\ h.pc # "nInsert"
    <3>1. slot[u].pc # "idle"
      BY <1>7 DEF Sent
    <3> QED BY <1>0, <1>5, <1>7, <3>1 DEF Fresh, Idle, At
  <2>2. h.pc \notin Sent
    BY <1>2, <1>7, <2>1 DEF HandlerInOrder
  <2>3. row'.state.next = next
    BY <1>4, <1>7, <2>1
  <2>4. prov'.parts = prov.parts
    <3>1. prov \in ProviderSessions
      BY <1>0, ArgumentTypes
    <3>2. CASE prov' = prov \/ prov' = Opened(prov, clock) \/ prov' = Abort(prov, h.seen.state, clock).prov
      BY <3>1, <3>2, NothingIsLost
    <3>3. ASSUME h.pc = "pPut", NEW o \in UploadPart(prov, h.seen.state, h.part, clock), prov' = o.prov
          PROVE  prov'.parts = prov.parts
      BY <1>6, <1>7, <2>1, <3>3
    <3>4. CASE h.pc = "cPut" /\ prov' = Complete(prov, h.seen.state, h.seen.parts, h.seen.item, clock).prov
      <4>1. h.seen.parts = Parts /\ (h.seen.item => prov.file) /\ (prov.file => prov.parts = Parts)
        BY <3>4 DEF ProviderInv, HandlerSees
      <4>2. Parts = 1..h.seen.state.next
        BY <1>2, <3>4, <4>1 DEF HandlerInOrder
      <4>3. h.seen.state \in ProviderStates /\ h.seen.item \in BOOLEAN /\ clock \in Nat
        BY <1>0, ArgumentTypes
      <4> QED BY <3>1, <3>4, <4>1, <4>2, <4>3, CompleteGives
    <3> QED BY <1>1, <3>2, <3>3, <3>4 DEF ProviderStep
  <2>5. g.pc \notin Sent
    <3>1. g.pc # "pCas"
      BY <1>1, <2>2 DEF Arrives, Sent
    <3>2. g.pc # "pRow"
      <4> SUFFICES ASSUME g.pc = "pRow" PROVE FALSE
        OBVIOUS
      <4>1. h.pc = "pPut" /\ \E o \in UploadPart(prov, h.seen.state, h.part, clock) : o.ok /\ prov' = o.prov
        BY <1>1 DEF Arrives
      <4> QED BY <1>6, <1>7, <2>1, <4>1
    <3> QED BY <3>1, <3>2 DEF Sent
  <2> QED BY <2>1, <2>3, <2>4, <2>5
<1>8. ASSUME NEW u \in Requests \ {s} PROVE HandlerInOrder(u)'
  <2>1. slot'[u] = slot[u] /\ HandlerInOrder(u)
    BY <1>2, <1>3
  <2>2. slot[u].pc = "pPut" /\ Exists' => slot[u].seen.state.next <= row'.state.next
    <3>1. slot[u].seen.state.next \in Nat
      BY <1>0, ArgumentTypes, NPartsAssumption DEF ProviderStates
    <3> QED BY <1>2, <1>5, <2>1, <3>1 DEF HandlerInOrder
  <2>3. ASSUME slot[u].pc \in Sent, Exists', NEW t \in Requests \ {u} PROVE slot'[t].pc \notin Sent
    <3>1. CASE t = s
      BY <1>7, <2>3, <3>1
    <3>2. CASE t # s
      BY <1>3, <1>7, <2>1, <2>3, <3>2 DEF HandlerInOrder
    <3> QED BY <3>1, <3>2
  <2> QED BY <1>7, <2>1, <2>2, <2>3 DEF HandlerInOrder
<1>9. HandlerInOrder(s)'
  <2>1. ASSUME g.pc = "nInsert" PROVE g.seen.state.next = 0
    <3> DEFINE f == [Idle EXCEPT !.job = "create", !.pc = "nInsert", !.seen.state = FreshState(clock)]
    <3>1. CreateStart(s)
      BY <1>1, <2>1 DEF Outcome
    <3>2. f.seen.state.next = 0
      BY DEF Idle, NoSnapshot, FreshState
    <3> HIDE DEF f
    <3>3. Call(s, Opened(prov, clock), f) \/ CallFault(s, Opened(prov, clock), Fail)
      BY <3>1 DEF CreateStart, f
    <3>4. Fail.pc # "nInsert"
      BY DEF Fail, Idle
    <3> QED BY <1>0, <2>1, <3>2, <3>3, <3>4, CallMoves
  <2>2. ASSUME g.pc \in {"cPut", "pPut"} PROVE g.seen.parts = 1..g.seen.state.next /\ g.seen.state.next = row'.state.next
    <3>1. g.seen = Snapshot(row) /\ row' = row
      BY <1>1, <2>2 DEF Arrives
    <3> QED BY <1>2, <3>1 DEF Snapshot
  <2>3. ASSUME g.pc \in Sent, Exists'
        PROVE  /\ g.part = row'.state.next + 1 /\ g.res.state.next = g.part /\ prov'.parts = 1..g.part
               /\ \A t \in Requests \ {s} : slot[t].pc \notin Sent
    <3>1. g.part = h.part /\ row' = row /\ Exists
      BY <1>1, <2>3 DEF Arrives, Sent, Leased, Exists
    <3>2. CASE g.pc = "pCas"
      <4>1. h.pc = "pRow" /\ g.res = h.res /\ prov' = prov
        BY <1>1, <3>2 DEF Arrives
      <4> QED BY <1>2, <3>1, <4>1 DEF HandlerInOrder, Sent
    <3>3. CASE g.pc = "pRow"
      <4>1. h.pc = "pPut"
        BY <1>1, <3>3 DEF Arrives
      <4>2. PICK o \in UploadPart(prov, h.seen.state, h.part, clock) :
              o.ok /\ prov' = o.prov /\ g.res = [state |-> o.state, item |-> o.item]
        BY <1>1, <3>3 DEF Arrives
      <4>3. /\ h.part = next + 1 /\ prov'.parts = 1..h.part /\ o.state.next = h.part
            /\ \A u \in Requests \ {s} : slot[u].pc \notin Sent
        BY <1>6, <3>1, <4>1, <4>2
      <4>4. g.res.state = o.state
        BY <4>2
      <4> QED BY <3>1, <4>3, <4>4
    <3> QED BY <2>3, <3>2, <3>3 DEF Sent
  <2>4. g.pc = "pPut" => g.seen.state.next <= row'.state.next
    BY <1>2, <2>2
  <2> QED BY <1>3, <2>1, <2>2, <2>3, <2>4 DEF HandlerInOrder
<1>10. row'.parts = 1..row'.state.next
  <2>1. 1..0 = {}
    OBVIOUS
  <2>2. CASE row'.parts = row.parts /\ row'.state = row.state
    BY <1>2, <2>2
  <2>3. CASE row'.parts = {} /\ row'.state.next = 0
    BY <2>1, <2>3
  <2>4. CASE row'.parts = 1..(next + 1) /\ row'.state.next = next + 1
    BY <2>4
  <2> QED BY <1>4, <2>2, <2>3, <2>4
<1> QED BY <1>8, <1>9, <1>10


\* Every step keeps what the row says of the provider.
LEMMA StepsSee ==
  ASSUME RangesAreWhole, Inv, TypeInv', FullBeforeCompleting, FullBeforeCompleting', ProviderInv, InOrder,
         [Next]_vars
  PROVE  ProviderInv' /\ InOrder'
<1>1. ASSUME NEW s \in Requests, Start(s) \/ Step(s) \/ Evict(s) PROVE ProviderInv' /\ InOrder'
  BY <1>1, HandlersSee, HandlersKeepOrder
<1>2. CASE RowVanishes
  <2>1. /\ row'.parts = {} /\ ~row'.item /\ row'.state.next = 0 /\ ~Exists'
        /\ slot' = slot /\ prov' = prov
    BY <1>2 DEF RowVanishes, NoRow, NewRow, Exists
  <2>2. \A s \in Requests : HandlerSees(s)'
    BY <2>1 DEF ProviderInv, HandlerSees
  <2>3. prov.kind = "dropbox" => \A s \in Requests : HandlerInOrder(s)'
    BY <2>1 DEF InOrder, HandlerInOrder, Sent
  <2>4. 1..0 = {}
    OBVIOUS
  <2> QED BY <2>1, <2>2, <2>3, <2>4 DEF ProviderInv, RecordedPartsHeld, InOrder
<1>3. CASE ProviderExpires \/ Tick \/ UNCHANGED vars
  <2>1. row' = row /\ slot' = slot
    BY <1>3 DEF ProviderExpires, Tick, vars
  <2>2. prov'.kind = prov.kind /\ prov'.parts = prov.parts /\ prov'.file = prov.file
    <3>1. prov \in ProviderSessions
      BY DEF Inv, HandlerInv, TypeInv, TypeOK
    <3>2. prov' = Closed(prov) \/ prov' = prov
      BY <1>3 DEF ProviderExpires, Tick, vars
    <3> QED BY <3>1, <3>2, NothingIsLost
  <2>3. \A s \in Requests : HandlerSees(s)'
    BY <2>1, <2>2 DEF ProviderInv, HandlerSees, Exists
  <2>4. prov.kind = "dropbox" => \A s \in Requests : HandlerInOrder(s)'
    BY <2>1, <2>2 DEF InOrder, HandlerInOrder, Exists
  <2> QED BY <2>1, <2>2, <2>3, <2>4 DEF ProviderInv, RecordedPartsHeld, InOrder
<1> QED BY <1>1, <1>2, <1>3 DEF Next

\* What the row says of the provider, with what the handlers know of it.
LEMMA RowIsTrue ==
  ASSUME RangesAreWhole
  PROVE  Spec => [](ProviderInv /\ InOrder)
<1>1. Init => ProviderInv /\ InOrder
  <2> SUFFICES ASSUME Init PROVE ProviderInv /\ InOrder
    OBVIOUS
  <2>1. /\ row.parts = {} /\ ~row.item /\ row.state.next = 0 /\ ~prov.file
        /\ \A s \in Requests : slot[s] = Idle
    BY DEF Init, NoRow, NewRow, NoSession
  <2>2. Idle.pc = "idle"
    BY DEF Idle
  <2>3. \A s \in Requests : HandlerSees(s) /\ HandlerInOrder(s)
    BY <2>1, <2>2 DEF HandlerSees, HandlerInOrder, Sent
  <2>4. 1..0 = {}
    OBVIOUS
  <2> QED BY <2>1, <2>3, <2>4 DEF ProviderInv, RecordedPartsHeld, InOrder
<1>2. /\ Inv /\ FullBeforeCompleting /\ TypeInv' /\ FullBeforeCompleting' /\ [Next]_vars
      /\ ProviderInv /\ InOrder
      => ProviderInv' /\ InOrder'
  BY StepsSee
<1> QED BY <1>1, <1>2, CompletionsAreFull, TypeCorrect, PTL DEF Spec

\* Unless a range of Google stops short, a part that is recorded is a part
\* the provider has, whatever handlers raced to send and to record it.
THEOREM RecordedPartsAreHeld ==
  ASSUME RangesAreWhole
  PROVE  Spec => []RecordedPartsHeld
<1>1. ProviderInv => RecordedPartsHeld
  BY DEF ProviderInv
<1> QED BY <1>1, RowIsTrue, PTL

\* Unless a range of Google stops short, a finished item in the row stands for
\* a file at the provider with every part in it.
THEOREM ItemsMeanFiles ==
  ASSUME RangesAreWhole
  PROVE  Spec => []ItemMeansFile
<1>1. ProviderInv => ItemMeansFile
  BY DEF ProviderInv, ItemMeansFile
<1> QED BY <1>1, RowIsTrue, PTL
=============================================================================

---------------------------- MODULE UploadStore ----------------------------
(***************************************************************************)
(* The rows of the upload_sessions table and the SQL statements that       *)
(* upload-session-store.ts runs on them.  Every statement is one pair of   *)
(* operators: <Statement>Where is its WHERE clause, <Statement>Set the row *)
(* after its SET clause.  D1 executes a statement atomically; what happens *)
(* between two statements is the business of UploadService.                *)
(*                                                                         *)
(* Times are natural numbers and 0 stands for SQL's NULL in the two lease  *)
(* columns (no claim ever expires at time 0).  Part numbers start at 1, so *)
(* 0 is NULL there too.  completed_item_json is reduced to "present or     *)
(* not", provider_state to the fields the adapters read: the next offset,  *)
(* counted in parts, and the time until which the provider session lives.  *)
(***************************************************************************)
EXTENDS Integers

CONSTANTS
  NParts,    \* number of parts of the uploaded file
  Requests,  \* concurrent request handlers; they own the terminal leases
  NoOwner    \* terminal_owner IS NULL

ASSUME NPartsAssumption == NParts \in Nat \ {0}
ASSUME NoOwnerAssumption == NoOwner \notin Requests

Parts == 1..NParts

ProviderStates == [next : 0..NParts, until : Nat]

\* "absent" is not a status of the code: it says that there is no row.
Statuses == {"absent", "active", "completing", "completed", "aborted"}

TerminalOps == {"complete", "abort"}

Rows == [status    : Statuses,
         parts     : SUBSET Parts,
         state     : ProviderStates,
         item      : BOOLEAN,
         partNo    : 0..NParts,
         partExp   : Nat,
         termOp    : TerminalOps \cup {"none"},
         owner     : Requests \cup {NoOwner},
         termExp   : Nat,
         expiresAt : Nat]

NewRow(state, expiresAt) ==
  [status |-> "active", parts |-> {}, state |-> state, item |-> FALSE,
   partNo |-> 0, partExp |-> 0, termOp |-> "none", owner |-> NoOwner, termExp |-> 0,
   expiresAt |-> expiresAt]

NoRow == [NewRow([next |-> 0, until |-> 0], 0) EXCEPT !.status = "absent"]

-----------------------------------------------------------------------------
(* The two leases of a row.                                                *)

NoPartClaim(r) == r.partNo = 0 /\ r.partExp = 0
NoTerminalClaim(r) == r.termOp = "none" /\ r.owner = NoOwner /\ r.termExp = 0

\* Mutant: a part lease never runs out.
PartClaimFreeNeverExpires(r, now) == NoPartClaim(r)

\* A lease that expires at t is over at t: the code compares with <=.
PartClaimFree(r, now) ==
  \/ NoPartClaim(r)
  \/ r.partNo # 0 /\ r.partExp # 0 /\ r.partExp <= now

TerminalClaimFree(r, now) ==
  \/ NoTerminalClaim(r)
  \/ r.termOp \in TerminalOps /\ r.owner # NoOwner /\ r.termExp # 0 /\ r.termExp <= now

HoldsPart(r, n, exp) ==
  /\ r.status = "active"
  /\ NoTerminalClaim(r)
  /\ r.partNo = n
  /\ r.partExp = exp

HoldsTerminal(r, op, who, exp) ==
  /\ r.termOp = op
  /\ r.owner = who
  /\ r.termExp = exp

WithoutPartClaim(r) == [r EXCEPT !.partNo = 0, !.partExp = 0]
WithoutTerminalClaim(r) == [r EXCEPT !.termOp = "none", !.owner = NoOwner, !.termExp = 0]

\* assertStoredRow: what every reader of a row insists on before it uses it.
StoredRowIsValid(r) ==
  /\ NoPartClaim(r) \/ (r.partNo \in Parts /\ r.partExp # 0)
  /\ NoTerminalClaim(r) \/ (r.termOp \in TerminalOps /\ r.owner # NoOwner /\ r.termExp # 0)
  /\ \/ r.status = "active" /\ (NoTerminalClaim(r) \/ r.termOp = "abort")
     \/ r.status = "completing" /\ (NoTerminalClaim(r) \/ r.termOp = "complete")
     \/ r.status \in {"completed", "aborted", "absent"} /\ NoTerminalClaim(r)
  /\ NoTerminalClaim(r) \/ r.partNo = 0

-----------------------------------------------------------------------------
(* Part leases.                                                            *)

ClaimPartWhere(r, now) ==
  /\ r.status = "active"
  /\ r.expiresAt > now
  /\ TerminalClaimFree(r, now)
  /\ PartClaimFree(r, now)

ClaimPartSet(r, n, exp) == [WithoutTerminalClaim(r) EXCEPT !.partNo = n, !.partExp = exp]

\* `seen` is the row recordUploadPart read before it encrypted the new state:
\* the compare-and-set insists on the claim and on every column it rewrites.
RecordPartWhere(r, n, exp, seen) ==
  /\ HoldsPart(r, n, exp)
  /\ r.parts = seen.parts /\ r.state = seen.state /\ r.item = seen.item

\* Mutant: parts_json holds the new part only.
RecordPartSetDropsOthers(r, n, state, item, seen) ==
  [WithoutPartClaim(r) EXCEPT !.parts = {n}, !.state = state, !.item = seen.item \/ item]

RecordPartSet(r, n, state, item, seen) ==
  [WithoutPartClaim(r) EXCEPT !.parts = seen.parts \cup {n},
                              !.state = state,
                              !.item = seen.item \/ item]

ReleasePartSet(r) == WithoutPartClaim(r)

-----------------------------------------------------------------------------
(* Terminal leases: completion and cancellation.                           *)

\* Mutant: a completion or cancellation does not wait for a part lease in force.
ClaimTerminalWhereIgnoresPart(r, op, now) ==
  /\ r.status \in {"active", "completing"}
  /\ op = "abort" \/ r.expiresAt > now \/ r.item
  /\ op = "complete" \/ ~r.item
  /\ TerminalClaimFree(r, now)

ClaimTerminalWhere(r, op, now) ==
  /\ r.status \in {"active", "completing"}
  /\ op = "abort" \/ r.expiresAt > now \/ r.item
  /\ op = "complete" \/ ~r.item
  /\ PartClaimFree(r, now)
  /\ TerminalClaimFree(r, now)

\* Mutant: an expired part claim stays in the row.
ClaimTerminalSetKeepsPart(r, op, who, exp) ==
  [r EXCEPT !.status = IF op = "complete" THEN "completing" ELSE "active",
            !.termOp = op, !.owner = who, !.termExp = exp]

ClaimTerminalSet(r, op, who, exp) ==
  [WithoutPartClaim(r) EXCEPT !.status = IF op = "complete" THEN "completing" ELSE "active",
                              !.termOp = op, !.owner = who, !.termExp = exp]

CompleteWhere(r, who, exp) == r.status = "completing" /\ HoldsTerminal(r, "complete", who, exp)

CompleteSet(r) == [WithoutTerminalClaim(r) EXCEPT !.status = "completed", !.item = TRUE]

MarkAbortedWhere(r, who, exp) ==
  /\ r.status = "active"
  /\ HoldsTerminal(r, "abort", who, exp)
  /\ ~r.item

MarkAbortedSet(r) == [WithoutPartClaim(WithoutTerminalClaim(r)) EXCEPT !.status = "aborted"]

\* Mutant: the release compares the operation only, not the token.
ReleaseTerminalWhereAnyOwner(r, op, who, exp) ==
  r.status \in {"active", "completing"} /\ r.termOp = op

ReleaseTerminalWhere(r, op, who, exp) ==
  r.status \in {"active", "completing"} /\ HoldsTerminal(r, op, who, exp)

ReleaseTerminalSet(r) == [WithoutTerminalClaim(r) EXCEPT !.status = "active"]

-----------------------------------------------------------------------------
(* Expiry.                                                                 *)

IsExpired(r, now) == r.status \in {"active", "completing"} /\ r.expiresAt <= now

\* Mutant: a row with a lease is never cleaned, even after the lease ran out.
CleanupCandidateUnclaimed(r, now) ==
  IsExpired(r, now) /\ NoPartClaim(r) /\ NoTerminalClaim(r)

\* The rows listExpiredUploadSessions hands to the cleanup: expired, no lease in force.
CleanupCandidate(r, now) ==
  /\ IsExpired(r, now)
  /\ ~(r.partNo # 0 /\ r.partExp > now)
  /\ ~(r.termOp # "none" /\ r.termExp > now)
=============================================================================

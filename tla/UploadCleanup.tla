---------------------------- MODULE UploadCleanup ----------------------------
(***************************************************************************)
(* The rotation of cleanupExpiredUploads over the sessions whose time is   *)
(* over: a visit takes a few of them, those first whose last attempt is    *)
(* longest ago, under a lease on each row.  What happens to one row in     *)
(* detail is in UploadService; here some rows cannot be closed or not even *)
(* be read, and must not keep the others from being closed.                *)
(*                                                                         *)
(* No two attempts are made in one millisecond, and that to read a row is  *)
(* made when it is written.  A session with a stored item is completed     *)
(* instead of aborted, under the same lease.                               *)
(***************************************************************************)
EXTENDS Naturals, Sequences, FiniteSets

CONSTANTS
  Records,        \* the sessions
  Stuck,       \* those whose closing always fails
  Unreadable,  \* those that rowToRecord rejects
  Requests,    \* concurrent requests that clean up
  Nobody,      \* no owner of a lease
  Limit,       \* DEFAULT_CLEANUP_LIMIT
  MaxFaults    \* bound on lost calls, evictions and visits that outlast their lease

ASSUME RecordsAssumption ==
  IsFiniteSet(Records) /\ Stuck \subseteq Records /\ Unreadable \subseteq Records
ASSUME LimitAssumption == Limit \in Nat \ {0} /\ MaxFaults \in Nat
ASSUME NobodyAssumption == Nobody \notin Requests

VARIABLES
  order,    \* the open sessions that have expired, ORDER BY cleanup_attempted_at
  phase,    \* of each session: its time runs, no visit was tried yet, one was, it is closed
  lease,    \* terminal_owner, and is terminal_expires_at still to come?
  visit,    \* the cleanups
  faults

cleanupVars == <<order, phase, lease, visit, faults>>

Leases == [owner : Requests \cup {Nobody}, live : BOOLEAN]
NoLease == [owner |-> Nobody, live |-> FALSE]

Phases == {"running", "fresh", "tried", "closed"}

Pcs == {"idle", "read", "claim", "close", "mark", "release", "touch"}

\* `bad`: what is listed and cannot be read; `todo`: what is to be visited, the first
\* row being the one at work.
NoVisit == [pc |-> "idle", bad |-> <<>>, todo |-> <<>>]

Waiting == {order[n] : n \in DOMAIN order}

TypeOK ==
  /\ order \in Seq(Records) /\ Cardinality(Waiting) = Len(order)
  /\ phase \in [Records -> Phases] /\ Waiting = {r \in Records : phase[r] \in {"fresh", "tried"}}
  /\ lease \in [Records -> Leases]
  /\ \A s \in Requests : /\ visit[s].pc \in Pcs
                         /\ visit[s].bad \in Seq(Unreadable) /\ visit[s].todo \in Seq(Records \ Unreadable)
  /\ faults \in 0..MaxFaults

Init ==
  /\ order = <<>>
  /\ phase = [r \in Records |-> "running"]
  /\ lease = [r \in Records |-> NoLease]
  /\ visit = [s \in Requests |-> NoVisit]
  /\ faults = MaxFaults

-----------------------------------------------------------------------------

At(s, pc) == visit[s].pc = pc

Goto(s, pc) == visit' = [visit EXCEPT ![s].pc = pc]

\* On to the next row of the list, or the end.
Onward(s, h) ==
  visit' = [visit EXCEPT ![s] =
              IF h.bad # <<>> THEN [h EXCEPT !.pc = "read"]
              ELSE IF h.todo # <<>> THEN [h EXCEPT !.pc = "claim"]
              ELSE NoVisit]

NextRow(s) == Onward(s, [visit[s] EXCEPT !.todo = Tail(@)])

Row(s) == Head(visit[s].todo)

Fault == faults > 0 /\ faults' = faults - 1

Without(r) == SelectSeq(order, LAMBDA q : q # r)

\* Mutant: the time of the attempt is not written.
UntouchedOrder(r) == order

TouchedOrder(r) == IF r \in Waiting THEN Append(Without(r), r) ELSE order

\* touchUploadSessionCleanupAttempt, whose failure is swallowed.
Touch(r) ==
  \/ /\ order' = TouchedOrder(r)
     /\ phase' = [phase EXCEPT ![r] = IF r \in Waiting THEN "tried" ELSE @]
     /\ UNCHANGED <<lease, faults>>
  \/ Fault /\ UNCHANGED <<order, phase, lease>>

-----------------------------------------------------------------------------

\* Before its first attempt a session comes before all that were tried.
Expires(r) ==
  /\ phase[r] = "running"
  /\ phase' = [phase EXCEPT ![r] = "fresh"]
  /\ order' = SelectSeq(order, LAMBDA q : phase[q] = "fresh") \o <<r>> \o SelectSeq(order, LAMBDA q : phase[q] = "tried")
  /\ UNCHANGED <<lease, visit, faults>>

\* listExpiredUploadSessions: the first rows without a lease in force.
List(s) ==
  /\ At(s, "idle")
  /\ LET free == SelectSeq(order, LAMBDA r : ~lease[r].live)
         page == SubSeq(free, 1, IF Limit < Len(free) THEN Limit ELSE Len(free))
     IN /\ page # <<>>
        /\ Onward(s, [NoVisit EXCEPT !.bad = SelectSeq(page, LAMBDA r : r \in Unreadable),
                                     !.todo = SelectSeq(page, LAMBDA r : r \notin Unreadable)])
  /\ UNCHANGED <<order, phase, lease, faults>>

Reject(s) ==
  /\ At(s, "read")
  /\ Touch(Head(visit[s].bad))
  /\ Onward(s, [visit[s] EXCEPT !.bad = Tail(@)])

\* claimTerminalOperation.  A refused claim is no attempt; one whose answer is lost is,
\* and its lease stays.
Claim(s) ==
  /\ At(s, "claim")
  /\ LET r == Row(s)
         hit == r \in Waiting /\ ~lease[r].live
         taken == IF hit THEN [lease EXCEPT ![r] = [owner |-> s, live |-> TRUE]] ELSE lease
     IN \/ hit /\ lease' = taken /\ Goto(s, "close") /\ UNCHANGED faults
        \/ ~hit /\ NextRow(s) /\ UNCHANGED <<lease, faults>>
        \/ Fault /\ lease' \in {lease, taken} /\ Goto(s, "touch")
  /\ UNCHANGED <<order, phase>>

\* The adapter of the driver.
Close(s) ==
  /\ At(s, "close")
  /\ \/ Row(s) \notin Stuck /\ Goto(s, "mark") /\ UNCHANGED faults
     \/ Row(s) \in Stuck /\ Goto(s, "release") /\ UNCHANGED faults
     \/ Fault /\ Goto(s, "release")
  /\ UNCHANGED <<order, phase, lease>>

\* markUploadSessionAborted, for whoever holds the lease, be it over or not.
Mark(s) ==
  /\ At(s, "mark")
  /\ LET r == Row(s)
         hit == r \in Waiting /\ lease[r].owner = s
         Written == /\ order' = Without(r)
                    /\ phase' = [phase EXCEPT ![r] = "closed"]
                    /\ lease' = [lease EXCEPT ![r] = NoLease]
     IN \/ hit /\ Written /\ NextRow(s) /\ UNCHANGED faults
        \/ ~hit /\ Goto(s, "release") /\ UNCHANGED <<order, phase, lease, faults>>
        \/ hit /\ Fault /\ Written /\ Goto(s, "release")
        \/ Fault /\ UNCHANGED <<order, phase, lease>> /\ Goto(s, "release")

\* releaseTerminalOperationClaim, whose failure is swallowed.
Release(s) ==
  /\ At(s, "release")
  /\ \/ /\ lease' = IF lease[Row(s)].owner = s THEN [lease EXCEPT ![Row(s)] = NoLease] ELSE lease
        /\ UNCHANGED faults
     \/ Fault /\ UNCHANGED lease
  /\ Goto(s, "touch")
  /\ UNCHANGED <<order, phase>>

Attempted(s) ==
  /\ At(s, "touch")
  /\ Touch(Row(s))
  /\ NextRow(s)

Evict(s) ==
  /\ ~At(s, "idle")
  /\ Fault
  /\ visit' = [visit EXCEPT ![s] = NoVisit]
  /\ UNCHANGED <<order, phase, lease>>

AtWork(r) == \E s \in Requests : lease[r].owner = s /\ visit[s].todo # <<>> /\ Row(s) = r

\* Five minutes are over.  The owner is gone as a rule; that it is still at work is a
\* fault, as a visit that always takes longer than its lease closes nothing.
LeaseExpires(r) ==
  /\ lease[r].live
  /\ \/ ~AtWork(r) /\ UNCHANGED faults
     \/ AtWork(r) /\ Fault
  /\ lease' = [lease EXCEPT ![r].live = FALSE]
  /\ UNCHANGED <<order, phase, visit>>

-----------------------------------------------------------------------------

Step(s) == Reject(s) \/ Claim(s) \/ Close(s) \/ Mark(s) \/ Release(s) \/ Attempted(s)

Next ==
  \/ \E s \in Requests : List(s) \/ Step(s) \/ Evict(s)
  \/ \E r \in Records : Expires(r) \/ LeaseExpires(r)

\* Every create and every list of sessions cleans up first, and they keep coming; a
\* handler that is not evicted runs to its end.
Fairness ==
  /\ \A s \in Requests : WF_cleanupVars(Step(s))
  /\ \A r \in Records : WF_cleanupVars(LeaseExpires(r) /\ UNCHANGED faults)
  /\ SF_cleanupVars(\E s \in Requests : List(s))

Spec == Init /\ [][Next]_cleanupVars /\ Fairness

\* Sessions that cannot be closed, or not even be read, do not keep the others from
\* their turn, although one visit takes fewer rows than there are such sessions
\* (upload-service.test.ts:977, "so later rows are not starved").
SessionsTakeTurns ==
  \A r \in Records \ (Stuck \cup Unreadable) : r \in Waiting ~> r \notin Waiting
=============================================================================

----------------------------- MODULE UploadQueue -----------------------------
(***************************************************************************)
(* The upload queue of the browser: the reducer (upload-reducer.ts), the   *)
(* hook that schedules transports and handles the buttons                  *)
(* (useUploadQueue.ts) and the transport that talks to the server          *)
(* (ui/api/uploads.ts), against the sessions of SessionContract.           *)
(*                                                                         *)
(* JavaScript runs one task at a time, so an action is everything between  *)
(* two events: a click, a render, an answer.  `tasks` is the state of the  *)
(* reducer with every dispatch applied, `view` what was last rendered: the *)
(* buttons, and the closures behind them, are those of `view`.  A click is *)
(* rendered at once, together with the dispatches that waited; a dispatch  *)
(* of a transport is rendered later.                                       *)
(*                                                                         *)
(* Left out: names, sizes, bytes and progress.  Task ids are numbers in    *)
(* the order of the list.  A file is its stamp, File.lastModified: files   *)
(* with the same stamp have the same content.                              *)
(***************************************************************************)
EXTENDS Integers, FiniteSets, SessionContract

CONSTANTS
  MaxTasks,       \* bound on the tasks ever enqueued or restored
  MaxSessions,    \* bound on the sessions ever created
  Stamps,         \* versions of the file on the user's disk
  Kinds,          \* the transports in use: {"single", "multipart"} or a part of it
  MaxConcurrent,  \* MAX_CONCURRENT_UPLOADS
  MaxClicks,      \* bound on what the user does
  MaxVisits,      \* bound on reloads, and on leaving the page and coming back
  MaxFaults,      \* bound on lost or refused requests
  MaxEvents       \* bound on clicks, visits and faults together

ASSUME PartsAssumption == Parts # {} /\ Parts \subseteq Nat \ {0} /\ IsFiniteSet(Parts)
ASSUME StampsAssumption == Stamps # {} /\ Stamps \subseteq Nat \ {0}
ASSUME KindsAssumption == Kinds \subseteq {"single", "multipart"}
ASSUME BoundsAssumption ==
  /\ MaxTasks \in Nat /\ MaxSessions \in Nat /\ MaxConcurrent \in Nat \ {0}
  /\ MaxClicks \in Nat /\ MaxVisits \in Nat /\ MaxFaults \in Nat /\ MaxEvents \in Nat

VARIABLES
  tasks,     \* the tasks of the reducer
  view,      \* the tasks of the last render
  dirty,     \* has anything been dispatched since?
  used,      \* how many task ids were given out
  live,      \* controllers, and the transport each of them belongs to
  paused,    \* control.paused of each task
  pending,   \* pendingResumes
  restore,   \* the list request of this visit
  saved,     \* localStorage: the stamps of the files of sessions
  sessions,  \* the upload sessions of the server
  origin,    \* the stamps of the files the recorded parts came from
  strays,    \* requests on their way whose answer nobody awaits
  budget     \* clicks, visits and faults left

page == <<tasks, view, dirty, used, live, paused, pending, restore, saved>>
server == <<sessions, origin>>
vars == <<page, server, strays, budget>>

Ids == 1..MaxTasks
Sids == 1..MaxSessions
NoSid == 0
NoStamp == 0

\* "gone" is not a status of the code: the task is not in the list.
UploadStatuses == {"gone", "queued", "creating", "uploading", "paused", "completing",
                   "completed", "failed", "cancelled"}

Tasks == [status : UploadStatuses,
          kind   : {"single", "multipart"},
          sid    : Sids \cup {NoSid},       \* sessionId
          stamp  : Stamps \cup {NoStamp},   \* expectedLastModified
          rebind : BOOLEAN,                 \* needsRebind
          fresh  : BOOLEAN]                 \* restartSession

Gone == [status |-> "gone", kind |-> "single", sid |-> NoSid, stamp |-> NoStamp,
         rebind |-> FALSE, fresh |-> FALSE]

\* Where a transport awaits an answer.  "finish" is a completion the server has
\* begun, "undo" the DELETE after a cancellation.
Awaits == {"none", "put", "create", "get", "part", "complete", "finish", "undo"}

\* The awaits that an abort of the signal interrupts.
Abortable == {"put", "get", "part", "complete", "finish"}

Transports == [pc      : Awaits,
               sid     : Sids \cup {NoSid},
               got     : SUBSET Parts,            \* the parts known to be recorded
               part    : Parts \cup {0},
               stamp   : Stamps \cup {NoStamp},   \* the File it reads
               aborted : BOOLEAN,                 \* signal.aborted
               reply   : {"none", "ok", "error"}]

NoTransport == [pc |-> "none", sid |-> NoSid, got |-> {}, part |-> 0, stamp |-> NoStamp,
                aborted |-> FALSE, reply |-> "none"]

Requests == [pc : {"create", "part", "complete", "finish", "undo"}, sid : Sids \cup {NoSid},
             part : Parts \cup {0}, stamp : Stamps \cup {NoStamp}]

RequestOf(t) == [pc |-> t.pc, sid |-> t.sid, part |-> t.part, stamp |-> t.stamp]

Undo(sid) == [pc |-> "undo", sid |-> sid, part |-> 0, stamp |-> NoStamp]

UQTypeOK ==
  /\ tasks \in [Ids -> Tasks]
  /\ view \in [Ids -> Tasks]
  /\ dirty \in BOOLEAN
  /\ used \in 0..MaxTasks
  /\ live \in [Ids -> Transports]
  /\ paused \in [Ids -> BOOLEAN]
  /\ pending \subseteq Ids
  /\ restore \in [state : {"sent", "answered", "done"}, seen : SUBSET Sids]
  /\ saved \subseteq [sid : Sids, stamp : Stamps \cup {NoStamp}]
  /\ sessions \in [Sids -> Sessions]
  /\ origin \in [Sids -> SUBSET Stamps]
  /\ strays \subseteq Requests
  /\ budget \in [clicks : 0..MaxClicks, visits : 0..MaxVisits, faults : 0..MaxFaults,
                events : 0..MaxEvents]

Init ==
  /\ tasks = [i \in Ids |-> Gone]
  /\ view = tasks
  /\ dirty = FALSE
  /\ used = 0
  /\ live = [i \in Ids |-> NoTransport]
  /\ paused = [i \in Ids |-> FALSE]
  /\ pending = {}
  /\ restore = [state |-> "sent", seen |-> {}]
  /\ saved = {}
  /\ sessions = [s \in Sids |-> AbsentSession]
  /\ origin = [s \in Sids |-> {}]
  /\ strays = {}
  /\ budget = [clicks |-> MaxClicks, visits |-> MaxVisits, faults |-> MaxFaults,
               events |-> MaxEvents]

Min(S) == CHOOSE m \in S : \A n \in S : m <= n

Spend(kind) ==
  /\ budget[kind] > 0
  /\ budget.events > 0
  /\ budget' = [budget EXCEPT ![kind] = @ - 1, !.events = @ - 1]

-----------------------------------------------------------------------------
(* The reducer.  An action for a task that is not in the list changes      *)
(* nothing; the others take a task as it is, whatever its status.          *)

Reduce(ts, i, t) == IF ts[i].status = "gone" THEN ts ELSE [ts EXCEPT ![i] = t]

SetStatus(ts, i, status) == Reduce(ts, i, [ts[i] EXCEPT !.status = status])

\* "session": onSession, and every confirmed part.
\* Mutant: a session that arrives late shows a paused task as running.
SessionKnownForgetsPause(ts, i, sid) ==
  Reduce(ts, i, [ts[i] EXCEPT !.status = "uploading", !.sid = sid, !.fresh = FALSE])

SessionKnown(ts, i, sid) ==
  Reduce(ts, i, [ts[i] EXCEPT !.status = IF @ = "paused" THEN @ ELSE "uploading",
                              !.sid = sid, !.fresh = FALSE])

\* "rebind": the file must be the one the session was created for.  A session
\* whose file is not known starts anew rather than mix two files.
\* Mutant: parts of a file that cannot be compared are trusted.
ReboundTrusting(t, f) ==
  IF f = NoStamp \/ (t.stamp # NoStamp /\ f # t.stamp) THEN t
  ELSE [t EXCEPT !.stamp = f, !.rebind = FALSE, !.status = "queued"]

Rebound(t, f) ==
  IF f = NoStamp \/ (t.stamp # NoStamp /\ f # t.stamp) THEN t
  ELSE [t EXCEPT !.stamp = f, !.rebind = FALSE, !.status = "queued",
                 !.sid = IF t.stamp = NoStamp THEN NoSid ELSE @,
                 !.fresh = @ \/ t.stamp = NoStamp]

-----------------------------------------------------------------------------
(* A render and its effects: what can be resumed after a reload is saved,  *)
(* and queued tasks get a transport as long as a slot is free.             *)

Running(ts) == {i \in Ids : ts[i].status \in {"creating", "uploading", "completing"}}

Queued(ts) == {i \in Ids : ts[i].status = "queued" /\ ~ts[i].rebind}

\* The first `available` of the queue, but for those whose last transport has
\* not let go of its controller yet.
Starting(ts, lv) ==
  {i \in Queued(ts) :
     /\ Cardinality({j \in Queued(ts) : j < i}) < MaxConcurrent - Cardinality(Running(ts))
     /\ lv[i].pc = "none"}

\* uploadFile: a single request, a new session, or the session of the task.
Launched(t) ==
  LET sid == IF t.fresh THEN NoSid ELSE t.sid
      await == IF t.kind = "single" THEN "put" ELSE IF sid = NoSid THEN "create" ELSE "get"
  IN [NoTransport EXCEPT !.pc = await, !.sid = sid, !.stamp = t.stamp]

Started(t) == [t EXCEPT !.status = IF t.kind = "multipart" THEN "creating" ELSE "uploading"]

Persisted(ts) ==
  {[sid |-> ts[i].sid, stamp |-> ts[i].stamp] :
     i \in {j \in Ids : /\ ts[j].kind = "multipart"
                        /\ ts[j].sid # NoSid
                        /\ ts[j].status \notin {"gone", "completed", "cancelled"}}}

Commit(ts, lv, ps) ==
  LET S == Starting(ts, lv)
  IN /\ view' = ts
     /\ saved' = Persisted(ts)
     /\ tasks' = [i \in Ids |-> IF i \in S THEN Started(ts[i]) ELSE ts[i]]
     /\ live' = [i \in Ids |-> IF i \in S THEN Launched(ts[i]) ELSE lv[i]]
     /\ paused' = [i \in Ids |-> ps[i] /\ i \notin S]
     /\ dirty' = (S # {})

Render ==
  /\ dirty
  /\ Commit(tasks, live, paused)
  /\ UNCHANGED <<used, pending, restore, server, strays, budget>>

-----------------------------------------------------------------------------
(* The buttons, as UploadTaskRow and UploadPanel offer them.               *)

Aborted(i) == IF live[i].pc = "none" THEN live ELSE [live EXCEPT ![i].aborted = TRUE]

\* Files are enqueued in their first version, and may be changed later.  A valid
\* file waits in the queue; an invalid one (its name, a duplicate, no
\* permission) is listed as failed.
Enqueue(kind, f, valid) ==
  /\ used < MaxTasks
  /\ Spend("clicks")
  /\ used' = used + 1
  /\ LET t == [Gone EXCEPT !.status = IF valid THEN "queued" ELSE "failed",
                           !.kind = kind, !.stamp = f]
     IN Commit([tasks EXCEPT ![used + 1] = t], live, paused)
  /\ UNCHANGED <<pending, restore, server, strays>>

Pause(i) ==
  /\ view[i].status \in {"creating", "uploading"}
  /\ Spend("clicks")
  /\ Commit(SetStatus(tasks, i, "paused"), Aborted(i), [paused EXCEPT ![i] = TRUE])
  /\ UNCHANGED <<used, pending, restore, server, strays>>

\* While the paused transport unwinds, the resumption is only noted.
Resume(i) ==
  /\ view[i].status = "paused"
  /\ ~view[i].rebind
  /\ Spend("clicks")
  /\ \/ /\ live[i].pc # "none"
        /\ pending' = pending \cup {i}
        /\ UNCHANGED <<tasks, view, dirty, live, paused, saved>>
     \/ /\ live[i].pc = "none"
        /\ Commit(SetStatus(tasks, i, "queued"), live, [paused EXCEPT ![i] = FALSE])
        /\ UNCHANGED pending
  /\ UNCHANGED <<used, restore, server, strays>>

\* Mutant: cancelling a paused task leaves its session alone.
CancelsHereUnlessPaused(i) ==
  view[i].sid # NoSid /\ live[i].pc = "none" /\ view[i].status # "paused"

\* The transport cancels the session it works on; a session without a
\* transport, or with one that will not, is cancelled here.
CancelsHere(i) ==
  /\ view[i].sid # NoSid
  /\ \/ live[i].pc = "none"
     \/ view[i].status \in {"paused", "failed"}
     \/ view[i].rebind

Cancel(i) ==
  /\ \/ view[i].status \in {"queued", "creating", "uploading", "paused", "completing"}
     \/ view[i].status = "failed" /\ view[i].sid # NoSid
  /\ Spend("clicks")
  /\ pending' = pending \ {i}
  /\ strays' = strays \cup {q \in {Undo(view[i].sid)} : CancelsHere(i)}
  /\ Commit(SetStatus(tasks, i, "cancelled"), Aborted(i), [paused EXCEPT ![i] = FALSE])
  /\ UNCHANGED <<used, restore, server>>

Retry(i) ==
  /\ view[i].status = "failed"
  /\ ~view[i].rebind
  /\ Spend("clicks")
  /\ Commit(IF tasks[i].rebind THEN tasks ELSE SetStatus(tasks, i, "queued"), live, paused)
  /\ UNCHANGED <<used, pending, restore, server, strays>>

\* Whatever file is chosen, a session whose file is not known is cancelled.
Rebind(i, f) ==
  /\ view[i].rebind
  /\ Spend("clicks")
  /\ strays' = strays \cup {q \in {Undo(view[i].sid)} : view[i].sid # NoSid /\ view[i].stamp = NoStamp}
  /\ Commit(Reduce(tasks, i, Rebound(tasks[i], f)), live, paused)
  /\ UNCHANGED <<used, pending, restore, server>>

Remove(i) ==
  /\ \/ view[i].status \in {"completed", "cancelled"}
     \/ view[i].status = "failed" /\ view[i].sid = NoSid
  /\ Spend("clicks")
  /\ pending' = pending \ {i}
  /\ Commit([tasks EXCEPT ![i] = Gone], live, paused)
  /\ UNCHANGED <<used, restore, server, strays>>

ClearCompleted ==
  /\ \E i \in Ids : view[i].status = "completed"
  /\ Spend("clicks")
  /\ Commit([i \in Ids |-> IF tasks[i].status = "completed" THEN Gone ELSE tasks[i]], live, paused)
  /\ UNCHANGED <<used, pending, restore, server, strays>>

Click ==
  \/ \E k \in Kinds, valid \in BOOLEAN : Enqueue(k, Min(Stamps), valid)
  \/ \E i \in Ids : Pause(i) \/ Resume(i) \/ Cancel(i) \/ Retry(i) \/ Remove(i)
  \/ \E i \in Ids, f \in Stamps \cup {NoStamp} : Rebind(i, f)
  \/ ClearCompleted

-----------------------------------------------------------------------------
(* The page.  A visit starts with an empty list, which is saved, and asks  *)
(* for the unfinished sessions of the login.                               *)

NewVisit ==
  /\ Spend("visits")
  /\ tasks' = [i \in Ids |-> Gone]
  /\ view' = tasks'
  /\ dirty' = FALSE
  /\ saved' = Persisted(tasks')
  /\ pending' = {}
  /\ restore' = [state |-> "sent", seen |-> {}]
  /\ UNCHANGED <<used, paused, server>>

\* The explorer is unmounted, by a visit to the administration, and mounted
\* again: the transports are aborted and unwind without their tasks.
Leave ==
  /\ NewVisit
  /\ live' = [i \in Ids |-> Aborted(i)[i]]
  /\ UNCHANGED strays

\* A reload: what was sent may still arrive.
Reload ==
  /\ NewVisit
  /\ live' = [i \in Ids |-> NoTransport]
  /\ strays' = strays \cup {RequestOf(live[i]) :
                 i \in {j \in Ids : live[j].pc \notin {"none", "put", "get"} /\ live[j].reply = "none"}}

\* listResumableUploads: sessions that are neither completed nor cancelled.  A
\* list that fails is one that is never answered: the queue ignores its error.
ListServed ==
  /\ restore.state = "sent"
  /\ restore' = [state |-> "answered",
                 seen |-> {s \in Sids : sessions[s].status \in {"active", "completing"}}]
  /\ UNCHANGED <<tasks, view, dirty, used, live, paused, pending, saved, server, strays, budget>>

\* The file of a restored task has to be chosen again.
RestoredTask(s) ==
  [Gone EXCEPT !.status = "failed", !.kind = "multipart", !.sid = s, !.rebind = TRUE,
               !.stamp = IF \E r \in saved : r.sid = s
                         THEN (CHOOSE r \in saved : r.sid = s).stamp ELSE NoStamp]

ListAnswered ==
  LET id(s) == used + Cardinality({r \in restore.seen : r <= s})
  IN /\ restore.state = "answered"
     /\ used + Cardinality(restore.seen) <= MaxTasks
     /\ used' = used + Cardinality(restore.seen)
     /\ tasks' = [i \in Ids |-> IF \E s \in restore.seen : id(s) = i
                                THEN RestoredTask(CHOOSE s \in restore.seen : id(s) = i)
                                ELSE tasks[i]]
     /\ dirty' = (dirty \/ restore.seen # {})
     /\ restore' = [state |-> "done", seen |-> {}]
     /\ UNCHANGED <<view, live, paused, pending, saved, server, strays, budget>>

-----------------------------------------------------------------------------
(* The server executes a request.  Execute(q, ...) is what happens to the  *)
(* sessions when it grants q; a request it cannot grant changes nothing.   *)

Created == {s \in Sids : sessions[s].status # "absent"}

Grants(q) ==
  CASE q.pc = "create"   -> Created # Sids
    [] q.pc = "get"      -> sessions[q.sid].status = "active"
    [] q.pc = "part"     -> \/ TakesParts(sessions[q.sid])
                            \/ /\ q.part \in sessions[q.sid].parts
                               /\ sessions[q.sid].status # "aborted"
    [] q.pc = "complete" -> MayComplete(sessions[q.sid]) \/ sessions[q.sid].status = "completed"
    [] q.pc = "finish"   -> sessions[q.sid].status \in {"completing", "completed"}
    [] q.pc = "undo"     -> sessions[q.sid].status = "active"
    [] OTHER             -> TRUE

\* The session a request is about: a new one for a create.
About(q) == IF q.pc = "create" THEN Min(Sids \ Created) ELSE q.sid

Change(sid, session, from) ==
  /\ sessions' = [sessions EXCEPT ![sid] = session]
  /\ origin' = [origin EXCEPT ![sid] = @ \cup from]

Execute(q) ==
  LET sid == About(q)
      s == sessions[sid]
  IN CASE q.pc = "create" -> Change(sid, OpenSession, {})
       [] q.pc = "part" /\ q.part \notin s.parts -> Change(sid, WithPart(s, q.part), {q.stamp})
       [] q.pc = "complete" /\ s.status = "active" -> Change(sid, Completing(s), {})
       [] q.pc = "finish" -> Change(sid, Finished(s), {})
       [] q.pc = "undo" -> Change(sid, Cancelled(s), {})
       [] OTHER -> UNCHANGED server

\* The request of transport i is executed, and answered unless it was the
\* first half of a completion.
Serve(i) ==
  /\ live[i].pc # "none"
  /\ live[i].reply = "none"
  /\ LET q == RequestOf(live[i])
         granted == CASE q.pc = "create" -> [live[i] EXCEPT !.reply = "ok", !.sid = About(q)]
                      [] q.pc = "get" -> [live[i] EXCEPT !.reply = "ok", !.got = sessions[q.sid].parts]
                      [] q.pc = "complete" /\ sessions[q.sid].status = "active"
                                      -> [live[i] EXCEPT !.pc = "finish"]
                      [] OTHER        -> [live[i] EXCEPT !.reply = "ok"]
         t == IF Grants(q) THEN granted ELSE [live[i] EXCEPT !.reply = "error"]
     IN /\ live' = [live EXCEPT ![i] = t]
        /\ IF Grants(q) THEN Execute(q) ELSE UNCHANGED server
  /\ UNCHANGED <<tasks, view, dirty, used, paused, pending, restore, saved, strays, budget>>

\* A refusal, or an answer that is lost: the request was executed or not.
ServeFails(i) ==
  /\ live[i].pc # "none"
  /\ live[i].reply = "none"
  /\ Spend("faults")
  /\ LET q == RequestOf(live[i])
     IN \/ Grants(q) /\ Execute(q)
        \/ /\ q.pc = "finish" /\ sessions[q.sid].status = "completing"
           /\ Change(q.sid, Reopened(sessions[q.sid]), {})
        \/ UNCHANGED server
  /\ live' = [live EXCEPT ![i].reply = "error"]
  /\ UNCHANGED <<tasks, view, dirty, used, paused, pending, restore, saved, strays>>

\* A request whose answer nobody awaits arrives, some time or never.  One that
\* creates a session behind the back of the next visit counts as a fault.
StrayArrives(q) ==
  /\ IF Grants(q) THEN Execute(q) ELSE UNCHANGED server
  /\ IF q.pc = "create" THEN Spend("faults") ELSE UNCHANGED budget
  /\ strays' = (strays \ {q}) \cup
       {r \in {[q EXCEPT !.pc = "finish"]} : q.pc = "complete" /\ MayComplete(sessions[q.sid])}
  /\ UNCHANGED page

\* The session expires, or the login or the mount it belongs to is deleted: to
\* its client the same as a cancelled session.
SessionEnds(s) ==
  /\ sessions[s].status = "active"
  /\ Spend("faults")
  /\ Change(s, Cancelled(sessions[s]), {})
  /\ UNCHANGED <<page, strays>>

-----------------------------------------------------------------------------
(* uploadFile goes on.                                                     *)

\* The end of a transport: what the queue dispatches, then the controller is
\* let go, and a resumption that was asked for meanwhile takes place.
\* Mutant: the noted resumption is forgotten.
SettleForgetsResume(i, how, ts) ==
  /\ tasks' = IF how = "done" THEN SetStatus(ts, i, "completed")
              ELSE IF how = "paused" \/ paused[i] THEN ts
              ELSE SetStatus(ts, i, IF live[i].aborted THEN "cancelled" ELSE "failed")
  /\ live' = [live EXCEPT ![i] = NoTransport]
  /\ dirty' = TRUE
  /\ UNCHANGED <<view, used, paused, pending, restore, saved>>

Settle(i, how, ts) ==
  LET settled == IF how = "done" THEN SetStatus(ts, i, "completed")
                 ELSE IF how = "paused" \/ paused[i] THEN ts
                 ELSE SetStatus(ts, i, IF live[i].aborted THEN "cancelled" ELSE "failed")
  IN /\ tasks' = IF i \in pending THEN SetStatus(settled, i, "queued") ELSE settled
     /\ paused' = [paused EXCEPT ![i] = @ /\ i \notin pending]
     /\ pending' = pending \ {i}
     /\ live' = [live EXCEPT ![i] = NoTransport]
     /\ dirty' = TRUE
     /\ UNCHANGED <<view, used, restore, saved>>

\* rememberSession, then the first part that is missing, or the completion.
Proceed(i, got) ==
  LET known == SessionKnown(tasks, i, live[i].sid)
      missing == Parts \ got
  IN /\ tasks' = IF missing = {} THEN SetStatus(known, i, "completing") ELSE known
     /\ live' = [live EXCEPT ![i].got = got,
                             ![i].pc = IF missing = {} THEN "complete" ELSE "part",
                             ![i].part = IF missing = {} THEN 0 ELSE Min(missing),
                             ![i].reply = "none"]
     /\ dirty' = TRUE
     /\ UNCHANGED <<view, used, paused, pending, restore, saved>>

\* abortServerSession.
UndoSession(i) ==
  /\ live' = [live EXCEPT ![i].pc = "undo", ![i].part = 0, ![i].stamp = NoStamp, ![i].reply = "none"]
  /\ UNCHANGED <<tasks, view, dirty, used, paused, pending, restore, saved>>

\* The answer to a create may come after the signal was aborted: the session is
\* remembered by a pause and cancelled by a cancellation.
Answered(i) ==
  /\ live[i].reply # "none"
  /\ ~(live[i].aborted /\ live[i].pc \in Abortable)
  /\ LET t == live[i]
     IN \/ t.pc = "undo" /\ Settle(i, "aborted", tasks)
        \/ /\ t.pc # "undo" /\ t.reply = "error"
           /\ Settle(i, "failed", tasks)
        \/ /\ t.pc \in {"put", "complete", "finish"} /\ t.reply = "ok"
           /\ Settle(i, "done", tasks)
        \/ /\ t.pc = "create" /\ t.reply = "ok" /\ t.aborted
           /\ IF paused[i]
              THEN Settle(i, "paused", SessionKnown(tasks, i, t.sid))
              ELSE UndoSession(i)
        \/ /\ t.pc \in {"create", "get"} /\ t.reply = "ok" /\ ~t.aborted
           /\ Proceed(i, t.got)
        \/ /\ t.pc = "part" /\ t.reply = "ok"
           /\ Proceed(i, t.got \cup {t.part})
  /\ UNCHANGED <<server, strays, budget>>

\* The request under way is given up; the server may still execute it.  A pause
\* leaves the session alone.
Interrupted(i) ==
  /\ live[i].aborted
  /\ live[i].pc \in Abortable
  /\ strays' = strays \cup
       {q \in {RequestOf(live[i])} : live[i].reply = "none" /\ live[i].pc \notin {"put", "get"}}
  /\ IF live[i].pc = "put" \/ paused[i] THEN Settle(i, "aborted", tasks) ELSE UndoSession(i)
  /\ UNCHANGED <<server, budget>>

Transport(i) == Serve(i) \/ Answered(i) \/ Interrupted(i)

-----------------------------------------------------------------------------

Next ==
  \/ Click
  \/ Render
  \/ Leave
  \/ Reload
  \/ ListServed
  \/ ListAnswered
  \/ \E i \in Ids : Transport(i) \/ ServeFails(i)
  \/ \E q \in strays : StrayArrives(q)
  \/ \E s \in Sids : SessionEnds(s)

Spec == Init /\ [][Next]_vars

-----------------------------------------------------------------------------
(* Safety.                                                                 *)

\* A task that occupies a slot of the queue has a transport at work, and no
\* more tasks occupy slots than there are: a slot without a transport would
\* never be free again.
SlotsAreAlive ==
  /\ \A i \in Running(tasks) : live[i].pc # "none" /\ ~live[i].aborted
  /\ Cardinality(Running(tasks)) <= MaxConcurrent

\* The parts of a session come from one version of the file, whatever was
\* reloaded, chosen again, restarted or late.
OneFilePerSession == \A s \in Sids : Cardinality(origin[s]) <= 1

\* Somebody still knows session s: a task the user sees, a transport that will
\* report or cancel it, a cancellation under way, or the list of this visit.
Known(s) ==
  \/ \E i \in Ids : tasks[i].sid = s /\ tasks[i].status \notin {"gone", "cancelled"}
  \/ \E i \in Ids : /\ live[i].pc # "none" /\ live[i].sid = s
                    /\ ~(live[i].pc = "undo" /\ live[i].reply # "none")
                    /\ tasks[i].status # "gone" \/ (live[i].aborted /\ ~paused[i])
  \/ Undo(s) \in strays
  \/ restore.state = "sent"
  \/ restore.state = "answered" /\ s \in restore.seen

\* Unless a request is lost, an open session of the server is never forgotten:
\* it stays in the list, or it is cancelled.  The exception is a click that
\* comes before the render of the last dispatch: cancel reads the session of
\* the task from the last render, and misses one that was just remembered.
NoSessionForgotten ==
  [][\A s \in Sids :
       /\ sessions[s].status = "active" /\ Known(s)
       /\ budget'.faults = budget.faults
       /\ dirty => budget'.clicks = budget.clicks
       => Known(s)' \/ sessions'[s].status # "active"]_vars

-----------------------------------------------------------------------------
(* Liveness: the browser renders what was dispatched, and every request is *)
(* answered or interrupted.  What users do is bounded by MaxClicks.        *)

Fairness ==
  /\ WF_vars(Render)
  /\ \A i \in Ids : WF_vars(Transport(i))

LiveSpec == Spec /\ Fairness

\* A task in the queue gets its turn, and a resumption that had to wait for a
\* transport to unwind takes place.
QueueMoves ==
  \A i \in Ids :
    (tasks[i].status = "queued" /\ ~tasks[i].rebind) \/ i \in pending
      ~> tasks[i].status # "queued" /\ i \notin pending
=============================================================================

--------------------------- MODULE SessionContract ---------------------------
(***************************************************************************)
(* One resumable upload session as its client sees it through               *)
(* upload-routes.ts: a status and the parts the server has recorded.  The   *)
(* operators are what the server may do to it; UploadSession makes them a   *)
(* specification, UploadService implements it with two leases and a storage *)
(* provider, and UploadQueue is the browser that relies on it.              *)
(***************************************************************************)
CONSTANT Parts  \* the part numbers of the file

\* "absent": not created yet, or deleted with its login session or its mount.
SessionStatuses == {"absent", "active", "completing", "completed", "aborted"}

Sessions == [status : SessionStatuses, parts : SUBSET Parts]

AbsentSession == [status |-> "absent", parts |-> {}]

OpenSession == [status |-> "active", parts |-> {}]

\* The parts of a session may still change.
TakesParts(s) == s.status = "active"

WithPart(s, n) == [s EXCEPT !.parts = @ \cup {n}]

\* A completion starts only when every part is recorded.
MayComplete(s) == s.status = "active" /\ s.parts = Parts

Completing(s) == [s EXCEPT !.status = "completing"]

\* A completion that failed gives the session back to its client.
Reopened(s) == [s EXCEPT !.status = "active"]

Finished(s) == [s EXCEPT !.status = "completed"]

Cancelled(s) == [s EXCEPT !.status = "aborted"]

\* Every way in which one session may change.
Successors(s) ==
  {s, AbsentSession}
    \cup {t \in {OpenSession} : s.status = "absent"}
    \cup {WithPart(s, n) : n \in {m \in Parts : TakesParts(s)}}
    \cup {t \in {Completing(s)} : MayComplete(s)}
    \cup {t \in {Reopened(s), Finished(s)} : s.status = "completing"}
    \cup {t \in {Cancelled(s)} : s.status = "active"}

-----------------------------------------------------------------------------
(* What an answer tells a client.                                          *)

Promises == [about : {"nothing", "part", "completed", "aborted"}, part : Parts \cup {0}]

NoPromise == [about |-> "nothing", part |-> 0]

\* A promise that session s keeps.
Keeps(s, p) ==
  /\ s.status # "absent"
  /\ p.about = "part" => p.part \in s.parts
  /\ p.about = "completed" => s.status = "completed" /\ s.parts = Parts
  /\ p.about = "aborted" => s.status = "aborted"
=============================================================================

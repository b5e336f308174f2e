-------------------------- MODULE UploadRefinement --------------------------
(***************************************************************************)
(* UploadService implements UploadSession: the row without its leases, and  *)
(* the answers without the way they were found.                            *)
(***************************************************************************)
EXTENDS UploadService

\* toSessionView: what a client may see of the row.
SessionView == [status |-> row.status, parts |-> row.parts]

\* What the answer of a handler says.
Promise(h) ==
  CASE h.reply = "none"                    -> [about |-> "nothing", part |-> 0]
    [] h.reply = "already"                 -> [about |-> "completed", part |-> 0]
    [] h.reply = "ok" /\ h.job = "part"     -> [about |-> "part", part |-> h.part]
    [] h.reply = "ok" /\ h.job = "complete" -> [about |-> "completed", part |-> 0]
    [] h.reply = "ok" /\ h.job = "abort"    -> [about |-> "aborted", part |-> 0]
    [] OTHER                               -> [about |-> "nothing", part |-> 0]

Contract == INSTANCE UploadSession WITH
  Parts   <- Parts,
  Clients <- Requests,
  session <- SessionView,
  told    <- [s \in Requests |-> Promise(slot[s])]

\* Whatever the order of statements, provider calls, faults and evictions, the
\* clients of upload-service.ts see a session that only moves along its life,
\* and are told only what is true when they are told.
KeepsTheContract == Contract!Spec
=============================================================================

---------------------------- MODULE UploadSession ----------------------------
(***************************************************************************)
(* What a resumable upload promises its clients, whatever the leases, the  *)
(* storage provider and the faults behind it do: the session moves along   *)
(* its life only, and an answer is given only when it is true.             *)
(***************************************************************************)
EXTENDS SessionContract

CONSTANT Clients  \* concurrent requests

VARIABLES
  session,  \* the session
  told      \* the promise in the last answer to each client

contractVars == <<session, told>>

Init ==
  /\ session = AbsentSession
  /\ told = [c \in Clients |-> NoPromise]

\* A request, or a step of one, that answers nothing yet.
Work(c) ==
  /\ session' \in Successors(session)
  /\ told' = [told EXCEPT ![c] = NoPromise]

Answer(c) ==
  /\ session' \in Successors(session)
  /\ \E p \in Promises : Keeps(session', p) /\ told' = [told EXCEPT ![c] = p]

Vanish == session' = AbsentSession /\ UNCHANGED told

Next == (\E c \in Clients : Work(c) \/ Answer(c)) \/ Vanish

Spec == Init /\ [][Next]_contractVars
=============================================================================

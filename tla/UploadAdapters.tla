--------------------------- MODULE UploadAdapters ---------------------------
(***************************************************************************)
(* The resumableUpload adapters of the four drivers (drivers/s3,           *)
(* drivers/onedrive, drivers/google, drivers/dropbox) and, behind them,    *)
(* one upload session at the provider.  The provider is external: it is    *)
(* modelled by what the adapters rely on: p.kind is the driver type,       *)
(* p.phase says whether the session exists ("open") or was committed,      *)
(* cancelled or expired ("closed"), p.parts which parts arrived, p.file    *)
(* whether the object was committed, p.until when the session may expire.  *)
(* A call yields outcomes [ok, prov, state, item]: whether the adapter     *)
(* returns or throws, the provider session afterwards, the provider state  *)
(* to store and whether a finished item came back.                         *)
(***************************************************************************)
EXTENDS UploadStore

CONSTANTS
  Providers,    \* the driver types the mount may have
  SessionTTL,   \* how long the provider keeps an upload session
  ShortRanges,  \* may Google's 308 report fewer bytes than were sent?
  Extensions    \* by how much OneDrive may move expirationDateTime per part

ASSUME ProvidersAssumption == Providers \subseteq {"s3", "onedrive", "google", "dropbox"}
ASSUME SessionTTLAssumption == SessionTTL \in Nat \ {0}
ASSUME ShortRangesAssumption == ShortRanges \in BOOLEAN
ASSUME ExtensionsAssumption == Extensions \subseteq Nat /\ Extensions # {}

ProviderSessions ==
  [kind : Providers, phase : {"none", "open", "closed"}, parts : SUBSET Parts,
   file : BOOLEAN, until : Nat]

NoSession(kind) ==
  [kind |-> kind, phase |-> "none", parts |-> {}, file |-> FALSE, until |-> 0]

Opened(p, now) == [p EXCEPT !.phase = "open", !.until = now + SessionTTL]

FreshState(now) == [next |-> 0, until |-> now + SessionTTL]

Outcomes == [ok : BOOLEAN, prov : ProviderSessions, state : ProviderStates, item : BOOLEAN]

Threw(p, st) == [ok |-> FALSE, prov |-> p, state |-> st, item |-> FALSE]

Returned(p, st, item) == [ok |-> TRUE, prov |-> p, state |-> st, item |-> item]

\* requireLive...State: three adapters refuse a provider state past its time.
Live(st, now) == st.until > now

Received(p, n) == [p EXCEPT !.parts = @ \cup {n}]

Committed(p) == [p EXCEPT !.phase = "closed", !.file = TRUE]

Closed(p) == [p EXCEPT !.phase = "closed"]

\* A provider that takes parts in order accepts n right after n - 1.
NextInOrder(p, n) == p.phase = "open" /\ p.parts = 1..(n - 1)

-----------------------------------------------------------------------------
(* uploadPart: part n sent with the provider state st at time now.         *)

\* Mutant: a response that is not ok counts as an uploaded part.
S3UploadPartIgnoresStatus(p, st, n) ==
  IF p.phase = "open" THEN {Returned(Received(p, n), st, FALSE)} ELSE {Returned(p, st, FALSE)}

S3UploadPart(p, st, n) ==
  IF p.phase = "open" THEN {Returned(Received(p, n), st, FALSE)} ELSE {Threw(p, st)}

\* What a PUT that OneDrive takes answers: 201 with the file for the last part, which
\* commits it; 202, maybe with a later expirationDateTime, for the others.
OneDriveFragment(p, st, n) ==
  IF n = NParts THEN {Returned(Committed(Received(p, n)), st, TRUE)}
  ELSE {Returned([Received(p, n) EXCEPT !.until = p.until + e],
                 [st EXCEPT !.until = p.until + e], FALSE) : e \in Extensions}

OneDriveUploadPart(p, st, n, now) ==
  IF Live(st, now) /\ NextInOrder(p, n) THEN OneDriveFragment(p, st, n) ELSE {Threw(p, st)}

\* The adapter refuses an offset other than its own nextOffset, which it takes
\* from the Range header of the provider's 308; a range that stops short
\* leaves nextOffset behind while the part is reported as uploaded.
GoogleUploadPart(p, st, n, now) ==
  IF ~(Live(st, now) /\ st.next = n - 1 /\ NextInOrder(p, n)) THEN {Threw(p, st)}
  ELSE (IF n = NParts
        THEN {Returned(Committed(Received(p, n)), st, TRUE)}
        ELSE {Returned(Received(p, n), [st EXCEPT !.next = n], FALSE)})
       \cup (IF ShortRanges THEN {Returned(p, st, FALSE)} ELSE {})

DropboxUploadPart(p, st, n, now) ==
  IF Live(st, now) /\ st.next = n - 1 /\ NextInOrder(p, n)
  THEN {Returned(Received(p, n), [st EXCEPT !.next = n], FALSE)}
  ELSE {Threw(p, st)}

UploadPart(p, st, n, now) ==
  CASE p.kind = "s3"       -> S3UploadPart(p, st, n)
    [] p.kind = "onedrive" -> OneDriveUploadPart(p, st, n, now)
    [] p.kind = "google"   -> GoogleUploadPart(p, st, n, now)
    [] p.kind = "dropbox"  -> DropboxUploadPart(p, st, n, now)

-----------------------------------------------------------------------------
(* complete: the parts, provider state and item of the claimed record.     *)

\* Mutant: NoSuchUpload is taken for an earlier success without the marker.
S3CompleteTrustsNoSuchUpload(p, st, parts) ==
  IF p.phase = "open"
  THEN IF parts \subseteq p.parts THEN Returned(Committed(p), st, TRUE) ELSE Threw(p, st)
  ELSE Returned(p, st, TRUE)

\* CompleteMultipartUpload wants parts that S3 holds, with the ETags it gave them.
S3Assembles(p, parts) == p.phase = "open" /\ parts \subseteq p.parts

\* On NoSuchUpload a HEAD with this session's marker proves that an earlier attempt
\* had succeeded.
S3Complete(p, st, parts) ==
  IF S3Assembles(p, parts) THEN Returned(Committed(p), st, TRUE)
  ELSE IF p.phase # "open" /\ p.file THEN Returned(p, st, TRUE)
  ELSE Threw(p, st)

\* OneDrive and Google commit with the last part: only a stored item will do.
StoredItemComplete(p, st, item) == IF item THEN Returned(p, st, TRUE) ELSE Threw(p, st)

\* upload_session/finish at the recorded offset; a closed session can still be
\* finished, a finished one cannot.
DropboxComplete(p, st, now) ==
  IF Live(st, now) /\ p.phase # "none" /\ ~p.file /\ p.parts = 1..st.next
  THEN Returned(Committed(p), st, TRUE)
  ELSE Threw(p, st)

Complete(p, st, parts, item, now) ==
  CASE p.kind = "s3" -> S3Complete(p, st, parts)
    [] p.kind \in {"onedrive", "google"} -> StoredItemComplete(p, st, item)
    [] p.kind = "dropbox" -> DropboxComplete(p, st, now)

-----------------------------------------------------------------------------
(* abort.  S3 swallows NoSuchUpload; OneDrive and Google swallow the       *)
(* provider's 404 but insist on a live state; Dropbox closes the session   *)
(* at the recorded offset and swallows every error.                        *)

S3Abort(p, st) == Returned(Closed(p), st, FALSE)

LiveAbort(p, st, now) ==
  IF Live(st, now) THEN Returned(Closed(p), st, FALSE) ELSE Threw(p, st)

DropboxClose(p, st) == IF p.parts = 1..st.next THEN Closed(p) ELSE p

Abort(p, st, now) ==
  CASE p.kind = "s3" -> S3Abort(p, st)
    [] p.kind \in {"onedrive", "google"} -> LiveAbort(p, st, now)
    [] p.kind = "dropbox" -> Returned(DropboxClose(p, st), st, FALSE)
=============================================================================

---------------------------- MODULE MCUploadLive ----------------------------
(* What eventually happens to upload sessions: to one of them in the detail *)
(* of UploadService, and to several that a cleanup visits in turn.  The two *)
(* look at the same rows at different scales, so the run looks at one of    *)
(* them at a time, and `focus` says which.                                  *)
EXTENDS UploadCleanup

\* UploadService; its requests are those that clean up.
CONSTANTS NParts, NoOwner, Providers, SessionTTL, ShortRanges, Extensions, LeaseTime, MaxTime,
          FaultHorizon, RowsMayVanish
VARIABLES row, slot, prov, clock, losses
Service == INSTANCE UploadService WITH faults <- losses

VARIABLE focus

OnlyS3 == {"s3"}
\* No driver moves the end of a session.
NoExtension == {0}

serviceVars == <<row, slot, prov, clock, losses>>

LiveInit == Init /\ Service!Init /\ focus \in {"session", "rotation"}

\* The rotation is looked at when the time of the one session is over.
LiveNext ==
  /\ UNCHANGED focus
  /\ \/ focus = "session" /\ Service!Next /\ UNCHANGED cleanupVars
     \/ focus = "rotation" /\ Service!Tick /\ UNCHANGED cleanupVars
     \/ focus = "rotation" /\ clock = MaxTime /\ Next /\ UNCHANGED serviceVars

\* While one part is looked at, no step of the other that is owed can be taken.
UploadLiveSpec ==
  /\ LiveInit /\ [][LiveNext]_<<cleanupVars, serviceVars, focus>>
  /\ Fairness /\ Service!Fairness /\ Service!ClientRetries

\* A session whose time is up is closed by the cleanup, whatever was lost.
ExpiredSessionsGetClosed == Service!ExpiredSessionsGetClosed

\* While the provider session lives, a part that is retried gets recorded.
RetriedPartsGetRecorded == Service!RetriedPartsGetRecorded
=============================================================================

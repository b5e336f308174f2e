--------------------------- MODULE MCUploadService ---------------------------
(* Small instances of UploadService for TLC.                               *)
EXTENDS UploadRefinement, TLC

\* Handlers are interchangeable; used by the runs without liveness.
RequestSymmetry == Permutations(Requests)

AllProviders == {"s3", "onedrive", "google", "dropbox"}
OnlyS3 == {"s3"}
OnlyDropbox == {"dropbox"}
OnlyGoogle == {"google"}

\* OneDrive's expirationDateTime: unchanged, or pushed back by one tick.
NoExtension == {0}
MayExtend == {0, 1}
=============================================================================

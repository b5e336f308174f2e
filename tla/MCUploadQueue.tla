--------------------------- MODULE MCUploadQueue ---------------------------
\* Instances of UploadQueue for TLC.
EXTENDS UploadQueue
=============================================================================

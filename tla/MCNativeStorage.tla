--------------------------- MODULE MCNativeStorage ---------------------------
(* Small instances of NativeStorage for TLC.                               *)
EXTENDS NativeStorage, TLC

\* Handlers are interchangeable, and so are names and the ids clients make up.
Symmetry == Permutations(Handlers) \cup Permutations(FileIds) \cup Permutations(Names)
=============================================================================

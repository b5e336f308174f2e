------------------------- MODULE MCMountCredentials -------------------------
(* Instances of MountCredentials and S3Files for TLC.  A request that works *)
(* on files reads the mount and its credentials once and never writes them, *)
(* so the two have nothing to race for; the run looks at one of them at a   *)
(* time, and `focus` says which.                                            *)
EXTENDS MountCredentials, BucketPromises, TLC

\* S3Files
CONSTANTS Keys, Marker, Stocks, MaxBatch, MaxQuota
VARIABLES task, quota
Files == INSTANCE S3Files

VARIABLE focus

\* Two folders that can hold each other's files, and one of them the other.
MCKeys == {<<"a", "">>, <<"b", "">>, <<"a", "x">>, <<"b", "x">>, <<"b", "a", "">>, <<"b", "a", "x">>}
\* The file x in folder a.
MCStocks == {(<<"a", "">> :> Marker) @@ (<<"a", "x">> :> 1)}

fileVars == <<store, fate, task, quota>>

MountInit ==
  /\ Init /\ Files!Init
  /\ focus \in {"credentials", "files"}

MountNext ==
  /\ UNCHANGED focus
  /\ \/ focus = "credentials" /\ Next /\ UNCHANGED fileVars
     \/ focus = "files" /\ driver \in OtherDrivers /\ creds.provider /\ Files!Next /\ UNCHANGED vars

MountSpec == MountInit /\ [][MountNext]_<<vars, fileVars, focus>>

\* Handlers are interchangeable.
HandlerSymmetry == Permutations(Handlers)
=============================================================================

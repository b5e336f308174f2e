------------------------------ MODULE MCShares ------------------------------
(* A share, and a tree that is copied, in one run.  A copy makes entries    *)
(* with ids of their own, which no share names, so the two have nothing to  *)
(* race for; the run looks at one of them at a time, and `focus` says       *)
(* which.                                                                   *)
EXTENDS Shares, NativeCopies, TLC

VARIABLE focus

Nothing == [status |-> "absent", parent |-> "/", name |-> "", owner |-> 0, key |-> 0]

Bare ==
  [i \in {"/", "d", "e", "c", "f", "g"} |->
     IF i = "/" THEN [Nothing EXCEPT !.status = "ready"] ELSE Nothing]

\* A file in one of two folders, copied with it or without, while somebody deletes.
Filled ==
  [i \in DOMAIN Bare |->
     CASE i \in {"d", "e"} -> [Nothing EXCEPT !.status = "ready", !.name = i]
       [] i = "f" -> [Nothing EXCEPT !.status = "ready", !.name = i, !.parent = "d", !.key = 1]
       [] OTHER -> Bare[i]]

MCShelves == {Bare, Filled}

ASSUME ShelvesAssumption == ShelvesAreWhole

BothInit ==
  /\ ShareInit /\ CopyInit
  /\ \/ focus = "share" /\ entries = Bare
     \/ focus = "copies" /\ entries = Filled

\* Only a call of the copy fails, and if it does there is one deletion: its own, of
\* the folders it made, or that of somebody else.
BothNext ==
  /\ UNCHANGED focus
  /\ \/ focus = "share" /\ ShareNext /\ UNCHANGED allVars
     \/ /\ focus = "copies" /\ tokens = 0 /\ CopyNext /\ UNCHANGED shareVars
        /\ faults' = faults \/ copying' # copying
        /\ attempts' < 4 \/ faults' = 1

BothSpec == BothInit /\ [][BothNext]_<<shareVars, allVars, focus>>

Symmetry == Permutations(Visitors) \cup Permutations(Passwords)
=============================================================================

---------------------------- MODULE BucketPromises ----------------------------
(* What the files of an S3 mount promise whoever uploads them, about the    *)
(* bucket alone: S3Files says how the requests of the worker keep it.       *)
CONSTANT Contents  \* what files hold; no two uploads bring the same

VARIABLES
  store,  \* the bucket: the objects by key
  fate    \* history: what became of each upload

\* An upload that was answered with success stays in the bucket, however many
\* renames, moves and copies of it and its folders run at once or fail halfway,
\* until a deletion takes it; or it was put where a running relocation has already
\* copied another object away, and goes with that.
ContentSurvives ==
  \A c \in Contents : fate[c] = "kept" => \E k \in DOMAIN store : store[k] = c

\* No operation writes over an object (README.md:233, docs/releases/v0.1.8.md:7).
NothingOverwritten ==
  [][\A k \in DOMAIN store : k \in DOMAIN store' => store'[k] = store[k]]_store
=============================================================================

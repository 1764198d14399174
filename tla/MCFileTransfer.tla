--------------------------- MODULE MCFileTransfer ---------------------------
(* FileTransfer for TLC: a few calls to one destination. *)
EXTENDS FileTransfer, TLC

Fresh == [atomic |-> TRUE, resume |-> FALSE]
Resume == [atomic |-> TRUE, resume |-> TRUE]
InPlace == [atomic |-> FALSE, resume |-> FALSE]
InPlaceResume == [atomic |-> FALSE, resume |-> TRUE]

CONSTANTS w1, w2

Set(direction, first, second) ==
    [direction |-> direction, modes |-> (w1 :> first) @@ (w2 :> second)]

\* A call that resumes beside a fresh one, two fresh ones, and copies in place.
\* The task registry admits one transfer at a time that resumes.
AllSettings ==
    {Set(d, m, {Fresh}) : d \in {"upload", "download"}, m \in {{Resume}, {Fresh}}}
      \cup {Set("upload", {InPlace, InPlaceResume}, {})}
=============================================================================

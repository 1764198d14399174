------------------------------- MODULE MCSync -------------------------------
(* Small trees, files and options for model checking Sync. *)
EXTENDS Sync

File(len, mtime, data) == [kind |-> "file", len |-> len, mtime |-> mtime, data |-> data]

\* A directory chain of three, and a file beside it with its staging file.
ChainPaths == {<<>>, <<1>>, <<1, 1>>, <<1, 1, 1>>, <<2>>, <<102>>}

Source == {File(2, 10, 1)}
Edited == {File(2, 10, 1), File(3, 20, 2)}

\* The same file, one of the same length from another time, a shorter and a longer one.
Copies == {File(2, 11, 1), File(2, 20, 3), File(1, 20, 3), File(3, 20, 3)}
Stale == {File(2, 20, 3)}

Mode(delete, size_only, atomic, resume) ==
    [delete |-> delete, size_only |-> size_only, atomic |-> atomic, resume |-> resume,
     dry_run |-> FALSE]

DryRun == [Mode(TRUE, FALSE, TRUE, FALSE) EXCEPT !.dry_run = TRUE]

\* Every combination of options, but a resume in place.
FreshModes == {DryRun} \cup {Mode(d, s, a, FALSE) : d, s, a \in BOOLEAN}
StagedModes == {Mode(d, s, TRUE, TRUE) : d, s \in BOOLEAN}
RaceModes == {Mode(d, FALSE, a, FALSE) : d, a \in BOOLEAN} \cup {Mode(FALSE, FALSE, TRUE, TRUE)}

NoLeftover(S) == {t \in S : t[<<102>>].kind = "none"}
Shallower(S) == {t \in S : t[<<1, 1, 1>>].kind = "none"}

\* Every fresh upload, on the deep trees, with nobody else at work.
Calm == [local |-> NoLeftover(Trees(Source)), remote |-> NoLeftover(Trees(Copies)),
         modes |-> FreshModes, changes |-> 0]

\* Two changes by others, on trees of two levels.
Plain(S) == {t \in S : \A p \in ChainPaths : t[p].kind # "other"}
Races == [local |-> Plain(NoLeftover(Shallower(Trees(Source)))),
          remote |-> Plain(NoLeftover(Shallower(Trees(Stale)))),
          modes |-> RaceModes, changes |-> 2]

\* An atomic resume over no staging file, or over one: part of the source, all of it, or
\* something an upload refuses.
Parts == {NoEntry, File(1, 30, 1), File(2, 30, 1), File(3, 30, 3), Other}
StaleParts == {File(1, 30, 3), File(2, 30, 3)}
WithParts(S, parts) == {[t EXCEPT ![<<102>>] = e] : t \in {u \in S : u[<<>>] = Dir}, e \in parts}
TakenUp == [Calm EXCEPT !.remote = WithParts(Shallower(NoLeftover(Trees(Stale))), Parts),
                        !.modes = StagedModes]

\* A resume over what came from another source.
ResumeModes == {Mode(FALSE, FALSE, a, TRUE) : a \in BOOLEAN}
Resumes == [Calm EXCEPT !.modes = ResumeModes,
                        !.remote = @ \cup WithParts(Shallower(@), StaleParts)]

AllCases == {Calm, Races, TakenUp}
ResumeCases == {Resumes}
=============================================================================

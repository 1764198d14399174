------------------------- MODULE FileTransferProofs -------------------------
(***************************************************************************)
(* Type correctness of FileTransfer, and what an atomic call never does to *)
(* a file that is there already, for any number of calls, staging names,   *)
(* inodes, lengths and versions, and any mixture of the options.           *)
(***************************************************************************)
EXTENDS FileTransfer, SequenceTheorems, TLAPS

File == [via : {"none", "fresh", "part", "final", "foreign"}, blocks : Blocks]
Call == [atomic : BOOLEAN, resume : BOOLEAN, work : Names \ {"kept"},
         existed : BOOLEAN, pos : Nat, total : Nat, steady : BOOLEAN]
Labels == {"idle", "final", "stage", "open", "copy", "sync", "recheck", "publish",
           "unlink", "stamp"}

\* The contents the model writes are sequences of blocks.
LEMMA ForeignTyped == Foreign \in Blocks
<1>1. MaxLength + 1 \in Nat
  BY LengthAssumption
<1> QED
  BY <1>1, LengthAssumption DEF Foreign, Blocks, Hole

\* A write yields a sequence of blocks, gaps filled with holes.
LEMMA WriteTyped ==
    ASSUME NEW b \in Blocks, NEW k \in Nat \ {0}, NEW v \in 1..MaxVersion
    PROVE  WriteAt(b, k, v) \in Blocks
<1> DEFINE S == Hole..MaxVersion
           n == IF k > Len(b) THEN k ELSE Len(b)
           e(m) == IF m = k THEN v ELSE IF m <= Len(b) THEN b[m] ELSE Hole
<1>1. b \in Seq(S)
  BY DEF Blocks
<1> HIDE DEF S
<1>2. Len(b) \in Nat /\ \A m \in 1..Len(b) : b[m] \in S
  BY <1>1, LenProperties, ElementOfSeq
<1>3. n \in Nat /\ v \in S /\ Hole \in S
  BY <1>2, LengthAssumption DEF Hole, S
<1>4. \A m \in 1..n : e(m) \in S
  BY <1>2, <1>3
<1> HIDE DEF n, e
<1>5. [m \in 1..n |-> e(m)] \in Seq(S)
  BY <1>3, <1>4, IsASeq
<1> QED
  BY <1>5 DEF n, e, S, Blocks, WriteAt

\* Only inodes that nothing refers to are drawn.
LEMMA NewIsFree == ASSUME Free # {} PROVE NewInode \in Free
  BY DEF NewInode

\* The contents of an inode that a name or a handle still refers to.
LEMMA Kept ==
    ASSUME NEW n, NEW f, NEW h, FileSystem(n, f, h), NEW i \in Inodes,
           (\E m \in Names : n[m] = i) \/ (\E w \in Workers : h[w] = i)
    PROVE  files'[i] = f[i]
  BY DEF FileSystem

\* A file system operation keeps the types of what it is given.
LEMMA FileSystemTyped ==
    ASSUME NEW n \in [Names -> Inodes \cup {None}], NEW f \in [Inodes -> File],
           NEW h \in [Workers -> Inodes \cup {None}], FileSystem(n, f, h)
    PROVE  /\ names' = n /\ fd' = h
           /\ names' \in [Names -> Inodes \cup {None}]
           /\ files' \in [Inodes -> File]
           /\ fd' \in [Workers -> Inodes \cup {None}]
<1>1. Blank \in File
  BY EmptySeq DEF Blank, File, Blocks
<1> QED
  BY <1>1 DEF FileSystem

-----------------------------------------------------------------------------
(* Types *)

\* The locals of no call.
LEMMA IdleTyped == Idle \in Call
  BY DEF Idle, Call, Names

\* A call that returns leaves everything typed.
LEMMA ReturnTyped ==
    ASSUME TypeOK, NEW w \in Workers, NEW n \in [Names -> Inodes \cup {None}],
           Return(w, n)
    PROVE  TypeOK'
<1>1. [fd EXCEPT ![w] = None] \in [Workers -> Inodes \cup {None}]
  BY DEF TypeOK
<1>2. /\ names' \in [Names -> Inodes \cup {None}]
      /\ files' \in [Inodes -> File]
      /\ fd' = [fd EXCEPT ![w] = None]
  BY <1>1, FileSystemTyped DEF Return, TypeOK, File
<1>3. /\ pc' = [pc EXCEPT ![w] = "idle"] /\ call' = [call EXCEPT ![w] = Idle]
      /\ setting' = setting /\ source' = source
  BY DEF Return
<1>4. pc' \in [Workers -> Labels] /\ call' \in [Workers -> Call]
  BY <1>3, IdleTyped DEF TypeOK, Labels, Call
<1>5. \A v \in Workers : fd'[v] # None <=> pc'[v] \in {"copy", "sync"}
  BY <1>2, <1>3 DEF TypeOK
<1> QED
  BY <1>2, <1>3, <1>4, <1>5 DEF TypeOK, File, Labels, Call

\* So does a step that leaves the files alone.
LEMMA StepTyped ==
    ASSUME TypeOK, NEW w \in Workers, NEW to \in Labels, NEW c \in Call, Step(w, to),
           call' = [call EXCEPT ![w] = c], UNCHANGED <<names, files, fd>>,
           pc[w] \in {"copy", "sync"} <=> to \in {"copy", "sync"}
    PROVE  TypeOK'
<1>1. pc' = [pc EXCEPT ![w] = to] /\ setting' = setting /\ source' = source
  BY DEF Step
<1>2. pc' \in [Workers -> Labels] /\ call' \in [Workers -> Call]
  BY <1>1 DEF TypeOK, Labels, Call
<1>3. \A v \in Workers : fd'[v] # None <=> pc'[v] \in {"copy", "sync"}
  BY <1>1 DEF TypeOK
<1> QED
  BY <1>1, <1>2, <1>3 DEF TypeOK, Labels, Call

\* TypeOK is inductive.
LEMMA TypeStep == ASSUME TypeOK, [Next]_vars PROVE TypeOK'
<1>n. names \in [Names -> Inodes \cup {None}] /\ source.len \in Nat
      /\ pc \in [Workers -> Labels]
  BY LengthAssumption DEF TypeOK, Labels
<1>c. call \in [Workers -> Call]
  BY DEF TypeOK, Call
<1>f. files \in [Inodes -> File] /\ fd \in [Workers -> Inodes \cup {None}]
  BY DEF TypeOK, File
<1>s. \A w \in Workers : call = [call EXCEPT ![w] = call[w]]
  BY <1>c
<1>1. CASE UNCHANGED vars
  BY <1>1 DEF vars, TypeOK
<1>2. ASSUME NEW w \in Workers, Begin(w) PROVE TypeOK'
  <2>1. PICK mode \in setting.modes[w] :
          /\ call' = [call EXCEPT ![w] = [Idle EXCEPT !.atomic = mode.atomic,
                                                      !.resume = mode.resume,
                                                      !.total = source.len]]
          /\ Step(w, IF mode.atomic THEN "final" ELSE "stage")
    BY <1>2 DEF Begin
  <2>2. mode \in [atomic : BOOLEAN, resume : BOOLEAN]
    BY <2>1, SettingsAssumption DEF TypeOK
  <2>3. [Idle EXCEPT !.atomic = mode.atomic, !.resume = mode.resume,
                     !.total = source.len] \in Call
    BY <1>n, <2>2, IdleTyped DEF Call
  <2> QED
    BY <1>2, <2>1, <2>2, <2>3, StepTyped DEF Begin, Labels
<1>3. ASSUME NEW w \in Workers, CheckFinal(w) PROVE TypeOK'
  BY <1>3, <1>n, <1>c, <1>s, ReturnTyped, StepTyped DEF CheckFinal, Labels
<1>4. ASSUME NEW w \in Workers, Stage(w) PROVE TypeOK'
  <2>1. CASE Return(w, names)
    BY <2>1, <1>n, ReturnTyped
  <2>2. CASE ~Return(w, names)
    <3> DEFINE there(work) == names[work] # None
               len(work) == IF there(work) THEN Len(files[names[work]].blocks) ELSE 0
               offset(work) == IF there(work) THEN ResumeOffset(w, len(work)) ELSE 0
    <3>1. PICK work \in WorkNames(w), to \in {"open", "recheck", "stamp"} :
            /\ call' = [call EXCEPT ![w].work = work, ![w].existed = there(work),
                                    ![w].pos = offset(work)]
            /\ Step(w, to)
            /\ UNCHANGED <<names, files, fd>>
      BY <1>4, <2>2 DEF Stage
    <3>2. work \in Names \ {"kept"} /\ pc[w] = "stage"
      BY <1>4, <3>1, NameAssumption DEF Stage, WorkNames, Names
    <3>3. len(work) \in Nat
      BY <1>n, <1>f, <3>2, LenProperties DEF File, Blocks
    <3>4. offset(work) \in Nat /\ there(work) \in BOOLEAN
      BY <3>3 DEF ResumeOffset
    <3> HIDE DEF there, len, offset
    <3> DEFINE c == [call[w] EXCEPT !.work = work, !.existed = there(work),
                                    !.pos = offset(work)]
    <3>5. c \in Call
      BY <1>c, <3>2, <3>4 DEF Call
    <3>6. call' = [call EXCEPT ![w] = c]
      BY <1>c, <3>1
    <3> HIDE DEF c
    <3>7. to \in Labels \ {"copy", "sync"}
      BY DEF Labels
    <3> QED
      BY <3>1, <3>2, <3>5, <3>6, <3>7, StepTyped
  <2> QED
    BY <2>1, <2>2
<1>5. ASSUME NEW w \in Workers, Open(w) PROVE TypeOK'
  <2>1. CASE ~CanOpen(w)
    BY <1>5, <1>n, <2>1, ReturnTyped DEF Open
  <2>2. CASE CanOpen(w)
    <3> DEFINE work == call[w].work
               i == IF names[work] # None THEN names[work] ELSE NewInode
               kept == IF Keeps(w, i) THEN files[i].blocks ELSE <<>>
               via == IF names[work] # None THEN files[i].via
                      ELSE IF work \in Unique THEN "fresh" ELSE work
    <3>1. /\ FileSystem([names EXCEPT ![work] = i],
                        [files EXCEPT ![i] = [via |-> via, blocks |-> kept]],
                        [fd EXCEPT ![w] = i])
          /\ Step(w, "copy") /\ call' = call
      BY <1>5, <2>2 DEF Open
    <3>2. work \in Names \ {"kept"}
      BY <1>c DEF Call
    <3>3. i \in Inodes
      BY <1>n, <2>2, <3>2, NewIsFree DEF CanOpen, Free
    <3>4. kept \in Blocks
      BY <1>f, <3>3, EmptySeq DEF File, Blocks
    <3>5. via \in {"none", "fresh", "part", "final", "foreign"}
      <4>1. CASE names[work] # None
        BY <1>f, <3>3, <4>1 DEF File
      <4>2. CASE names[work] = None
        BY <3>2, <4>2 DEF Names
      <4> QED
        BY <4>1, <4>2
    <3> HIDE DEF i, kept, via, work
    <3>6. /\ [names EXCEPT ![work] = i] \in [Names -> Inodes \cup {None}]
          /\ [files EXCEPT ![i] = [via |-> via, blocks |-> kept]] \in [Inodes -> File]
          /\ [fd EXCEPT ![w] = i] \in [Workers -> Inodes \cup {None}]
      BY <1>n, <1>f, <3>3, <3>4, <3>5 DEF File
    <3>7. /\ names' \in [Names -> Inodes \cup {None}] /\ files' \in [Inodes -> File]
          /\ fd' = [fd EXCEPT ![w] = i]
      BY <3>1, <3>6, FileSystemTyped
    <3>8. \A v \in Workers : fd'[v] # None <=> pc'[v] \in {"copy", "sync"}
      BY <1>f, <1>n, <3>1, <3>3, <3>7, NoneAssumption DEF TypeOK, Step
    <3> QED
      BY <3>1, <3>6, <3>7, <3>8 DEF TypeOK, Step, File
  <2> QED
    BY <2>1, <2>2
<1>6. ASSUME NEW w \in Workers, Copy(w) PROVE TypeOK'
  <2>1. CASE ~(call[w].pos + 1 <= source.len)
    BY <1>6, <1>c, <1>s, <2>1, StepTyped DEF Copy, Labels
  <2>2. CASE call[w].pos + 1 <= source.len
    <3> DEFINE k == call[w].pos + 1
               i == fd[w]
    <3>1. /\ FileSystem(names, [files EXCEPT ![i].blocks = WriteAt(@, k, source.ver)], fd)
          /\ call' = [call EXCEPT ![w].pos = k]
          /\ Step(w, "copy") /\ pc[w] = "copy"
      BY <1>6, <2>2 DEF Copy
    <3>2. i \in Inodes /\ k \in Nat \ {0} /\ source.ver \in 1..MaxVersion
      BY <1>c, <3>1 DEF TypeOK, Call
    <3>3. WriteAt(files[i].blocks, k, source.ver) \in Blocks
      BY <1>f, <3>2, WriteTyped DEF File
    <3>4. [files EXCEPT ![i].blocks = WriteAt(@, k, source.ver)] \in [Inodes -> File]
      BY <1>f, <3>2, <3>3 DEF File
    <3>5. names' \in [Names -> Inodes \cup {None}] /\ files' \in [Inodes -> File] /\ fd' = fd
      BY <1>n, <1>f, <3>1, <3>4, FileSystemTyped
    <3>6. call' \in [Workers -> Call]
      BY <1>c, <3>1, <3>2 DEF Call
    <3> QED
      BY <3>1, <3>5, <3>6 DEF TypeOK, Step, File, Call
  <2> QED
    BY <2>1, <2>2
<1>7. ASSUME NEW w \in Workers, Sync(w) PROVE TypeOK'
  <2>1. /\ FileSystem(names, files, [fd EXCEPT ![w] = None]) /\ call' = call
        /\ \E to \in {"recheck", "stamp"} : Step(w, to)
    BY <1>7 DEF Sync
  <2>2. /\ names' \in [Names -> Inodes \cup {None}] /\ files' \in [Inodes -> File]
        /\ fd' = [fd EXCEPT ![w] = None]
        /\ fd' \in [Workers -> Inodes \cup {None}]
    BY <1>n, <1>f, <2>1, FileSystemTyped
  <2> QED
    BY <2>1, <2>2 DEF TypeOK, Step, File
<1>8. ASSUME NEW w \in Workers, Recheck(w) PROVE TypeOK'
  BY <1>8, <1>n, <1>c, <1>s, ReturnTyped, StepTyped DEF Recheck, Labels
<1>9. ASSUME NEW w \in Workers, Stamp(w) PROVE TypeOK'
  BY <1>9, <1>n, <1>c, <1>s, ReturnTyped, StepTyped DEF Stamp, Labels
<1>r. ASSUME NEW w \in Workers
      PROVE  /\ call[w].work \in Names /\ Cleaned(w) \in [Names -> Inodes \cup {None}]
             /\ Linked(w) \in [Names -> Inodes \cup {None}]
             /\ Renamed(w) \in [Names -> Inodes \cup {None}]
  BY <1>n, <1>c DEF Cleaned, Linked, Renamed, Call, Names
<1>10. ASSUME NEW w \in Workers, Publish(w) PROVE TypeOK'
  <2>1. CASE ~CanPublish(w)
    BY <1>10, <1>r, <2>1, ReturnTyped DEF Publish
  <2>2. CASE CanPublish(w)
    <3>1. /\ \E n \in {Renamed(w), Linked(w)} : FileSystem(n, files, fd)
          /\ \E to \in {"stamp", "unlink"} : Step(w, to)
          /\ pc[w] = "publish" /\ call' = call
      BY <1>10, <2>2 DEF Publish
    <3>2. /\ names' \in [Names -> Inodes \cup {None}] /\ files' \in [Inodes -> File]
          /\ fd' = fd
      BY <1>r, <1>f, <3>1, FileSystemTyped
    <3> QED
      BY <3>1, <3>2 DEF TypeOK, Step, File
  <2> QED
    BY <2>1, <2>2
<1>11. ASSUME NEW w \in Workers, Unlink(w) PROVE TypeOK'
  <2>1. [names EXCEPT ![call[w].work] = None] \in [Names -> Inodes \cup {None}]
    BY <1>n, <1>r
  <2> QED
    BY <1>11, <2>1, ReturnTyped DEF Unlink
<1>12. ASSUME NEW w \in Workers, IoError(w) PROVE TypeOK'
  BY <1>12, <1>r, ReturnTyped DEF IoError
<1>13. ASSUME NEW w \in Workers, Crash(w) PROVE TypeOK'
  BY <1>13, <1>n, ReturnTyped DEF Crash
<1>14. CASE SourceChanges
  <2>1. PICK len \in Lengths : source' = [ver |-> source.ver + 1, len |-> len]
    BY <1>14 DEF SourceChanges
  <2>2. source' \in [ver : 1..MaxVersion, len : Lengths]
    BY <1>14, <2>1, LengthAssumption DEF SourceChanges, TypeOK
  <2>3. call' \in [Workers -> Call]
    BY <1>14, <1>c, IdleTyped DEF SourceChanges, Call
  <2> QED
    BY <1>14, <2>2, <2>3 DEF SourceChanges, TypeOK, Call
<1>15. CASE ForeignCreates
  <2>1. NewInode \in Inodes
    BY <1>15, NewIsFree DEF ForeignCreates, Free
  <2>2. /\ [names EXCEPT !["final"] = NewInode] \in [Names -> Inodes \cup {None}]
        /\ [files EXCEPT ![NewInode] = [via |-> "foreign", blocks |-> Foreign]]
             \in [Inodes -> File]
    BY <1>n, <1>f, <2>1, ForeignTyped DEF File
  <2>3. names' \in [Names -> Inodes \cup {None}] /\ files' \in [Inodes -> File] /\ fd' = fd
    BY <1>15, <1>f, <2>2, FileSystemTyped DEF ForeignCreates
  <2> QED
    BY <1>15, <2>3 DEF ForeignCreates, TypeOK, File
<1>16. CASE UserMoves
  <2>1. [names EXCEPT !["kept"] = names["final"], !["final"] = None]
          \in [Names -> Inodes \cup {None}]
    BY <1>n DEF Names
  <2>2. names' \in [Names -> Inodes \cup {None}] /\ files' \in [Inodes -> File] /\ fd' = fd
    BY <1>16, <1>f, <2>1, FileSystemTyped DEF UserMoves
  <2>3. call' \in [Workers -> Call]
    BY <1>16, <1>c DEF UserMoves, Call
  <2> QED
    BY <1>16, <2>2, <2>3 DEF UserMoves, TypeOK, File, Call
<1> QED
  BY <1>1, <1>2, <1>3, <1>4, <1>5, <1>6, <1>7, <1>8, <1>9, <1>10, <1>11, <1>12, <1>13,
     <1>14, <1>15, <1>16 DEF Next

\* Types: whatever fails or crashes, a call has its staging file open exactly while it
\* copies and flushes (open_atomic_staging, copy_with_progress).
THEOREM TypeCorrect == Spec => []TypeOK
<1>1. Init => TypeOK
  <2>1. Blank \in File /\ 1 \in 1..MaxVersion
    BY EmptySeq, LengthAssumption DEF Blank, File, Blocks
  <2> QED
    BY <2>1, IdleTyped DEF Init, TypeOK, File, Call
<1> QED
  BY <1>1, TypeStep, PTL DEF Spec
-----------------------------------------------------------------------------
(* Who owns a staging file *)

\* A fresh atomic call from the creation of its staging file to its removal.
Staging(w) ==
    /\ call[w].atomic /\ ~call[w].resume
    /\ \/ pc[w] \in {"copy", "sync", "recheck", "publish", "unlink"}
       \/ pc[w] = "stamp" /\ setting.direction = "download"

\* A call works on a name of its kind, a fresh one on a name it found free.
WorkRight ==
    \A w \in Workers :
        /\ pc[w] \notin {"idle", "final", "stage"} => call[w].work \in WorkNames(w)
        /\ pc[w] = "open" /\ call[w].atomic /\ ~call[w].resume => ~call[w].existed

\* Fresh calls stage under different names, and nobody removes them.
StagedApart ==
    \A w \in Workers : Staging(w) =>
        /\ names[call[w].work] # None
        /\ \A v \in Workers \ {w} : Staging(v) => call[v].work # call[w].work

\* An atomic call writes the file with the stable staging name, whatever became of
\* that name, or a file that has its own name only and that nobody else has open.
HandleOwned ==
    \A w \in Workers : fd[w] # None /\ call[w].atomic =>
        IF call[w].resume THEN files[fd[w]].via = "part"
        ELSE /\ \A m \in Names : names[m] = fd[w] => m = call[w].work
             /\ \A v \in Workers \ {w} : fd[v] # fd[w]

\* The stable staging name is never given to a file made for something else.
PartIsPart == names["part"] # None => files[names["part"]].via = "part"

Owned == WorkRight /\ StagedApart /\ HandleOwned /\ PartIsPart

\* The name a call is about to remove is not one that another fresh call stages under.
LEMMA RemovesItsOwn ==
    ASSUME Owned, NEW w \in Workers, pc[w] \in {"copy", "publish", "unlink"}
    PROVE  \A v \in Workers \ {w} : Staging(v) => call[v].work # call[w].work
<1>1. CASE call[w].atomic /\ ~call[w].resume
  BY <1>1 DEF Owned, StagedApart, Staging
<1>2. CASE ~(call[w].atomic /\ ~call[w].resume)
  <2>1. call[w].work \in {"final", "part"}
    BY <1>2 DEF Owned, WorkRight, WorkNames
  <2>2. \A v \in Workers : Staging(v) => call[v].work \in Unique
    BY DEF Owned, WorkRight, WorkNames, Staging
  <2> QED
    BY <2>1, <2>2, NameAssumption
<1> QED
  BY <1>1, <1>2

\* A call that returns, with its staging name or without, leaves the others theirs.
LEMMA ReturnOwned ==
    ASSUME TypeOK, Owned, NEW w \in Workers, NEW n, Return(w, n),
           \/ n = names
           \/ n = [names EXCEPT ![call[w].work] = None]
                /\ pc[w] \in {"copy", "publish", "unlink"}
    PROVE  Owned'
<1>1. /\ names' = n /\ fd' = [fd EXCEPT ![w] = None]
      /\ pc' = [pc EXCEPT ![w] = "idle"] /\ call' = [call EXCEPT ![w] = Idle]
      /\ setting' = setting
  BY DEF Return, FileSystem
<1>2. \A m \in Names : n[m] = names[m] \/ n[m] = None
  BY DEF TypeOK
<1>3. \A v \in Workers \ {w} : Staging(v) => n[call[v].work] = names[call[v].work]
  BY RemovesItsOwn DEF TypeOK
<1>4. \A v \in Workers \ {w} : call'[v] = call[v] /\ pc'[v] = pc[v] /\ fd'[v] = fd[v]
  BY <1>1 DEF TypeOK
<1>5. ~Staging(w)' /\ pc'[w] = "idle" /\ fd'[w] = None
  BY <1>1 DEF TypeOK, Staging
<1>6. \A v \in Workers \ {w} : Staging(v)' <=> Staging(v)
  BY <1>1, <1>4 DEF Staging
<1>7. WorkRight'
  BY <1>4, <1>5 DEF Owned, WorkRight, WorkNames
<1>8. StagedApart'
  BY <1>1, <1>3, <1>4, <1>5, <1>6 DEF Owned, StagedApart
<1>9. \A i \in Inodes : (\E m \in Names : n[m] = i) \/ (\E v \in Workers : fd'[v] = i)
                          => files'[i] = files[i]
  BY <1>1 DEF Return, FileSystem
<1>10. HandleOwned'
  <2> SUFFICES ASSUME NEW v \in Workers, fd'[v] # None, call'[v].atomic
               PROVE  IF call'[v].resume THEN files'[fd'[v]].via = "part"
                      ELSE /\ \A m \in Names : names'[m] = fd'[v] => m = call'[v].work
                           /\ \A u \in Workers \ {v} : fd'[u] # fd'[v]
    BY DEF HandleOwned
  <2>1. v # w /\ fd'[v] = fd[v] /\ call'[v] = call[v] /\ fd[v] \in Inodes
    BY <1>4, <1>5 DEF TypeOK
  <2>2. files'[fd[v]] = files[fd[v]]
    BY <1>9, <2>1
  <2>3. \A u \in Workers : fd'[u] = fd[u] \/ fd'[u] = None
    BY <1>4, <1>5
  <2> QED
    BY <1>1, <1>2, <2>1, <2>2, <2>3, NoneAssumption DEF Owned, HandleOwned
<1>11. PartIsPart'
  <2> SUFFICES ASSUME names'["part"] # None PROVE files'[names'["part"]].via = "part"
    BY DEF PartIsPart
  <2>1. "part" \in Names
    BY DEF Names
  <2>2. names'["part"] = names["part"] /\ names["part"] \in Inodes
    BY <1>1, <1>2, <2>1 DEF TypeOK
  <2>3. files'[names["part"]] = files[names["part"]]
    BY <1>1, <1>9, <2>1, <2>2
  <2> QED
    BY <2>2, <2>3 DEF Owned, PartIsPart
<1> QED
  BY <1>7, <1>8, <1>10, <1>11 DEF Owned

\* So does a step that leaves the files alone and does not begin to stage.
LEMMA StepOwned ==
    ASSUME TypeOK, Owned, NEW w \in Workers, NEW to, Step(w, to),
           UNCHANGED <<names, files, fd>>, call' \in [Workers -> Call],
           \A v \in Workers \ {w} : call'[v] = call[v],
           Staging(w)' => Staging(w) /\ call'[w] = call[w],
           fd[w] # None => call'[w] = call[w],
           to \in {"final", "stage"} \/ call'[w].work \in WorkNames(w)',
           to = "open" /\ call'[w].atomic /\ ~call'[w].resume => ~call'[w].existed
    PROVE  Owned'
<1>1. pc' = [pc EXCEPT ![w] = to] /\ setting' = setting
  BY DEF Step
<1>2. pc'[w] = to /\ \A v \in Workers \ {w} : pc'[v] = pc[v]
  BY <1>1 DEF TypeOK
<1>3. \A v \in Workers : Staging(v)' => Staging(v) /\ call'[v] = call[v]
  BY <1>1, <1>2 DEF Staging
<1>4. WorkRight'
  BY <1>2 DEF Owned, WorkRight, WorkNames
<1>5. StagedApart'
  BY <1>3 DEF Owned, StagedApart
<1>6. HandleOwned' /\ PartIsPart'
  BY DEF Owned, HandleOwned, PartIsPart
<1> QED
  BY <1>4, <1>5, <1>6 DEF Owned

\* A call that opens its staging file becomes its owner.
LEMMA OpenOwned ==
    ASSUME TypeOK, Owned, NEW w \in Workers, Open(w), CanOpen(w) PROVE Owned'
<1> DEFINE work == call[w].work
           i == IF names[work] # None THEN names[work] ELSE NewInode
           kept == IF Keeps(w, i) THEN files[i].blocks ELSE <<>>
           via == IF names[work] # None THEN files[i].via
                  ELSE IF work \in Unique THEN "fresh" ELSE work
           f == [files EXCEPT ![i] = [via |-> via, blocks |-> kept]]
<1>1. /\ names' = [names EXCEPT ![work] = i] /\ fd' = [fd EXCEPT ![w] = i]
      /\ pc' = [pc EXCEPT ![w] = "copy"] /\ call' = call /\ setting' = setting
      /\ FileSystem([names EXCEPT ![work] = i], f, [fd EXCEPT ![w] = i])
      /\ pc[w] = "open"
  BY DEF Open, FileSystem, Step
<1>2. work \in Names /\ work \in WorkNames(w)
  BY <1>1 DEF TypeOK, Owned, WorkRight
<1>3. i \in Inodes /\ (names[work] = None => i \in Free)
  BY <1>2, NewIsFree DEF TypeOK, CanOpen, Free
<1>4. \A j \in Inodes : (\E m \in Names : names'[m] = j) \/ (\E v \in Workers : fd'[v] = j)
                          => files'[j] = f[j]
  BY <1>1 DEF FileSystem
<1>5. \A j \in Inodes : f[j].via = IF j = i THEN via ELSE files[j].via
  BY <1>3 DEF TypeOK
<1>6. names[work] # None => via = files[i].via
  OBVIOUS
<1>7. names[work] = None /\ work = "part" => via = "part"
  BY NameAssumption
<1>8. names[work] # None => i = names[work]
  OBVIOUS
<1> HIDE DEF i, kept, via, f
<1>9. \A m \in Names : names'[m] = IF m = work THEN i ELSE names[m]
  BY <1>1 DEF TypeOK
<1>10. \A v \in Workers : /\ fd'[v] = IF v = w THEN i ELSE fd[v]
                          /\ pc'[v] = IF v = w THEN "copy" ELSE pc[v]
  BY <1>1 DEF TypeOK
<1>11. call[w].atomic /\ ~call[w].resume <=> work \in Unique
  BY <1>2, NameAssumption DEF WorkNames
<1>12. work \in Unique => names[work] = None
  BY <1>1, <1>11 DEF CanOpen, Owned, WorkRight
<1>13. \A v \in Workers \ {w} : Staging(v)' <=> Staging(v)
  BY <1>1, <1>10 DEF Staging
<1>14. i # None
  BY <1>3, NoneAssumption
<1>15. WorkRight'
  BY <1>1, <1>2, <1>10 DEF Owned, WorkRight, WorkNames
<1>16. StagedApart'
  <2>1. Staging(w)' => names[work] = None
    BY <1>1, <1>11, <1>12 DEF Staging
  <2>2. \A v \in Workers : Staging(v)' => call[v].work \in Names
    BY DEF TypeOK
  <2>3. \A v \in Workers \ {w} :
          Staging(v) => names[call[v].work] # None
                          /\ \A u \in Workers \ {v} : Staging(u) => call[u].work # call[v].work
    BY DEF Owned, StagedApart
  <2> QED
    BY <1>1, <1>2, <1>9, <1>13, <1>14, <2>1, <2>2, <2>3 DEF StagedApart
<1>17. HandleOwned'
  <2>1. ASSUME call[w].atomic
        PROVE  IF call[w].resume THEN files'[i].via = "part"
               ELSE /\ \A m \in Names : names'[m] = i => m = work
                    /\ \A v \in Workers \ {w} : fd'[v] # i
    <3>1. CASE call[w].resume
      <4>1. work = "part"
        BY <1>2, <2>1, <3>1 DEF WorkNames
      <4>2. via = "part"
        BY <1>6, <1>7, <1>8, <4>1 DEF Owned, PartIsPart
      <4> QED
        BY <1>3, <1>4, <1>5, <1>10, <3>1, <4>2
    <3>2. CASE ~call[w].resume
      <4>1. i \in Free
        BY <1>3, <1>11, <1>12, <2>1, <3>2
      <4> QED
        BY <1>9, <1>10, <3>2, <4>1 DEF Free
    <3> QED
      BY <3>1, <3>2
  <2>2. ASSUME NEW v \in Workers \ {w}, fd[v] # None, call[v].atomic
        PROVE  IF call[v].resume THEN files'[fd[v]].via = "part"
               ELSE /\ \A m \in Names : names'[m] = fd[v] => m = call[v].work
                    /\ \A u \in Workers \ {v} : fd'[u] # fd[v]
    <3>1. fd[v] \in Inodes /\ fd'[v] = fd[v] /\ fd[v] \notin Free
      BY <1>10, <2>2 DEF TypeOK, Free
    <3>2. fd[v] = i => names[work] # None
      BY <1>3, <3>1
    <3>3. CASE call[v].resume
      <4>1. files[fd[v]].via = "part"
        BY <2>2, <3>3 DEF Owned, HandleOwned
      <4>2. f[fd[v]].via = "part"
        BY <1>5, <1>6, <3>1, <3>2, <4>1
      <4> QED
        BY <1>4, <3>1, <3>3, <4>2
    <3>4. CASE ~call[v].resume
      <4>1. /\ \A m \in Names : names[m] = fd[v] => m = call[v].work
            /\ \A u \in Workers \ {v} : fd[u] # fd[v]
        BY <2>2, <3>4 DEF Owned, HandleOwned
      <4>2. call[v].work \in Unique
        BY <2>2, <3>4 DEF TypeOK, Owned, WorkRight, WorkNames
      <4>3. fd[v] # i
        BY <1>2, <1>8, <1>12, <3>2, <4>1, <4>2
      <4> QED
        BY <1>9, <1>10, <3>4, <4>1, <4>3
    <3> QED
      BY <3>3, <3>4
  <2> QED
    BY <1>1, <1>10, <2>1, <2>2 DEF HandleOwned
<1>18. PartIsPart'
  <2>1. "part" \in Names
    BY DEF Names
  <2>2. CASE work = "part"
    <3>1. via = "part"
      BY <1>6, <1>7, <1>8, <2>2 DEF Owned, PartIsPart
    <3>2. names'["part"] = i
      BY <1>9, <2>1, <2>2
    <3> QED
      BY <1>3, <1>4, <1>5, <2>1, <3>1, <3>2 DEF PartIsPart
  <2>3. CASE work # "part" /\ names["part"] # None
    <3>1. names'["part"] = names["part"] /\ names["part"] \in Inodes \ Free
      BY <1>9, <2>1, <2>3 DEF TypeOK, Free
    <3>2. files[names["part"]].via = "part"
      BY <2>3 DEF Owned, PartIsPart
    <3>3. f[names["part"]].via = "part"
      BY <1>3, <1>5, <1>6, <3>1, <3>2
    <3> QED
      BY <1>4, <2>1, <3>1, <3>3 DEF PartIsPart
  <2>4. CASE work # "part" /\ names["part"] = None
    BY <1>9, <2>1, <2>4 DEF PartIsPart
  <2> QED
    BY <2>2, <2>3, <2>4
<1> QED
  BY <1>15, <1>16, <1>17, <1>18 DEF Owned

\* A step that opens nothing keeps the ownership, provided it gives the destination's
\* names only to files that no fresh call is writing.
LEMMA QuietOwned ==
    ASSUME TypeOK, TypeOK', Owned, WorkRight', setting' = setting,
           \A v \in Workers :
              /\ fd'[v] \in {fd[v], None}
              /\ pc'[v] = "idle" \/ /\ call'[v].atomic = call[v].atomic
                                    /\ call'[v].resume = call[v].resume
                                    /\ call'[v].work = call[v].work
              /\ Staging(v)' => Staging(v) /\ names'[call[v].work] # None
              /\ fd[v] # None /\ call[v].atomic /\ ~call[v].resume
                   => fd[v] \notin {names'["final"], names'["kept"]},
           \A m \in Names \ {"final", "kept"} : names'[m] \in {names[m], None},
           \A i \in Inodes : (\E v \in Workers : fd'[v] = i) \/ names'["part"] = i
                               => files'[i].via = files[i].via
    PROVE  Owned'
<1>1. \A v \in Workers : Staging(v)' => pc'[v] # "idle"
  BY DEF Staging
<1>2. StagedApart'
  BY <1>1 DEF Owned, StagedApart
<1>3. HandleOwned'
  <2> SUFFICES ASSUME NEW v \in Workers, fd'[v] # None, call'[v].atomic
               PROVE  IF call'[v].resume THEN files'[fd'[v]].via = "part"
                      ELSE /\ \A m \in Names : names'[m] = fd'[v] => m = call'[v].work
                           /\ \A u \in Workers \ {v} : fd'[u] # fd'[v]
    BY DEF HandleOwned
  <2>0. pc'[v] # "idle"
    BY DEF TypeOK
  <2>1. /\ fd'[v] = fd[v] /\ fd[v] \in Inodes
        /\ call'[v].atomic = call[v].atomic /\ call'[v].resume = call[v].resume
        /\ call'[v].work = call[v].work
    <3>1. fd \in [Workers -> Inodes \cup {None}]
      BY DEF TypeOK
    <3>2. fd'[v] = fd[v]
      OBVIOUS
    <3>3. /\ call'[v].atomic = call[v].atomic /\ call'[v].resume = call[v].resume
          /\ call'[v].work = call[v].work
      BY <2>0, Zenon
    <3>4. fd[v] \in Inodes
      BY <3>1, <3>2
    <3> QED
      BY <3>2, <3>3, <3>4, Zenon
  <2>2. files'[fd[v]].via = files[fd[v]].via
    BY <2>1
  <2>3. CASE call[v].resume
    BY <2>1, <2>2, <2>3 DEF Owned, HandleOwned
  <2>4. CASE ~call[v].resume
    <3>1. /\ \A m \in Names : names[m] = fd[v] => m = call[v].work
          /\ \A u \in Workers \ {v} : fd[u] # fd[v]
      BY <2>1, <2>4 DEF Owned, HandleOwned
    <3>2. \A m \in Names : names'[m] = fd[v] => m = call[v].work
      BY <2>1, <2>4, <3>1, NoneAssumption
    <3>3. \A u \in Workers \ {v} : fd'[u] # fd[v]
      BY <2>1, <3>1
    <3> QED
      BY <2>1, <2>4, <3>2, <3>3
  <2> QED
    BY <2>3, <2>4
<1>4. PartIsPart'
  <2>1. "part" \in Names \ {"final", "kept"}
    BY DEF Names
  <2>2. names'["part"] # None
          => names'["part"] = names["part"] /\ names["part"] \in Inodes
    BY <2>1 DEF TypeOK
  <2> QED
    BY <2>2 DEF Owned, PartIsPart
<1> QED
  BY <1>2, <1>3, <1>4 DEF Owned

\* The files at the destination's names are written by no fresh call.
LEMMA DestinationOwned ==
    ASSUME TypeOK, Owned, NEW v \in Workers, fd[v] # None, call[v].atomic, ~call[v].resume
    PROVE  /\ fd[v] \notin {names["final"], names["kept"]} /\ fd[v] \in Inodes
           /\ Staging(v) /\ call[v].work \in Unique
<1>1. pc[v] \in {"copy", "sync"} /\ fd[v] \in Inodes
  BY DEF TypeOK
<1>2. call[v].work \in Unique
  BY <1>1 DEF Owned, WorkRight, WorkNames
<1>3. {"final", "kept"} \subseteq Names
  BY DEF Names
<1>4. \A m \in Names : names[m] = fd[v] => m = call[v].work
  BY DEF Owned, HandleOwned
<1> QED
  BY <1>1, <1>2, <1>3, <1>4, NameAssumption DEF Staging

\* The ownership is inductive.
LEMMA OwnedStep == ASSUME TypeOK, TypeOK', Owned, [Next]_vars PROVE Owned'
<1>c. call \in [Workers -> Call] /\ call' \in [Workers -> Call]
  BY DEF TypeOK, Call
<1>s. \A w \in Workers : pc[w] \notin {"copy", "sync"} => fd[w] = None
  BY DEF TypeOK
<1>1. CASE UNCHANGED vars
  BY <1>1 DEF vars, Owned, WorkRight, WorkNames, StagedApart, Staging, HandleOwned,
       PartIsPart
<1>2. ASSUME NEW w \in Workers, Begin(w) PROVE Owned'
  <2>1. /\ UNCHANGED <<names, files, fd>> /\ pc[w] = "idle"
        /\ \A v \in Workers \ {w} : call'[v] = call[v]
        /\ \E to \in {"final", "stage"} : Step(w, to)
    BY <1>2, <1>c DEF Begin
  <2>2. ~Staging(w)'
    BY <2>1 DEF Step, Staging, TypeOK
  <2> QED
    BY <1>c, <1>s, <2>1, <2>2, StepOwned
<1>3. ASSUME NEW w \in Workers, CheckFinal(w) PROVE Owned'
  <2>1. CASE Return(w, names)
    BY <2>1, ReturnOwned
  <2>2. CASE Step(w, "stage") /\ UNCHANGED <<names, files, fd, call>>
    BY <1>c, <2>2, StepOwned DEF Step, Staging, TypeOK
  <2> QED
    BY <1>3, <2>1, <2>2 DEF CheckFinal
<1>4. ASSUME NEW w \in Workers, Stage(w) PROVE Owned'
  <2>1. CASE Return(w, names)
    BY <2>1, ReturnOwned
  <2>2. CASE ~Return(w, names)
    <3>1. PICK work, to, there, pos :
            /\ work \in WorkNames(w) /\ to \in {"open", "recheck", "stamp"} /\ there \in BOOLEAN
            /\ call' = [call EXCEPT ![w].work = work, ![w].existed = there, ![w].pos = pos]
            /\ Step(w, to)
            /\ UNCHANGED <<names, files, fd>>
            /\ there /\ call[w].atomic => call[w].resume
            /\ to # "open" => call[w].resume
      BY <1>4, <2>2 DEF Stage, Acceptable
    <3>2. /\ call'[w].atomic = call[w].atomic /\ call'[w].resume = call[w].resume
          /\ call'[w].work = work /\ call'[w].existed = there
          /\ \A v \in Workers \ {w} : call'[v] = call[v]
      BY <1>c, <3>1 DEF Call
    <3>3. pc'[w] = to /\ setting' = setting /\ pc[w] = "stage"
      BY <1>4, <3>1 DEF Step, TypeOK, Stage
    <3>4. ~Staging(w)'
      BY <3>1, <3>2, <3>3 DEF Staging
    <3>5. call'[w].work \in WorkNames(w)'
      BY <3>1, <3>2 DEF WorkNames
    <3> QED
      BY <1>c, <1>s, <3>1, <3>2, <3>3, <3>4, <3>5, StepOwned
  <2> QED
    BY <2>1, <2>2
<1>5. ASSUME NEW w \in Workers, Open(w) PROVE Owned'
  BY <1>5, OpenOwned, ReturnOwned DEF Open
<1>6. ASSUME NEW w \in Workers, Copy(w) PROVE Owned'
  <2>1. CASE ~(call[w].pos + 1 <= source.len)
    <3>1. Step(w, "sync") /\ UNCHANGED <<names, files, fd, call>> /\ pc[w] = "copy"
      BY <1>6, <2>1 DEF Copy
    <3>2. Staging(w)' => Staging(w)
      BY <3>1 DEF Staging, Step
    <3>3. call'[w].work \in WorkNames(w)'
      BY <3>1 DEF Owned, WorkRight, WorkNames
    <3> QED
      BY <1>c, <3>1, <3>2, <3>3, StepOwned
  <2>2. CASE call[w].pos + 1 <= source.len
    <3> DEFINE k == call[w].pos + 1
    <3>1. /\ FileSystem(names, [files EXCEPT ![fd[w]].blocks = WriteAt(@, k, source.ver)], fd)
          /\ call' = [call EXCEPT ![w].pos = k]
          /\ Step(w, "copy") /\ pc[w] = "copy"
      BY <1>6, <2>2 DEF Copy
    <3>2. names' = names /\ fd' = fd /\ pc' = pc /\ setting' = setting
      BY <3>1 DEF FileSystem, Step, TypeOK
    <3>3. \A v \in Workers : /\ call'[v].atomic = call[v].atomic
                             /\ call'[v].resume = call[v].resume
                             /\ call'[v].work = call[v].work
                             /\ call'[v].existed = call[v].existed
      BY <1>c, <3>1 DEF Call
    <3>4. \A i \in Inodes : (\E v \in Workers : fd'[v] = i) \/ names'["part"] = i
                               => files'[i].via = files[i].via
      <4>1. "part" \in Names
        BY DEF Names
      <4> QED
        BY <3>1, <3>2, <4>1 DEF FileSystem, TypeOK
    <3>5. WorkRight'
      BY <3>2, <3>3 DEF Owned, WorkRight, WorkNames
    <3>6. \A v \in Workers : Staging(v)' => Staging(v) /\ names'[call[v].work] # None
      BY <3>2, <3>3 DEF Staging, Owned, StagedApart
    <3> QED
      BY <3>2, <3>3, <3>4, <3>5, <3>6, DestinationOwned, QuietOwned
  <2> QED
    BY <2>1, <2>2
<1>7. ASSUME NEW w \in Workers, Sync(w) PROVE Owned'
  <2>1. /\ FileSystem(names, files, [fd EXCEPT ![w] = None]) /\ call' = call
        /\ pc[w] = "sync" /\ setting' = setting
        /\ pc' = [pc EXCEPT ![w] = IF call[w].atomic /\ setting.direction = "upload"
                                   THEN "recheck" ELSE "stamp"]
    BY <1>7 DEF Sync, Step
  <2>2. names' = names /\ \A v \in Workers : fd'[v] \in {fd[v], None}
    BY <2>1 DEF FileSystem, TypeOK
  <2>3. \A i \in Inodes : (\E v \in Workers : fd'[v] = i) \/ names'["part"] = i
                             => files'[i].via = files[i].via
    BY <2>1, <2>2 DEF FileSystem, Names
  <2>4. WorkRight'
    BY <2>1 DEF Owned, WorkRight, WorkNames, TypeOK
  <2>5. \A v \in Workers : Staging(v)' => Staging(v) /\ names'[call[v].work] # None
    BY <2>1, <2>2 DEF Staging, Owned, StagedApart, TypeOK
  <2> QED
    BY <2>1, <2>2, <2>3, <2>4, <2>5, DestinationOwned, QuietOwned
<1>8. ASSUME NEW w \in Workers, Recheck(w) PROVE Owned'
  <2>1. CASE Return(w, names)
    BY <2>1, ReturnOwned
  <2>2. CASE Step(w, "publish") /\ UNCHANGED <<names, files, fd, call>>
    <3>1. Staging(w)' => Staging(w)
      BY <1>8, <2>2 DEF Recheck, Staging
    <3>2. call'[w].work \in WorkNames(w)'
      BY <1>8, <2>2 DEF Recheck, Owned, WorkRight, WorkNames
    <3> QED
      BY <1>c, <2>2, <3>1, <3>2, StepOwned
  <2> QED
    BY <1>8, <2>1, <2>2 DEF Recheck
<1>9. ASSUME NEW w \in Workers, Stamp(w) PROVE Owned'
  <2>1. CASE Return(w, names)
    BY <2>1, ReturnOwned
  <2>2. CASE ~Return(w, names)
    <3>1. /\ Step(w, "publish") /\ UNCHANGED <<names, files, fd, call>>
          /\ pc[w] = "stamp" /\ setting.direction = "download"
      BY <1>9, <2>2 DEF Stamp
    <3>2. Staging(w)' => Staging(w)
      BY <3>1 DEF Staging
    <3>3. call'[w].work \in WorkNames(w)'
      BY <3>1 DEF Owned, WorkRight, WorkNames
    <3> QED
      BY <1>c, <3>1, <3>2, <3>3, StepOwned
  <2> QED
    BY <2>1, <2>2
<1>10. ASSUME NEW w \in Workers, Publish(w) PROVE Owned'
  <2>1. CASE ~CanPublish(w)
    BY <1>10, <2>1, ReturnOwned DEF Publish, Cleaned
  <2>2. CASE CanPublish(w)
    <3> DEFINE up == setting.direction = "upload"
    <3>1. /\ FileSystem(IF up THEN Renamed(w) ELSE Linked(w), files, fd)
          /\ pc' = [pc EXCEPT ![w] = IF up THEN "stamp" ELSE "unlink"]
          /\ setting' = setting /\ pc[w] = "publish" /\ call' = call
      BY <1>10, <2>2 DEF Publish, Step
    <3>2. call[w].work \in WorkNames(w) /\ call[w].work \in Names /\ call[w].work # "final"
      BY <2>2, <3>1 DEF Owned, WorkRight, CanPublish, TypeOK
    <3>3. /\ fd' = fd /\ names'["final"] = names[call[w].work]
          /\ \A m \in Names \ {"final"} :
                names'[m] = IF m = call[w].work /\ up THEN None ELSE names[m]
      BY <3>1, <3>2 DEF FileSystem, Renamed, Linked, TypeOK, Names
    <3>4. \A i \in Inodes : (\E v \in Workers : fd'[v] = i) \/ names'["part"] = i
                               => files'[i].via = files[i].via
      BY <3>1, <3>3 DEF FileSystem, Names
    <3>5. WorkRight'
      BY <3>1 DEF Owned, WorkRight, WorkNames, TypeOK
    <3>6. \A v \in Workers : Staging(v)' => Staging(v) /\ (v = w => ~up)
      BY <3>1 DEF Staging, TypeOK
    <3>7. \A v \in Workers \ {w} : Staging(v) => call[v].work # call[w].work
      BY <3>1, RemovesItsOwn
    <3>8. \A v \in Workers : Staging(v) => call[v].work \in Unique /\ names[call[v].work] # None
      BY DEF Owned, WorkRight, WorkNames, Staging, StagedApart
    <3>9. \A v \in Workers : Staging(v)' => Staging(v) /\ names'[call[v].work] # None
      <4>1. Unique \subseteq Names \ {"final"}
        BY NameAssumption DEF Names
      <4> QED
        BY <3>3, <3>6, <3>7, <3>8, <4>1
    <3>10. ASSUME NEW v \in Workers, fd[v] # None, call[v].atomic, ~call[v].resume
           PROVE  fd[v] \notin {names'["final"], names'["kept"]}
      <4>1. /\ fd[v] \notin {names["final"], names["kept"]} /\ Staging(v)
            /\ fd[v] \in Inodes
        BY <3>10, DestinationOwned
      <4>2. v # w
        BY <3>1, <3>10 DEF TypeOK
      <4>3. names[call[w].work] # fd[v]
        BY <3>2, <3>7, <3>10, <4>1, <4>2 DEF Owned, HandleOwned
      <4>4. names'["kept"] \in {names["kept"], None}
        BY <3>3 DEF Names
      <4> QED
        BY <3>3, <4>1, <4>3, <4>4, NoneAssumption
    <3> QED
      BY <3>1, <3>3, <3>4, <3>5, <3>9, <3>10, QuietOwned
  <2> QED
    BY <2>1, <2>2
<1>11. ASSUME NEW w \in Workers, Unlink(w) PROVE Owned'
  BY <1>11, ReturnOwned DEF Unlink
<1>12. ASSUME NEW w \in Workers, IoError(w) PROVE Owned'
  BY <1>12, ReturnOwned DEF IoError, Cleaned, Cleans
<1>13. ASSUME NEW w \in Workers, Crash(w) PROVE Owned'
  BY <1>13, ReturnOwned DEF Crash
<1>14. CASE SourceChanges
  <2>1. UNCHANGED <<setting, names, files, fd, pc>>
    BY <1>14 DEF SourceChanges
  <2>2. \A v \in Workers : pc[v] = "idle" \/ /\ call'[v].atomic = call[v].atomic
                                              /\ call'[v].resume = call[v].resume
                                              /\ call'[v].work = call[v].work
                                              /\ call'[v].existed = call[v].existed
    BY <1>14, <1>c DEF SourceChanges, Call
  <2>3. WorkRight'
    BY <2>1, <2>2 DEF Owned, WorkRight, WorkNames
  <2>4. \A v \in Workers : Staging(v)' => Staging(v) /\ names'[call[v].work] # None
    BY <2>1, <2>2 DEF Staging, Owned, StagedApart
  <2> QED
    BY <2>1, <2>2, <2>3, <2>4, DestinationOwned, QuietOwned
<1>15. CASE ForeignCreates
  <2>1. /\ FileSystem([names EXCEPT !["final"] = NewInode],
                      [files EXCEPT ![NewInode] = [via |-> "foreign", blocks |-> Foreign]], fd)
        /\ UNCHANGED <<setting, pc, call>> /\ NewInode \in Free
    BY <1>15, NewIsFree DEF ForeignCreates
  <2>2. /\ fd' = fd /\ names'["final"] = NewInode
        /\ \A m \in Names \ {"final"} : names'[m] = names[m]
    BY <2>1 DEF FileSystem, TypeOK, Names
  <2>3. \A i \in Inodes : (\E v \in Workers : fd'[v] = i) \/ names'["part"] = i
                             => files'[i].via = files[i].via
    <3>1. \A i \in Inodes : (\E v \in Workers : fd'[v] = i) \/ names'["part"] = i
                               => i # NewInode
      BY <2>1, <2>2 DEF Free, Names
    <3> QED
      BY <2>1, <2>2, <3>1 DEF FileSystem, TypeOK, Names
  <2>4. WorkRight'
    BY <2>1 DEF Owned, WorkRight, WorkNames
  <2>5. \A v \in Workers : Staging(v)' => Staging(v) /\ names'[call[v].work] # None
    <3>1. \A v \in Workers : Staging(v) => call[v].work \in Names \ {"final"}
                                             /\ names[call[v].work] # None
      BY NameAssumption DEF Owned, WorkRight, WorkNames, Staging, StagedApart, Names
    <3> QED
      BY <2>1, <2>2, <3>1 DEF Staging
  <2>6. \A v \in Workers : fd[v] # None /\ call[v].atomic /\ ~call[v].resume
                             => fd[v] \notin {names'["final"], names'["kept"]}
    <3>1. names'["kept"] = names["kept"]
      BY <2>2 DEF Names
    <3> QED
      BY <2>1, <2>2, <3>1, DestinationOwned DEF Free
  <2> QED
    BY <2>1, <2>2, <2>3, <2>4, <2>5, <2>6, QuietOwned
<1>16. CASE UserMoves
  <2>1. /\ FileSystem([names EXCEPT !["kept"] = names["final"], !["final"] = None], files, fd)
        /\ UNCHANGED <<setting, pc>>
    BY <1>16 DEF UserMoves
  <2>2. /\ fd' = fd /\ names'["final"] = None /\ names'["kept"] = names["final"]
        /\ \A m \in Names \ {"final", "kept"} : names'[m] = names[m]
    BY <2>1 DEF FileSystem, TypeOK, Names
  <2>3. \A i \in Inodes : (\E v \in Workers : fd'[v] = i) \/ names'["part"] = i
                             => files'[i].via = files[i].via
    BY <2>1, <2>2 DEF FileSystem, Names
  <2>4. \A v \in Workers : /\ call'[v].atomic = call[v].atomic
                           /\ call'[v].resume = call[v].resume
                           /\ call'[v].work = call[v].work
                           /\ call'[v].existed = call[v].existed
    BY <1>16, <1>c DEF UserMoves, Call
  <2>5. WorkRight'
    BY <2>1, <2>4 DEF Owned, WorkRight, WorkNames
  <2>6. \A v \in Workers : Staging(v)' => Staging(v) /\ names'[call[v].work] # None
    <3>1. \A v \in Workers : Staging(v) => call[v].work \in Names \ {"final", "kept"}
                                             /\ names[call[v].work] # None
      BY NameAssumption DEF Owned, WorkRight, WorkNames, Staging, StagedApart, Names
    <3> QED
      BY <2>1, <2>2, <2>4, <3>1 DEF Staging
  <2> QED
    BY <2>1, <2>2, <2>3, <2>4, <2>5, <2>6, DestinationOwned, QuietOwned
<1> QED
  BY <1>1, <1>2, <1>3, <1>4, <1>5, <1>6, <1>7, <1>8, <1>9, <1>10, <1>11, <1>12, <1>13,
     <1>14, <1>15, <1>16 DEF Next

-----------------------------------------------------------------------------
(* What an atomic call never does *)

\* The ownership holds throughout.
LEMMA OwnedInv == Spec => [](TypeOK /\ Owned)
<1>1. Init => Owned
  BY DEF Init, Idle, Owned, WorkRight, StagedApart, Staging, HandleOwned, PartIsPart, Names
<1> QED
  BY <1>1, TypeCorrect, OwnedStep, PTL DEF Spec

\* Staging: nobody else has the staging file of a fresh call open, and it is not at the
\* destination, however names collide and whoever crashed (open_atomic_staging).
THEOREM StagingIsExclusive == Spec => []StagingExclusive
<1>1. TypeOK /\ Owned => StagingExclusive
  BY DestinationOwned DEF Owned, HandleOwned, StagingExclusive
<1> QED
  BY <1>1, OwnedInv, PTL

\* A step of an atomic call is one of the worker whose call it is.
LEMMA AtomicIsOwn ==
    ASSUME TypeOK, NEW w \in Workers, AtomicStep,
           \A v \in Workers \ {w} : pc'[v] = pc[v] /\ call'[v] = call[v]
    PROVE  call[w].atomic
  BY DEF AtomicStep

\* What a worker's step leaves of the others.
LEMMA OthersRest ==
    ASSUME TypeOK, NEW w \in Workers,
           \/ Open(w) \/ Copy(w) \/ Publish(w) \/ Unlink(w) \/ IoError(w)
    PROVE  \A v \in Workers \ {w} : pc'[v] = pc[v] /\ call'[v] = call[v]
<1>1. CASE Open(w) \/ Copy(w) \/ Publish(w)
  BY <1>1 DEF Open, Copy, Publish, Return, Step, TypeOK
<1>2. CASE Unlink(w) \/ IoError(w)
  BY <1>2 DEF Unlink, IoError, Return, TypeOK
<1> QED
  BY <1>1, <1>2

\* No step of an atomic call changes the destination's name once it is taken.
LEMMA ReplacedStep ==
    ASSUME TypeOK, Owned, Next, AtomicStep, names["final"] # None
    PROVE  names'["final"] = names["final"]
<1> DEFINE Goal == names'["final"] = names["final"]
<1>f. "final" \in Names /\ names \in [Names -> Inodes \cup {None}]
  BY DEF Names, TypeOK
<1>w. ASSUME NEW w \in Workers, pc[w] \in {"open", "copy", "publish", "unlink"},
             call[w].atomic
      PROVE  call[w].work \in Names \ {"final"}
  BY <1>w, NameAssumption DEF Owned, WorkRight, WorkNames, Names
<1>1. ASSUME NEW w \in Workers, Begin(w) PROVE Goal
  BY <1>1 DEF Begin
<1>2. ASSUME NEW w \in Workers, CheckFinal(w) \/ Recheck(w) \/ Stamp(w) PROVE Goal
  BY <1>2 DEF CheckFinal, Recheck, Stamp, Return, FileSystem
<1>3. ASSUME NEW w \in Workers, Stage(w) PROVE Goal
  BY <1>3 DEF Stage, Return, FileSystem
<1>4. ASSUME NEW w \in Workers, Open(w) PROVE Goal
  <2>1. call[w].work \in Names \ {"final"}
    BY <1>4, <1>w, AtomicIsOwn, OthersRest DEF Open
  <2> QED
    BY <1>f, <1>4, <2>1 DEF Open, Return, FileSystem
<1>5. ASSUME NEW w \in Workers, Copy(w) \/ Sync(w) PROVE Goal
  BY <1>5 DEF Copy, Sync, FileSystem
<1>6. ASSUME NEW w \in Workers, Publish(w) PROVE Goal
  <2>1. call[w].work \in Names \ {"final"}
    BY <1>6, <1>w, AtomicIsOwn, OthersRest DEF Publish
  <2> QED
    BY <1>f, <1>6, <2>1 DEF Publish, CanPublish, Cleaned, Return, FileSystem
<1>7. ASSUME NEW w \in Workers, Unlink(w) PROVE Goal
  <2>1. call[w].work \in Names \ {"final"}
    BY <1>7, <1>w, AtomicIsOwn, OthersRest DEF Unlink
  <2> QED
    BY <1>f, <1>7, <2>1 DEF Unlink, Return, FileSystem
<1>8. ASSUME NEW w \in Workers, IoError(w) PROVE Goal
  <2>1. Cleans(w) => call[w].work \in Names \ {"final"}
    BY <1>w DEF Cleans
  <2> QED
    BY <1>f, <1>8, <2>1 DEF IoError, Cleaned, Return, FileSystem
<1>9. ASSUME NEW w \in Workers, Crash(w) PROVE Goal
  BY <1>9 DEF Crash, Return, FileSystem
<1>10. CASE SourceChanges \/ ForeignCreates
  BY <1>10 DEF SourceChanges, ForeignCreates
<1>11. CASE UserMoves
  <2>1. pc' = pc /\ \A v \in Workers : call'[v].pos = call[v].pos
    BY <1>11 DEF UserMoves, TypeOK
  <2> QED
    BY <2>1 DEF AtomicStep
<1> QED
  BY <1>1, <1>2, <1>3, <1>4, <1>5, <1>6, <1>7, <1>8, <1>9, <1>10, <1>11 DEF Next

\* Create-only: no atomic call ever removes or replaces the file at the destination,
\* whoever put it there and whenever (finish_remote_atomic, publish by hard link).
THEOREM AtomicNeverReplaces == Spec => NeverReplaced
<1>1. ASSUME TypeOK, Owned, [Next]_vars
      PROVE  [AtomicStep /\ names["final"] # None => names'["final"] = names["final"]]_vars
  BY <1>1, ReplacedStep
<1> QED
  BY <1>1, OwnedInv, PTL DEF Spec, NeverReplaced

\* No step of an atomic call writes a file that is at the destination, or was kept from
\* there, unless the file was made under the stable staging name.
LEMMA IntactStep ==
    ASSUME TypeOK, Owned, Next, AtomicStep, NEW n \in {"final", "kept"}, names[n] # None,
           files[names[n]].via # "part"
    PROVE  files'[names[n]].blocks = files[names[n]].blocks
             \/ \A m \in Names : names'[m] # names[n]
<1> DEFINE i == names[n]
           Gone == \A m \in Names : names'[m] # i
           Goal == files'[i].blocks = files[i].blocks \/ Gone
<1>f. n \in Names /\ i \in Inodes /\ names \in [Names -> Inodes \cup {None}]
  BY DEF Names, TypeOK
<1>r. ASSUME NEW w \in Workers, NEW k, Return(w, k) PROVE Goal
  BY <1>f, <1>r DEF Return, FileSystem
<1>1. ASSUME NEW w \in Workers, Begin(w) PROVE Goal
  BY <1>1 DEF Begin
<1>2. ASSUME NEW w \in Workers, CheckFinal(w) \/ Recheck(w) \/ Stamp(w) PROVE Goal
  BY <1>2, <1>r DEF CheckFinal, Recheck, Stamp
<1>3. ASSUME NEW w \in Workers, Stage(w) PROVE Goal
  BY <1>3, <1>r DEF Stage
<1>4. ASSUME NEW w \in Workers, Open(w) PROVE Goal
  <2>1. CASE ~CanOpen(w)
    BY <1>4, <1>r, <2>1 DEF Open
  <2>2. CASE CanOpen(w)
    <3>1. call[w].atomic
      BY <1>4, AtomicIsOwn, OthersRest
    <3> DEFINE work == call[w].work
               j == IF names[work] # None THEN names[work] ELSE NewInode
               kept == IF Keeps(w, j) THEN files[j].blocks ELSE <<>>
               via == IF names[work] # None THEN files[j].via
                      ELSE IF work \in Unique THEN "fresh" ELSE work
               f == [files EXCEPT ![j] = [via |-> via, blocks |-> kept]]
    <3>2. FileSystem([names EXCEPT ![work] = j], f, [fd EXCEPT ![w] = j])
      BY <1>4, <2>2 DEF Open
    <3>3. names[work] = None => NewInode \in Free
      BY <2>2, NewIsFree DEF CanOpen
    <3>4. j = i => names[work] = i
      BY <1>f, <3>3 DEF Free
    <3>5. j = i => kept = files[i].blocks
      BY <3>1, <3>4 DEF Keeps
    <3>6. f[i].blocks = files[i].blocks
      BY <1>f, <3>5 DEF TypeOK
    <3> HIDE DEF f, j
    <3> QED
      BY <1>f, <3>2, <3>6 DEF FileSystem
  <2> QED
    BY <2>1, <2>2
<1>5. ASSUME NEW w \in Workers, Copy(w) PROVE Goal
  <2>1. call[w].atomic /\ fd[w] \in Inodes
    BY <1>5, AtomicIsOwn, OthersRest DEF Copy, TypeOK
  <2>2. fd[w] # i
    BY <2>1, NoneAssumption, DestinationOwned DEF Owned, HandleOwned
  <2> QED
    BY <1>f, <1>5, <2>1, <2>2 DEF Copy, FileSystem, TypeOK
<1>6. ASSUME NEW w \in Workers, Sync(w) PROVE Goal
  BY <1>f, <1>6 DEF Sync, FileSystem
<1>7. ASSUME NEW w \in Workers, Publish(w) PROVE Goal
  BY <1>f, <1>7, <1>r DEF Publish, FileSystem
<1>8. ASSUME NEW w \in Workers, Unlink(w) \/ IoError(w) \/ Crash(w) PROVE Goal
  BY <1>8, <1>r DEF Unlink, IoError, Crash
<1>9. CASE SourceChanges
  BY <1>9 DEF SourceChanges
<1>10. CASE ForeignCreates
  <2>1. NewInode \in Free /\ i # NewInode
    BY <1>f, <1>10, NewIsFree DEF ForeignCreates, Free
  <2> QED
    BY <1>f, <1>10, <2>1 DEF ForeignCreates, FileSystem, TypeOK
<1>11. CASE UserMoves
  BY <1>f, <1>11 DEF UserMoves, FileSystem
<1> QED
  BY <1>1, <1>2, <1>3, <1>4, <1>5, <1>6, <1>7, <1>8, <1>9, <1>10, <1>11 DEF Next

\* Intact: no atomic call writes again a file that a fresh call published or that somebody
\* else put at the destination, though it was moved away meanwhile.
THEOREM PublishedStaysIntact == Spec => FreshIntact
<1>1. ASSUME TypeOK, Owned, [Next]_vars
      PROVE  [\A n \in {"final", "kept"} :
                LET i == names[n] IN
                AtomicStep /\ i # None /\ files[i].via \in {"fresh", "foreign"}
                  => files'[i].blocks = files[i].blocks \/ \A m \in Names : names'[m] # i]_vars
  BY <1>1, IntactStep
<1> QED
  BY <1>1, OwnedInv, PTL DEF Spec, FreshIntact
=============================================================================

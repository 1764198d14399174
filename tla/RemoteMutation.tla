--------------------------- MODULE RemoteMutation ---------------------------
(***************************************************************************)
(* The calls that change a remote file tree entry by entry                 *)
(* (remote_mutation.rs over remote_fs.rs), from the command line and from  *)
(* the desktop's file commands (files.rs): mkdir, create, write, rename,   *)
(* remove, and the removal of a whole tree by an approved plan.            *)
(*                                                                         *)
(* Every SFTP request is one step, so that callers, and other users of the *)
(* server, come between a check and the change it allows.                  *)
(***************************************************************************)
EXTENDS Naturals, Sequences, SequencesExt

CONSTANTS
    Callers,
    Tree,           \* the paths of the remote tree: sequences of names
    Rank,           \* name -> its place in the order of names
    Ops,            \* caller -> the calls it may make, [name, path, to]
    Trees,          \* path -> kind of entry, to begin with
    MaxEntries,     \* RemoteDeleteOptions.max_entries
    MaxOthers       \* changes that other users make

VARIABLES
    fs,             \* path -> [kind, by]: by whose call it was made
    pc, op,         \* where each call is, and what it does
    scan,           \* the scan of a tree removal: [stack, entries]
    approved,       \* the plan's entries: <<path, kind>>
    left,           \* entries still to be removed
    result,         \* what the call returned
    steady,         \* history: nobody else changed the tree since the plan ...
    fresh,          \* ... or since the removal began
    others

vars == <<fs, pc, op, scan, approved, left, result, steady, fresh, others>>

Nothing == [kind |-> "none", by |-> "nobody"]
NoOp == [name |-> "none", path |-> << >>, to |-> << >>]
NoScan == [stack |-> << >>, entries |-> << >>]
Entries == Seq(Tree \X {"file", "dir", "link"})

TypeOK ==
    /\ fs \in [Tree -> [kind : {"none", "file", "dir", "link", "other"},
                        by : Callers \cup {"nobody", "others"}]]
    /\ pc \in [Callers -> {"idle", "check", "occupied", "list", "mutate", "scan",
                           "approve", "rescan", "stat", "empty", "delete", "done"}]
    /\ \A c \in Callers : op[c] = NoOp \/ op[c] \in Ops[c]
    /\ \A c \in Callers : approved[c] \in Entries /\ left[c] \in Entries
    /\ \A c \in Callers : scan[c].stack \in Seq(Tree) /\ scan[c].entries \in Entries
    /\ \A c \in Callers : Len(approved[c]) <= MaxEntries
    /\ result \in [Callers -> {"none", "ok", "err"}]
    /\ steady \in [Callers -> BOOLEAN] /\ fresh \in [Callers -> BOOLEAN]
    /\ others \in 0..MaxOthers

Init ==
    /\ \E t \in Trees : fs = [p \in Tree |-> [Nothing EXCEPT !.kind = t[p]]]
    /\ pc = [c \in Callers |-> "idle"]
    /\ op = [c \in Callers |-> NoOp]
    /\ scan = [c \in Callers |-> NoScan]
    /\ approved = [c \in Callers |-> << >>]
    /\ left = [c \in Callers |-> << >>]
    /\ result = [c \in Callers |-> "none"]
    /\ steady = [c \in Callers |-> TRUE] /\ fresh = [c \in Callers |-> TRUE]
    /\ others = 0

Kind(p) == fs[p].kind
Inside(d, p) == Len(d) < Len(p) /\ SubSeq(p, 1, Len(d)) = d
Children(d) == {p \in Tree : Inside(d, p) /\ Len(p) = Len(d) + 1 /\ Kind(p) # "none"}
ParentIsDir(p) == IF Len(p) = 1 THEN TRUE ELSE Kind(SubSeq(p, 1, Len(p) - 1)) = "dir"

Return(c, r) ==
    /\ pc' = [pc EXCEPT ![c] = "done"]
    /\ result' = [result EXCEPT ![c] = r]
    /\ scan' = [scan EXCEPT ![c] = NoScan]

Goto(c, to) == pc' = [pc EXCEPT ![c] = to] /\ UNCHANGED <<result, scan>>

\* The tree becomes f by a step of c; the other callers' scans are out of date.
Change(c, f) ==
    /\ fs' = f
    /\ steady' = [d \in Callers |-> steady[d] /\ (d = c \/ f = fs)]
    /\ fresh' = [d \in Callers |-> fresh[d] /\ (d = c \/ f = fs)]

Still == UNCHANGED <<fs, steady, fresh>>
-----------------------------------------------------------------------------
(* The server *)

MakeDir(p, c) == [fs EXCEPT ![p] = [kind |-> "dir", by |-> c]]
MakeFile(p, c) == [fs EXCEPT ![p] = [kind |-> "file", by |-> c]]
Gone(p) == [fs EXCEPT ![p] = Nothing]

\* A renamed directory takes its entries along.
Moved(p, q) ==
    LET from(r) == p \o SubSeq(r, Len(q) + 1, Len(r))
    IN  [r \in Tree |-> IF r = q \/ Inside(q, r)
                        THEN IF from(r) \in Tree THEN fs[from(r)] ELSE Nothing
                        ELSE IF r = p \/ Inside(p, r) THEN Nothing ELSE fs[r]]

CanRemoveFile(p) == Kind(p) \in {"file", "link", "other"}
CanRemoveDir(p) == Kind(p) = "dir" /\ Children(p) = {}
CanRemove(e) == IF e[2] = "dir" THEN CanRemoveDir(e[1]) ELSE CanRemoveFile(e[1])
-----------------------------------------------------------------------------
(* Calls on one entry *)

\* ensure_same_parent; the paths of Tree pass validate_mutation_path.
ValidOp(o) == o.name = "rename" => o.path # o.to /\ Front(o.path) = Front(o.to)

\* The call is made, by kssh or by a command of the desktop, and opens its SFTP
\* session.
Begin(c) ==
    /\ pc[c] = "idle"
    /\ \E o \in Ops[c] :
        /\ op' = [op EXCEPT ![c] = o]
        /\ IF ValidOp(o) THEN Goto(c, "check") ELSE Return(c, "err")
    /\ Still /\ UNCHANGED <<approved, left, others>>

\* What the call looks at first: path_exists_no_follow or stat_path.
Check(c) ==
    /\ pc[c] = "check" /\ op[c].name # "tree"
    /\ LET k == Kind(op[c].path) IN
       CASE op[c].name \in {"mkdir", "create"} ->
                IF k = "none" THEN Goto(c, "mutate") ELSE Return(c, "err")
         [] op[c].name = "write" ->
                IF k # "dir" THEN Goto(c, "mutate") ELSE Return(c, "err")
         [] op[c].name = "rename" ->
                IF k # "none" THEN Goto(c, "occupied") ELSE Return(c, "err")
         [] op[c].name = "remove" ->
                IF k \in {"file", "link"} THEN Goto(c, "mutate")
                ELSE IF k = "dir" THEN Goto(c, "list") ELSE Return(c, "err")
    /\ Still /\ UNCHANGED <<op, approved, left, others>>

Occupied(c) ==
    /\ pc[c] = "occupied"
    /\ IF Kind(op[c].to) = "none" THEN Goto(c, "mutate") ELSE Return(c, "err")
    /\ Still /\ UNCHANGED <<op, approved, left, others>>

\* A directory must be empty to be removed.
ListEmpty(c) ==
    /\ pc[c] = "list"
    /\ IF Children(op[c].path) = {} THEN Goto(c, "mutate") ELSE Return(c, "err")
    /\ Still /\ UNCHANGED <<op, approved, left, others>>

\* create_file opens with CREATE | EXCLUDE | WRITE.
OpensExclusive(p) == Kind(p) = "none"

Possible(o) ==
    CASE o.name = "mkdir"  -> Kind(o.path) = "none" /\ ParentIsDir(o.path)
      [] o.name = "create" -> OpensExclusive(o.path) /\ ParentIsDir(o.path)
      [] o.name = "write"  -> Kind(o.path) # "dir" /\ ParentIsDir(o.path)
      [] o.name = "rename" -> Kind(o.path) # "none" /\ Kind(o.to) = "none"
      [] o.name = "remove" -> CanRemoveFile(o.path) \/ CanRemoveDir(o.path)

Applied(o, c) ==
    CASE o.name = "mkdir" -> MakeDir(o.path, c)
      [] o.name = "create" -> MakeFile(o.path, c)
      [] o.name = "write" -> IF Kind(o.path) \in {"none", "file"} THEN MakeFile(o.path, c)
                             ELSE fs    \* what a link points to is elsewhere
      [] o.name = "rename" -> Moved(o.path, o.to)
      [] o.name = "remove" -> Gone(o.path)

\* The request that changes the tree; the server has the last word.
Mutate(c) ==
    /\ pc[c] = "mutate"
    /\ IF Possible(op[c]) THEN Change(c, Applied(op[c], c)) /\ Return(c, "ok")
       ELSE Still /\ Return(c, "err")
    /\ UNCHANGED <<op, approved, left, others>>
-----------------------------------------------------------------------------
(* The removal of a tree *)

Root(c) == op[c].path

\* stat the root of the tree, to plan and again to execute
BeginScan(c, at, to) ==
    /\ pc[c] = at /\ op[c].name = "tree"
    /\ IF Kind(Root(c)) = "dir" /\ MaxEntries >= 1
       THEN /\ pc' = [pc EXCEPT ![c] = to]
            /\ scan' = [scan EXCEPT ![c] = [stack |-> <<Root(c)>>,
                                            entries |-> <<<<Root(c), "dir">>>>]]
            /\ UNCHANGED result
       ELSE Return(c, "err")

\* list_directory sorts by name.
Sorted(d) == SetToSortSeq(Children(d), LAMBDA p, q : Rank[Last(p)] < Rank[Last(q)])

Scanned(c) ==
    LET listing == Sorted(Last(scan[c].stack))
    IN  [stack |-> Front(scan[c].stack)
                       \o SelectSeq(listing, LAMBDA p : Kind(p) = "dir"),
         entries |-> scan[c].entries
                       \o [i \in DOMAIN listing |-> <<listing[i], Kind(listing[i])>>]]

\* build_delete_plan: one directory.
ScanDir(c) ==
    /\ pc[c] \in {"scan", "rescan"} /\ scan[c].stack # << >>
    /\ LET d == Last(scan[c].stack)
           s == Scanned(c)
       IN  IF \/ Kind(d) # "dir" \/ Len(s.entries) > MaxEntries
              \/ \E p \in Children(d) : Kind(p) = "other"
           THEN Return(c, "err")
           ELSE scan' = [scan EXCEPT ![c] = s] /\ UNCHANGED <<pc, result>>
    /\ Still /\ UNCHANGED <<op, approved, left, others>>

Plan(c) ==
    /\ BeginScan(c, "check", "scan")
    /\ steady' = [steady EXCEPT ![c] = TRUE]
    /\ UNCHANGED <<fs, fresh, op, approved, left, others>>

Planned(c) ==
    /\ pc[c] = "scan" /\ scan[c].stack = << >>
    /\ approved' = [approved EXCEPT ![c] = scan[c].entries]
    /\ Goto(c, "approve")
    /\ Still /\ UNCHANGED <<op, left, others>>

\* The user confirms; remove_remote_tree scans again.
Execute(c) ==
    /\ BeginScan(c, "approve", "rescan")
    /\ fresh' = [fresh EXCEPT ![c] = TRUE]
    /\ UNCHANGED <<fs, steady, op, approved, left, others>>

SamePlanSize(c) == Len(scan[c].entries) = Len(approved[c])
SamePlan(c) == scan[c].entries = approved[c]

DeleteOrder(c) == Reverse(approved[c])

Rescanned(c) ==
    /\ pc[c] = "rescan" /\ scan[c].stack = << >>
    /\ IF SamePlan(c)
       THEN Goto(c, "stat") /\ left' = [left EXCEPT ![c] = DeleteOrder(c)]
       ELSE Return(c, "err") /\ UNCHANGED left
    /\ Still /\ UNCHANGED <<op, approved, others>>

\* execute_delete_plan: stat an entry, list it if it is a directory, remove it.
StatEntry(c) ==
    /\ pc[c] = "stat" /\ left[c] # << >>
    /\ LET e == Head(left[c])
       IN  IF Kind(e[1]) # e[2] THEN Return(c, "err")
           ELSE Goto(c, IF e[2] = "dir" THEN "empty" ELSE "delete")
    /\ Still /\ UNCHANGED <<op, approved, left, others>>

EmptyEntry(c) ==
    /\ pc[c] = "empty"
    /\ LET p == Head(left[c])[1]
       IN  IF Kind(p) = "dir" /\ Children(p) = {} THEN Goto(c, "delete")
           ELSE Return(c, "err")
    /\ Still /\ UNCHANGED <<op, approved, left, others>>

DeleteEntry(c) ==
    /\ pc[c] = "delete"
    /\ LET e == Head(left[c])
       IN  IF CanRemove(e)
           THEN /\ Change(c, Gone(e[1]))
                /\ left' = [left EXCEPT ![c] = Tail(@)]
                /\ Goto(c, "stat")
           ELSE Still /\ Return(c, "err") /\ UNCHANGED left
    /\ UNCHANGED <<op, approved, others>>

Removed(c) ==
    /\ pc[c] = "stat" /\ left[c] = << >>
    /\ Return(c, "ok")
    /\ Still /\ UNCHANGED <<op, approved, left, others>>
-----------------------------------------------------------------------------
(* Other users of the server *)

Other(f) ==
    /\ others < MaxOthers /\ \E c \in Callers : pc[c] # "done"
    /\ others' = others + 1
    /\ fs' = f
    /\ steady' = [c \in Callers |-> FALSE] /\ fresh' = [c \in Callers |-> FALSE]
    /\ UNCHANGED <<pc, op, scan, approved, left, result>>

OtherCreates == \E p \in Tree : /\ Kind(p) = "none" /\ ParentIsDir(p)
                                /\ Other(MakeFile(p, "others"))
OtherRemoves == \E p \in Tree : CanRemoveFile(p) /\ Other(Gone(p))
OtherRetypes == \E p \in Tree : /\ Kind(p) = "file"
                                /\ Other([fs EXCEPT ![p] = [kind |-> "link",
                                                            by |-> "others"]])
-----------------------------------------------------------------------------
(* The connection of a call is lost: before a request is sent, or after the *)
(* server has carried it out.                                              *)

LostCall(c) ==
    /\ others < MaxOthers /\ pc[c] \notin {"idle", "done"}
    /\ others' = others + 1
    /\ Return(c, "err")
    /\ steady' = [steady EXCEPT ![c] = FALSE]
    /\ UNCHANGED <<fs, fresh, op, approved, left>>

LostAnswer(c) ==
    /\ others < MaxOthers
    /\ others' = others + 1
    /\ \/ /\ pc[c] = "mutate" /\ Possible(op[c])
          /\ fs' = Applied(op[c], c)
       \/ /\ pc[c] = "delete" /\ CanRemove(Head(left[c]))
          /\ fs' = Gone(Head(left[c])[1])
    /\ Return(c, "err")
    /\ steady' = [d \in Callers |-> FALSE]
    /\ fresh' = [d \in Callers |-> fresh[d] /\ d = c]
    /\ UNCHANGED <<op, approved, left>>
-----------------------------------------------------------------------------
Step(c) == \/ Begin(c) \/ Check(c) \/ Occupied(c) \/ ListEmpty(c) \/ Mutate(c)
           \/ Plan(c) \/ ScanDir(c) \/ Planned(c) \/ Execute(c) \/ Rescanned(c)
           \/ StatEntry(c) \/ EmptyEntry(c) \/ DeleteEntry(c) \/ Removed(c)

Next == \/ \E c \in Callers : Step(c) \/ LostCall(c) \/ LostAnswer(c)
        \/ OtherCreates \/ OtherRemoves \/ OtherRetypes

Spec == Init /\ [][Next]_vars

\* Requests are answered; a caller that has its plan goes on to execute it.
Fairness == \A c \in Callers : WF_vars(Step(c))
FairSpec == Spec /\ Fairness
-----------------------------------------------------------------------------
(* Properties *)

\* mkdir, create and rename never replace an entry, also one that another caller
\* or user made after the check: only a write changes an entry that is there.
NeverReplaces ==
    [][\A p \in Tree :
          Kind(p) # "none" /\ fs'[p].kind # "none" /\ fs'[p] # fs[p]
          /\ fs'[p].by # "others"
              => \E c \in Callers : /\ op[c].name = "write" /\ op[c].path = p
                                    /\ fs'[p].by = c]_vars

\* A removal whose plan no longer fits the tree removes nothing: entries came,
\* went or changed their type between the approval and the removal.
StalePlanHarmless ==
    [][\A c \in Callers :
          pc[c] = "rescan" /\ pc'[c] = "stat" /\ fresh[c] =>
              \A p \in Tree : (p = Root(c) \/ Inside(Root(c), p)) =>
                  IF Kind(p) = "none"
                  THEN \A i \in DOMAIN approved[c] : approved[c][i][1] # p
                  ELSE \E i \in DOMAIN approved[c] : approved[c][i] = <<p, Kind(p)>>]_vars

\* When nobody interferes, an approved removal succeeds, and a removal that
\* succeeds leaves nothing of the tree: the plan's order never meets a directory
\* that is not empty.
RemovalComplete ==
    \A c \in Callers : op[c].name = "tree" /\ approved[c] # << >> /\ pc[c] = "done" =>
        /\ steady[c] => result[c] = "ok"
        /\ result[c] = "ok" /\ fresh[c] => \A p \in Tree : p = Root(c) \/ Inside(Root(c), p)
                                                   => Kind(p) = "none"

\* Every call returns.
CallsReturn == <>(\A c \in Callers : pc[c] = "done")
=============================================================================

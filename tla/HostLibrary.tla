----------------------------- MODULE HostLibrary -----------------------------
(***************************************************************************)
(* The host library: one file with the hosts, the jump chains and the      *)
(* folders (kaduox-ssh-hosts: store.rs, model.rs, resolver.rs, import.rs), *)
(* edited by the desktop's commands, which take turns on host_store_guard  *)
(* (commands/hosts.rs, connection.rs), and by other processes, which take  *)
(* no lock: kssh hosts and chains, and kssh or ksshd counting a connection *)
(* with the copy it read before connecting.                                *)
(***************************************************************************)
EXTENDS Naturals, FiniteSets, Functions

CONSTANTS
    Hosts, Chains, Folders,     \* names
    Records,                    \* what a host may be saved as
    HopSets,                    \* what a chain may be saved as
    Imported,                   \* alias of the OpenSSH configuration -> its jumps
    Desktop, Outside,           \* calls, each edits once
    Libraries,                  \* the files it may begin with
    MaxUses                     \* bound of the connection counter

None == "none"
Absent == [role |-> "absent", chain |-> None, folder |-> None, uses |-> 0]

VARIABLES
    file,       \* the database as a reader finds it
    guard,      \* who holds host_store_guard
    edit,       \* the calls
    sessions    \* hosts the desktop is connected to

vars == <<file, guard, edit, sessions>>

Calls == Desktop \union Outside
Stored(db) == {h \in Hosts : db.hosts[h] # Absent}
Known(db) == {c \in Chains : db.chains[c] # {}}

TypeOK ==
    /\ guard \in Desktop \union {None}
    /\ \A p \in Desktop : edit[p].pc \in {"opened", "staged"} <=> guard = p
    /\ \A h \in Stored(file) : file.hosts[h].uses \in 0..MaxUses

-----------------------------------------------------------------------------
(* model.rs, store.rs *)
ValidAnyRole(db) ==
    /\ \A h \in Stored(db) : db.hosts[h].chain # None => db.hosts[h].chain \in Known(db)
    /\ \A c \in Chains : \A hop \in db.chains[c] :
          hop.kind = "host" => hop.alias \in Stored(db)
    /\ \A h \in Stored(db) : db.hosts[h].chain # None =>
          \A hop \in db.chains[db.hosts[h].chain] : hop.alias # h

\* HostDatabase::validate.  A hop that is not a host of the library (an OpenSSH alias
\* or an inline jump) only has a name.
Valid(db) ==
    /\ \A h \in Stored(db) : db.hosts[h].chain # None => db.hosts[h].chain \in Known(db)
    /\ \A c \in Chains : \A hop \in db.chains[c] :
          hop.kind = "host" => /\ hop.alias \in Stored(db)
                               /\ db.hosts[hop.alias].role # "target"
    /\ \A h \in Stored(db) : db.hosts[h].chain # None =>
          \A hop \in db.chains[db.hosts[h].chain] : hop.alias # h

\* An edit yields the database it makes, or nothing when it is refused: the copy in
\* memory is then as it was.
Try(db) == IF Valid(db) THEN {db} ELSE {}

UsedAsHop(db, h) == \E c \in Chains : [kind |-> "host", alias |-> h] \in db.chains[c]

UpsertHost(db, h, r) == Try([db EXCEPT !.hosts[h] = r])

InsertHost(db, h, r) == IF h \in Stored(db) THEN {} ELSE UpsertHost(db, h, r)

RemoveHost(db, h) ==
    IF h \notin Stored(db) \/ UsedAsHop(db, h) THEN {} ELSE {[db EXCEPT !.hosts[h] = Absent]}

UpsertChain(db, c, hops) == Try([db EXCEPT !.chains[c] = hops])

RemoveChain(db, c) ==
    IF c \notin Known(db) \/ \E h \in Stored(db) : db.hosts[h].chain = c THEN {}
    ELSE {[db EXCEPT !.chains[c] = {}]}

RecordSuccess(db, h) ==
    IF h \notin Stored(db) THEN {}
    ELSE {[db EXCEPT !.hosts[h].uses = IF @ < MaxUses THEN @ + 1 ELSE @]}

\* folders(): the explicit ones and those a host names.
AllFolders(db) == {f \in Folders : \/ db.folders[f] # None
                                   \/ \E h \in Stored(db) : db.hosts[h].folder = f}

SaveFolder(db, f, old, role) ==
    LET renames == old # None /\ old # f
        refused == \/ old # None /\ old \notin AllFolders(db)
                   \/ renames /\ f \in AllFolders(db)
                   \/ old = None /\ db.folders[f] # None
        moved == [h \in Hosts |-> IF h \in Stored(db) /\ renames /\ db.hosts[h].folder = old
                                  THEN [db.hosts[h] EXCEPT !.folder = f] ELSE db.hosts[h]]
    IN IF refused THEN {}
       ELSE Try([db EXCEPT !.hosts = moved,
                           !.folders = [g \in Folders |-> IF g = f THEN role
                                          ELSE IF renames /\ g = old THEN None ELSE @[g]]])

InFolder(db, f) == {h \in Stored(db) : db.hosts[h].folder = f}

RemoveFolder(db, f) ==
    IF f \notin AllFolders(db) \/ \E h \in InFolder(db, f) : UsedAsHop(db, h) THEN {}
    ELSE Try([db EXCEPT !.folders[f] = None,
                        !.hosts = [h \in Hosts |-> IF h \in InFolder(db, f) THEN Absent
                                                   ELSE @[h]]])

\* import_openssh: aliases the library has are skipped; the first that cannot be
\* added refuses the import.  The jumps of an alias become a chain with a name of its
\* own (unique_chain_name).
Import(db) ==
    LET new == DOMAIN Imported \ Stored(db)
        jumping == {h \in new : Imported[h] # {}}
        record(h, name) == [role |-> "both", chain |-> IF h \in jumping THEN name[h] ELSE None,
                            folder |-> None, uses |-> 0]
    IN UNION {Try([db EXCEPT
                !.hosts = [h \in Hosts |-> IF h \in new THEN record(h, name) ELSE @[h]],
                !.chains = [c \in Chains |-> IF \E h \in jumping : name[h] = c
                                THEN Imported[CHOOSE h \in jumping : name[h] = c] ELSE @[c]]]) :
              name \in {f \in [jumping -> Chains \ Known(db)] : IsInjective(f)}}

-----------------------------------------------------------------------------
(* commands/hosts.rs *)
\* save_host_inner; `old' is the alias the form was opened with.  The statistics of
\* the host stay.
SaveHost(db, h, old, r) ==
    LET previous == IF old \in Stored(db) THEN old ELSE h
        record == [r EXCEPT !.uses = IF previous \in Stored(db) THEN db.hosts[previous].uses
                                     ELSE 0]
    IN IF old \notin {None, h}
       THEN IF h \in Stored(db) THEN {}
            ELSE UNION {UpsertHost(d, h, record) : d \in RemoveHost(db, old)}
       ELSE UpsertHost(db, h, record)

\* save_chain_inner: a renamed chain takes the hosts bound to it along.
SaveChain(db, c, old, hops) ==
    LET rebound(d) == [d EXCEPT !.hosts = [h \in Hosts |->
                         IF h \in Stored(d) /\ d.hosts[h].chain = old
                         THEN [d.hosts[h] EXCEPT !.chain = c] ELSE d.hosts[h]]]
    IN IF old \notin {None, c}
       THEN IF c \in Known(db) THEN {}
            ELSE UNION {RemoveChain(e, old) :
                          e \in UNION {Try(rebound(d)) : d \in UpsertChain(db, c, hops)}}
       ELSE IF (old = None) = (c \in Known(db)) THEN {}
       ELSE UpsertChain(db, c, hops)

\* What a call may make of the database, by what it was asked for.
DesktopEdits(db) ==
    UNION ({SaveHost(db, h, old, r) : h \in Hosts, old \in Hosts \union {None}, r \in Records}
           \union {SaveChain(db, c, old, s) : c \in Chains, old \in Chains \union {None},
                                              s \in HopSets}
           \union {RemoveChain(db, c) : c \in Chains}
           \union {SaveFolder(db, f, old, role) : f \in Folders, old \in Folders \union {None},
                                                  role \in {"target", "jump"}})

OutsideEdits(db) ==
    UNION ({InsertHost(db, h, r) : h \in Hosts, r \in Records}
           \union {UpsertHost(db, h, [r EXCEPT !.uses = db.hosts[h].uses,
                                               !.role = db.hosts[h].role]) :
                      h \in Stored(db), r \in Records}
           \union {RemoveHost(db, h) : h \in Hosts}
           \union {UpsertChain(db, c, s) : c \in Chains, s \in HopSets}
           \union {RemoveChain(db, c) : c \in Chains}
           \union {Import(db)})

Results(p, db) ==
    CASE edit[p].op = "host" -> RemoveHost(db, edit[p].of)
      [] edit[p].op = "folder" -> RemoveFolder(db, edit[p].of)
      [] edit[p].op = "connect" -> RecordSuccess(db, edit[p].of)
      [] OTHER -> IF p \in Desktop THEN DesktopEdits(db) ELSE OutsideEdits(db)

-----------------------------------------------------------------------------
Idle == [pc |-> "idle", op |-> "edit", of |-> None, copy |-> None, base |-> None,
         overtaken |-> FALSE]

Becomes(p, pc) == edit' = [edit EXCEPT ![p].pc = pc]

\* A command begins.  Deleting a host or a folder is refused while a host it would
\* delete is connected, before the command waits for its turn; a connection is made
\* before it is counted.
Begin(p) ==
    /\ edit[p].pc = "idle"
    /\ \/ /\ Becomes(p, "asked")
          /\ UNCHANGED sessions
       \/ /\ p \in Desktop
          /\ \E h \in Hosts \ sessions :
                edit' = [edit EXCEPT ![p].pc = "asked", ![p].op = "host", ![p].of = h]
          /\ UNCHANGED sessions
       \/ /\ p \in Desktop
          /\ \E f \in Folders :
                /\ InFolder(file, f) \intersect sessions = {}
                /\ edit' = [edit EXCEPT ![p].pc = "asked", ![p].op = "folder", ![p].of = f]
          /\ UNCHANGED sessions
       \/ \E h \in Stored(file) :
             /\ edit' = [edit EXCEPT ![p].pc = "asked", ![p].op = "connect", ![p].of = h]
             /\ sessions' = IF p \in Desktop THEN sessions \union {h} ELSE sessions
    /\ UNCHANGED <<file, guard>>

\* HostStore::open_default, by a desktop command once it has the guard.
Open(p) ==
    /\ edit[p].pc = "asked"
    /\ IF p \in Desktop THEN guard = None /\ guard' = p ELSE UNCHANGED guard
    /\ edit' = [edit EXCEPT ![p].pc = "opened", ![p].copy = file, ![p].base = file]
    /\ UNCHANGED <<file, sessions>>

Returns(p) ==
    /\ edit' = [edit EXCEPT ![p] = [Idle EXCEPT !.pc = "done"]]
    /\ guard' = IF guard = p THEN None ELSE guard

\* The edit in memory, and save up to the staging file.
Stage(p) ==
    /\ edit[p].pc = "opened"
    /\ \E db \in Results(p, edit[p].copy) :
          /\ Valid(db)
          /\ edit' = [edit EXCEPT ![p].pc = "staged", ![p].copy = db]
    /\ UNCHANGED <<file, guard, sessions>>

\* The edit is refused, or staging or publishing fails.
Fails(p) ==
    /\ edit[p].pc \in {"opened", "staged"}
    /\ Returns(p)
    /\ UNCHANGED <<file, sessions>>

\* The rename over the library.
Publish(p) ==
    /\ edit[p].pc = "staged"
    /\ file' = edit[p].copy
    /\ edit' = [q \in Calls |-> IF q = p THEN [Idle EXCEPT !.pc = "done"]
                                ELSE IF p \in Outside THEN [edit[q] EXCEPT !.overtaken = TRUE]
                                ELSE edit[q]]
    /\ guard' = IF guard = p THEN None ELSE guard
    /\ UNCHANGED sessions

\* The desktop application ends with whatever it was doing.
DesktopCrashes ==
    /\ \E p \in Desktop : edit[p].pc \in {"asked", "opened", "staged"}
    /\ edit' = [p \in Calls |-> IF p \in Desktop THEN [Idle EXCEPT !.pc = "done"] ELSE edit[p]]
    /\ guard' = None
    /\ sessions' = {}
    /\ UNCHANGED file

Disconnect ==
    /\ \E h \in sessions : sessions' = sessions \ {h}
    /\ UNCHANGED <<file, guard, edit>>

Init ==
    /\ file \in Libraries
    /\ guard = None
    /\ edit = [p \in Calls |-> Idle]
    /\ sessions = {}

Next ==
    \/ \E p \in Calls : Begin(p) \/ Open(p) \/ Stage(p) \/ Fails(p) \/ Publish(p)
    \/ DesktopCrashes \/ Disconnect

Spec == Init /\ [][Next]_vars

-----------------------------------------------------------------------------
(* Whatever is cut short and whoever writes last, every host in the file can  *)
(* be routed to (resolve_host): its chain is there, the library's hosts on it *)
(* are there and may relay, and the host is not its own jump.                 *)
Routable ==
    \A h \in Stored(file) :
        file.hosts[h].chain # None =>
            LET hops == file.chains[file.hosts[h].chain]
            IN /\ hops # {}
               /\ \A hop \in hops :
                     /\ hop.alias # h
                     /\ hop.kind = "host" => /\ file.hosts[hop.alias] # Absent
                                             /\ file.hosts[hop.alias].role \in {"jump", "both"}

(* The desktop's commands do not undo one another: what a command is about to *)
(* publish was made from the file as it is, unless a process outside the      *)
(* desktop has published since.                                               *)
TurnsTaken ==
    \A p \in Desktop :
        edit[p].pc = "staged" /\ ~edit[p].overtaken => edit[p].base = file
=============================================================================

------------------------------ MODULE MCStored ------------------------------
(* What outlives a call: a synchronized tree (Sync), the host library          *)
(* (HostLibrary), and the results and consent of the assistant's commands      *)
(* (Assistant).  "which" says which of them a behaviour is about: the trees    *)
(* stay as they begin, and the variables of the other two rest, while another  *)
(* is.                                                                         *)
EXTENDS MCSync, TLC

VARIABLES which,
    target, token, approval, busy, resolving, mounted, rounds, chain, platform, stored, ran,
    submits, switches,
    file, guard, edit, sessions

assistantVars == <<target, token, approval, busy, resolving, mounted, rounds, chain, platform,
                   stored, ran, submits, switches>>
libraryVars == <<file, guard, edit, sessions>>
storedVars == <<which, vars, assistantVars, libraryVars>>

-----------------------------------------------------------------------------
(* Two chains on one host.  A command is a sequence of parts, each with its    *)
(* level on either platform; a reply asks for commands.                        *)
Part(unix, windows) == [unix |-> unix, windows |-> windows]
Look == <<Part("readOnly", "readOnly")>>
Change == <<Part("readOnly", "modify")>>
Wipe == <<Part("readOnly", "readOnly"), Part("delete", "dangerous")>>

A == INSTANCE Assistant WITH
        Targets <- {"A"}, Chains <- {1, 2}, Replies <- {<<>>, <<Look, Wipe>>, <<Change>>},
        MaxToolRounds <- 2, MaxSubmits <- 1, MaxEvents <- 3,
        mode <- approval, changes <- switches

(* Two hosts, two chains and two folders, empty or with everything in use; two *)
(* commands of the desktop, and a program outside it.                          *)
Record(role, jumps, folder) == [role |-> role, chain |-> jumps, folder |-> folder, uses |-> 0]
Hop(kind, alias) == [kind |-> kind, alias |-> alias]
Aliases == {"h", "i"}
Jumps == {"c", "d"}
Groups == {"f", "g"}
NoRecord == [role |-> "absent", chain |-> "none", folder |-> "none", uses |-> 0]
EmptyLibrary == [hosts |-> [h \in Aliases |-> NoRecord], chains |-> [c \in Jumps |-> {}],
          folders |-> [f \in Groups |-> "none"]]
FullLibrary == [hosts |-> ("h" :> Record("both", "none", "f"))
                          @@ ("i" :> Record("target", "c", "none")),
         chains |-> ("c" :> {Hop("host", "h")}) @@ ("d" :> {}),
         folders |-> [f \in Groups |-> "target"]]

H == INSTANCE HostLibrary WITH
        Hosts <- Aliases, Chains <- Jumps, Folders <- Groups,
        Records <- {Record("target", "c", "none"), Record("both", "none", "f")},
        HopSets <- {{Hop("host", "h")}, {Hop("openssh", "i")}},
        Imported <- ("h" :> {}) @@ ("i" :> {Hop("openssh", "h")}),
        Desktop <- {"p", "q"}, Outside <- {"o"},
        Libraries <- {EmptyLibrary, FullLibrary}, MaxUses <- 1

-----------------------------------------------------------------------------
AssistantRests ==
    /\ target = "off" /\ token = "off" /\ approval = "off" /\ busy = "off" /\ resolving = "off"
    /\ mounted = "off" /\ rounds = "off" /\ chain = "off" /\ platform = "off"
    /\ stored = "off" /\ ran = "off" /\ submits = "off" /\ switches = "off"
LibraryRests == file = "off" /\ guard = "off" /\ edit = "off" /\ sessions = "off"

SyncRests ==
    /\ local = [p \in Paths |-> IF p = <<>> THEN Dir ELSE NoEntry] /\ remote = local
    /\ mode = DryRun /\ changes = 0 /\ seen = [p \in Paths |-> NoEntry]
    /\ plan = <<>> /\ at = 1 /\ tasks = <<>> /\ phase = "scan"
    /\ uploaded = {} /\ mutated = FALSE /\ disturbed = FALSE /\ foreign = {}

StoredInit ==
    \/ which = "sync" /\ Init /\ AssistantRests /\ LibraryRests
    \/ which = "assistant" /\ A!Init /\ SyncRests /\ LibraryRests
    \/ which = "library" /\ H!Init /\ SyncRests /\ AssistantRests

\* The user may leave the assistant and the library alone at any time.
LeftAlone == which \in {"assistant", "library"} /\ UNCHANGED storedVars

StoredNext ==
    \/ which = "sync" /\ Next /\ UNCHANGED <<which, assistantVars, libraryVars>>
    \/ which = "assistant" /\ A!Next /\ UNCHANGED <<which, vars, libraryVars>>
    \/ which = "library" /\ H!Next /\ UNCHANGED <<which, vars, assistantVars>>
    \/ LeftAlone

StoredSpec == StoredInit /\ [][StoredNext]_storedVars

-----------------------------------------------------------------------------
(* However chains interleave, and whatever changes under them, no command the  *)
(* backend called dangerous runs, one that was not clicked runs only if the    *)
(* mode lets through the level on its card and the backend's, and a chain the  *)
(* user breaks runs at most one command more (runToolCalls,                    *)
(* ai_execute_command).  An approved batch loses no result that arrived while  *)
(* its chain was current: when the chain has ended, each is in the             *)
(* conversation's file (resolveBatch).  No chain goes beyond MAX_TOOL_ROUNDS.  *)
Consent ==
    which = "assistant" =>
        A!TypeOK /\ A!Consent /\ A!BreakStops /\ A!BatchRecorded

(* Both stores stay sound.  Whatever is cut short and whoever writes last,     *)
(* every host in the file can be routed to (resolve_host).  The desktop's      *)
(* commands do not undo one another: what a command is about to publish was    *)
(* made from the file as it is, unless a process outside the desktop has       *)
(* published since (host_store_guard).  A remote tree under synchronization is *)
(* a tree at every step, and no more than FILE_CONCURRENCY uploads run.        *)
StoresSound ==
    /\ which = "library" => H!TypeOK /\ H!Routable /\ H!TurnsTaken
    /\ which = "sync" => TypeOK
=============================================================================

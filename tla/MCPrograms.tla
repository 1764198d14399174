---------------------------- MODULE MCPrograms ------------------------------
(* The command-line programs: kssh and its daemon (Daemon), the user's OpenSSH *)
(* configuration they read (UserConfig), kssh-fleet (Fleet), kssh-mcp (Mcp),   *)
(* and the progress of the transfers they start (TransferTasks).  "which" says *)
(* which of them a behaviour is about; the variables of the others rest.       *)
EXTENDS Naturals, Sequences, TLC

CONSTANT None

VARIABLES which,
    kssh, serving, toD, toK, adrift, cut, daemon, cached, config,
    files, host, stack, entered, read, out, result,
    inventory, request, phase, todo, visiting, expanded, labels, resolved, pending, task,
    kept, failed, printed,
    library, edits, sent, at, pc, pool, lease, effects, answers,
    tasks, order, next_id, max_retained, cancelled, step, id, job, outcome, queue, emitted,
    sending, bridge, caller

daemonVars == <<kssh, serving, toD, toK, adrift, cut, daemon, cached, config>>
configVars == <<files, host, stack, entered, read, out, result>>
fleetVars == <<inventory, request, phase, todo, visiting, expanded, labels, resolved, pending,
               task, kept, failed, printed>>
mcpVars == <<library, edits, sent, at, pc, pool, lease, effects, answers>>
transferVars == <<tasks, order, next_id, max_retained, cancelled, step, id, job, outcome, queue,
                  emitted, sending, bridge, caller>>
vars == <<which, daemonVars, configVars, fleetVars, mcpVars, transferVars>>

-----------------------------------------------------------------------------
(* A command, and a shell whose stdout is a pipe, at a daemon with one slot. *)
Procs == {"p", "q"}

D == INSTANCE Daemon WITH
        Op <- ("p" :> "exec") @@ ("q" :> "shell"), Slots <- 1, Outputs <- 1, MaxInputs <- 1,
        MaxJumpAuth <- 2, MaxEdits <- 1, Piped <- {"q"}

(* Three files that may include each other and themselves, for the host x and  *)
(* for the catalog; and single patterns, each against every name.              *)
Option(kind) == [kind |-> kind, pats |-> <<>>, paths |-> <<>>]
Positive(p) == [neg |-> FALSE, pat |-> p]
Negative(p) == [neg |-> TRUE, pat |-> p]
Block(kind, pats) == [kind |-> kind, pats |-> pats, paths |-> <<>>]
Include(paths) == [kind |-> "include", pats |-> <<>>, paths |-> paths]
HostX == Block("host", <<Positive(<<"x">>)>>)
ManyHosts == Block("host", <<Positive(<<"x">>), Positive(<<"y">>), Positive(<<"x", "*">>),
                             Negative(<<"z">>)>>)
MatchOther == Block("match", <<Positive(<<"*">>), Negative(<<"x">>)>>)
RootLines == {Option("option"), HostX, MatchOther, Include(<<<<"a">>>>), Include(<<<<"?">>>>),
              Include(<<<<"b">>, <<"a">>>>), Include(<<<<"z">>>>), Option("invalid")}
Trees == {(<<"r">> :> <<x, y, Option("option")>>) @@ (<<"a">> :> <<z, w>>) @@ (<<"b">> :> b) :
            x \in RootLines, y \in RootLines,
            z \in {HostX, MatchOther, Include(<<<<"b">>>>)},
            w \in {Option("option"), Option("unsupported"), Include(<<<<"r">>>>)},
            b \in {<<>>, <<ManyHosts, Option("option")>>}}
Signs == {"*", "?", "x", "esc"}
Complete(p) == \* no escape sign is left without a sign to escape
    LET escapes == {i \in DOMAIN p : \A j \in i..Len(p) : p[j] = "esc"}
    IN \E k \in 0..Len(p) : escapes = (Len(p) - 2 * k + 1)..Len(p)
Patterns == {p \in UNION {[1..n -> Signs] : n \in 1..3} : Complete(p)}
Globs == {(<<"r">> :> <<Block("match", <<Positive(p)>>), Option("option")>>) : p \in Patterns}
Asked == {<<>>, <<"x">>, <<"x", "y">>, <<"x", "x">>, <<"*">>, <<"x", "*">>, <<"y", "x", "x">>}

U == INSTANCE UserConfig WITH
        Configs <- Trees \cup Globs, Order <- <<<<"a">>, <<"b">>, <<"r">>>>, Root <- <<"r">>,
        Hosts <- Asked, MaxIncludeDepth <- 2, MaxIncludeFiles <- 5, MaxConfigLines <- 20

(* Groups of hosts and of groups, two of them in every inventory; d has no     *)
(* configuration, e and U are not declared.                                    *)
Hosts == {"a", "b", "c", "d", "e"}
Inventories == {[hosts |-> {"a", "b", "c", "d"}, groups |-> ("G" :> g) @@ ("H" :> h)] :
                  g \in {<<"b", "H">>, <<"H", "a", "c">>, <<"a", "a">>, <<"H", "d">>, <<"a", "e">>},
                  h \in {<<"b", "c">>, <<"G", "c">>, <<"H">>, <<"U">>}}
Command(hosts, groups, path, command, plan) ==
    [hosts |-> hosts, groups |-> groups, path |-> path, command |-> command, plan |-> plan]
Requests == {Command(h, g, p = "given", "valid", p = "plan") :
               h \in {<<>>, <<"a", "b", "a">>}, g \in {<<>>, <<"H", "G">>, <<"U">>},
               p \in {"plan", "run", "given"}}
            \cup {Command(<<"a">>, <<>>, FALSE, c, plan) : c \in {"none", "bad"}, plan \in BOOLEAN}

F == INSTANCE Fleet WITH
        Groups <- {"G", "H", "U"}, Unresolvable <- {"d"}, Jobs <- 2, OutputLimit <- 1,
        MaxTargets <- 3, MaxExpanded <- 3

(* Two lines to a server without --allow-exec, and one edit of the library. *)
Line(kind, named, tool, valid) ==
    [kind |-> kind, id |-> named, tool |-> tool, alias |-> "a", valid |-> valid]
Lines == {Line("blank", FALSE, "none", TRUE), Line("notification", FALSE, "none", TRUE),
          Line("garbage", TRUE, "none", TRUE), Line("unknown", FALSE, "none", TRUE),
          Line("ping", TRUE, "none", TRUE), Line("call", TRUE, "basic_info", TRUE),
          Line("call", TRUE, "route", TRUE), Line("call", TRUE, "exec", TRUE),
          Line("call", FALSE, "upload", TRUE), Line("call", TRUE, "list_files", FALSE),
          Line("call", TRUE, "list_hosts", TRUE)}

M == INSTANCE Mcp WITH
        Aliases <- {"a"}, Routes <- {"direct", "jump"}, AllowExec <- FALSE,
        AllowMutations <- TRUE, MaxLines <- 2, MaxEdits <- 1

(* Two transfers of one destination, one of which may be dropped by its caller; *)
(* a directory may report what a single file may report, and more.             *)
Runners == {"r1", "r2"}

T == INSTANCE TransferTasks WITH
        Droppable <- {"r1"}, Kinds <- {"UploadDirectory"}, Sources <- {"s"},
        Destinations <- {"d"}, Capacities <- {1, 2}, LastId <- 3, ProgressQueue <- 1,
        Chunks <- 1, pc <- step, result <- outcome, sent <- emitted

-----------------------------------------------------------------------------
DaemonRests ==
    /\ kssh = [c \in Procs |-> [pc |-> "done"]] /\ serving = [c \in Procs |-> [pc |-> "none"]]
    /\ adrift = "off" /\ toD = "off" /\ toK = "off" /\ cut = "off" /\ daemon = "off" /\ cached = "off"
    /\ config = "off"
ConfigRests ==
    /\ result = "ok"
    /\ files = "off" /\ host = "off" /\ stack = "off" /\ entered = "off" /\ read = "off"
    /\ out = "off"
FleetRests ==
    /\ phase = "ok"
    /\ inventory = "off" /\ request = "off" /\ todo = "off" /\ visiting = "off"
    /\ expanded = "off" /\ labels = "off" /\ resolved = "off" /\ pending = "off"
    /\ task = "off" /\ kept = "off" /\ failed = "off" /\ printed = "off"
McpRests ==
    /\ sent = <<>> /\ at = 0 /\ pc = "ended"
    /\ library = "off" /\ edits = "off" /\ pool = "off" /\ lease = "off" /\ effects = "off"
    /\ answers = "off"
TransfersRest ==
    /\ tasks = <<>> /\ cancelled = {} /\ step = [r \in Runners |-> "off"]
    /\ id = [r \in Runners |-> None]
    /\ sending = [i \in T!Ids |-> FALSE] /\ caller = [i \in T!Ids |-> FALSE]
    /\ order = "off" /\ next_id = "off" /\ max_retained = "off" /\ job = "off"
    /\ outcome = "off" /\ queue = "off" /\ emitted = "off" /\ bridge = "off"

Init ==
    \/ which = "daemon" /\ D!Init /\ ConfigRests /\ FleetRests /\ McpRests /\ TransfersRest
    \/ which = "config" /\ DaemonRests /\ FleetRests /\ McpRests /\ TransfersRest
       /\ U!Init /\ (files \in Trees => host \in {<<"x">>, <<>>})
    \/ which = "fleet" /\ F!Init /\ DaemonRests /\ ConfigRests /\ McpRests /\ TransfersRest
    \/ which = "mcp" /\ M!Init /\ DaemonRests /\ ConfigRests /\ FleetRests
       /\ TransfersRest
    \/ which = "transfers" /\ T!Init /\ DaemonRests /\ ConfigRests /\ FleetRests /\ McpRests

\* All has been done; the MCP server may wait for its client at any time.
Quiet ==
    /\ \/ which = "daemon" /\ \A c \in Procs : kssh[c].pc \in {"done", "failed"}
       \/ which = "config" /\ result # "running"
       \/ which = "fleet" /\ phase \in {"ok", "err"}
       \/ which = "mcp"
    /\ UNCHANGED vars

Next ==
    \/ which = "daemon" /\ D!Next /\ UNCHANGED <<which, configVars, fleetVars, mcpVars, transferVars>>
    \/ which = "config" /\ U!Next /\ UNCHANGED <<which, daemonVars, fleetVars, mcpVars, transferVars>>
    \/ which = "fleet" /\ F!Next /\ UNCHANGED <<which, daemonVars, configVars, mcpVars, transferVars>>
    \/ which = "mcp" /\ M!Next /\ UNCHANGED <<which, daemonVars, configVars, fleetVars, transferVars>>
    \/ which = "transfers" /\ T!Next
       /\ UNCHANGED <<which, daemonVars, configVars, fleetVars, mcpVars>>
    \/ Quiet

\* The fairness of the five modules, without that of the runners (see TaskEnds).  The
\* runtime polls the spawned progress bridge, whose select! picks a ready branch at
\* random: neither the interval nor the queue is starved.
Spec ==
    /\ Init /\ [][Next]_vars
    /\ \A c \in Procs : /\ WF_daemonVars(which = "daemon" /\ D!ProcStep(c))
                        /\ WF_daemonVars(which = "daemon" /\ (D!Handler(c) \/ D!Finishes(c)))
    /\ WF_daemonVars(which = "daemon" /\ daemon = "stopping" /\ D!DaemonEnds)
    /\ WF_configVars(which = "config" /\ U!Next)
    /\ WF_fleetVars(which = "fleet" /\ F!Main)
    /\ \A h \in Hosts : WF_fleetVars(which = "fleet" /\ F!Task(h))
    /\ WF_mcpVars(which = "mcp" /\ M!Server)
    /\ \A i \in T!Ids : /\ WF_transferVars(which = "transfers" /\ T!BridgeRecords(i))
                        /\ WF_transferVars(which = "transfers" /\ T!BridgeEnds(i))
                        /\ WF_transferVars(which = "transfers" /\ T!BridgePolls(i))

-----------------------------------------------------------------------------
(* The daemon.  Whatever becomes of it, a command is carried out at most once, *)
(* the direct fallback included (run_exec, is_endpoint_unavailable; the        *)
(* command here does not write to a pipe).  A process that ends with an exit   *)
(* status has been given all the output (handle_exec, handle_shell).  No       *)
(* handler is sent a frame it does not expect by a DaemonClient.  No more are  *)
(* served than there are slots.                                                *)
Served ==
    which = "daemon" => /\ D!TypeOK /\ D!ExecutedOnce /\ D!OutputWhole
                        /\ D!FramesExpected

(* The configuration.  The expansion emits the options that hold for the host, *)
(* in the order of the files and Includes, and nothing else                    *)
(* (expand_connection_file_inner); the catalog lists each host the user could  *)
(* name, and no pattern (parse_host_catalog); a configuration is refused only  *)
(* for a cause (enter_file, active_paths).                                     *)
Resolved ==
    which = "config" => U!TypeOK /\ U!Resolved /\ U!Catalogued /\ U!RefusedForCause

(* kssh-fleet.  A secret is asked for, and a task started, only once every     *)
(* host asked for is known and has a configuration (main, parse_inventory).    *)
(* Success is reported only if the command succeeded on every host asked for   *)
(* and every result was printed.  Output is kept of at most --jobs hosts       *)
(* (validate_limits).                                                          *)
FleetSound ==
    which = "fleet" => F!TypeOK /\ F!Preflighted /\ F!SuccessMeansAll /\ F!OutputBounded

(* The MCP server.  Every line of a client but the blank ones and the          *)
(* notifications gets one response, with its id, in the order of the lines     *)
(* (main of kssh-mcp).  A route that a tool reports with its result is the one *)
(* the connection it used goes through (lease_for).                            *)
AnswersTrue ==
    which = "mcp" => M!TypeOK /\ M!OneAnswerEach /\ M!RouteReported

(* What was begun ends.  Every kssh process ends, whatever becomes of the      *)
(* daemon, and the daemon gives up the handler and the slot of one that is     *)
(* gone.  The expansion ends, whatever the files include (enter_file), and so  *)
(* does kssh-fleet if the remote commands do.  What an MCP client has written  *)
(* is read and answered, unless the server ends.  The task of a runner whose   *)
(* caller keeps waiting ends, if the runners are polled and transfers return   *)
(* (run_registered); a caller's cancellation reaches the token the copy loop   *)
(* polls, though the transfer may copy for ever and keep the progress queue    *)
(* busy.                                                                       *)
WorkEnds ==
    /\ D!RequestEnds /\ D!HandlerFreed /\ U!ExpansionEnds /\ F!FleetEnds
    /\ M!LinesHandled /\ T!TaskEnds /\ T!CancelReaches
=============================================================================

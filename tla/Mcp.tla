--------------------------------- MODULE Mcp ---------------------------------
(***************************************************************************)
(* The MCP server (kaduox-ssh-mcp): JSON-RPC requests on stdin, one a line *)
(* and one at a time; tools that read the host library, and tools that run *)
(* over a pooled connection.  Nothing tells the server that the library    *)
(* has changed: a connection it holds keeps the route it was made with.    *)
(* What a tool does on the remote is one step here, and the texts it reads *)
(* and returns are left out but for the route.                             *)
(***************************************************************************)
EXTENDS Naturals, Sequences, SequencesExt

CONSTANTS
    Aliases, Routes,
    Lines,          \* what a client may write on a line
    AllowExec, AllowMutations,
    MaxLines, MaxEdits

VARIABLES
    library,    \* alias -> the route the host library gives it, "none" without one
    edits,
    sent,       \* the lines written so far
    at,         \* how many of them the server has read
    pc,         \* "idle", "lease", "connect", "run", or "ended"
    pool,       \* alias -> the route of its connection, "none" without one
    lease,      \* [via, report]: the route of the lease, and what lease_for says it is
    effects,    \* what ran on a remote: [line, tool, via]
    answers     \* the responses: [id, ok, route]

vars == <<library, edits, sent, at, pc, pool, lease, effects, answers>>

NoLease == [via |-> "none", report |-> "none"]
NoId == 0
Queries == {"basic_info", "system_metrics"}
Mutating == {"upload", "download"}

Init ==
    /\ library \in [Aliases -> Routes] /\ edits = 0
    /\ sent = <<>> /\ at = 0 /\ pc = "idle"
    /\ pool = [a \in Aliases |-> "none"] /\ lease = NoLease
    /\ effects = {} /\ answers = <<>>

TypeOK ==
    /\ library \in [Aliases -> Routes \union {"none"}] /\ edits \in 0..MaxEdits
    /\ Len(sent) <= MaxLines /\ at \in 0..Len(sent)
    /\ pc \in {"idle", "lease", "connect", "run", "ended"}
    /\ pool \in [Aliases -> Routes \union {"none"}]
    /\ Len(answers) <= at
    /\ pc \in {"lease", "connect", "run"} => sent[at].kind = "call"

Current == sent[at]

\* The id of a response is that of the request, if it has one.
IdOf(n) == IF sent[n].id /\ sent[n].kind # "garbage" THEN n ELSE NoId

-----------------------------------------------------------------------------
(* The client, the library and the network *)
Write(line) ==
    /\ Len(sent) < MaxLines
    /\ sent' = Append(sent, line)
    /\ UNCHANGED <<library, edits, at, pc, pool, lease, effects, answers>>

\* Another program saves the library.
Edit(a, r) ==
    /\ edits < MaxEdits /\ library[a] # r
    /\ library' = [library EXCEPT ![a] = r] /\ edits' = edits + 1
    /\ UNCHANGED <<sent, at, pc, pool, lease, effects, answers>>

\* A connection is lost; get_lease does not give it again.
Lost(a) ==
    /\ pool[a] # "none" /\ pc # "ended"
    /\ pool' = [pool EXCEPT ![a] = "none"]
    /\ UNCHANGED <<library, edits, sent, at, pc, lease, effects, answers>>

-----------------------------------------------------------------------------
(* The server *)
\* The response is written before the next line is read.
Answer(n, ok, route) ==
    /\ answers' = Append(answers, [id |-> IdOf(n), ok |-> ok, route |-> route])
    /\ pc' = "idle" /\ lease' = NoLease

\* A tool that was not allowed at the start is not there, also when it is called by name.
Available(tool) ==
    /\ tool = "exec" => AllowExec
    /\ tool \in Mutating => AllowMutations

\* required_string and the validators of paths and commands.
Valid(call) == call.valid

\* call_tool, up to the lease: the arguments are checked first.
CallTool(n) ==
    LET call == sent[n]
    IN IF ~Available(call.tool) THEN Answer(n, FALSE, "none")
       ELSE IF call.tool = "list_hosts" THEN Answer(n, TRUE, "none")
       ELSE IF ~Valid(call) THEN Answer(n, FALSE, "none")
       ELSE IF call.tool = "route"
       THEN Answer(n, library[call.alias] # "none", library[call.alias])
       ELSE pc' = "lease" /\ UNCHANGED <<lease, answers>>

\* A line is read and handled.
Handle ==
    /\ pc = "idle" /\ at < Len(sent)
    /\ at' = at + 1
    /\ LET n == at + 1 IN
       CASE sent[n].kind \in {"blank", "notification"} -> UNCHANGED <<pc, lease, answers>>
         [] sent[n].kind \in {"garbage", "unknown", "malformed"} -> Answer(n, FALSE, "none")
         [] sent[n].kind \in {"initialize", "ping", "list"} -> Answer(n, TRUE, "none")
         [] sent[n].kind = "call" -> CallTool(n)
    /\ UNCHANGED <<library, edits, sent, pool, effects>>

LeaseForResolving ==
    /\ pc = "lease"
    /\ IF pool[Current.alias] # "none"
       THEN /\ lease' = [via |-> pool[Current.alias], report |-> library[Current.alias]]
            /\ pc' = "run" /\ UNCHANGED answers
       ELSE IF library[Current.alias] = "none" THEN Answer(at, FALSE, "none")
       ELSE /\ lease' = [via |-> "none", report |-> library[Current.alias]]
            /\ pc' = "connect" /\ UNCHANGED answers
    /\ UNCHANGED <<library, edits, sent, at, pool, effects>>

\* lease_for: a connection that is there is used with the configuration it has; otherwise
\* the library is read, and the connection made with what it says.
LeaseFor ==
    /\ pc = "lease"
    /\ IF pool[Current.alias] # "none"
       THEN /\ lease' = [via |-> pool[Current.alias], report |-> pool[Current.alias]]
            /\ pc' = "run" /\ UNCHANGED answers
       ELSE IF library[Current.alias] = "none" THEN Answer(at, FALSE, "none")
       ELSE /\ lease' = [via |-> "none", report |-> library[Current.alias]]
            /\ pc' = "connect" /\ UNCHANGED answers
    /\ UNCHANGED <<library, edits, sent, at, pool, effects>>

Connect(connected) ==
    /\ pc = "connect"
    /\ IF connected
       THEN /\ pool' = [pool EXCEPT ![Current.alias] = lease.report]
            /\ lease' = [lease EXCEPT !.via = lease.report] /\ pc' = "run" /\ UNCHANGED answers
       ELSE Answer(at, FALSE, "none") /\ UNCHANGED pool
    /\ UNCHANGED <<library, edits, sent, at, effects>>

Ran == effects' = effects \union {[line |-> at, tool |-> Current.tool, via |-> lease.via]}

\* parse_basic_info and parse_system_metrics: the marker and a host name are wanted.
Understood(text) == text = "known"

\* basic_info and system_metrics run a script, read what it prints and add the route.
Query(text) ==
    /\ pc = "run" /\ Current.tool \in Queries
    /\ LET ok == pool[Current.alias] = lease.via /\ Understood(text)
       IN Answer(at, ok, IF ok THEN lease.report ELSE "none")
    /\ Ran
    /\ UNCHANGED <<library, edits, sent, at, pool>>

\* list_files, exec, upload and download.
Operate(ok) ==
    /\ pc = "run" /\ Current.tool \notin Queries
    /\ ok => pool[Current.alias] = lease.via
    /\ Ran /\ Answer(at, ok, "none")
    /\ UNCHANGED <<library, edits, sent, at, pool>>

\* stdin ends, a line is too long, or the last response cannot be written.  During a call
\* the server reads nothing.
Ends ==
    /\ pc = "idle"
    /\ pc' = "ended" /\ pool' = [a \in Aliases |-> "none"]
    /\ UNCHANGED <<library, edits, sent, at, lease, effects, answers>>

Server == \/ Handle \/ LeaseFor
          \/ \E text \in {"known", "other"} : Query(text)
          \/ \E ok \in BOOLEAN : Connect(ok) \/ Operate(ok)

Next == \/ Server \/ Ends
        \/ \E line \in Lines : Write(line)
        \/ \E a \in Aliases : Lost(a) \/ \E r \in Routes \union {"none"} : Edit(a, r)

Spec == Init /\ [][Next]_vars
\* The server is one task that nothing else blocks, and a tool call ends.
FairSpec == Spec /\ WF_vars(Server)

-----------------------------------------------------------------------------
Handled == [i \in 1..(IF pc \in {"idle", "ended"} THEN at ELSE at - 1) |-> i]

(* Every line but the blank ones and the notifications gets one response, with *)
(* its id, and the responses come in the order of the lines.                   *)
OneAnswerEach ==
    LET wanted == SelectSeq(Handled, LAMBDA n : sent[n].kind \notin {"blank", "notification"})
    IN /\ Len(answers) = Len(wanted)
       /\ \A i \in DOMAIN answers : answers[i].id = IdOf(wanted[i])

(* A route that a tool reports with its result is the one the connection it    *)
(* used goes through, whatever has become of the library since.                *)
RouteReported ==
    \A i \in DOMAIN answers : \A e \in effects :
        answers[i].id = e.line /\ answers[i].route # "none" => answers[i].route = e.via

(* What the client has written is read and answered, unless the server ends.   *)
LinesHandled == <>[]((at = Len(sent) /\ pc = "idle") \/ pc = "ended")
=============================================================================

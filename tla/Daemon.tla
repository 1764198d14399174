------------------------------- MODULE Daemon -------------------------------
(***************************************************************************)
(* kssh-daemon, which keeps authenticated connections for short-lived kssh *)
(* processes: the connection handlers of server.rs, the DaemonClient of    *)
(* client.rs and kssh's use of it, with its fallback to a direct           *)
(* connection (daemon_cli.rs), joined by the frames of protocol.rs.        *)
(*                                                                         *)
(* Each process runs one command or one shell on the same host alias.  It  *)
(* asks the daemon first without credentials; when the daemon has no       *)
(* connection for the alias it asks again, with them, on a new stream.     *)
(* The daemon's pool is one slot here: ConnectionManager has it in full.   *)
(* Streams are unbounded, frames are never lost inside one.                *)
(***************************************************************************)
EXTENDS Naturals, Sequences, FiniteSets

CONSTANTS
    Procs,          \* kssh processes
    Op,             \* process -> "exec" or "shell"
    Slots,          \* connections the daemon serves at a time
    Outputs,        \* chunks of output of a command
    MaxInputs,      \* frames a shell sends: input, resize
    MaxJumpAuth,    \* MAX_JUMP_AUTH_ATTEMPTS
    MaxEdits,       \* edits of the host's configuration
    Piped           \* the processes whose stdout is a pipe, which its reader may close

VARIABLES
    kssh,       \* process -> its state, see TypeOK
    serving,    \* process -> the daemon's handler for its current stream
    toD, toK,   \* process -> the frames under way on that stream
    adrift,     \* the processes whose shell task outlives its handler
    cut,        \* process -> how the stream ended for it: "no", "eof", "reset"
    daemon,     \* "up", "stopping" (out of the accept loop) or "down"
    cached,     \* the configuration of the pooled connection, 0 for none
    config      \* the configuration the alias resolves to

vars == <<kssh, serving, toD, toK, adrift, cut, daemon, cached, config>>

Free == [pc |-> "none", auth |-> FALSE, attempt |-> 0, asked |-> 0,
         made |-> 0, piped |-> 0, ended |-> "no"]

Running == {c \in Procs : serving[c].pc = "run"}
Served == {c \in Procs : serving[c].pc \notin {"none", "backlog"}}

TypeOK ==
    /\ \A c \in Procs :
         /\ kssh[c].pc \in {"start", "wait", "stream", "direct", "done", "failed"}
         /\ kssh[c].pass \in 1..2 /\ kssh[c].got \in 0..Outputs
         /\ kssh[c].sent \in 0..MaxInputs /\ kssh[c].ran \in 0..2
         /\ serving[c].pc \in {"none", "backlog", "read", "resolved", "dial", "await", "run",
                               "protocol"}
         /\ cut[c] \in {"no", "eof", "reset"}
    /\ adrift \subseteq {c \in Procs : Op[c] = "shell"}
    /\ Cardinality(Served) <= Slots
    /\ daemon \in {"up", "stopping", "down"}
    /\ config \in 1..(MaxEdits + 1) /\ cached \in 0..config

Begun == [pc |-> "start", pass |-> 1, got |-> 0, sent |-> 0, ran |-> 0]

Init ==
    /\ kssh = [c \in Procs |-> Begun]
    /\ serving = [c \in Procs |-> Free]
    /\ toD = [c \in Procs |-> << >>] /\ toK = [c \in Procs |-> << >>]
    /\ cut = [c \in Procs |-> "no"] /\ adrift = {}
    /\ daemon = "up" /\ cached = 0 /\ config = 1

\* Of a process that failed only the number of commands it had run is kept.
To(c, s) == kssh' = [kssh EXCEPT ![c] = IF s = "failed"
                                        THEN [Begun EXCEPT !.pc = s, !.ran = kssh[c].ran]
                                        ELSE [@ EXCEPT !.pc = s]]
Send(c, f) == toK' = [toK EXCEPT ![c] = Append(@, f)]
Away(c) == kssh[c].pc \notin {"wait", "stream"}   \* its end of the stream is closed

\* A handler returns: its stream closes, and the process learns of it once it has
\* read what is in it; unread frames of its own turn the end into a reset.
LeaveUnread(c, frames, unread) ==
    /\ serving' = [serving EXCEPT ![c] = Free]
    /\ toK' = [toK EXCEPT ![c] = @ \o frames]
    /\ cut' = [cut EXCEPT ![c] = IF unread = << >> THEN "eof" ELSE "reset"]
Leave(c, frames) == LeaveUnread(c, frames, toD[c])

-----------------------------------------------------------------------------
(* The process: run_exec, run_shell and DaemonClient. *)

UnavailableAlways(pass, what) == what \in {"refused", "reset", "pipe", "eof"}

\* is_endpoint_unavailable, which only the first of the two requests looks at.  A
\* closed stdout is the same kind of error as a closed stream.
Unavailable(pass, what) == pass = 1 /\ what \in {"refused", "reset", "pipe"}

GiveUp(c, what) ==
    /\ To(c, IF Unavailable(kssh[c].pass, what) THEN "direct" ELSE "failed")
    /\ toD' = [toD EXCEPT ![c] = << >>] /\ toK' = [toK EXCEPT ![c] = << >>]

Connect(c) ==
    /\ kssh[c].pc = "start"
    /\ IF daemon = "down"
       THEN GiveUp(c, "refused") /\ UNCHANGED <<serving, cut>>
       ELSE /\ To(c, "wait")
            /\ toD' = [toD EXCEPT ![c] = <<Op[c]>>]
            /\ toK' = [toK EXCEPT ![c] = << >>]
            /\ cut' = [cut EXCEPT ![c] = "no"]
            /\ serving' = [serving EXCEPT ![c] = [Free EXCEPT !.pc = "backlog"]]
    /\ UNCHANGED <<adrift, daemon, cached, config>>

\* A frame of the daemon is read.  Credentials for a jump come from a prompt, and
\* only in the second request.
Receive(c) ==
    /\ kssh[c].pc \in {"wait", "stream"} /\ toK[c] # << >>
    /\ LET f == Head(toK[c])
           Take == toK' = [toK EXCEPT ![c] = Tail(@)]
       IN CASE f = "auth_required" ->
                 /\ IF kssh[c].pc = "wait" /\ kssh[c].pass = 1
                    THEN kssh' = [kssh EXCEPT ![c].pc = "start", ![c].pass = 2]
                    ELSE To(c, "failed")
                 /\ Take /\ UNCHANGED toD
            [] f = "cache" -> /\ To(c, IF Op[c] = "shell" THEN "stream" ELSE "wait")
                              /\ Take /\ UNCHANGED toD
            [] f = "challenge" ->
                 /\ \E a \in IF kssh[c].pass = 2 THEN {"answer", "decline"} ELSE {"decline"} :
                       toD' = [toD EXCEPT ![c] = IF cut[c] = "no" THEN Append(@, a) ELSE @]
                 /\ Take /\ UNCHANGED kssh
            [] f = "out" -> /\ kssh' = [kssh EXCEPT ![c].got = @ + 1]
                            /\ Take /\ UNCHANGED toD
            [] f = "exit" -> To(c, "done") /\ Take /\ UNCHANGED toD
            [] f = "error" -> To(c, "failed") /\ Take /\ UNCHANGED toD
    /\ UNCHANGED <<serving, adrift, cut, daemon, cached, config>>

\* Writing a chunk to stdout fails.
StdoutBreaks(c) ==
    /\ c \in Piped
    /\ kssh[c].pc \in {"wait", "stream"} /\ toK[c] # << >> /\ Head(toK[c]) = "out"
    /\ GiveUp(c, "pipe")
    /\ UNCHANGED <<serving, adrift, cut, daemon, cached, config>>

StreamEnds(c) ==
    /\ kssh[c].pc \in {"wait", "stream"} /\ toK[c] = << >> /\ cut[c] # "no"
    /\ GiveUp(c, cut[c])
    /\ UNCHANGED <<serving, adrift, cut, daemon, cached, config>>

\* The shell's input, window sizes and end of input, all "input" here, are sent once
\* the daemon has said "cache".
SendInput(c) ==
    /\ kssh[c].pc = "stream" /\ kssh[c].sent < MaxInputs
    /\ IF cut[c] = "no"
       THEN /\ kssh' = [kssh EXCEPT ![c].sent = @ + 1]
            /\ toD' = [toD EXCEPT ![c] = Append(@, "input")]
            /\ UNCHANGED toK
       ELSE GiveUp(c, "pipe")
    /\ UNCHANGED <<serving, adrift, cut, daemon, cached, config>>

\* try_run returned false: kssh connects by itself.
Direct(c) ==
    /\ kssh[c].pc = "direct"
    /\ kssh' = [kssh EXCEPT ![c].pc = "done", ![c].ran = @ + 1, ![c].got = Outputs]
    /\ UNCHANGED <<serving, toD, toK, adrift, cut, daemon, cached, config>>

Interrupted(c) ==
    /\ kssh[c].pc \in {"wait", "stream"}
    /\ To(c, "failed")
    /\ toK' = [toK EXCEPT ![c] = << >>]
    /\ UNCHANGED <<serving, toD, adrift, cut, daemon, cached, config>>

-----------------------------------------------------------------------------
(* The daemon: serve_default and handle_connection. *)

Accept(c) ==
    /\ serving[c].pc = "backlog" /\ daemon = "up"
    /\ IF Cardinality(Served) < Slots
       THEN serving' = [serving EXCEPT ![c].pc = "read"] /\ UNCHANGED <<toK, cut>>
       ELSE Leave(c, << >>)
    /\ UNCHANGED <<kssh, toD, adrift, daemon, cached, config>>

\* The request is read and its alias resolved against the host store.
ReadRequest(c) ==
    /\ serving[c].pc = "read" /\ toD[c] # << >>
    /\ serving' = [serving EXCEPT ![c].pc = "resolved",
                                  ![c].auth = kssh[c].pass = 2, ![c].asked = config]
    /\ toD' = [toD EXCEPT ![c] = Tail(@)]
    /\ UNCHANGED <<kssh, toK, adrift, cut, daemon, cached, config>>

\* "cache" is sent first, and nothing runs if that fails.
RunOn(c) ==
    IF Away(c)
    THEN Leave(c, << >>) /\ UNCHANGED kssh
    ELSE /\ serving' = [serving EXCEPT ![c].pc = "run"]
         /\ kssh' = [kssh EXCEPT ![c].ran = @ + 1]
         /\ Send(c, "cache")
         /\ UNCHANGED cut

\* acquire_client: a pooled connection is used if its configuration is the one
\* resolved for this request; an error in here ends the stream without a frame.
Acquire(c) ==
    /\ serving[c].pc = "resolved"
    /\ CASE cached = serving[c].asked -> RunOn(c)
         [] cached \notin {0, serving[c].asked} -> Leave(c, << >>) /\ UNCHANGED kssh
         [] cached = 0 /\ ~serving[c].auth -> Leave(c, <<"auth_required">>) /\ UNCHANGED kssh
         [] cached = 0 /\ serving[c].auth ->
                /\ serving' = [serving EXCEPT ![c].pc = "dial", ![c].attempt = 1]
                /\ UNCHANGED <<kssh, toK, cut>>
    /\ UNCHANGED <<toD, adrift, daemon, cached, config>>

\* connect_with_jump_auth returns a connection with the requested configuration,
\* fails, or asks for a jump's credentials over the stream.
DialOk(c) ==
    /\ serving[c].pc = "dial"
    /\ RunOn(c)
    /\ cached' = serving[c].asked
    /\ UNCHANGED <<toD, adrift, daemon, config>>

DialFails(c) ==
    /\ serving[c].pc = "dial"
    /\ Leave(c, << >>)
    /\ UNCHANGED <<kssh, toD, adrift, daemon, cached, config>>

Challenge(c) ==
    /\ serving[c].pc = "dial" /\ serving[c].attempt < MaxJumpAuth
    /\ IF Away(c)
       THEN Leave(c, << >>)
       ELSE /\ serving' = [serving EXCEPT ![c].pc = "await", ![c].attempt = @ + 1]
            /\ Send(c, "challenge")
            /\ UNCHANGED cut
    /\ UNCHANGED <<kssh, toD, adrift, daemon, cached, config>>

Answer(c) ==
    /\ serving[c].pc = "await" /\ (toD[c] # << >> \/ Away(c))
    /\ IF toD[c] = << >>
       THEN Leave(c, << >>) /\ UNCHANGED toD
       ELSE /\ toD' = [toD EXCEPT ![c] = Tail(@)]
            /\ CASE Head(toD[c]) = "answer" -> /\ serving' = [serving EXCEPT ![c].pc = "dial"]
                                               /\ UNCHANGED <<toK, cut>>
                 [] Head(toD[c]) = "decline" -> LeaveUnread(c, << >>, Tail(toD[c]))
                 [] OTHER -> /\ serving' = [serving EXCEPT ![c].pc = "protocol"]
                             /\ UNCHANGED <<toK, cut>>
    /\ UNCHANGED <<kssh, adrift, daemon, cached, config>>

\* The remote command writes output into the pipe between exec_stream (or the shell
\* task) and forward_output, and ends, or fails with the connection.
Produce(c) ==
    /\ serving[c].pc = "run" /\ serving[c].ended = "no" /\ serving[c].made < Outputs
    /\ serving' = [serving EXCEPT ![c].made = @ + 1, ![c].piped = @ + 1]
    /\ UNCHANGED <<kssh, toD, toK, adrift, cut, daemon, cached, config>>

RemoteEnds(c, how) ==
    /\ serving[c].pc = "run" /\ serving[c].ended = "no"
    /\ how = "exit" => serving[c].made = Outputs
    /\ serving' = [serving EXCEPT ![c].ended = how]
    /\ UNCHANGED <<kssh, toD, toK, adrift, cut, daemon, cached, config>>

\* forward_output: when the process is gone the write fails, the pipe closes and
\* the command's own writes fail.
Forward(c) ==
    /\ serving[c].pc = "run" /\ serving[c].piped > 0
    /\ IF Away(c)
       THEN Leave(c, << >>)
       ELSE /\ serving' = [serving EXCEPT ![c].piped = @ - 1]
            /\ Send(c, "out")
            /\ UNCHANGED cut
    /\ UNCHANGED <<kssh, toD, adrift, daemon, cached, config>>

\* The exit status, or the error, is sent once the forwarding tasks have ended.
Exit(c) ==
    /\ serving[c].pc = "run" /\ serving[c].ended # "no" /\ serving[c].piped = 0
    /\ Leave(c, <<serving[c].ended>>)
    /\ UNCHANGED <<kssh, toD, adrift, daemon, cached, config>>

ReadStreamKeepsShell(c) ==
    /\ serving[c].pc = "run" /\ Op[c] = "shell"
    /\ toD[c] # << >>
    /\ toD' = [toD EXCEPT ![c] = Tail(@)]
    /\ UNCHANGED <<kssh, serving, toK, adrift, cut, daemon, cached, config>>

\* handle_shell goes on reading.  Input for a shell that has ended cannot be written,
\* and the handler may find that out before it sees the end; what is in the pipe is
\* forwarded all the same.  The end of the stream aborts the shell task, whose channel
\* is closed; an error, as after a frame cut short or a reset, returns without that.
\* handle_exec does not read.
ReadStream(c) ==
    /\ serving[c].pc = "run" /\ Op[c] = "shell"
    /\ \/ /\ toD[c] # << >> /\ toD' = [toD EXCEPT ![c] = Tail(@)]
          /\ IF Head(toD[c]) = "input"
             THEN \/ UNCHANGED <<serving, toK, cut>>
                  \/ /\ serving[c].ended # "no"
                     /\ LeaveUnread(c, [i \in 1..serving[c].piped |-> "out"], Tail(toD[c]))
             ELSE serving' = [serving EXCEPT ![c].pc = "protocol"] /\ UNCHANGED <<toK, cut>>
          /\ UNCHANGED adrift
       \/ /\ toD[c] = << >> /\ Away(c)
          /\ Leave(c, << >>)
          /\ UNCHANGED <<toD, adrift>>
       \/ /\ Away(c)
          /\ Leave(c, << >>)
          /\ adrift' = IF serving[c].ended = "no" THEN adrift \cup {c} ELSE adrift
          /\ UNCHANGED toD
    /\ UNCHANGED <<kssh, daemon, cached, config>>

\* A shell task without a handler has seen the end of its input.  It ends when the
\* remote shell does, or when it writes: its output has nowhere to go.
AdriftEnds(c) ==
    /\ c \in adrift
    /\ adrift' = adrift \ {c}
    /\ UNCHANGED <<kssh, serving, toD, toK, cut, daemon, cached, config>>

\* A process left before its request was read or carried out.
Abandoned(c) ==
    /\ serving[c].pc \in {"backlog", "read"} /\ Away(c)
    /\ serving' = [serving EXCEPT ![c] = Free]
    /\ UNCHANGED <<kssh, toD, toK, adrift, cut, daemon, cached, config>>

\* Shutdown ends the accept loop; the process ends after close_all, or crashes, and
\* its handlers with it.
Shutdown ==
    /\ daemon = "up"
    /\ daemon' = "stopping"
    /\ UNCHANGED <<kssh, serving, toD, toK, adrift, cut, cached, config>>

DaemonEnds ==
    /\ daemon # "down"
    /\ daemon' = "down" /\ cached' = 0 /\ adrift' = {}
    /\ serving' = [c \in Procs |-> Free]
    /\ cut' = [c \in Procs |-> IF serving[c].pc = "none" THEN cut[c]
                               ELSE IF toD[c] = << >> THEN "eof" ELSE "reset"]
    /\ UNCHANGED <<kssh, toD, toK, config>>

\* Disconnect, idle pruning or a dead transport empties the pool.
Evict ==
    /\ cached # 0 /\ Running = {} /\ adrift = {}
    /\ cached' = 0
    /\ UNCHANGED <<kssh, serving, toD, toK, adrift, cut, daemon, config>>

EditHost ==
    /\ config <= MaxEdits
    /\ config' = config + 1
    /\ UNCHANGED <<kssh, serving, toD, toK, adrift, cut, daemon, cached>>

ProcStep(c) == Connect(c) \/ Receive(c) \/ StreamEnds(c) \/ Direct(c)
Handler(c) ==
    \/ Accept(c) \/ ReadRequest(c) \/ Acquire(c) \/ DialOk(c) \/ DialFails(c) \/ Answer(c)
    \/ Produce(c) \/ Forward(c) \/ Exit(c) \/ ReadStream(c) \/ Abandoned(c)

\* A command ends by itself; who sits at a shell leaves it, but only while it answers.
Finishes(c) == (Op[c] = "exec" \/ ~Away(c)) /\ RemoteEnds(c, "exit")

Next ==
    \/ \E c \in Procs : \/ ProcStep(c) \/ StdoutBreaks(c) \/ Interrupted(c)
                        \/ Handler(c) \/ Challenge(c) \/ SendInput(c) \/ AdriftEnds(c)
                        \/ \E how \in {"exit", "error"} : RemoteEnds(c, how)
    \/ Shutdown \/ DaemonEnds \/ Evict \/ EditHost

Spec == Init /\ [][Next]_vars

\* The tasks of both programs run, commands end as above, a connect ends (Connect has
\* its timeouts), and a daemon out of its accept loop ends.
Fairness == /\ \A c \in Procs : WF_vars(ProcStep(c)) /\ WF_vars(Handler(c) \/ Finishes(c))
            /\ WF_vars(daemon = "stopping" /\ DaemonEnds)
FairSpec == Spec /\ Fairness

-----------------------------------------------------------------------------
(* Whatever becomes of the daemon, a command is carried out at most once,   *)
(* the direct fallback included: kssh falls back only on errors that mean   *)
(* the daemon did not take the request (run_exec, is_endpoint_unavailable). *)
(* Not so for a command whose own stdout breaks, which the code takes for a *)
(* broken stream to the daemon.                                             *)
ExecutedOnce == \A c \in Procs \ Piped : Op[c] = "exec" => kssh[c].ran <= 1

(* A process that ends with an exit status has been given all the output,   *)
(* though output and status reach it through different tasks (handle_exec,  *)
(* handle_shell).                                                           *)
OutputWhole == \A c \in Procs : kssh[c].pc = "done" => kssh[c].got = Outputs

(* No handler is sent a frame it does not expect at that point by a process *)
(* that uses DaemonClient.                                                  *)
FramesExpected == \A c \in Procs : serving[c].pc # "protocol"

(* Every process ends, whatever becomes of the daemon.                      *)
RequestEnds == <>[](\A c \in Procs : kssh[c].pc \in {"done", "failed"})

(* The daemon does not go on serving a process that is gone: its handler,   *)
(* and with it the slot, is given up.  (The channel of a shell is too,      *)
(* unless the stream ended in an error: see AdriftEnds.)                    *)
HandlerFreed == <>[](\A c \in Procs : Away(c) => serving[c].pc = "none")
=============================================================================

------------------------------ MODULE Channels ------------------------------
(***************************************************************************)
(* The calls that share one SshClient: exec_stream, interactive_shell and  *)
(* the opening of an SFTP session (client.rs), with the detection of the   *)
(* remote platform they wait for.                                          *)
(*                                                                         *)
(* A call owns one channel of the transport.  A caller may drop a call at  *)
(* any await; each wait for the server has a timeout, after which the call *)
(* fails while the server's answer may still be under way.                 *)
(***************************************************************************)
EXTENDS Naturals, FiniteSets

CONSTANTS
    Calls,
    Kind,           \* call -> "exec", "shell" or "sftp"
    Sudo,           \* the calls made for another user
    Remotes,        \* what the server is: subset of {"unix", "windows"}
    MaxLapses       \* timeouts, drops and failed probes in a behaviour

VARIABLES
    remote,     \* what the server is
    call,       \* call -> where it is
    chan,       \* call -> its channel at the server
    closing,    \* the calls whose guard has a close under way
    detected,   \* platform_detected: "none", a platform, or the call that probes
    manual,     \* platform_manual
    used,       \* call -> the platform it went by
    preset,     \* the calls that went by platform_manual
    lapses

vars == <<remote, call, chan, closing, detected, manual, used, preset, lapses>>

Platforms == {"unix", "windows"}
Steps == {"idle", "platform", "waiting", "pwsh", "opening", "request", "run", "ended"}

\* What closes the channel when the call is dropped: ShellChannel, or the stream of
\* an SFTP session once its subsystem is granted.
Owned(c) == Kind[c] \in {"exec", "shell"} \/ call[c] = "run"

TypeOK ==
    /\ remote \in Remotes
    /\ \A c \in Calls : /\ call[c] \in Steps
                        /\ chan[c] \in {"none", "asked", "open", "closed"}
                        /\ used[c] \in Platforms \cup {"none"}
    /\ closing \subseteq {c \in Calls : chan[c] = "open"}
    /\ detected \in Platforms \cup Calls \cup {"none"}
    /\ manual \in Platforms \cup {"none"}
    /\ lapses \in 0..MaxLapses

Init ==
    /\ remote \in Remotes
    /\ call = [c \in Calls |-> "idle"] /\ chan = [c \in Calls |-> "none"]
    /\ closing = {}
    /\ detected = "none" /\ manual = "none"
    /\ used = [c \in Calls |-> "none"] /\ preset = {}
    /\ lapses = 0

\* exec asks for the platform first, the others open their channel first.
Begin(c) ==
    /\ call[c] = "idle"
    /\ call' = [call EXCEPT ![c] = IF Kind[c] = "exec" THEN "platform" ELSE "opening"]
    /\ chan' = [chan EXCEPT ![c] = IF Kind[c] = "exec" THEN @ ELSE "asked"]
    /\ UNCHANGED <<remote, closing, detected, manual, used, preset, lapses>>

OpenConfirmed(c) ==
    /\ call[c] = "opening" /\ chan[c] = "asked"
    /\ chan' = [chan EXCEPT ![c] = "open"]
    /\ call' = [call EXCEPT ![c] = IF Kind[c] = "shell" THEN "platform" ELSE "request"]
    /\ UNCHANGED <<remote, closing, detected, manual, used, preset, lapses>>

\* What the call does on platform p: a sudo command is refused on Windows, and a
\* shell there first looks for PowerShell 7.
Goes(c, p) ==
    /\ used' = [used EXCEPT ![c] = p]
    /\ IF c \in Sudo /\ p = "windows"
       THEN /\ call' = [call EXCEPT ![c] = "ended"]
            /\ closing' = IF chan[c] = "open" THEN closing \cup {c} ELSE closing
            /\ UNCHANGED chan
       ELSE /\ call' = [call EXCEPT ![c] = CASE Kind[c] = "exec" -> "opening"
                                             [] p = "windows" -> "pwsh"
                                             [] OTHER -> "request"]
            /\ chan' = [chan EXCEPT ![c] = IF Kind[c] = "exec" THEN "asked" ELSE @]
            /\ UNCHANGED closing

\* remote_platform: the manual value, or what the cell holds or will hold.
AskPlatform(c) ==
    /\ call[c] = "platform"
    /\ IF manual # "none"
       THEN Goes(c, manual) /\ preset' = preset \cup {c}
       ELSE /\ call' = [call EXCEPT ![c] = "waiting"]
            /\ UNCHANGED <<chan, closing, used, preset>>
    /\ UNCHANGED <<remote, detected, manual, lapses>>

\* get_or_init: the value, or the right to look for it when nobody does.
Cell(c) ==
    /\ call[c] = "waiting"
    /\ \/ /\ detected \in Platforms /\ Goes(c, detected)
          /\ UNCHANGED detected
       \/ /\ detected = "none"
          /\ detected' = c
          /\ UNCHANGED <<call, chan, closing, used>>
    /\ UNCHANGED <<remote, manual, preset, lapses>>

\* detect_remote_platform: `uname', `ver', PowerShell; when none of them answers
\* the server is taken for Unix.
Probed(c, p) ==
    /\ call[c] = "waiting" /\ detected = c
    /\ \/ p = remote /\ UNCHANGED lapses
       \/ p = "unix" /\ remote # "unix" /\ lapses < MaxLapses /\ lapses' = lapses + 1
    /\ detected' = p
    /\ Goes(c, p) /\ UNCHANGED <<remote, manual, preset>>

\* windows_shell_command: found or not, the shell is requested next.
PwshProbed(c) ==
    /\ call[c] = "pwsh"
    /\ call' = [call EXCEPT ![c] = "request"]
    /\ UNCHANGED <<remote, chan, closing, detected, manual, used, preset, lapses>>

SetPlatform(p) ==
    /\ manual = "none"
    /\ manual' = p
    /\ UNCHANGED <<remote, call, chan, closing, detected, used, preset, lapses>>

\* The server grants the exec, shell or subsystem request; then the command runs
\* until the server closes the channel.
Granted(c) ==
    /\ call[c] = "request"
    /\ call' = [call EXCEPT ![c] = "run"]
    /\ UNCHANGED <<remote, chan, closing, detected, manual, used, preset, lapses>>

ServerCloses(c) ==
    /\ call[c] = "run"
    /\ call' = [call EXCEPT ![c] = "ended"]
    /\ chan' = [chan EXCEPT ![c] = "closed"]
    /\ UNCHANGED <<remote, closing, detected, manual, used, preset, lapses>>

LapseKeepsCell(c) ==
    /\ call[c] \in {"platform", "waiting", "opening", "pwsh", "request", "run"}
    /\ lapses < MaxLapses
    /\ lapses' = lapses + 1
    /\ call' = [call EXCEPT ![c] = "ended"]
    /\ closing' = IF Owned(c) /\ chan[c] = "open" THEN closing \cup {c} ELSE closing
    /\ UNCHANGED <<remote, chan, detected, manual, used, preset>>

\* A timeout or a dropped call.  The guard ShellChannel closes the channel from a
\* task of its own; a probe given up is free for the next call to make.
Lapse(c) ==
    /\ call[c] \in {"platform", "waiting", "opening", "pwsh", "request", "run"}
    /\ lapses < MaxLapses
    /\ lapses' = lapses + 1
    /\ call' = [call EXCEPT ![c] = "ended"]
    /\ closing' = IF Owned(c) /\ chan[c] = "open" THEN closing \cup {c} ELSE closing
    /\ detected' = IF detected = c THEN "none" ELSE detected
    /\ UNCHANGED <<remote, chan, manual, used, preset>>

Closed(c) ==
    /\ c \in closing
    /\ chan' = [chan EXCEPT ![c] = "closed"]
    /\ closing' = closing \ {c}
    /\ UNCHANGED <<remote, call, detected, manual, used, preset, lapses>>

\* The server confirms a channel nobody waits for any more.
OpenLate(c) ==
    /\ call[c] = "ended" /\ chan[c] = "asked"
    /\ chan' = [chan EXCEPT ![c] = "open"]
    /\ UNCHANGED <<remote, call, closing, detected, manual, used, preset, lapses>>

Client(c) == AskPlatform(c) \/ Cell(c) \/ Closed(c) \/ \E p \in Platforms : Probed(c, p)
Server(c) == OpenConfirmed(c) \/ PwshProbed(c) \/ Granted(c) \/ ServerCloses(c)

Next ==
    \/ \E c \in Calls : Begin(c) \/ Client(c) \/ Server(c) \/ Lapse(c) \/ OpenLate(c)
    \/ \E p \in Platforms : SetPlatform(p)

Spec == Init /\ [][Next]_vars

\* Client steps run, and here the server answers in the end: what happens when it
\* does not is Lapse.
Fairness == \A c \in Calls : WF_vars(Client(c)) /\ WF_vars(Server(c))
FairSpec == Spec /\ Fairness

-----------------------------------------------------------------------------
(* All calls of a client go by one detected platform: a second probe, after *)
(* the first was given up or beside it, never changes the answer            *)
(* (platform_detected).                                                     *)
OnePlatform ==
    \A c, d \in Calls :
        used[c] # "none" /\ used[d] # "none" /\ c \notin preset /\ d \notin preset => used[c] = used[d]

(* A channel owned by a command, a shell or a stream is closed in the end, however *)
(* the call ended (ShellChannel).                                           *)
ChannelClosed == \A c \in Calls : Owned(c) /\ call[c] \in {"request", "run"}
                                     ~> chan[c] = "closed"

(* A call that is waiting for the platform gets it or is given up, even     *)
(* when the call that was probing is given up (get_or_init).                *)
PlatformFound == <>[](\A c \in Calls : call[c] # "waiting")
=============================================================================

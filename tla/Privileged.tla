----------------------------- MODULE Privileged -----------------------------
(***************************************************************************)
(* upload_privileged and upload_privileged_recursive (privileged.rs): the  *)
(* login user stages a file or a tree under /tmp, then one remote command  *)
(* run through sudo installs it, then what was staged is removed.          *)
(*                                                                         *)
(* The install command is a process of its own: any of its steps may fail, *)
(* it may be killed, and it may go on after the connection is lost.        *)
(***************************************************************************)
EXTENDS Naturals, Sequences

VARIABLES
    kind,       \* "file" or "tree"
    call,       \* where the call is
    staging,    \* the staging path: "none", "foreign", "partial" or "whole"
    work,       \* the path beside the destination: "none", "stale", "partial", "whole",
                \* or "dir", where a file is expected
    target,     \* the destination: "none", "old", "partial", "new", or "dir" likewise
    script,     \* what is left of the install command
    exit,       \* its exit status: "running", "zero", "other" or "none"
    link,       \* the connection is up
    result

vars == <<kind, call, staging, work, target, script, exit, link, result>>

Calls == {"create", "stage", "install", "clean", "cleanWork", "done"}

TypeOK ==
    /\ kind \in {"file", "tree"}
    /\ call \in Calls
    /\ staging \in {"none", "foreign", "partial", "whole"}
    /\ work \in {"none", "stale", "dir", "partial", "whole"}
    /\ target \in {"none", "old", "dir", "partial", "new"}
    /\ exit \in {"running", "zero", "other", "none"}
    /\ (script # <<>>) = (exit = "running")
    /\ result \in {"none", "ok", "error"}

Init ==
    /\ kind \in {"file", "tree"}
    /\ call = "create"
    /\ staging \in {"none", "foreign"}
    /\ work \in {"none", "stale"} \cup (IF kind = "file" THEN {"dir"} ELSE {})
    /\ target \in {"none", "old"} \cup (IF kind = "file" THEN {"dir"} ELSE {})
    /\ script = <<>> /\ exit = "none"
    /\ link = TRUE
    /\ result = "none"

Returns(r) == call' = "done" /\ result' = r

-----------------------------------------------------------------------------
\* The exclusive creation of the staging name: a directory for a tree
\* (create_privileged_staging_directory), a file published without replacement by
\* the atomic upload otherwise.  An entry that is there already ends the call.
Create ==
    /\ call = "create"
    /\ IF staging = "none" /\ link
       THEN /\ staging' = "partial" /\ call' = "stage"
            /\ UNCHANGED result
       ELSE Returns("error") /\ UNCHANGED staging
    /\ UNCHANGED <<kind, work, target, script, exit, link>>

\* The upload fails; a tree's staging directory is then removed over the same
\* connection, a file's temporary object by the upload itself.
StageFails ==
    /\ call = "stage"
    /\ staging' = IF link THEN "none" ELSE staging
    /\ Returns("error")
    /\ UNCHANGED <<kind, work, target, script, exit, link>>

\* The steps of the install command: `install' and `mv -f' for a file,
\* privileged_tree_install_command for a tree.
Install == IF kind = "file" THEN <<"copyToWork", "mvWork">>
           ELSE <<"rmWork", "mkWork", "copyToWork", "rmTarget", "mvWork">>

Staged ==
    /\ call = "stage" /\ link
    /\ staging' = "whole"
    /\ call' = "install"
    /\ script' = Install
    /\ exit' = "running"
    /\ UNCHANGED <<kind, work, target, link, result>>

-----------------------------------------------------------------------------
\* A step of the remote command.  `install' and `mv' put a file into a directory that
\* has the name it should get, and a directory is not moved over a file.
ScriptSteps ==
    /\ exit = "running" /\ script # <<>>
    /\ ~(Head(script) = "mvWork" /\ work = "dir" /\ target = "old")
    /\ script' = Tail(script)
    /\ LET step == Head(script)
       IN /\ work' = CASE step = "rmWork" -> "none"
                       [] step = "mkWork" -> "partial"
                       [] step = "copyToWork" -> IF work = "dir" THEN "dir" ELSE "whole"
                       [] step = "mvWork" -> "none"
                       [] OTHER -> work
          /\ target' = CASE step = "rmTarget" -> "none"
                         [] step = "mvWork" -> IF "dir" \in {work, target} THEN "dir"
                                               ELSE IF work = "whole" THEN "new"
                                               ELSE "partial"
                         [] step = "copyToTarget" -> "new"
                         [] OTHER -> target
    /\ exit' = IF Tail(script) = <<>> THEN "zero" ELSE exit
    /\ UNCHANGED <<kind, call, staging, link, result>>

\* What the step Head(script) leaves when it fails half way.
Halfway ==
    /\ work' = IF Head(script) = "copyToWork" /\ work # "dir" THEN "partial" ELSE work
    /\ target' = IF Head(script) = "copyToTarget" THEN "partial" ELSE target

\* A failing step ends the command (`&&', `set -e').
ScriptFails ==
    /\ exit = "running" /\ script # <<>>
    /\ Halfway
    /\ script' = <<>>
    /\ exit' = "other"
    /\ UNCHANGED <<kind, call, staging, link, result>>

\* The command is killed and reports no status.
ScriptKilled ==
    /\ exit = "running" /\ script # <<>>
    /\ Halfway
    /\ script' = <<>>
    /\ exit' = "none"
    /\ UNCHANGED <<kind, call, staging, link, result>>

LinkLost ==
    /\ link /\ call # "done"
    /\ link' = FALSE
    /\ UNCHANGED <<kind, call, staging, work, target, script, exit, result>>

-----------------------------------------------------------------------------
NotRefused == exit # "other"

\* ensure_privileged_install_success: only status 0 is success.
Succeeded == exit = "zero"

\* exec returns when the command has ended or the connection has.
ExecReturns ==
    /\ call = "install"
    /\ exit # "running" \/ ~link
    /\ call' = "clean"
    /\ result' = IF link /\ Succeeded THEN "ok" ELSE "error"
    /\ UNCHANGED <<kind, staging, work, target, script, exit, link>>

\* The staging path is removed as far as the connection allows, and a tree's work
\* path after it; neither changes the outcome.
Clean ==
    /\ call = "clean"
    /\ staging' = IF link THEN "none" ELSE staging
    /\ call' = IF kind = "tree" THEN "cleanWork" ELSE "done"
    /\ UNCHANGED <<kind, work, target, script, exit, link, result>>

CleanWork ==
    /\ call = "cleanWork"
    /\ work' = IF link THEN "none" ELSE work
    /\ call' = "done"
    /\ UNCHANGED <<kind, staging, target, script, exit, link, result>>

Next == \/ Create \/ StageFails \/ Staged
        \/ ScriptSteps \/ ScriptFails \/ ScriptKilled \/ LinkLost
        \/ ExecReturns \/ Clean \/ CleanWork

Spec == Init /\ [][Next]_vars

-----------------------------------------------------------------------------
(* However the install command ends, and whether or not the client is there *)
(* to see it, the destination is never a part of what was uploaded: a file  *)
(* is the old one or the whole new one, a tree may be absent (the           *)
(* documented gap) but is never half installed.                             *)
InstalledWhole == /\ target # "partial"
                  /\ kind = "file" /\ target = "none" => exit # "zero"

(* An upload that reports success has installed the new content: a command  *)
(* that ended without saying how is not taken for one that succeeded.  The  *)
(* exception is a file whose destination, or the path beside it, is a       *)
(* directory: the file is then somewhere in the directory at the            *)
(* destination, and the call reports success all the same.                  *)
ReportedInstalled == result = "ok" => target = "new" \/ (kind = "file" /\ target = "dir")

(* An entry somebody else has at the staging path is left alone, by the     *)
(* upload and by the cleanup after its failure.                             *)
ForeignKept == [][staging = "foreign" => staging' = "foreign"]_vars
=============================================================================

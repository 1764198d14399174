------------------------------- MODULE Connect -------------------------------
(***************************************************************************)
(* How an SshClient is connected and closed: connect_with_jump_auth and    *)
(* connect_via_jumps of client.rs, the check of a server's key             *)
(* (handler.rs, host_trust.rs) and authenticate of auth.rs.                *)
(*                                                                         *)
(* A route is the chain of hosts to the target, each reached through the   *)
(* one before it.  The same user connects again and again, with one        *)
(* known_hosts file that other processes also write, to servers that may   *)
(* come back with another key.  What a server or a credential provider     *)
(* answers is a free choice; every await of the code may also fail or time *)
(* out instead, and the `?' behind it drops every handle made so far.      *)
(***************************************************************************)
EXTENDS Naturals, Sequences, FiniteSets

CONSTANTS
    Keys,                       \* host keys
    Algorithm,                  \* key -> its algorithm
    Sites,                      \* what does not change, see TypeOK
    Identities,                 \* identity files that Auto tries
    MaxJumpAuthAttempts,        \* MAX_JUMP_AUTH_ATTEMPTS
    MaxRounds, MaxPromptsPerRound, MaxPrompts,
                                \* MAX_KEYBOARD_INTERACTIVE_...
    MaxConnects, MaxChanges     \* connects, and changes by others, in a behaviour,
                                \* for each length of the route

VARIABLES
    site,       \* the route and its hosts
    known,      \* known_hosts: host -> the keys recorded for it
    hostkey,    \* host -> the key its server has
    run,        \* the connect in progress, see Fresh
    held,       \* the positions on the route whose session handle we own
    open,       \* the positions whose session is up
    pinned,     \* host -> the keys it was accepted with as known or learned
    lost,       \* a session of this connect went down by itself
    connects, changes

vars == <<site, known, hostkey, run, held, open, pinned, lost, connects, changes>>

Fresh == [step |-> "idle", at |-> 1, authed |-> {}, key |-> << >>,
          attempt |-> 0, kind |-> "none", method |-> "none", sibling |-> FALSE,
          rounds |-> 0, prompts |-> 0, file |-> 0, failed |-> FALSE]

Kinds == {"password", "kbd", "key", "agent", "auto"}
Host(i) == site.route[i]
Hosts == {Host(i) : i \in DOMAIN site.route}
Target == Len(site.route)

TypeOK ==
    /\ \A h \in Hosts : /\ site.policy[h] \in {"strict", "accept_new", "insecure"}
                        /\ site.ca[h] \in {"none", "trusted", "revoked"}
                        /\ site.methods[h] \subseteq {"password", "kbd"}
    /\ site.keys \subseteq Keys /\ site.revoked \subseteq Keys /\ site.login \in Kinds
    /\ run.step \in {"idle", "dial", "handshake", "learn", "ask", "auth", "connected",
                     "closing"}
    /\ run.at \in DOMAIN site.route /\ run.attempt \in 0..MaxJumpAuthAttempts
    /\ run.rounds \in 0..MaxRounds /\ run.prompts \in 0..MaxPrompts
    /\ open \subseteq held /\ held \subseteq DOMAIN site.route
    /\ \A h \in Hosts : known[h] \subseteq site.keys /\ hostkey[h] \in site.keys

Init ==
    /\ site \in Sites
    /\ \E k \in site.keys : /\ hostkey = [h \in Hosts |-> k]
                            /\ \E s \in {{}, {k}} : known = [h \in Hosts |-> s]
    /\ run = Fresh
    /\ held = {} /\ open = {}
    /\ pinned = [h \in Hosts |-> {}]
    /\ lost = FALSE
    /\ connects = 0 /\ changes = 0

\* A session goes down with its handle, and takes along those tunnelled in it.
Carried(up, kept) == {i \in up : 1..i \subseteq kept}

\* The function returns: every handle it owns is dropped.
End ==
    /\ run' = Fresh
    /\ held' = {} /\ open' = {}
    /\ lost' = FALSE

Start ==
    /\ run.step = "idle" /\ connects < MaxConnects[Target]
    /\ run' = [Fresh EXCEPT !.step = "dial"]
    /\ connects' = connects + 1
    /\ UNCHANGED <<site, known, hostkey, held, open, pinned, lost, changes>>

\* The tunnel to the next host is opened over the session of the one before it,
\* which is kept.
Dial ==
    /\ run.step = "dial"
    /\ run.at > 1 => run.at - 1 \in open
    /\ run' = [run EXCEPT !.step = "handshake"]
    /\ UNCHANGED <<site, known, hostkey, held, open, pinned, lost, connects, changes>>

\* What is next once the server's key is accepted: a jump asks for credentials.
Entered(r, k) ==
    [r EXCEPT !.key = Append(@, k),
              !.step = IF run.at < Target THEN "ask" ELSE "auth",
              !.kind = IF run.at < Target THEN "none" ELSE site.login,
              !.method = CASE run.at < Target -> "none"
                           [] site.login = "auto" -> "agent"
                           [] OTHER -> site.login,
              !.attempt = 1, !.rounds = 0, !.prompts = 0,
              !.file = 1, !.failed = FALSE, !.sibling = FALSE]

Trust(k) ==
    /\ run' = Entered(run, k)
    /\ held' = held \cup {run.at}
    /\ open' = Carried(open \cup {run.at}, held')
    /\ UNCHANGED <<site, known, hostkey, lost, connects, changes>>

\* verify_host_certificate: a host certificate within its validity, for this
\* name (fits), of an authority trusted here and not revoked.
CertificateHolds(h, k, fits) ==
    fits /\ k \notin site.revoked /\ site.ca[h] = "trusted"

\* check_known_hosts: a recorded key that differs is an error if it is of the same
\* algorithm, and says nothing if it is of another.
Lookup(h, k) == IF \E l \in known[h] \ {k} : Algorithm[l] = Algorithm[k] THEN "changed"
                ELSE IF k \in known[h] THEN "known" ELSE "unknown"

CheckCertificate(fits) ==
    LET h == Host(run.at)  k == hostkey[h] IN
    /\ run.step = "handshake"
    /\ IF site.policy[h] # "insecure" /\ CertificateHolds(h, k, fits)
       THEN Trust(k) /\ UNCHANGED pinned
       ELSE End /\ UNCHANGED <<site, known, hostkey, pinned, connects, changes>>

CheckKey ==
    LET h == Host(run.at)
        k == hostkey[h]
        Ends == End /\ UNCHANGED <<site, known, hostkey, pinned, connects, changes>>
    IN
    /\ run.step = "handshake"
    /\ CASE k \in site.revoked -> Ends
         [] k \notin site.revoked /\ site.policy[h] = "insecure" -> Trust(k) /\ UNCHANGED pinned
         [] k \notin site.revoked /\ site.policy[h] # "insecure" ->
            CASE Lookup(h, k) = "known" -> Trust(k) /\ pinned' = [pinned EXCEPT ![h] = @ \cup {k}]
              [] Lookup(h, k) = "unknown" /\ site.policy[h] = "accept_new" ->
                    /\ run' = [run EXCEPT !.step = "learn", !.key = Append(@, k)]
                    /\ UNCHANGED <<site, known, hostkey, held, open, pinned, lost, connects,
                                   changes>>
              [] OTHER -> Ends

\* learn_known_hosts appends to the file; other processes may write it too between
\* the check and this.
LearnTrustsOnly ==
    LET h == Host(run.at)  k == run.key[run.at] IN
    /\ run.step = "learn"
    /\ run' = Entered([run EXCEPT !.key = SubSeq(@, 1, run.at - 1)], k)
    /\ held' = held \cup {run.at}
    /\ open' = Carried(open \cup {run.at}, held')
    /\ pinned' = [pinned EXCEPT ![h] = @ \cup {k}]
    /\ UNCHANGED <<site, known, hostkey, lost, connects, changes>>

Learn ==
    LET h == Host(run.at)  k == run.key[run.at] IN
    /\ run.step = "learn"
    /\ known' = [known EXCEPT ![h] = @ \cup {k}]
    /\ run' = Entered([run EXCEPT !.key = SubSeq(@, 1, run.at - 1)], k)
    /\ held' = held \cup {run.at}
    /\ open' = Carried(open \cup {run.at}, held')
    /\ pinned' = [pinned EXCEPT ![h] = @ \cup {k}]
    /\ UNCHANGED <<site, hostkey, lost, connects, changes>>

\* The providers of credentials for a jump give Auto first, or the desktop's the
\* password it has stored, and whatever they are given after a refusal.
Ask(kind) ==
    /\ run.step = "ask"
    /\ run.attempt = 1 => kind \in {"auto", "password"}
    /\ run' = [run EXCEPT !.step = "auth", !.kind = kind,
                          !.method = IF kind = "auto" THEN "agent" ELSE kind,
                          !.rounds = 0, !.prompts = 0, !.file = 1, !.failed = FALSE,
                          !.sibling = FALSE]
    /\ UNCHANGED <<site, known, hostkey, held, open, pinned, lost, connects, changes>>

\* authenticate returned Ok(true).
Accept ==
    /\ run.step = "auth" /\ run.at \in open
    /\ run' = IF run.at < Target
              THEN [run EXCEPT !.step = "dial", !.at = @ + 1, !.authed = @ \cup {run.at}]
              ELSE [run EXCEPT !.step = "connected", !.authed = @ \cup {run.at}]
    /\ UNCHANGED <<site, known, hostkey, held, open, pinned, lost, connects, changes>>

\* authenticate returned Ok(false): a jump may be tried again, up to the limit.
Refused(r) ==
    IF run.at < Target /\ run.attempt < MaxJumpAuthAttempts
    THEN /\ run' = [r EXCEPT !.step = "ask", !.attempt = @ + 1]
         /\ UNCHANGED <<held, open, lost>>
    ELSE End

Sibling(m) == IF m = "password" THEN "kbd" ELSE "password"

\* The secret goes to the other method only if the server no longer offers this one.
RetriesSibling(m) ==
    /\ ~run.sibling
    /\ m \notin site.methods[Host(run.at)]
    /\ Sibling(m) \in site.methods[Host(run.at)]

\* password, or the end of keyboard-interactive: the server refuses the credential
\* or, where it does not offer the method, the method.
RefuseSecret ==
    LET m == run.method IN
    /\ run.step = "auth" /\ run.at \in open /\ m \in {"password", "kbd"}
    /\ IF RetriesSibling(m)
       THEN /\ run' = [run EXCEPT !.method = Sibling(m), !.sibling = TRUE]
            /\ UNCHANGED <<held, open, lost>>
       ELSE Refused(run)
    /\ UNCHANGED <<site, known, hostkey, pinned, connects, changes>>

\* validate_keyboard_interactive_request
WithinLimits(rounds, count, before) ==
    /\ rounds <= MaxRounds
    /\ count <= MaxPromptsPerRound
    /\ before + count <= MaxPrompts

InfoRequest(count) ==
    /\ run.step = "auth" /\ run.at \in open
    /\ run.method = "kbd" /\ "kbd" \in site.methods[Host(run.at)]
    /\ IF WithinLimits(run.rounds + 1, count, run.prompts)
       THEN /\ run' = [run EXCEPT !.rounds = @ + 1, !.prompts = @ + count]
            /\ UNCHANGED <<held, open, lost>>
       ELSE End
    /\ UNCHANGED <<site, known, hostkey, pinned, connects, changes>>

\* The agent is out of reach or none of its keys is accepted: Auto goes on with
\* the identity files.
AgentFails ==
    /\ run.step = "auth" /\ run.at \in open /\ run.method = "agent"
    /\ IF run.kind = "auto"
       THEN /\ run' = [run EXCEPT !.method = "key"]
            /\ UNCHANGED <<held, open, lost>>
       ELSE Refused(run)
    /\ UNCHANGED <<site, known, hostkey, pinned, connects, changes>>

\* An identity file cannot be used (error) or is missing or refused: Auto tries
\* the next, and fails with the first error if there was one.
KeyFails(error) ==
    LET r == [run EXCEPT !.failed = @ \/ error, !.file = @ + 1] IN
    /\ run.step = "auth" /\ run.at \in open /\ run.method = "key"
    /\ IF run.kind = "auto" /\ run.file < Identities
       THEN run' = r /\ UNCHANGED <<held, open, lost>>
       ELSE IF r.failed THEN End ELSE Refused(r)
    /\ UNCHANGED <<site, known, hostkey, pinned, connects, changes>>

\* A timeout, an error, a declined prompt, an unreadable known_hosts file.
Breaks ==
    /\ run.step \in {"dial", "handshake", "learn", "ask", "auth"}
    /\ End
    /\ UNCHANGED <<site, known, hostkey, pinned, connects, changes>>

\* close disconnects the target first, and only then the jumps, in reverse.
Close ==
    /\ run.step = "connected"
    /\ run' = [run EXCEPT !.step = "closing", !.at = Target]
    /\ UNCHANGED <<site, known, hostkey, held, open, pinned, lost, connects, changes>>

Disconnect(ok) ==
    /\ run.step = "closing"
    /\ run.at = Target => ok = (Target \in open)
    /\ IF run.at = 1 \/ (run.at = Target /\ ~ok)
       THEN End
       ELSE /\ run' = [run EXCEPT !.at = @ - 1]
            /\ open' = open \ {run.at}
            /\ UNCHANGED <<held, lost>>
    /\ UNCHANGED <<site, known, hostkey, pinned, connects, changes>>

\* The world: a session goes down, a server shows another key, another process
\* records a key, whichever server it met.
SessionDies(i) ==
    /\ i \in open
    /\ changes < MaxChanges[Target]
    /\ open' = {j \in open : j < i}
    /\ lost' = TRUE
    /\ changes' = changes + 1
    /\ UNCHANGED <<site, known, hostkey, run, held, pinned, connects>>

Rekey(h, k) ==
    /\ k # hostkey[h] /\ changes < MaxChanges[Target]
    /\ hostkey' = [hostkey EXCEPT ![h] = k]
    /\ changes' = changes + 1
    /\ UNCHANGED <<site, known, run, held, open, pinned, lost, connects>>

OtherLearns(h, k) ==
    /\ k \notin known[h] /\ changes < MaxChanges[Target]
    /\ known' = [known EXCEPT ![h] = @ \cup {k}]
    /\ changes' = changes + 1
    /\ UNCHANGED <<site, hostkey, run, held, open, pinned, lost, connects>>

Connecting ==
    \/ Start
    \/ Dial
    \/ \E fits \in BOOLEAN : CheckCertificate(fits)
    \/ CheckKey
    \/ Learn
    \/ \E kind \in Kinds : Ask(kind)
    \/ Accept
    \/ RefuseSecret
    \/ \E count \in 0..(MaxPromptsPerRound + 1) : InfoRequest(count)
    \/ AgentFails
    \/ \E error \in BOOLEAN : KeyFails(error)

Others ==
    \/ \E i \in open : SessionDies(i)
    \/ \E h \in Hosts, k \in site.keys : Rekey(h, k) \/ OtherLearns(h, k)

Next ==
    \/ Connecting
    \/ Breaks
    \/ Close
    \/ \E ok \in BOOLEAN : Disconnect(ok)
    \/ Others

Spec == Init /\ [][Next]_vars

\* Every await of a connect has a timeout, except the one for a provider's
\* credentials: whoever is asked is assumed to answer or to go away.  Nothing is
\* assumed of servers.
Fairness == WF_vars(Breaks) /\ WF_vars(\E ok \in BOOLEAN : Disconnect(ok))
FairSpec == Spec /\ Fairness

-----------------------------------------------------------------------------
(* A host is dialled only through hosts of the route that have all accepted *)
(* a login, however many attempts each took (connect_via_jumps).            *)
HopsInOrder == run.step # "idle" => 1..(run.at - 1) \subseteq run.authed \/ run.step = "closing"

(* A connected client owns a session with every host of its route, and they *)
(* are all up unless one went down by itself (keepalive in connect_via_jumps). *)
RouteHeld ==
    run.step = "connected" => /\ held = DOMAIN site.route
                              /\ ~lost => open = DOMAIN site.route

(* A host that was once accepted with a key as known or learned is never    *)
(* accepted that way with another key of the same algorithm, though its     *)
(* server may change keys and others record any key for it, also between    *)
(* the check and the learning (check_server_key).  A key of another         *)
(* algorithm is learned as if the host were new.                            *)
KeyPinned == \A h \in Hosts : \A k, l \in pinned[h] : Algorithm[k] = Algorithm[l] => k = l

(* No session is up with a revoked key, whatever the host's policy          *)
(* (check_server_key looks for @revoked before it looks at the policy).     *)
RevokedRefused == \A i \in open : run.key[i] \notin site.revoked

(* A connect ends, whatever the servers on the route do or fail to do.      *)
ConnectEnds == run.step \in {"dial", "handshake", "learn", "ask", "auth"}
                  ~> run.step \in {"idle", "connected"}
=============================================================================

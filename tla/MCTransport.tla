---------------------------- MODULE MCTransport -----------------------------
(* SSH connections: how many callers wait for one (ConnectionManager), how it  *)
(* is made (Connect), the calls on it (Channels), and the forwards in both     *)
(* directions (RemoteForwards, LocalForwards).  "which" says which of them a   *)
(* behaviour is about; the variables of the others rest.                       *)
EXTENDS Naturals, Sequences, TLC

CONSTANTS None, NonReusable

VARIABLES which,
    connections, connecting, available, managed, pc, req, arcs, lease, client, flight, seen,
    site, known, hostkey, run, held, open, pinned, lost, connects, changes,
    remote, call, chan, closing, detected, manual, used, preset, lapses,
    handle, routes, toServer, toClient, listens, channel, told,
    socks, listener, errors, conn, faults

poolVars == <<connections, connecting, available, managed, pc, req, arcs, lease, client,
              flight, seen>>
connectVars == <<site, known, hostkey, run, held, open, pinned, lost, connects, changes>>
channelVars == <<remote, call, chan, closing, detected, manual, used, preset, lapses>>
remoteVars == <<handle, routes, toServer, toClient, listens, channel, told>>
localVars == <<socks, listener, errors, conn, faults>>
vars == <<which, poolVars, connectVars, channelVars, remoteVars, localVars>>

-----------------------------------------------------------------------------
(* Three callers that connect and remove one name, with a secret. *)
Callers == {"p1", "p2", "p3"}
Names == {"n"}

M == INSTANCE ConnectionManager WITH
        Conns <- {"c"}, Configs <- {"g"}, Keys <- {}, MaxConnections <- 1,
        Ops <- {"connect", "remove"}, held <- arcs

(* A target behind one jump host with secrets, connected once, and one without, *)
(* connected twice, with keys of two algorithms.                               *)
Hops == {"j", "t"}
Policies(j, t) == [h \in Hops |-> IF h = "j" THEN j ELSE t]
Site(route, keys, policy, ca, revoked, methods, login) ==
    [route |-> route, keys |-> keys, policy |-> policy, ca |-> [h \in Hops |-> ca],
     revoked |-> revoked, methods |-> [h \in Hops |-> methods], login |-> login]
SomeSites ==
    {Site(<<"j", "t">>, {1, 2}, Policies("accept_new", "accept_new"), "none", {}, m, l) :
        m \in {{"password"}, {"kbd"}, {"password", "kbd"}},
        l \in {"password", "kbd"}}
    \cup {Site(<<"t">>, 1..3, Policies("accept_new", p), ca, revoked, {}, l) :
        p \in {"accept_new", "strict", "insecure"}, ca \in {"none", "trusted", "revoked"},
        revoked \in {{}, {1}}, l \in {"key"}}
    \cup {Site(<<"t">>, 1..3, Policies("accept_new", "accept_new"), "none", {}, {}, l) :
        l \in {"auto", "agent"}}

N == INSTANCE Connect WITH
        Keys <- 1..3, Algorithm <- <<"ed25519", "ed25519", "ecdsa">>, Sites <- SomeSites,
        Identities <- 2, MaxJumpAuthAttempts <- 3, MaxRounds <- 2, MaxPromptsPerRound <- 2,
        MaxPrompts <- 3, MaxConnects <- <<2, 1>>, MaxChanges <- <<2, 1>>

(* A command, a shell for another user, and a file call. *)
Calls == {"c1", "c2", "c3"}
Kinds == ("c1" :> "exec") @@ ("c2" :> "shell") @@ ("c3" :> "sftp")

C == INSTANCE Channels WITH
        Kind <- Kinds, Sudo <- {"c2"}, Remotes <- {"unix", "windows"}, MaxLapses <- 2

(* Two registrations of one port: the second is for every interface (R), or    *)
(* for the address of the first (A).                                           *)
Handles == {"h1", "h2"}
Opened == {1, 2}

R == INSTANCE RemoteForwards WITH
        Address <- ("h1" :> "x") @@ ("h2" :> "*"), Wildcards <- {"*"},
        Channels <- Opened, Slots <- 1, AgentForwarding <- TRUE
A == INSTANCE RemoteForwards WITH
        Address <- ("h1" :> "x") @@ ("h2" :> "x"), Wildcards <- {"*"},
        Channels <- Opened, Slots <- 1, AgentForwarding <- FALSE

Accepted == {1, 2, 3}

L == INSTANCE LocalForwards WITH Conns <- Accepted, Slots <- 2, MaxErrors <- 2, MaxFaults <- 3

-----------------------------------------------------------------------------
PoolRests ==
    /\ pc = [p \in Callers |-> "off"] /\ connecting = [n \in Names |-> None]
    /\ connections = "off" /\ available = "off" /\ managed = "off" /\ req = "off"
    /\ arcs = "off" /\ lease = "off" /\ client = "off" /\ flight = "off" /\ seen = "off"
ConnectRests ==
    /\ run = [step |-> "off"] /\ site = "off" /\ known = "off" /\ hostkey = "off"
    /\ held = "off" /\ open = "off" /\ pinned = "off" /\ lost = "off" /\ connects = "off"
    /\ changes = "off"
ChannelsRest ==
    /\ call = [c \in Calls |-> "off"] /\ chan = [c \in Calls |-> "off"]
    /\ remote = "off" /\ closing = "off" /\ detected = "off" /\ manual = "off"
    /\ used = "off" /\ preset = "off" /\ lapses = "off"
RemoteRests ==
    /\ channel = [c \in Opened |-> [at |-> "off"]]
    /\ handle = "off" /\ routes = "off" /\ toServer = "off" /\ toClient = "off"
    /\ listens = "off" /\ told = "off"
LocalRests ==
    /\ conn = [c \in Accepted |-> "off"]
    /\ socks = "off" /\ listener = "off" /\ errors = "off" /\ faults = "off"

Init ==
    \/ which = "pool" /\ M!Init /\ ConnectRests /\ ChannelsRest /\ RemoteRests /\ LocalRests
    \/ which = "connect" /\ N!Init /\ PoolRests /\ ChannelsRest /\ RemoteRests /\ LocalRests
    \/ which = "channels" /\ C!Init /\ PoolRests /\ ConnectRests /\ RemoteRests /\ LocalRests
    \/ which = "remote" /\ R!Init /\ PoolRests /\ ConnectRests /\ ChannelsRest /\ LocalRests
    \/ which = "again" /\ A!Init /\ PoolRests /\ ConnectRests /\ ChannelsRest /\ LocalRests
    \/ which = "local" /\ L!Init /\ PoolRests /\ ConnectRests /\ ChannelsRest /\ RemoteRests

\* All has been done; a client need not be called, and forwards may stand still.
Quiet ==
    /\ \/ which = "connect" /\ run.step = "idle"
       \/ which \in {"channels", "remote", "again", "local"}
    /\ UNCHANGED vars

Next ==
    \/ which = "pool" /\ M!Next
       /\ UNCHANGED <<which, connectVars, channelVars, remoteVars, localVars>>
    \/ which = "connect" /\ N!Next /\ UNCHANGED <<which, poolVars, channelVars, remoteVars, localVars>>
    \/ which = "channels" /\ C!Next /\ UNCHANGED <<which, poolVars, connectVars, remoteVars, localVars>>
    \/ which = "remote" /\ R!Next /\ UNCHANGED <<which, poolVars, connectVars, channelVars, localVars>>
    \/ which = "again" /\ A!Next /\ UNCHANGED <<which, poolVars, connectVars, channelVars, localVars>>
    \/ which = "local" /\ L!Next /\ UNCHANGED <<which, poolVars, connectVars, channelVars, remoteVars>>
    \/ Quiet

\* The fairness of the five modules.
Spec ==
    /\ Init /\ [][Next]_vars
    /\ \A p \in Callers : WF_poolVars(which = "pool" /\ M!Step(p))
    /\ WF_connectVars(which = "connect" /\ N!Breaks)
    /\ WF_connectVars(which = "connect" /\ \E ok \in BOOLEAN : N!Disconnect(ok))
    /\ \A c \in Calls : /\ WF_channelVars(which = "channels" /\ C!Client(c))
                        /\ WF_channelVars(which = "channels" /\ C!Server(c))
    /\ WF_remoteVars(\/ which = "remote" /\ R!Arrives
                     \/ which = "again" /\ A!Arrives)
    /\ \A h \in Handles : WF_remoteVars(\/ which = "remote" /\ R!Task(h)
                                        \/ which = "again" /\ A!Task(h))
    /\ \A c \in Opened : WF_remoteVars(\/ which = "remote" /\ R!ConnectFails(c)
                                       \/ which = "again" /\ A!ConnectFails(c))
    /\ \A c \in Accepted : /\ WF_localVars(which = "local" /\ L!HandshakeTimesOut(c))
                           /\ WF_localVars(which = "local" /\ L!OpenTimesOut(c))

-----------------------------------------------------------------------------
(* Secrets and host keys.  A connect that carries a secret is never served by  *)
(* the transport its name was bound to when the call began (can_reuse_with),   *)
(* and a woken follower is not refused the transport it awaited.  A host is    *)
(* dialled only through hosts that have all accepted a login, and the client   *)
(* keeps a session with each of them (connect_via_jumps).  A host accepted     *)
(* with a key as known or learned is never accepted that way with another of   *)
(* the same algorithm, whatever others record meanwhile, and none with a       *)
(* revoked key (check_server_key).  Attempts, rounds and prompts stay within   *)
(* their limits.                                                               *)
Trusted ==
    /\ which = "pool" => M!SecretNotReused /\ M!FollowerNotRefused
    /\ which = "connect" => /\ N!TypeOK /\ N!HopsInOrder /\ N!RouteHeld
                            /\ N!KeyPinned /\ N!RevokedRefused

(* A channel is used for what it was opened for.  All calls of a client go by  *)
(* one detected platform (platform_detected).  A connection made at the        *)
(* server's port on account of one registration is never taken to the target   *)
(* of another (remote_forward), and the handle the caller holds has its route: *)
(* the late end of another handle's cancellation never removes it.  Slots are  *)
(* not exceeded.                                                               *)
ChannelsRight ==
    /\ which = "channels" => C!TypeOK /\ C!OnePlatform
    /\ which = "remote" => R!TypeOK /\ R!RightTarget /\ R!RouteKept
    /\ which = "again" => A!TypeOK /\ A!RightTarget /\ A!RouteKept
    /\ which = "local" => L!TypeOK

(* Once its cancellation has been sent no new channel is taken to a handle's   *)
(* target (close).                                                             *)
FailClosed == R!FailClosed

(* Every wait ends.  A follower is woken and a name does not stay claimed,     *)
(* whatever happens to the leader.  A connect ends, whatever the servers on    *)
(* the route do.  A channel owned by a command, a shell or a stream is closed  *)
(* in the end (ShellChannel), and a call that waits for the platform gets it   *)
(* or is given up even when the call that was probing is (get_or_init).  A     *)
(* channel the server opens is answered; a connection being set up gets its    *)
(* channel or gives its slot back.                                             *)
WaitsEnd ==
    /\ M!WaitEnds /\ M!FlightEnds /\ N!ConnectEnds
    /\ C!ChannelClosed /\ C!PlatformFound
    /\ R!Answered /\ L!SetupEnds
=============================================================================

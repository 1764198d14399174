--------------------------- MODULE RemoteForwards ---------------------------
(***************************************************************************)
(* Remote forwarding (-R): the registrations a client makes with the       *)
(* server, the dispatch routes it keeps for them, and the channels the     *)
(* server opens (forward.rs, handler.rs).                                  *)
(*                                                                         *)
(* The two directions of the transport are queues.  The client's event     *)
(* loop takes what arrives in order; the task that made a request goes on  *)
(* some time after its reply, or gives up before it.                       *)
(***************************************************************************)
EXTENDS Naturals, Sequences, FiniteSets, Functions

CONSTANTS
    Handles,        \* the registrations attempted; each has a target of its own
    Address,        \* handle -> the bind address it asks for, all on one port
    Wildcards,      \* the addresses that mean every interface
    Channels,       \* the channels the server may open
    Slots,          \* MAX_SERVER_INITIATED_FORWARD_CHANNELS
    AgentForwarding

VARIABLES
    handle,     \* handle -> where its registration is
    routes,     \* remote_forwards: bind address -> the handle whose target it is
    toServer,   \* requests under way
    toClient,   \* replies and channel openings under way
    listens,    \* the handle the server holds the port for, or "nobody"
    channel,    \* channel -> [at, owner, target]
    told        \* handle -> the server's reply has reached the client

vars == <<handle, routes, toServer, toClient, listens, channel, told>>

Nobody == "nobody"
Agent == "agent"
HandleStates == {"idle", "asked", "active", "dropped", "cancelling", "closed", "failed"}
ChannelStates == {"none", "sent", "connecting", "open", "refused", "ended"}

TypeOK ==
    /\ \A h \in Handles : handle[h] \in HandleStates
    /\ DOMAIN routes \subseteq Range(Address) /\ Range(routes) \subseteq Handles
    /\ listens \in Handles \cup {Nobody}
    /\ \A c \in Channels : channel[c].at \in ChannelStates
    /\ Cardinality({c \in Channels : channel[c].at \in {"connecting", "open"}}) <= Slots

Init ==
    /\ handle = [h \in Handles |-> "idle"]
    /\ routes = <<>>
    /\ toServer = <<>> /\ toClient = <<>>
    /\ listens = Nobody
    /\ channel = [c \in Channels |-> [at |-> "none", owner |-> Nobody, target |-> Nobody]]
    /\ told = [h \in Handles |-> "no"]

Routed(a, h) == [b \in DOMAIN routes \cup {a} |-> IF b = a THEN h ELSE routes[b]]
Unrouted(a) == [b \in DOMAIN routes \ {a} |-> routes[b]]

-----------------------------------------------------------------------------
\* register_remote_forward asks the server first ...
AskRoutesFirst(h) ==
    /\ handle[h] = "idle"
    /\ handle' = [handle EXCEPT ![h] = "asked"]
    /\ toServer' = Append(toServer, [type |-> "forward", h |-> h])
    /\ routes' = Routed(Address[h], h)
    /\ UNCHANGED <<toClient, listens, channel, told>>

Ask(h) ==
    /\ handle[h] = "idle"
    /\ handle' = [handle EXCEPT ![h] = "asked"]
    /\ toServer' = Append(toServer, [type |-> "forward", h |-> h])
    /\ UNCHANGED <<routes, toClient, listens, channel, told>>

\* ... and records the route once it has agreed.
Register(h) ==
    /\ handle[h] = "asked" /\ told[h] = "granted"
    /\ handle' = [handle EXCEPT ![h] = "active"]
    /\ routes' = Routed(Address[h], h)
    /\ UNCHANGED <<toServer, toClient, listens, channel, told>>

Rejected(h) ==
    /\ handle[h] = "asked" /\ told[h] = "denied"
    /\ handle' = [handle EXCEPT ![h] = "failed"]
    /\ UNCHANGED <<routes, toServer, toClient, listens, channel, told>>

\* FORWARD_CHANNEL_OPEN_TIMEOUT, or the caller drops the call.
AskTimesOut(h) ==
    /\ handle[h] = "asked" /\ told[h] = "no"
    /\ handle' = [handle EXCEPT ![h] = "failed"]
    /\ UNCHANGED <<routes, toServer, toClient, listens, channel, told>>

\* close() begins, or the handle is dropped and a task is spawned to do the same.
Drop(h) ==
    /\ handle[h] = "active"
    /\ handle' = [handle EXCEPT ![h] = "dropped"]
    /\ UNCHANGED <<routes, toServer, toClient, listens, channel, told>>

UnregisterKeeps(h) ==
    /\ handle[h] = "dropped"
    /\ handle' = [handle EXCEPT ![h] = "cancelling"]
    /\ toServer' = Append(toServer, [type |-> "cancel", h |-> h])
    /\ UNCHANGED <<routes, toClient, listens, channel, told>>

\* cancel_remote_forward_registration: the route goes before the request is sent.
Unregister(h) ==
    /\ handle[h] = "dropped"
    /\ handle' = [handle EXCEPT ![h] = "cancelling"]
    /\ routes' = Unrouted(Address[h])
    /\ toServer' = Append(toServer, [type |-> "cancel", h |-> h])
    /\ UNCHANGED <<toClient, listens, channel, told>>

\* The cancellation is answered, times out or fails: the handle is gone.
CancelReturns(h) ==
    /\ handle[h] = "cancelling"
    /\ handle' = [handle EXCEPT ![h] = "closed"]
    /\ UNCHANGED <<routes, toServer, toClient, listens, channel, told>>

-----------------------------------------------------------------------------
\* The server takes requests in order; a port it holds already it does not give
\* again, and a connection to a port it holds becomes a channel.
ServerTakes ==
    /\ toServer # <<>>
    /\ LET m == Head(toServer)
           granted == listens = Nobody
       IN IF m.type = "forward"
          THEN /\ listens' = IF granted THEN m.h ELSE listens
               /\ toClient' = Append(toClient, [type |-> "reply", h |-> m.h, ok |-> granted])
          ELSE /\ listens' = IF listens = m.h THEN Nobody ELSE listens
               /\ UNCHANGED toClient
    /\ toServer' = Tail(toServer)
    /\ UNCHANGED <<handle, routes, channel, told>>

ServerOpens(c, address) ==
    /\ channel[c].at = "none" /\ listens # Nobody
    /\ address = Address[listens] \/ Address[listens] \in Wildcards
    /\ channel' = [channel EXCEPT ![c] = [at |-> "sent", owner |-> listens, target |-> Nobody]]
    /\ toClient' = Append(toClient, [type |-> "open", c |-> c, address |-> address])
    /\ UNCHANGED <<handle, routes, toServer, listens, told>>

AgentOpens(c) ==
    /\ channel[c].at = "none"
    /\ channel' = [channel EXCEPT ![c] = [at |-> "sent", owner |-> Agent, target |-> Nobody]]
    /\ toClient' = Append(toClient, [type |-> "agent", c |-> c])
    /\ UNCHANGED <<handle, routes, toServer, listens, told>>

-----------------------------------------------------------------------------
\* remote_forward: the exact address, else a wildcard registration.
Lookup(address) ==
    IF address \in DOMAIN routes THEN {routes[address]}
    ELSE {routes[a] : a \in DOMAIN routes \cap Wildcards}

SlotFree == Cardinality({c \in Channels : channel[c].at \in {"connecting", "open"}}) < Slots

Refuse(c) == channel' = [channel EXCEPT ![c].at = "refused"]
Connecting(c, t) == channel' = [channel EXCEPT ![c].at = "connecting", ![c].target = t]

\* server_channel_open_forwarded_tcpip and _agent_forward, run by the event loop.
Arrives ==
    /\ toClient # <<>>
    /\ toClient' = Tail(toClient)
    /\ LET m == Head(toClient)
       IN CASE m.type = "reply" ->
                 /\ told' = [told EXCEPT ![m.h] = IF m.ok THEN "granted" ELSE "denied"]
                 /\ UNCHANGED channel
            [] m.type = "open" ->
                 /\ IF Lookup(m.address) = {} \/ ~SlotFree
                    THEN Refuse(m.c)
                    ELSE \E h \in Lookup(m.address) : Connecting(m.c, h)
                 /\ UNCHANGED told
            [] m.type = "agent" ->
                 /\ IF AgentForwarding /\ SlotFree
                    THEN Refuse(m.c) \/ Connecting(m.c, Agent)
                    ELSE Refuse(m.c)
                 /\ UNCHANGED told
    /\ UNCHANGED <<handle, routes, toServer, listens>>

\* The spawned task connects to the target and answers the server.
Connected(c) ==
    /\ channel[c].at = "connecting"
    /\ channel' = [channel EXCEPT ![c].at = "open"]
    /\ UNCHANGED <<handle, routes, toServer, toClient, listens, told>>

ConnectFails(c) ==
    /\ channel[c].at = "connecting"
    /\ Refuse(c)
    /\ UNCHANGED <<handle, routes, toServer, toClient, listens, told>>

StreamEnds(c) ==
    /\ channel[c].at = "open"
    /\ channel' = [channel EXCEPT ![c].at = "ended"]
    /\ UNCHANGED <<handle, routes, toServer, toClient, listens, told>>

Task(h) == Register(h) \/ Rejected(h) \/ Unregister(h) \/ CancelReturns(h)

Next ==
    \/ \E h \in Handles : Ask(h) \/ AskTimesOut(h) \/ Drop(h) \/ Task(h)
    \/ ServerTakes \/ Arrives
    \/ \E c \in Channels : \/ \E a \in Range(Address) : ServerOpens(c, a)
                           \/ AgentOpens(c)
                           \/ Connected(c) \/ ConnectFails(c) \/ StreamEnds(c)

Spec == Init /\ [][Next]_vars

\* Spawned tasks and the event loop run; a connection attempt ends by its timeout.
Fairness ==
    /\ WF_vars(Arrives)
    /\ \A h \in Handles : WF_vars(Task(h))
    /\ \A c \in Channels : WF_vars(ConnectFails(c))
FairSpec == Spec /\ Fairness

-----------------------------------------------------------------------------
(* A connection made at the server's port on account of one registration is *)
(* never taken to the target of another, though registrations of the same   *)
(* port follow each other while channels are under way (remote_forward).    *)
RightTarget == \A c \in Channels :
    channel[c].at \in {"connecting", "open", "ended"} => channel[c].target = channel[c].owner

(* The handle the caller holds has its route: the late end of another       *)
(* handle's cancellation never removes it.                                  *)
RouteKept == \A h \in Handles :
    handle[h] = "active" => Address[h] \in DOMAIN routes /\ routes[Address[h]] = h

(* Once the cancellation has been sent, answered or not, no new channel is  *)
(* taken to the handle's target (close).                                    *)
FailClosed == [][\A c \in Channels, h \in Handles :
    /\ channel[c].at = "sent" /\ channel'[c].at = "connecting" /\ channel'[c].target = h
    => handle[h] \in {"active", "dropped"}]_vars

(* Every channel the server opens is answered, and gives back its slot when *)
(* the target cannot be reached.                                            *)
Answered == <>[](\A c \in Channels : channel[c].at \notin {"sent", "connecting"})
=============================================================================

---------------------------- MODULE LocalForwards ----------------------------
(***************************************************************************)
(* Local (-L) and dynamic (-D, SOCKS5) forwarding listeners (forward.rs):  *)
(* the accept loop, its slots and its patience with accept errors, and the *)
(* task of each accepted connection.                                       *)
(***************************************************************************)
EXTENDS Naturals, FiniteSets

CONSTANTS
    Conns,          \* connections made to the listener
    Slots,          \* MAX_ACTIVE_FORWARD_CONNECTIONS
    MaxErrors,      \* consecutive accept errors after which the loop ends
    MaxFaults       \* accept errors in a behaviour

VARIABLES
    socks,      \* the listener is a SOCKS5 one
    listener,   \* "up", "closed" (its handle was) or "broken"
    errors,     \* consecutive_errors
    conn,       \* connection -> where it is
    faults

vars == <<socks, listener, errors, conn, faults>>

States == {"none", "greeting", "opening", "open", "ended"}
Busy == {c \in Conns : conn[c] \in {"greeting", "opening", "open"}}

TypeOK ==
    /\ listener \in {"up", "closed", "broken"}
    /\ errors \in 0..MaxErrors
    /\ \A c \in Conns : conn[c] \in States
    /\ Cardinality(Busy) <= Slots

Init ==
    /\ socks \in BOOLEAN
    /\ listener = "up" /\ errors = 0
    /\ conn = [c \in Conns |-> "none"]
    /\ faults = 0

\* A connection accepted when all slots are taken is dropped.
Accept(c) ==
    /\ listener = "up" /\ conn[c] = "none"
    /\ errors' = 0
    /\ conn' = [conn EXCEPT ![c] = CASE Cardinality(Busy) >= Slots -> "ended"
                                     [] socks -> "greeting"
                                     [] OTHER -> "opening"]
    /\ UNCHANGED <<socks, listener, faults>>

\* An accept error is waited out, unless it is the last of MaxErrors in a row.
AcceptFails ==
    /\ listener = "up" /\ faults < MaxFaults
    /\ faults' = faults + 1
    /\ errors' = errors + 1
    /\ listener' = IF errors + 1 >= MaxErrors THEN "broken" ELSE "up"
    /\ UNCHANGED <<socks, conn>>

\* ForwardHandle::close, and its Drop: the accept task is aborted, no other.
Close ==
    /\ listener = "up"
    /\ listener' = "closed"
    /\ UNCHANGED <<socks, errors, conn, faults>>

Goes(c, to) ==
    /\ conn' = [conn EXCEPT ![c] = to]
    /\ UNCHANGED <<socks, listener, errors, faults>>

\* negotiate_socks5: a target, or an end: no acceptable method, a command other than
\* CONNECT, an unknown address type, a malformed message, a reply that cannot be
\* written, or SOCKS_HANDSHAKE_TIMEOUT.
Negotiated(c) == conn[c] = "greeting" /\ \E to \in {"opening", "ended"} : Goes(c, to)
HandshakeTimesOut(c) == conn[c] = "greeting" /\ Goes(c, "ended")

\* channel_open_direct_tcpip: the channel, a refusal, or
\* FORWARD_CHANNEL_OPEN_TIMEOUT.
Opened(c) == conn[c] = "opening" /\ Goes(c, "open")
OpenRefused(c) == conn[c] = "opening" /\ Goes(c, "ended")
OpenTimesOut(c) == conn[c] = "opening" /\ Goes(c, "ended")

\* copy_bidirectional ends.
StreamEnds(c) == conn[c] = "open" /\ Goes(c, "ended")

Next ==
    \/ AcceptFails \/ Close
    \/ \E c \in Conns : \/ Accept(c)
                        \/ Negotiated(c) \/ HandshakeTimesOut(c)
                        \/ Opened(c) \/ OpenRefused(c) \/ OpenTimesOut(c)
                        \/ StreamEnds(c)

Spec == Init /\ [][Next]_vars

\* Timeouts fire.
Fairness == \A c \in Conns : WF_vars(HandshakeTimesOut(c)) /\ WF_vars(OpenTimesOut(c))
FairSpec == Spec /\ Fairness

-----------------------------------------------------------------------------
(* A connection being set up gets its channel or gives its slot back: no    *)
(* client, however slow, keeps a slot for good without one.                 *)
SetupEnds == <>[](\A c \in Conns : conn[c] \notin {"greeting", "opening"})
=============================================================================

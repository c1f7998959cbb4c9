---------------------------- MODULE SessionRegistry ----------------------------
(***************************************************************************)
(* The session registry of one server process (core/sessions.py) and the   *)
(* engine operations that change it: the KICS login, following a client to *)
(* a new port, and ending a session.  It keeps two tables that must agree: *)
(* the session's own endpoint, and which session an endpoint stands for    *)
(* when a packet does not carry a known session id.                        *)
(***************************************************************************)
CONSTANTS
    Sessions,     \* session ids
    Endpoints,    \* (host, port) pairs
    EndpointsOf,  \* [Sessions -> SUBSET Endpoints]: the ports of each client's host
    None

ASSUME SessionRegistryAssumption ==
    /\ EndpointsOf \in [Sessions -> SUBSET Endpoints]
    /\ None \notin Sessions
    /\ None \notin Endpoints

VARIABLE registry

\* A registry: endpoint[s] is _by_id[s].endpoint, at[e] is _id_by_endpoint[e].
Registries ==
    [endpoint : [Sessions -> Endpoints \cup {None}],
     at       : [Endpoints -> Sessions \cup {None}]]

RegistryTypeOK == registry \in Registries

Known(r, s) == r.endpoint[s] # None

-----------------------------------------------------------------------------
(***************************************************************************)
(* core/sessions.py, SessionRegistry.                                      *)
(***************************************************************************)

Unbind(r, e) == [r EXCEPT !.at = [x \in Endpoints |-> IF x = e THEN None ELSE r.at[x]]]

\* Two faults: the old port stays bound, or the table is given the endpoint
\* where it wants the session id.
RebindKeepingOld(r, s, e) ==
    IF ~Known(r, s) THEN r
    ELSE [endpoint |-> [r.endpoint EXCEPT ![s] = e],
          at       |-> [r.at EXCEPT ![e] = s]]

RebindToEndpoint(r, s, e) ==
    IF ~Known(r, s) THEN r
    ELSE [endpoint |-> [r.endpoint EXCEPT ![s] = e],
          at       |-> [Unbind(r, r.endpoint[s]).at EXCEPT ![e] = e]]

\* rebind_endpoint: old and new port are unbound, then the new one bound.
Rebind(r, s, e) ==
    IF ~Known(r, s) THEN r
    ELSE [endpoint |-> [r.endpoint EXCEPT ![s] = e],
          at       |-> [Unbind(r, r.endpoint[s]).at EXCEPT ![e] = s]]

\* remove.
Remove(r, s) ==
    IF ~Known(r, s) THEN r
    ELSE [endpoint |-> [r.endpoint EXCEPT ![s] = None],
          at       |-> Unbind(r, r.endpoint[s]).at]

\* A fault: the port of the predecessor stays bound.
AdoptKeepingOld(r, s, e) ==
    [endpoint |-> [x \in Sessions |->
                      IF x = s THEN e
                      ELSE IF x = r.at[e] THEN None
                      ELSE r.endpoint[x]],
     at       |-> [r.at EXCEPT ![e] = s]]

\* adopt: a session of one handoff replaces its predecessor, and whatever
\* session its endpoint stood for.
Adopt(r, s, e) ==
    LET cleared    == IF Known(r, s) THEN Unbind(r, r.endpoint[s]) ELSE r
        superseded == cleared.at[e]
    IN  [endpoint |-> [x \in Sessions |->
                          IF x = s THEN e
                          ELSE IF x = superseded THEN None
                          ELSE r.endpoint[x]],
         at       |-> [cleared.at EXCEPT ![e] = s]]

\* get_by_endpoint and the engine's resolve_session.  A binding may name a
\* session that is gone.
GetByEndpoint(r, e) ==
    IF r.at[e] # None /\ Known(r, r.at[e]) THEN r.at[e] ELSE None

Resolve(r, e, s) == IF Known(r, s) THEN s ELSE GetByEndpoint(r, e)

-----------------------------------------------------------------------------
(***************************************************************************)
(* The engine.                                                             *)
(***************************************************************************)

\* _follow_port_change: a session goes where its client's packets come from.
Follow(r, s, e) == IF Known(r, s) /\ r.endpoint[s] # e THEN Rebind(r, s, e) ELSE r

\* handle_login_to_kics for session s from endpoint e: the session e stood
\* for is ended; a new login is adopted at its bootstrap endpoint h; the
\* session is bound to e.
LoggedIn(r, s, e, h, newLogin) ==
    LET stale   == GetByEndpoint(r, e)
        ended   == IF stale \notin {None, s} THEN Remove(r, stale) ELSE r
        adopted == IF newLogin \/ ~Known(ended, s) THEN Adopt(ended, s, h) ELSE ended
    IN  IF adopted.endpoint[s] # e THEN Rebind(adopted, s, e) ELSE adopted

\* handle_login_client: a bootstrap login from one of the client's ports.
AdoptAtBootstrap(s) == \E e \in EndpointsOf[s] : registry' = Adopt(registry, s, e)

\* The sessions that a packet from e may name in its header: those of the host.
HeadersFrom(e) == {w \in Sessions : e \in EndpointsOf[w]}

\* The header may name a session that the engine knows, which follows its
\* client to e first.  newLogin: the handoff has another serial than the session.
Kics(s) ==
    \E e, h \in EndpointsOf[s], newLogin \in BOOLEAN :
    \E r \in {registry} \cup {Follow(registry, w, e) : w \in HeadersFrom(e)} :
        registry' = LoggedIn(r, s, e, h, newLogin)

\* Any other packet of s, from any port of its host.
FollowPort(s, e) ==
    /\ s \in HeadersFrom(e)
    /\ registry' = Follow(registry, s, e)

\* _end_session, on idle time or a transport timeout.
End(s) ==
    /\ Known(registry, s)
    /\ registry' = Remove(registry, s)

Empty == registry = [endpoint |-> [s \in Sessions |-> None], at |-> [e \in Endpoints |-> None]]

RegistryNext ==
    \E s \in Sessions :
        AdoptAtBootstrap(s) \/ Kics(s) \/ End(s) \/ \E e \in Endpoints : FollowPort(s, e)

\* What the registry does, also what it does in the receive loop, which changes it
\* only by the registry's operations (SessionTransport; udp_server.py:305-363).
RegistrySpec == Empty /\ [][RegistryNext]_registry

-----------------------------------------------------------------------------
(***************************************************************************)
(* Properties.                                                             *)
(***************************************************************************)

Sound(r) == \A e \in Endpoints : r.at[e] # None => r.endpoint[r.at[e]] = e

\* No other client sends from the ports of this one's host.
OwnHost(s) == \A t \in Sessions \ {s} : EndpointsOf[s] \cap EndpointsOf[t] = {}

Bound(r) == \A s \in Sessions : OwnHost(s) /\ Known(r, s) => r.at[r.endpoint[s]] = s

AtHome(r) == \A s \in Sessions : Known(r, s) => r.endpoint[s] \in EndpointsOf[s]

\* An endpoint never stands for a session that is gone or that has moved on,
\* so a packet resolved by its endpoint is never booked on a stranger.
BindingSound == Sound(registry)

\* Every session is at a port of its client's host, and a client on a host of
\* its own is always found there, whatever the clients of other hosts do: for
\* such clients the two tables mirror each other.
ExactBinding == Sound(registry) /\ Bound(registry) /\ AtHome(registry)
=============================================================================

------------------------ MODULE SessionTransportProofs ------------------------
(***************************************************************************)
(* Proofs about SessionTransport: the loop changes the registry only by    *)
(* the registry's operations, and whatever sessions do to each other's     *)
(* ports, a live session's packets stay in flight at its own port; and     *)
(* where they share none, nothing obsolete stays in flight.  First the     *)
(* registry by itself: an endpoint's binding always names the session that *)
(* is there, and a client on a host of its own is always found at its port,*)
(* for any clients and ports.  Last, time in one session (SessionTiming):  *)
(* a client that answers in time is kept, and the framed link sends each   *)
(* packet and each ACK once.                                               *)
(***************************************************************************)
EXTENDS SessionTransport, SessionTiming, FiniteSetTheorems, NaturalsInduction, WellFoundedInduction, TLAPS

-----------------------------------------------------------------------------
(***************************************************************************)
(* The registry by itself: its operations, whatever else uses them.        *)
(***************************************************************************)

LEMMA RebindSound ==
    ASSUME NEW r \in Registries, Sound(r), NEW s \in Sessions, NEW e \in Endpoints
    PROVE  Rebind(r, s, e) \in Registries /\ Sound(Rebind(r, s, e))
    BY SessionRegistryAssumption
       DEF Registries, Sound, Rebind, Unbind, Known

LEMMA FollowSound ==
    ASSUME NEW r \in Registries, Sound(r), NEW s \in Sessions, NEW e \in Endpoints
    PROVE  Follow(r, s, e) \in Registries /\ Sound(Follow(r, s, e))
    BY RebindSound DEF Follow

LEMMA RemoveSound ==
    ASSUME NEW r \in Registries, Sound(r), NEW s \in Sessions
    PROVE  Remove(r, s) \in Registries /\ Sound(Remove(r, s))
    BY SessionRegistryAssumption
       DEF Registries, Sound, Remove, Unbind, Known

LEMMA AdoptSound ==
    ASSUME NEW r \in Registries, Sound(r), NEW s \in Sessions, NEW e \in Endpoints
    PROVE  /\ Adopt(r, s, e) \in Registries
           /\ Sound(Adopt(r, s, e))
           /\ Adopt(r, s, e).endpoint[s] = e
    BY SessionRegistryAssumption
       DEF Registries, Sound, Adopt, Unbind, Known

LEMMA GetByEndpointType ==
    ASSUME NEW r \in Registries, NEW e \in Endpoints
    PROVE  GetByEndpoint(r, e) \in Sessions \cup {None}
    BY DEF Registries, GetByEndpoint

LEMMA LoggedInSound ==
    ASSUME NEW r \in Registries, Sound(r), NEW s \in Sessions,
           NEW e \in Endpoints, NEW h \in Endpoints, NEW newLogin \in BOOLEAN
    PROVE  /\ LoggedIn(r, s, e, h, newLogin) \in Registries
           /\ Sound(LoggedIn(r, s, e, h, newLogin))
<1> DEFINE stale   == GetByEndpoint(r, e)
           ended   == IF stale \notin {None, s} THEN Remove(r, stale) ELSE r
           adopted == IF newLogin \/ ~Known(ended, s) THEN Adopt(ended, s, h) ELSE ended
<1>1. stale \in Sessions \cup {None}
    BY GetByEndpointType
<1> HIDE DEF stale
<1>2. ended \in Registries /\ Sound(ended)
    BY <1>1, RemoveSound
<1> HIDE DEF ended
<1>3. adopted \in Registries /\ Sound(adopted)
    BY <1>2, AdoptSound
<1> HIDE DEF adopted
<1>4. Rebind(adopted, s, e) \in Registries /\ Sound(Rebind(adopted, s, e))
    BY <1>3, RebindSound
<1>5. LoggedIn(r, s, e, h, newLogin) = IF adopted.endpoint[s] # e THEN Rebind(adopted, s, e) ELSE adopted
    BY DEF LoggedIn, adopted, ended, stale
<1>6. QED
    BY <1>3, <1>4, <1>5

LEMMA InitSound == Empty => RegistryTypeOK /\ BindingSound
    BY SessionRegistryAssumption
       DEF Empty, RegistryTypeOK, BindingSound, Registries, Sound

LEMMA NextSound ==
    ASSUME RegistryTypeOK, BindingSound, [RegistryNext]_registry
    PROVE  RegistryTypeOK' /\ BindingSound'
<1> SUFFICES ASSUME registry \in Registries, Sound(registry), [RegistryNext]_registry
             PROVE  registry' \in Registries /\ Sound(registry')
    BY DEF RegistryTypeOK, BindingSound, Sound
<1>1. ASSUME NEW s \in Sessions, Kics(s)
      PROVE  registry' \in Registries /\ Sound(registry')
    <2>1. PICK e \in EndpointsOf[s], h \in EndpointsOf[s], newLogin \in BOOLEAN :
              \E r \in {registry} \cup {Follow(registry, w, e) : w \in HeadersFrom(e)} :
                  registry' = LoggedIn(r, s, e, h, newLogin)
        BY <1>1 DEF Kics
    <2> PICK r \in {registry} \cup {Follow(registry, w, e) : w \in HeadersFrom(e)} :
              registry' = LoggedIn(r, s, e, h, newLogin)
        BY <2>1
    <2>2. EndpointsOf[s] \subseteq Endpoints
        BY SessionRegistryAssumption
    <2>3. r \in Registries /\ Sound(r)
        BY <2>1, <2>2, FollowSound DEF HeadersFrom
    <2>4. QED
        BY <2>1, <2>2, <2>3, LoggedInSound
<1>2. ASSUME NEW s \in Sessions, NEW e \in Endpoints, FollowPort(s, e)
      PROVE  registry' \in Registries /\ Sound(registry')
    BY <1>2, FollowSound DEF FollowPort
<1>3. ASSUME NEW s \in Sessions, End(s)
      PROVE  registry' \in Registries /\ Sound(registry')
    BY <1>3, RemoveSound DEF End
<1>4. ASSUME NEW s \in Sessions, AdoptAtBootstrap(s)
      PROVE  registry' \in Registries /\ Sound(registry')
    BY <1>4, AdoptSound, SessionRegistryAssumption DEF AdoptAtBootstrap
<1>5. CASE UNCHANGED registry
    BY <1>5
<1>6. QED
    BY <1>1, <1>2, <1>3, <1>4, <1>5 DEF RegistryNext

-----------------------------------------------------------------------------
(***************************************************************************)
(* The theorems about the registry.                                        *)
(***************************************************************************)

LEMMA SoundInvariant == RegistrySpec => [](RegistryTypeOK /\ BindingSound)
    BY InitSound, NextSound, PTL DEF RegistrySpec

\* Type correctness.
THEOREM TypeCorrect == RegistrySpec => []RegistryTypeOK
    BY SoundInvariant, PTL

\* Whatever ports the clients share or take over, an endpoint never stands
\* for a session that is gone or that has moved on.
THEOREM BindingsAreSound == RegistrySpec => []BindingSound
    BY SoundInvariant, PTL

-----------------------------------------------------------------------------
(***************************************************************************)
(* Ports at home.                                                          *)
(***************************************************************************)

\* A client's operation on a port of its own host disturbs no other session.
LEMMA RebindExact ==
    ASSUME NEW r \in Registries, Bound(r), AtHome(r),
           NEW s \in Sessions, NEW e \in EndpointsOf[s], e \in Endpoints
    PROVE  Bound(Rebind(r, s, e)) /\ AtHome(Rebind(r, s, e))
    BY SessionRegistryAssumption
       DEF OwnHost, Registries, Bound, AtHome, Rebind,
           Unbind, Known

LEMMA FollowExact ==
    ASSUME NEW r \in Registries, Bound(r), AtHome(r),
           NEW s \in Sessions, NEW e \in EndpointsOf[s], e \in Endpoints
    PROVE  Bound(Follow(r, s, e)) /\ AtHome(Follow(r, s, e))
    BY RebindExact DEF Follow

LEMMA RemoveExact ==
    ASSUME NEW r \in Registries, Bound(r), AtHome(r), NEW s \in Sessions
    PROVE  Bound(Remove(r, s)) /\ AtHome(Remove(r, s))
    BY SessionRegistryAssumption
       DEF OwnHost, Registries, Bound, AtHome, Remove,
           Unbind, Known

LEMMA AdoptExact ==
    ASSUME NEW r \in Registries, Bound(r), AtHome(r),
           NEW s \in Sessions, NEW e \in EndpointsOf[s], e \in Endpoints
    PROVE  Bound(Adopt(r, s, e)) /\ AtHome(Adopt(r, s, e))
    BY SessionRegistryAssumption
       DEF OwnHost, Registries, Bound, AtHome, Adopt,
           Unbind, Known

LEMMA LoggedInExact ==
    ASSUME NEW r \in Registries, Sound(r), Bound(r), AtHome(r), NEW s \in Sessions,
           NEW e \in EndpointsOf[s], NEW h \in EndpointsOf[s], e \in Endpoints, h \in Endpoints,
           NEW newLogin \in BOOLEAN
    PROVE  Bound(LoggedIn(r, s, e, h, newLogin)) /\ AtHome(LoggedIn(r, s, e, h, newLogin))
<1> DEFINE stale   == GetByEndpoint(r, e)
           ended   == IF stale \notin {None, s} THEN Remove(r, stale) ELSE r
           adopted == IF newLogin \/ ~Known(ended, s) THEN Adopt(ended, s, h) ELSE ended
<1>1. stale \in Sessions \cup {None}
    BY GetByEndpointType
<1> HIDE DEF stale
<1>2. ended \in Registries /\ Sound(ended) /\ Bound(ended) /\ AtHome(ended)
    BY <1>1, RemoveSound, RemoveExact
<1> HIDE DEF ended
<1>3. adopted \in Registries /\ Sound(adopted) /\ Bound(adopted) /\ AtHome(adopted)
    BY <1>2, AdoptSound, AdoptExact
<1> HIDE DEF adopted
<1>4. Bound(Rebind(adopted, s, e)) /\ AtHome(Rebind(adopted, s, e))
    BY <1>3, RebindExact
<1>5. LoggedIn(r, s, e, h, newLogin) = IF adopted.endpoint[s] # e THEN Rebind(adopted, s, e) ELSE adopted
    BY DEF LoggedIn, adopted, ended, stale
<1>6. QED
    BY <1>3, <1>4, <1>5

LEMMA NextExact == RegistryTypeOK /\ ExactBinding /\ [RegistryNext]_registry => ExactBinding'
<1> SUFFICES ASSUME registry \in Registries, Sound(registry),
                    Bound(registry), AtHome(registry),
                    Sound(registry)', [RegistryNext]_registry
             PROVE  Bound(registry') /\ AtHome(registry')
    <2>1. RegistryTypeOK /\ ExactBinding /\ [RegistryNext]_registry => Sound(registry')
        BY NextSound DEF ExactBinding, BindingSound, Sound
    <2>2. QED
        BY <2>1
           DEF RegistryTypeOK, ExactBinding, Sound, Bound, AtHome,
               Known
<1>1. ASSUME NEW s \in Sessions, Kics(s) PROVE Bound(registry') /\ AtHome(registry')
    <2>1. PICK e \in EndpointsOf[s], h \in EndpointsOf[s], newLogin \in BOOLEAN :
              \E r \in {registry} \cup {Follow(registry, w, e) : w \in HeadersFrom(e)} :
                  registry' = LoggedIn(r, s, e, h, newLogin)
        BY <1>1 DEF Kics
    <2> PICK r \in {registry} \cup {Follow(registry, w, e) : w \in HeadersFrom(e)} :
              registry' = LoggedIn(r, s, e, h, newLogin)
        BY <2>1
    <2>2. EndpointsOf[s] \subseteq Endpoints
        BY SessionRegistryAssumption
    <2>3. r \in Registries /\ Sound(r) /\ Bound(r) /\ AtHome(r)
        BY <2>1, <2>2, FollowSound, FollowExact DEF HeadersFrom
    <2>4. QED
        BY <2>1, <2>2, <2>3, LoggedInExact
<1>2. ASSUME NEW s \in Sessions, NEW e \in Endpoints, FollowPort(s, e)
      PROVE  Bound(registry') /\ AtHome(registry')
    BY <1>2, FollowExact DEF FollowPort, HeadersFrom
<1>3. ASSUME NEW s \in Sessions, End(s) PROVE Bound(registry') /\ AtHome(registry')
    BY <1>3, RemoveExact DEF End
<1>4. ASSUME NEW s \in Sessions, AdoptAtBootstrap(s) PROVE Bound(registry') /\ AtHome(registry')
    BY <1>4, AdoptExact, SessionRegistryAssumption DEF AdoptAtBootstrap
<1>5. CASE UNCHANGED registry
    BY <1>5
<1>6. QED
    BY <1>1, <1>2, <1>3, <1>4, <1>5 DEF RegistryNext

\* Sessions stay at ports of their hosts, and a client on a host of its own is
\* always found at its port, whatever ports the other clients share.
THEOREM TablesMirror == RegistrySpec => []ExactBinding
<1>1. Empty => ExactBinding
    BY SessionRegistryAssumption
       DEF Empty, ExactBinding, Sound, Bound, AtHome,
           Known
<1>2. QED
    BY <1>1, NextExact, TypeCorrect, PTL DEF RegistrySpec

-----------------------------------------------------------------------------
(***************************************************************************)
(* The operations of the registry, as the loop uses them.                  *)
(***************************************************************************)

\* Registry n came from r by an operation of s: it ends other sessions at
\* most, and moves none of them.
Moves(r, n, s) ==
    /\ n \in Registries
    /\ \A t \in Sessions \ {s} : n.endpoint[t] \in {None, r.endpoint[t]}

LEMMA RebindMoves ==
    ASSUME NEW r \in Registries, NEW s \in Sessions, NEW e \in Endpoints
    PROVE  /\ Moves(r, Rebind(r, s, e), s)
           /\ Known(r, s) => /\ Rebind(r, s, e).endpoint[s] = e
                                      /\ Rebind(r, s, e).at[e] = s
    BY SessionRegistryAssumption, SessionTransportAssumption
    DEF Moves, Registries, Rebind, Unbind, Known

LEMMA RemoveMoves ==
    ASSUME NEW r \in Registries, NEW s \in Sessions
    PROVE  /\ Moves(r, Remove(r, s), s)
           /\ Remove(r, s).endpoint[s] = None
    BY SessionRegistryAssumption, SessionTransportAssumption
    DEF Moves, Registries, Remove, Unbind, Known

LEMMA AdoptMoves ==
    ASSUME NEW r \in Registries, NEW s \in Sessions, NEW e \in Endpoints
    PROVE  /\ Moves(r, Adopt(r, s, e), s)
           /\ Adopt(r, s, e).endpoint[s] = e
           /\ Adopt(r, s, e).at[e] = s
    BY SessionRegistryAssumption, SessionTransportAssumption
    DEF Moves, Registries, Adopt, Unbind, Known

LEMMA FollowMoves ==
    ASSUME NEW r \in Registries, NEW s \in Sessions, NEW e \in Endpoints
    PROVE  /\ Moves(r, Follow(r, s, e), s)
           /\ Follow(r, s, e).endpoint[s] = IF Known(r, s) THEN e ELSE None
<1>1. CASE Known(r, s) /\ r.endpoint[s] # e
    BY <1>1, RebindMoves DEF Follow
<1>2. CASE ~(Known(r, s) /\ r.endpoint[s] # e)
    BY <1>2 DEF Follow, Known, Moves
<1>3. QED
    BY <1>1, <1>2

LEMMA ResolvedIsKnown ==
    ASSUME NEW r \in Registries, NEW e \in Endpoints
    PROVE  \/ GetByEndpoint(r, e) = None
           \/ /\ GetByEndpoint(r, e) \in Sessions
              /\ Known(r, GetByEndpoint(r, e))
              /\ GetByEndpoint(r, e) = r.at[e]
    BY DEF Registries, GetByEndpoint

\* After a KICS login of s from e, s is at e, and e stands for nobody else.
LEMMA LoggedInMoves ==
    ASSUME NEW r \in Registries, NEW s \in Sessions,
           NEW e \in Endpoints, NEW h \in Endpoints, NEW newLogin \in BOOLEAN
    PROVE  /\ Moves(r, LoggedIn(r, s, e, h, newLogin), s)
           /\ LoggedIn(r, s, e, h, newLogin).endpoint[s] = e
           /\ GetByEndpoint(LoggedIn(r, s, e, h, newLogin), e) \in {s, None}
<1> DEFINE stale   == GetByEndpoint(r, e)
           ended   == IF stale \notin {None, s} THEN Remove(r, stale) ELSE r
           adopted == IF newLogin \/ ~Known(ended, s) THEN Adopt(ended, s, h) ELSE ended
           bound   == Rebind(adopted, s, e)
<1>1. \/ stale = None /\ (r.at[e] = None \/ ~Known(r, r.at[e]))
      \/ stale \in Sessions /\ stale = r.at[e]
    BY DEF Registries, GetByEndpoint
<1>2. stale \in Sessions => /\ Moves(r, Remove(r, stale), stale)
                            /\ Remove(r, stale).endpoint[stale] = None
                            /\ Remove(r, stale).at[e] \in {None, r.at[e]}
    BY RemoveMoves DEF Remove, Unbind, Registries
<1> HIDE DEF stale
<1>3. /\ ended \in Registries
      /\ \A t \in Sessions : ended.endpoint[t] \in {None, r.endpoint[t]}
      /\ ended.at[e] \in {None, s} \/ ~Known(ended, ended.at[e])
    BY <1>1, <1>2, SessionRegistryAssumption, SessionTransportAssumption DEF Moves, Known
<1> HIDE DEF ended
<1>4. /\ adopted \in Registries
      /\ \A t \in Sessions \ {s} : adopted.endpoint[t] \in {None, r.endpoint[t]}
      /\ Known(adopted, s)
      /\ adopted.endpoint[s] = e => adopted.at[e] \in {None, s} \/ ~Known(adopted, adopted.at[e])
    <2>1. CASE newLogin \/ ~Known(ended, s)
        <3>1. adopted = Adopt(ended, s, h)
            BY <2>1
        <3>2. /\ Moves(ended, adopted, s) /\ adopted.endpoint[s] = h /\ adopted.at[h] = s
            BY <1>3, <3>1, AdoptMoves
        <3>3. QED
            BY <1>3, <3>2, SessionRegistryAssumption, SessionTransportAssumption DEF Moves, Known
    <2>2. CASE ~(newLogin \/ ~Known(ended, s))
        BY <1>3, <2>2
    <2>3. QED
        BY <2>1, <2>2
<1> HIDE DEF adopted
<1>5. Moves(adopted, bound, s) /\ bound.endpoint[s] = e /\ bound.at[e] = s
    BY <1>4, RebindMoves
<1> HIDE DEF bound
<1>6. LoggedIn(r, s, e, h, newLogin) = IF adopted.endpoint[s] # e THEN bound ELSE adopted
    BY DEF LoggedIn, bound, adopted, ended, stale
<1>7. CASE adopted.endpoint[s] # e
    <2>1. LoggedIn(r, s, e, h, newLogin) = bound
        BY <1>6, <1>7
    <2>2. Moves(r, bound, s)
        BY <1>4, <1>5 DEF Moves
    <2>3. GetByEndpoint(bound, e) \in {s, None}
        BY <1>5 DEF GetByEndpoint
    <2>4. QED
        BY <1>5, <2>1, <2>2, <2>3
<1>8. CASE adopted.endpoint[s] = e
    <2>1. LoggedIn(r, s, e, h, newLogin) = adopted
        BY <1>6, <1>8
    <2>2. Moves(r, adopted, s)
        BY <1>4 DEF Moves
    <2>3. GetByEndpoint(adopted, e) \in {s, None}
        BY <1>4, <1>8 DEF GetByEndpoint
    <2>4. QED
        BY <1>8, <2>1, <2>2, <2>3
<1>9. QED
    BY <1>7, <1>8

-----------------------------------------------------------------------------
(***************************************************************************)
(* The tables of packets.                                                  *)
(***************************************************************************)

LEMMA FreshPackets ==
    ASSUME TypeOK, NEW r \in Registries, NEW to \in SUBSET Reachable(r)
    PROVE  Fresh(r, to) \subseteq Packets
<1> SUFFICES ASSUME NEW s \in to PROVE Packet(s, r.endpoint[s], requestNumber[s]) \in Packets
    BY DEF Fresh
<1>1. s \in Sessions /\ r.endpoint[s] \in Endpoints /\ requestNumber[s] <= MaxSeq
    BY DEF Reachable, Registries, Known
<1>2. numbering[s] \in 0 .. MaxNumbering /\ requestNumber[s] \in Numbers
    BY <1>1, SessionRegistryAssumption, SessionTransportAssumption DEF TypeOK, Numbers
<1>3. QED
    BY <1>1, <1>2 DEF Packet, Packets

LEMMA FollowedPackets ==
    ASSUME NEW p \in SUBSET Packets, NEW s \in Sessions, NEW old, NEW new \in Endpoints
    PROVE  /\ Followed(p, s, old, new) \subseteq Packets
           /\ \A q \in p : q.session # s => q \in Followed(p, s, old, new)
           /\ \A q \in p : q.session = s /\ q.at = old => [q EXCEPT !.at = new] \in Followed(p, s, old, new)
<1>1. \A q \in Of(p, old, s) : /\ [q EXCEPT !.at = new] \in Packets
                               /\ [q EXCEPT !.at = new].session = s
    BY DEF Of, Packets
<1>2. \A q \in p : q.session # s => \A x \in Of(p, old, s) : KeyOf(q) # KeyOf([x EXCEPT !.at = new])
    BY <1>1 DEF KeyOf
<1>3. \A q \in p : q.session # s => q \in p \ Of(p, old, s)
    BY DEF Of
<1>4. QED
    BY <1>1, <1>2, <1>3 DEF Followed, Store, Of

\* A new packet takes no number that its session has used.
LEMMA FreshIsNew ==
    ASSUME TypeOK, NEW r, NEW to \in SUBSET Sessions, NEW p, NEW t \in Sessions, NEW e,
           NEW n \in 0 .. requestNumber[t] - 1, Packet(t, e, n) \in p
    PROVE  Packet(t, e, n) \in Store(p, Fresh(r, to))
<1>1. \A s \in to : KeyOf(Packet(t, e, n)) # KeyOf(Packet(s, r.endpoint[s], requestNumber[s]))
    <2> SUFFICES ASSUME NEW s \in to, KeyOf(Packet(t, e, n)) = KeyOf(Packet(s, r.endpoint[s], requestNumber[s]))
                 PROVE  FALSE
        OBVIOUS
    <2>1. t = s /\ n = requestNumber[s]
        BY DEF KeyOf, Packet
    <2>2. requestNumber[t] \in Nat
        BY SessionRegistryAssumption, SessionTransportAssumption DEF TypeOK
    <2>3. QED
        BY <2>1, <2>2
<1>2. QED
    BY <1>1 DEF Store, Fresh

LEMMA CountsGrow ==
    ASSUME TypeOK, NEW r, NEW to \in SUBSET Reachable(r), NEW s \in Sessions
    PROVE  /\ requestNumber[s] + Cost(s, to) \in 0 .. MaxSeq + 1
           /\ \A n \in 0 .. requestNumber[s] + Cost(s, to) - 1 :
                  n \in 0 .. requestNumber[s] - 1 \/ (s \in to /\ n = requestNumber[s])
<1>1. requestNumber[s] \in 0 .. MaxSeq + 1 /\ MaxSeq \in Nat
    BY SessionRegistryAssumption, SessionTransportAssumption DEF TypeOK
<1>2. s \in to => requestNumber[s] <= MaxSeq
    BY DEF Reachable
<1>3. QED
    BY <1>1, <1>2 DEF Cost

\* What Send adds, and that it keeps the packets of every number in use.
LEMMA SendKeeps ==
    ASSUME TypeOK, NEW r \in Registries, NEW to \in SUBSET Reachable(r),
           NEW p \in SUBSET Packets, Send(r, p, to)
    PROVE  /\ pending' \subseteq Packets
           /\ requestNumber' \in [Sessions -> 0 .. MaxSeq + 1]
           /\ \A t \in Sessions : \A n \in 0 .. requestNumber'[t] - 1 :
                  \/ Packet(t, r.endpoint[t], n) \in pending'
                  \/ n \in 0 .. requestNumber[t] - 1 /\ Packet(t, r.endpoint[t], n) \notin p
<1>1. pending' = Store(p, Fresh(r, to))
    BY DEF Send
<1>2. requestNumber' = [s \in Sessions |-> requestNumber[s] + Cost(s, to)]
    BY DEF Send
<1>3. to \subseteq Sessions
    BY DEF Reachable
<1>4. pending' \subseteq Packets
    BY <1>1, FreshPackets DEF Store
<1>5. requestNumber' \in [Sessions -> 0 .. MaxSeq + 1]
    BY <1>2, CountsGrow
<1>6. ASSUME NEW t \in Sessions, NEW n, n \in 0 .. requestNumber'[t] - 1,
             n \in 0 .. requestNumber[t] - 1 => Packet(t, r.endpoint[t], n) \in p
      PROVE  Packet(t, r.endpoint[t], n) \in pending'
    <2>1. n \in 0 .. requestNumber[t] - 1 \/ (t \in to /\ n = requestNumber[t])
        <3>1. requestNumber'[t] = requestNumber[t] + Cost(t, to)
            BY <1>2
        <3>2. requestNumber[t] \in Nat /\ Cost(t, to) \in Nat
            BY SessionRegistryAssumption, SessionTransportAssumption DEF TypeOK, Cost
        <3>3. n \in 0 .. requestNumber[t] + Cost(t, to) - 1
            BY <1>6, <3>1, <3>2
        <3>4. QED
            BY <3>3, CountsGrow
    <2>2. CASE n \in 0 .. requestNumber[t] - 1
        <3>1. Packet(t, r.endpoint[t], n) \in p
            BY <1>6, <2>2
        <3>2. Packet(t, r.endpoint[t], n) \in Store(p, Fresh(r, to))
            BY <1>3, <2>2, <3>1, FreshIsNew
        <3>3. QED
            BY <1>1, <3>2
    <2>3. CASE t \in to /\ n = requestNumber[t]
        BY <1>1, <2>3 DEF Store, Fresh
    <2>4. QED
        BY <2>1, <2>2, <2>3
<1>7. QED
    BY <1>4, <1>5, <1>6

-----------------------------------------------------------------------------
(***************************************************************************)
(* Every step of the loop keeps the invariant and is one of the registry.  *)
(***************************************************************************)

\* The packet of one number of one session, when it has to be in flight.
Kept(t, n) ==
    Known(registry, t) /\ n \in 0 .. requestNumber[t] - 1 /\ n \notin acked[t]
        => Packet(t, registry.endpoint[t], n) \in pending

LEMMA KeptIsLive == LivePacketsKept <=> \A t \in Sessions, n \in Nat : Kept(t, n)
<1>1. ASSUME LivePacketsKept, NEW t \in Sessions, NEW n \in Nat PROVE Kept(t, n)
    BY <1>1 DEF LivePacketsKept, Kept
<1>2. ASSUME \A t \in Sessions, n \in Nat : Kept(t, n) PROVE LivePacketsKept
    BY <1>2 DEF LivePacketsKept, Kept
<1>3. QED
    BY <1>1, <1>2

LEMMA KeptIsLiveNext == LivePacketsKept' <=> (\A t \in Sessions, n \in Nat : Kept(t, n))'
    BY KeptIsLive, PTL

LEMMA EndpointsAreHome ==
    ASSUME NEW s \in Sessions, NEW e \in EndpointsOf[s]
    PROVE  e \in Endpoints /\ s \in HeadersFrom(e)
    BY SessionRegistryAssumption, SessionTransportAssumption DEF HeadersFrom

LEMMA DatagramStep ==
    ASSUME TransportInv, NEW s \in Sessions, NEW e \in EndpointsOf[s], Datagram(s, e)
    PROVE  TransportInv' /\ [RegistryNext]_registry
<1>1. e \in Endpoints /\ s \in HeadersFrom(e)
    BY EndpointsAreHome
<1>2. TypeOK /\ LivePacketsKept /\ registry \in Registries
    BY DEF TransportInv, TypeOK, RegistryTypeOK
<1>3. /\ Known(registry, s)
      /\ registry' = Follow(registry, s, e)
      /\ numbering' = numbering /\ todo' = todo /\ phase' = "tick"
    BY DEF Datagram
<1>4. PICK a \in {None} \cup {n \in Numbers : n < requestNumber[s]} :
          LET unacked == {q \in pending : KeyOf(q) # [at |-> e, session |-> s, seq |-> a]}
          IN  /\ acked' = [acked EXCEPT ![s] = @ \cup ({a} \ {None})]
              /\ \E to \in SUBSET Reachable(registry') :
                  Send(registry', Followed(unacked, s, registry.endpoint[s], e), to)
    BY DEF Datagram
<1> DEFINE unacked == {q \in pending : KeyOf(q) # [at |-> e, session |-> s, seq |-> a]}
           p == Followed(unacked, s, registry.endpoint[s], e)
<1>5. PICK to \in SUBSET Reachable(registry') : Send(registry', p, to)
    BY <1>4
<1>6. /\ Moves(registry, registry', s)
      /\ registry' \in Registries
      /\ registry'.endpoint[s] = e
    BY <1>1, <1>2, <1>3, FollowMoves DEF Moves
<1>7. unacked \in SUBSET Packets
    BY <1>2 DEF TypeOK
<1>8. /\ p \subseteq Packets
      /\ \A q \in unacked : q.session # s => q \in p
      /\ \A q \in unacked : q.session = s /\ q.at = registry.endpoint[s] => [q EXCEPT !.at = e] \in p
    BY <1>1, <1>7, FollowedPackets
<1> HIDE DEF p
<1>9. acked' \in [Sessions -> SUBSET Numbers]
    BY <1>2, <1>4 DEF TypeOK
<1>10. /\ pending' \subseteq Packets
       /\ requestNumber' \in [Sessions -> 0 .. MaxSeq + 1]
       /\ \A t \in Sessions : \A n \in 0 .. requestNumber'[t] - 1 :
              \/ Packet(t, registry'.endpoint[t], n) \in pending'
              \/ n \in 0 .. requestNumber[t] - 1 /\ Packet(t, registry'.endpoint[t], n) \notin p
    BY <1>2, <1>5, <1>6, <1>8, SendKeeps
<1>11. TypeOK'
    BY <1>2, <1>3, <1>6, <1>9, <1>10 DEF TypeOK, RegistryTypeOK
<1>12. ASSUME NEW t \in Sessions, NEW n \in Nat,
              Known(registry', t), n \in 0 .. requestNumber[t] - 1, n \notin acked'[t]
       PROVE  Packet(t, registry'.endpoint[t], n) \in p
    <2>1. Known(registry, t)
        BY <1>3, <1>6, <1>12 DEF Moves, Known
    <2>2. n \notin acked[t] /\ (t = s => n # a)
        BY <1>2, <1>4, <1>12, SessionRegistryAssumption, SessionTransportAssumption DEF TypeOK
    <2>3. Packet(t, registry.endpoint[t], n) \in pending
        BY <1>2, <1>12, <2>1, <2>2, KeptIsLive DEF Kept
    <2>4. Packet(t, registry.endpoint[t], n) \in unacked
        BY <2>2, <2>3 DEF KeyOf, Packet
    <2>5. CASE t # s
        BY <1>6, <1>8, <1>12, <2>4, <2>5 DEF Moves, Known, Packet
    <2>6. CASE t = s
        <3>1. [Packet(s, registry.endpoint[s], n) EXCEPT !.at = e] = Packet(s, e, n)
            BY DEF Packet
        <3>2. QED
            BY <1>6, <1>8, <2>4, <2>6, <3>1 DEF Packet
    <2>7. QED
        BY <2>5, <2>6
<1>13. LivePacketsKept'
    <2> SUFFICES ASSUME NEW t \in Sessions, NEW n \in Nat PROVE Kept(t, n)'
        BY KeptIsLiveNext
    <2>1. Packet(t, registry'.endpoint[t], n) = Packet(t, registry.endpoint[t], n)'
        BY <1>3 DEF Packet
    <2>2. QED
        BY <1>10, <1>12, <2>1 DEF Kept
<1>14. FollowPort(s, e)
    BY <1>1, <1>3 DEF FollowPort
<1>15. QED
    BY <1>1, <1>11, <1>13, <1>14 DEF TransportInv, RegistryNext

LEMMA BootstrapLoginStep ==
    ASSUME TransportInv, NEW s \in Sessions, NEW e \in EndpointsOf[s], BootstrapLogin(s, e)
    PROVE  TransportInv' /\ [RegistryNext]_registry
<1>1. e \in Endpoints
    BY EndpointsAreHome
<1>2. TypeOK /\ LivePacketsKept /\ registry \in Registries
    BY DEF TransportInv, TypeOK, RegistryTypeOK
<1>3. /\ registry' = Adopt(registry, s, e)
      /\ acked' = [acked EXCEPT ![s] = {}]
      /\ numbering' = numbering /\ todo' = todo /\ phase' = "tick"
    BY DEF BootstrapLogin
<1>4. PICK reliable \in BOOLEAN :
          /\ requestNumber' = [requestNumber EXCEPT ![s] = IF reliable THEN 1 ELSE 0]
          /\ pending' = IF reliable THEN Store(pending, {Packet(s, e, 0)}) ELSE pending
    BY DEF BootstrapLogin
<1>5. Moves(registry, registry', s) /\ registry' \in Registries /\ registry'.endpoint[s] = e
    BY <1>1, <1>2, <1>3, AdoptMoves DEF Moves
<1>6. Packet(s, e, 0) \in Packets
    BY <1>1, <1>2, SessionRegistryAssumption, SessionTransportAssumption DEF TypeOK, Packet, Packets, Numbers
<1>7. TypeOK'
    <2>1. pending' \subseteq Packets
        BY <1>2, <1>4, <1>6 DEF TypeOK, Store
    <2>2. requestNumber' \in [Sessions -> 0 .. MaxSeq + 1] /\ acked' \in [Sessions -> SUBSET Numbers]
        BY <1>2, <1>3, <1>4, SessionRegistryAssumption, SessionTransportAssumption DEF TypeOK
    <2>3. QED
        BY <1>2, <1>3, <1>5, <2>1, <2>2 DEF TypeOK, RegistryTypeOK
<1>8. ASSUME NEW t \in Sessions, NEW n \in Nat PROVE Kept(t, n)'
    <2>1. Packet(t, registry'.endpoint[t], n) = Packet(t, registry.endpoint[t], n)'
        BY <1>3 DEF Packet
    <2>2. CASE t # s
        <3>1. Known(registry', t) => registry'.endpoint[t] = registry.endpoint[t]
            BY <1>5, <2>2 DEF Moves, Known
        <3>2. requestNumber'[t] = requestNumber[t] /\ acked'[t] = acked[t]
            BY <1>2, <1>3, <1>4, <2>2 DEF TypeOK
        <3>3. Packet(t, registry.endpoint[t], n) \in pending => Packet(t, registry.endpoint[t], n) \in pending'
            <4>1. \A q \in pending : q.session # s => KeyOf(q) # KeyOf(Packet(s, e, 0))
                BY DEF KeyOf, Packet
            <4>2. \A q \in pending : q.session # s => q \in pending'
                BY <1>4, <4>1 DEF Store
            <4>3. QED
                BY <2>2, <4>2 DEF Packet
        <3>4. QED
            BY <1>2, <2>1, <3>1, <3>2, <3>3, KeptIsLive DEF Kept, Known
    <2>3. CASE t = s
        <3>1. requestNumber'[s] = IF reliable THEN 1 ELSE 0
            BY <1>2, <1>4 DEF TypeOK
        <3>2. reliable => Packet(s, e, 0) \in pending'
            BY <1>4 DEF Store
        <3>3. QED
            BY <1>5, <2>1, <2>3, <3>1, <3>2 DEF Kept
    <2>4. QED
        BY <2>2, <2>3
<1>9. LivePacketsKept'
    BY <1>8, KeptIsLiveNext
<1>10. AdoptAtBootstrap(s)
    BY <1>3 DEF AdoptAtBootstrap
<1>11. QED
    BY <1>7, <1>9, <1>10 DEF TransportInv, RegistryNext

LEMMA KicsLoginStep ==
    ASSUME TransportInv, NEW s \in Sessions, NEW e \in EndpointsOf[s], KicsLogin(s, e)
    PROVE  TransportInv' /\ [RegistryNext]_registry
<1>1. e \in Endpoints
    BY EndpointsAreHome
<1>2. TypeOK /\ LivePacketsKept /\ registry \in Registries /\ pending \subseteq Packets
    BY DEF TransportInv, TypeOK, RegistryTypeOK
<1> DEFINE From(header) == IF header = None THEN registry ELSE Follow(registry, header, e)
           Moved(header) == IF header = None THEN pending
                            ELSE Followed(pending, header, registry.endpoint[header], e)
           Rest(header) == Forgotten(Moved(header), GetByEndpoint(registry', e))
<1>3. /\ numbering[s] < MaxNumbering
      /\ numbering' = [numbering EXCEPT ![s] = @ + 1]
      /\ acked' = [acked EXCEPT ![s] = {}]
      /\ todo' = todo /\ phase' = "tick"
    BY DEF KicsLogin
<1>4. PICK h \in EndpointsOf[s], newLogin \in BOOLEAN, header \in HeadersFrom(e) \cup {None} :
          /\ registry' = LoggedIn(From(header), s, e, h, newLogin)
          /\ \E to \in SUBSET (Reachable(registry') \ {s}) :
              /\ pending' = Store(Rest(header), Fresh(registry', to))
              /\ requestNumber' = [t \in Sessions |->
                                      IF t = s THEN 0 ELSE requestNumber[t] + Cost(t, to)]
    BY DEF KicsLogin
<1>5. PICK to \in SUBSET (Reachable(registry') \ {s}) :
          /\ pending' = Store(Rest(header), Fresh(registry', to))
          /\ requestNumber' = [t \in Sessions |->
                                  IF t = s THEN 0 ELSE requestNumber[t] + Cost(t, to)]
    BY <1>4
<1>6. h \in Endpoints /\ (header # None => header \in Sessions)
    BY <1>4, EndpointsAreHome DEF HeadersFrom
<1>7. /\ From(header) \in Registries
      /\ \A t \in Sessions : Known(From(header), t) =>
            From(header).endpoint[t] = (IF t = header THEN e ELSE registry.endpoint[t]) /\ Known(registry, t)
    <2>1. CASE header = None
        BY <1>2, <2>1, SessionRegistryAssumption, SessionTransportAssumption
    <2>2. CASE header # None
        <3>1. From(header) = Follow(registry, header, e)
            BY <2>2
        <3>2. /\ Moves(registry, From(header), header)
              /\ From(header).endpoint[header] = IF Known(registry, header) THEN e ELSE None
            BY <1>1, <1>2, <1>6, <2>2, <3>1, FollowMoves
        <3>3. QED
            BY <3>2 DEF Moves, Known
    <2>3. QED
        BY <2>1, <2>2
<1>8. /\ Moved(header) \subseteq Packets
      /\ \A t \in Sessions, n \in Nat : Packet(t, registry.endpoint[t], n) \in pending =>
             Packet(t, IF t = header THEN e ELSE registry.endpoint[t], n) \in Moved(header)
    <2>1. CASE header = None
        BY <1>2, <2>1, SessionRegistryAssumption, SessionTransportAssumption
    <2>2. CASE header # None
        <3>1. /\ Moved(header) \subseteq Packets
              /\ \A q \in pending : q.session # header => q \in Moved(header)
              /\ \A q \in pending : q.session = header /\ q.at = registry.endpoint[header] =>
                     [q EXCEPT !.at = e] \in Moved(header)
            BY <1>1, <1>2, <1>6, <2>2, FollowedPackets
        <3>2. ASSUME NEW t \in Sessions, NEW n \in Nat, Packet(t, registry.endpoint[t], n) \in pending
              PROVE  Packet(t, IF t = header THEN e ELSE registry.endpoint[t], n) \in Moved(header)
            <4>1. CASE t # header
                BY <3>1, <3>2, <4>1 DEF Packet
            <4>2. CASE t = header
                <5>1. [Packet(t, registry.endpoint[t], n) EXCEPT !.at = e] = Packet(t, e, n)
                    BY DEF Packet
                <5>2. QED
                    BY <3>1, <3>2, <4>2, <5>1 DEF Packet
            <4>3. QED
                BY <4>1, <4>2
        <3>3. QED
            BY <3>1, <3>2
    <2>3. QED
        BY <2>1, <2>2
<1> HIDE DEF From, Moved
<1>9. /\ Moves(From(header), registry', s)
      /\ registry' \in Registries
      /\ registry'.endpoint[s] = e
      /\ GetByEndpoint(registry', e) \in {s, None}
    BY <1>1, <1>4, <1>6, <1>7, LoggedInMoves DEF Moves
<1>10. /\ Rest(header) \subseteq Packets
       /\ \A q \in Moved(header) : q.session \in Sessions \ {s} => q \in Rest(header)
    BY <1>8, <1>9, SessionRegistryAssumption, SessionTransportAssumption DEF Forgotten
<1> HIDE DEF Rest
<1>11. to \in SUBSET Reachable(registry') /\ to \in SUBSET Sessions /\ s \notin to
    BY <1>5 DEF Reachable
<1>12. TypeOK'
    <2>1. pending' \subseteq Packets'
        <3>1. Fresh(registry', to) \subseteq Packets
            BY <1>2, <1>9, <1>11, FreshPackets
        <3>2. QED
            BY <1>5, <1>10, <3>1 DEF Store, Packets
    <2>2. requestNumber' \in [Sessions -> 0 .. MaxSeq + 1]
        <3>1. \A t \in Sessions : requestNumber[t] + Cost(t, to) \in 0 .. MaxSeq + 1
            BY <1>2, <1>11, CountsGrow
        <3>2. QED
            BY <1>5, <3>1, SessionRegistryAssumption, SessionTransportAssumption
    <2>3. numbering' \in [Sessions -> 0 .. MaxNumbering] /\ acked' \in [Sessions -> SUBSET Numbers]
        BY <1>2, <1>3, SessionRegistryAssumption, SessionTransportAssumption DEF TypeOK
    <2>4. QED
        BY <1>2, <1>3, <1>9, <2>1, <2>2, <2>3 DEF TypeOK, RegistryTypeOK, Packets
<1>13. ASSUME NEW t \in Sessions, NEW n \in Nat PROVE Kept(t, n)'
    <2>1. CASE t = s
        <3>1. requestNumber'[t] = 0
            BY <1>5, <2>1
        <3>2. QED
            BY <3>1 DEF Kept
    <2>2. CASE t # s
        <3> SUFFICES ASSUME Known(registry', t), n \in 0 .. requestNumber'[t] - 1, n \notin acked'[t]
                     PROVE  Packet(t, registry'.endpoint[t], n) \in pending'
            <4>1. Packet(t, registry'.endpoint[t], n) = Packet(t, registry.endpoint[t], n)'
                BY <1>2, <1>3, <2>2 DEF Packet, TypeOK
            <4>2. QED
                BY <4>1 DEF Kept
        <3>1. /\ Known(registry, t)
              /\ registry'.endpoint[t] = IF t = header THEN e ELSE registry.endpoint[t]
            BY <1>7, <1>9, <2>2 DEF Moves, Known
        <3>2. n \notin acked[t]
            BY <1>2, <1>3, <2>2 DEF TypeOK
        <3>3. n \in 0 .. requestNumber[t] - 1 \/ (t \in to /\ n = requestNumber[t])
            <4>1. requestNumber'[t] = requestNumber[t] + Cost(t, to)
                BY <1>5, <2>2
            <4>2. requestNumber[t] \in Nat /\ Cost(t, to) \in Nat
                BY <1>2, SessionRegistryAssumption, SessionTransportAssumption DEF TypeOK, Cost
            <4>3. n \in 0 .. requestNumber[t] + Cost(t, to) - 1
                BY <4>1, <4>2
            <4>4. QED
                BY <1>2, <1>11, <4>3, CountsGrow
        <3>4. CASE n \in 0 .. requestNumber[t] - 1
            <4>1. Packet(t, registry.endpoint[t], n) \in pending
                BY <1>2, <3>1, <3>2, <3>4, KeptIsLive DEF Kept
            <4>2. Packet(t, registry'.endpoint[t], n) \in Rest(header)
                BY <1>8, <1>10, <2>2, <3>1, <4>1 DEF Packet
            <4>3. Packet(t, registry'.endpoint[t], n) \in Store(Rest(header), Fresh(registry', to))
                BY <1>2, <1>11, <3>4, <4>2, FreshIsNew
            <4>4. QED
                BY <1>5, <4>3
        <3>5. CASE t \in to /\ n = requestNumber[t]
            BY <1>5, <3>5 DEF Store, Fresh
        <3>6. QED
            BY <3>3, <3>4, <3>5
    <2>3. QED
        BY <2>1, <2>2
<1>14. LivePacketsKept'
    BY <1>13, KeptIsLiveNext
<1>15. Kics(s)
    BY <1>4, <1>6 DEF Kics, From
<1>16. QED
    BY <1>12, <1>14, <1>15 DEF TransportInv, RegistryNext

LEMMA EndIdleStep ==
    ASSUME TransportInv, NEW s \in Sessions, EndIdle(s)
    PROVE  TransportInv' /\ [RegistryNext]_registry
<1>1. TypeOK /\ LivePacketsKept /\ registry \in Registries
    BY DEF TransportInv, TypeOK, RegistryTypeOK
<1>2. /\ Moves(registry, registry', s)
      /\ registry' \in Registries
      /\ registry'.endpoint[s] = None
    BY <1>1, RemoveMoves DEF EndIdle, Moves
<1>3. TypeOK'
    BY <1>1, <1>2 DEF EndIdle, TypeOK, RegistryTypeOK
<1>4. ASSUME NEW t \in Sessions, NEW n \in Nat PROVE Kept(t, n)'
    <2>1. Known(registry', t) => registry'.endpoint[t] = registry.endpoint[t]
        BY <1>2 DEF Moves, Known
    <2>2. QED
        BY <1>1, <2>1, KeptIsLive DEF EndIdle, Kept, Packet, Known
<1>5. LivePacketsKept'
    BY <1>4, KeptIsLiveNext
<1>6. End(s)
    BY DEF EndIdle, End
<1>7. QED
    BY <1>3, <1>5, <1>6 DEF TransportInv, RegistryNext

LEMMA TickSendsStep ==
    ASSUME TransportInv, TickSends
    PROVE  TransportInv' /\ UNCHANGED registry
<1>1. TypeOK /\ LivePacketsKept /\ registry \in Registries /\ pending \in SUBSET Packets
    BY DEF TransportInv, TypeOK, RegistryTypeOK
<1>2. PICK to \in SUBSET Reachable(registry) : Send(registry, pending, to)
    BY DEF TickSends
<1>3. /\ pending' \subseteq Packets
      /\ requestNumber' \in [Sessions -> 0 .. MaxSeq + 1]
      /\ \A t \in Sessions : \A n \in 0 .. requestNumber'[t] - 1 :
             \/ Packet(t, registry.endpoint[t], n) \in pending'
             \/ n \in 0 .. requestNumber[t] - 1 /\ Packet(t, registry.endpoint[t], n) \notin pending
    BY <1>1, <1>2, SendKeeps
<1>4. todo' \subseteq Keys
    BY <1>3 DEF TickSends, Packets, Keys, KeyOf
<1>5. TypeOK'
    BY <1>1, <1>3, <1>4 DEF TickSends, TypeOK, RegistryTypeOK
<1>6. ASSUME NEW t \in Sessions, NEW n \in Nat PROVE Kept(t, n)'
    <2>1. Packet(t, registry.endpoint[t], n) = Packet(t, registry.endpoint[t], n)'
        BY DEF TickSends, Packet
    <2>2. QED
        BY <1>1, <1>3, <2>1, KeptIsLive DEF TickSends, Kept
<1>7. QED
    BY <1>5, <1>6, KeptIsLiveNext DEF TransportInv, TickSends

\* Whoever a packet is resent for is in the registry.
LEMMA OwnerIsKnown ==
    ASSUME TypeOK, NEW k \in Keys, OwnerPresent(k)
    PROVE  OwnerOf(k) \in Sessions /\ Known(registry, OwnerOf(k))
<1>1. k.session \in Sessions /\ k.at \in Endpoints /\ registry \in Registries
    BY DEF Keys, TypeOK, RegistryTypeOK
<1>2. QED
    BY <1>1, ResolvedIsKnown DEF OwnerPresent, OwnerOf, Resolve

LEMMA ResendPassStep ==
    ASSUME TransportInv, NEW k \in todo, ResendPass(k)
    PROVE  TransportInv' /\ [RegistryNext]_registry
<1>1. /\ TypeOK /\ LivePacketsKept /\ registry \in Registries
      /\ pending \subseteq Packets /\ k \in Keys
    BY DEF TransportInv, TypeOK, RegistryTypeOK
<1>2. /\ numbering' = numbering /\ acked' = acked /\ phase' = phase
      /\ todo' \subseteq Keys
    BY <1>1 DEF ResendPass, TypeOK
<1> DEFINE rest == pending \ Of(pending, k.at, k.session)
\* A packet that is not k's, or of a session that is not there.
<1>3. ASSUME NEW t \in Sessions, NEW n, Known(registry, t),
             Packet(t, registry.endpoint[t], n) \in pending,
             k.session = t => registry.endpoint[t] # k.at
      PROVE  Packet(t, registry.endpoint[t], n) \in rest
    BY <1>3 DEF Of, Packet
<1>4. CASE Skip(k) \/ Resend(k)
    <2>1. UNCHANGED <<registry, requestNumber, pending>>
        BY <1>4 DEF Skip, Resend
    <2>2. TypeOK'
        BY <1>1, <1>2, <2>1 DEF TypeOK, RegistryTypeOK
    <2>3. LivePacketsKept'
        BY <1>1, <1>2, <2>1 DEF LivePacketsKept, Packet
    <2>4. QED
        BY <2>1, <2>2, <2>3 DEF TransportInv
<1>5. CASE DropMissing(k)
    <2>1. pending' = rest /\ UNCHANGED <<registry, requestNumber>>
        BY <1>5 DEF DropMissing
    <2>2. TypeOK'
        BY <1>1, <1>2, <2>1 DEF TypeOK, RegistryTypeOK
    <2>3. Known(registry, k.session) => registry.endpoint[k.session] # k.at
        <3>1. k.session \in Sessions
            BY <1>1 DEF Keys
        <3>2. k.session # None
            BY <3>1, SessionRegistryAssumption, SessionTransportAssumption
        <3>3. Known(registry, k.session) => OwnerOf(k) = k.session
            BY DEF OwnerOf, Resolve
        <3>4. QED
            BY <1>5, <3>2, <3>3 DEF DropMissing, OwnerPresent
    <2>4. ASSUME NEW t \in Sessions, NEW n \in Nat PROVE Kept(t, n)'
        <3>1. Packet(t, registry.endpoint[t], n) = Packet(t, registry.endpoint[t], n)'
            BY <1>2, <2>1 DEF Packet
        <3>2. QED
            BY <1>1, <1>2, <1>3, <2>1, <2>3, <3>1, KeptIsLive DEF Kept
    <2>5. LivePacketsKept'
        BY <2>4, KeptIsLiveNext
    <2>6. QED
        BY <2>1, <2>2, <2>5 DEF TransportInv
<1>6. CASE Timeout(k)
    <2>1. OwnerPresent(k) /\ registry' = Remove(registry, OwnerOf(k))
        BY <1>6 DEF Timeout
    <2>2. OwnerOf(k) \in Sessions /\ Known(registry, OwnerOf(k))
        BY <1>1, <2>1, OwnerIsKnown
    <2>3. /\ Moves(registry, registry', OwnerOf(k))
          /\ registry' \in Registries
          /\ registry'.endpoint[OwnerOf(k)] = None
        BY <1>1, <2>1, <2>2, RemoveMoves DEF Moves
    <2>4. PICK to \in SUBSET Reachable(registry') : Send(registry', rest, to)
        BY <1>6 DEF Timeout
    <2>5. rest \in SUBSET Packets
        BY <1>1
    <2> HIDE DEF rest
    <2>6. /\ pending' \subseteq Packets
          /\ requestNumber' \in [Sessions -> 0 .. MaxSeq + 1]
          /\ \A t \in Sessions : \A n \in 0 .. requestNumber'[t] - 1 :
                 \/ Packet(t, registry'.endpoint[t], n) \in pending'
                 \/ n \in 0 .. requestNumber[t] - 1 /\ Packet(t, registry'.endpoint[t], n) \notin rest
        BY <1>1, <2>3, <2>4, <2>5, SendKeeps
    <2>7. TypeOK'
        BY <1>1, <1>2, <2>3, <2>6 DEF TypeOK, RegistryTypeOK
    <2>8. ASSUME NEW t \in Sessions, NEW n \in Nat PROVE Kept(t, n)'
        <3> SUFFICES ASSUME Known(registry', t), n \in 0 .. requestNumber'[t] - 1, n \notin acked[t]
                     PROVE  Packet(t, registry'.endpoint[t], n) \in pending'
            <4>1. Packet(t, registry'.endpoint[t], n) = Packet(t, registry.endpoint[t], n)'
                BY <1>2 DEF Packet
            <4>2. QED
                BY <1>2, <4>1 DEF Kept
        <3>1. /\ Known(registry, t) /\ t # OwnerOf(k)
              /\ registry'.endpoint[t] = registry.endpoint[t]
            BY <2>3 DEF Moves, Known
        <3>2. k.session # t
            BY <3>1 DEF OwnerOf, Resolve
        <3>3. n \in 0 .. requestNumber[t] - 1 => Packet(t, registry.endpoint[t], n) \in rest
            BY <1>1, <1>3, <3>1, <3>2, KeptIsLive DEF Kept
        <3>4. QED
            BY <2>6, <3>1, <3>3
    <2>9. LivePacketsKept'
        BY <2>8, KeptIsLiveNext
    <2>10. End(OwnerOf(k))
        BY <2>1, <2>2 DEF End
    <2>11. QED
        BY <2>2, <2>7, <2>9, <2>10 DEF TransportInv, RegistryNext
<1>7. QED
    BY <1>4, <1>5, <1>6 DEF ResendPass

LEMMA StepKeeps ==
    ASSUME TransportInv, [Next]_vars
    PROVE  TransportInv' /\ [RegistryNext]_registry
<1>1. ASSUME NEW s \in Sessions, NEW e \in EndpointsOf[s],
             Datagram(s, e) \/ BootstrapLogin(s, e) \/ KicsLogin(s, e)
      PROVE  TransportInv' /\ [RegistryNext]_registry
    BY <1>1, DatagramStep, BootstrapLoginStep, KicsLoginStep
<1>2. ASSUME NEW s \in Sessions, EndIdle(s) PROVE TransportInv' /\ [RegistryNext]_registry
    BY <1>2, EndIdleStep
<1>3. ASSUME NEW k \in todo, ResendPass(k) PROVE TransportInv' /\ [RegistryNext]_registry
    BY <1>3, ResendPassStep
<1>4. CASE TickSends
    BY <1>4, TickSendsStep
<1>5. CASE NoDatagram \/ EndPass \/ UNCHANGED vars
    <2>1. UNCHANGED <<registry, numbering, requestNumber, acked, pending, todo>> /\ phase' \in {"tick", "receive", phase}
        BY <1>5 DEF NoDatagram, EndPass, vars
    <2>2. TypeOK'
        BY <2>1 DEF TransportInv, TypeOK, RegistryTypeOK
    <2>3. LivePacketsKept'
        BY <2>1 DEF TransportInv, LivePacketsKept, Packet
    <2>4. QED
        BY <2>1, <2>2, <2>3 DEF TransportInv
<1>6. QED
    BY <1>1, <1>2, <1>3, <1>4, <1>5 DEF Next

LEMMA InitKeeps == Init => TransportInv /\ Empty
<1> SUFFICES ASSUME Init PROVE TransportInv
    BY DEF Init
<1>1. TypeOK
    BY SessionRegistryAssumption, SessionTransportAssumption DEF Init, TypeOK, Empty, RegistryTypeOK, Registries
<1>2. LivePacketsKept
    BY DEF Init, Empty, LivePacketsKept, Known
<1>3. QED
    BY <1>1, <1>2 DEF TransportInv

-----------------------------------------------------------------------------
(***************************************************************************)
(* The theorems.                                                           *)
(***************************************************************************)

\* Whatever other sessions do - log in, move, time out, take over a port - a
\* live session's packets stay in flight at its own port until it ACKs them.
THEOREM LivePacketsStay == Spec => []TransportInv
    BY InitKeeps, StepKeeps, PTL DEF Spec

\* The loop changes the registry only by the registry's operations, so what
\* is proved of the registry holds of the server.
THEOREM LoopImplementsRegistry == Spec => RegistrySpec
    BY InitKeeps, StepKeeps, LivePacketsStay, PTL DEF Spec, RegistrySpec

-----------------------------------------------------------------------------
(***************************************************************************)
(* Clients on hosts of their own: nothing obsolete outlives a pass, and    *)
(* nothing of an old numbering outlives a login.                           *)
(***************************************************************************)

OwnHosts == \A s \in Sessions : OwnHost(s)

\* A packet at the port that the registry has for its session.
Live(q) == registry.endpoint[q.session] = q.at

\* Before a pass everything in flight is live; during the resend pass what is
\* not is still to be looked at.
SoonDropped(q) ==
    /\ phase = "receive" => Live(q)
    /\ phase = "resend" => Live(q) \/ KeyOf(q) \in todo

\* Every packet in flight is at a port of its client's host and of its session's
\* present numbering, whether the session is there or not.
CurrentInv ==
    \A q \in pending :
        /\ q.at \in EndpointsOf[q.session]
        /\ q.numbering = numbering[q.session]
        /\ SoonDropped(q)

\* What is proved of the registry holds of the loop's.
LEMMA LoopTablesMirror == Spec => []ExactBinding
    BY TablesMirror, LoopImplementsRegistry, PTL DEF RegistrySpec

\* What Send adds is live and of the present numbering.
LEMMA SentIsLive ==
    ASSUME NEW r, NEW p, NEW to, Send(r, p, to), NEW q \in pending'
    PROVE  \/ q \in p
           \/ \E t \in to : q = Packet(t, r.endpoint[t], requestNumber[t])
    BY DEF Send, Store, Fresh

\* What follows a session keeps its session and numbering.
LEMMA FollowedComesFrom ==
    ASSUME NEW p \in SUBSET Packets, NEW s, NEW old, NEW new, NEW q \in Followed(p, s, old, new)
    PROVE  \/ q \in p /\ ~(q.session = s /\ q.at = old)
           \/ /\ q.session = s /\ q.at = new
              /\ \E x \in p : x.session = s /\ q.numbering = x.numbering
    BY DEF Followed, Store, Of, Packets

\* What is sent to a session that registry r has at home is current.
LEMMA SentIsCurrent ==
    ASSUME TypeOK, NEW r \in Registries, AtHome(r), NEW t \in Reachable(r)
    PROVE  /\ Packet(t, r.endpoint[t], requestNumber[t]).at = r.endpoint[t]
           /\ r.endpoint[t] \in EndpointsOf[t]
           /\ Packet(t, r.endpoint[t], requestNumber[t]).session = t
           /\ Packet(t, r.endpoint[t], requestNumber[t]).numbering = numbering[t]
    BY DEF Reachable, Packet, AtHome

\* Followed to a port of its host, what was current stays so.
LEMMA FollowedIsCurrent ==
    ASSUME NEW p \in SUBSET Packets, NEW s \in Sessions, NEW old, NEW e \in EndpointsOf[s],
           \A q \in p : q.at \in EndpointsOf[q.session] /\ q.numbering = numbering[q.session]
    PROVE  \A q \in Followed(p, s, old, e) :
               q.at \in EndpointsOf[q.session] /\ q.numbering = numbering[q.session]
    BY FollowedComesFrom

LEMMA DatagramCurrent ==
    ASSUME TransportInv, AtHome(registry'), CurrentInv, registry' \in Registries,
           NEW s \in Sessions, NEW e \in EndpointsOf[s], Datagram(s, e)
    PROVE  CurrentInv'
<1>1. /\ TypeOK /\ pending \subseteq Packets
      /\ numbering' = numbering /\ phase' = "tick"
    BY DEF TransportInv, TypeOK, Datagram
<1>2. PICK a \in {None} \cup {n \in Numbers : n < requestNumber[s]} :
          LET unacked == {q \in pending : KeyOf(q) # [at |-> e, session |-> s, seq |-> a]}
          IN  \E to \in SUBSET Reachable(registry') :
                  Send(registry', Followed(unacked, s, registry.endpoint[s], e), to)
    BY DEF Datagram
<1> DEFINE unacked == {q \in pending : KeyOf(q) # [at |-> e, session |-> s, seq |-> a]}
           p == Followed(unacked, s, registry.endpoint[s], e)
<1>3. PICK to \in SUBSET Reachable(registry') : Send(registry', p, to)
    BY <1>2
<1>4. \A q \in p : q.at \in EndpointsOf[q.session] /\ q.numbering = numbering[q.session]
    BY <1>1, FollowedIsCurrent DEF CurrentInv
<1> HIDE DEF p
<1>5. \A q \in pending' : q.at \in EndpointsOf[q.session] /\ q.numbering = numbering[q.session]
    BY <1>1, <1>3, <1>4, SentIsLive, SentIsCurrent
<1>6. QED
    BY <1>1, <1>5 DEF CurrentInv, SoonDropped

LEMMA BootstrapLoginCurrent ==
    ASSUME CurrentInv, NEW s \in Sessions, NEW e \in EndpointsOf[s], BootstrapLogin(s, e)
    PROVE  CurrentInv'
<1>1. numbering' = numbering /\ phase' = "tick"
    BY DEF BootstrapLogin
<1>2. \A q \in pending' : q \in pending \/ q = Packet(s, e, 0)
    BY DEF BootstrapLogin, Store
<1>3. QED
    BY <1>1, <1>2 DEF CurrentInv, SoonDropped, Packet

\* The session at e after a login of s from there is s, so all its packets go.
LEMMA KicsLoginCurrent ==
    ASSUME OwnHosts, TransportInv, ExactBinding, ExactBinding', CurrentInv,
           registry' \in Registries,
           NEW s \in Sessions, NEW e \in EndpointsOf[s], KicsLogin(s, e)
    PROVE  CurrentInv'
<1>1. /\ TypeOK /\ pending \subseteq Packets /\ registry \in Registries
      /\ e \in Endpoints
      /\ phase' = "tick"
      /\ \A t \in Sessions \ {s} : numbering'[t] = numbering[t]
    BY EndpointsAreHome DEF TransportInv, TypeOK, RegistryTypeOK, KicsLogin
<1> DEFINE From(header) == IF header = None THEN registry ELSE Follow(registry, header, e)
           Moved(header) == IF header = None THEN pending
                            ELSE Followed(pending, header, registry.endpoint[header], e)
<1>2. PICK h \in EndpointsOf[s], newLogin \in BOOLEAN, header \in HeadersFrom(e) \cup {None},
           to \in SUBSET (Reachable(registry') \ {s}) :
          /\ registry' = LoggedIn(From(header), s, e, h, newLogin)
          /\ pending' = Store(Forgotten(Moved(header), GetByEndpoint(registry', e)),
                              Fresh(registry', to))
    BY DEF KicsLogin
<1>3. header \in {s, None} /\ h \in Endpoints
    BY <1>2, EndpointsAreHome DEF OwnHosts, OwnHost, HeadersFrom
<1>4. GetByEndpoint(registry', e) = s
    <2>1. From(header) \in Registries
        BY <1>1, <1>3, FollowMoves DEF Moves
    <2>2. registry'.endpoint[s] = e
        BY <1>1, <1>2, <1>3, <2>1, LoggedInMoves
    <2>3. registry'.at[e] = s
        BY <1>1, <2>2, SessionRegistryAssumption, SessionTransportAssumption
           DEF OwnHosts, ExactBinding, Bound, Known
    <2>4. QED
        BY <1>1, <2>2, <2>3, SessionRegistryAssumption, SessionTransportAssumption DEF GetByEndpoint, Known
<1>5. \A q \in Moved(header) : q.session # s =>
          q.at \in EndpointsOf[q.session] /\ q.numbering = numbering[q.session] /\ q.session \in Sessions
    <2>1. CASE header = None
        BY <1>1, <2>1 DEF CurrentInv, Packets
    <2>2. CASE header = s
        BY <1>1, <2>2, FollowedComesFrom, SessionRegistryAssumption, SessionTransportAssumption DEF CurrentInv, Packets
    <2>3. QED
        BY <1>3, <2>1, <2>2
<1> HIDE DEF Moved
<1>6. \A q \in pending' : \/ q \in Moved(header) /\ q.session # s
                          \/ \E t \in to : q = Packet(t, registry'.endpoint[t], requestNumber[t])
    BY <1>2, <1>4 DEF Store, Fresh, Forgotten
<1>7. \A t \in to : t \in Sessions \ {s} /\ t \in Reachable(registry')
    BY <1>2 DEF Reachable
<1>8. \A q \in pending' : q.at \in EndpointsOf[q.session] /\ q.numbering = numbering'[q.session]
    BY <1>1, <1>5, <1>6, <1>7, SentIsCurrent DEF ExactBinding, AtHome
<1>9. QED
    BY <1>1, <1>8 DEF CurrentInv, SoonDropped

LEMMA TickCurrent ==
    ASSUME TransportInv, AtHome(registry), CurrentInv,
           NoDatagram \/ TickSends \/ \E s \in Sessions : EndIdle(s)
    PROVE  CurrentInv'
<1>1. CASE NoDatagram
    BY <1>1 DEF NoDatagram, CurrentInv, SoonDropped
<1>2. CASE \E s \in Sessions : EndIdle(s)
    BY <1>2 DEF EndIdle, CurrentInv, SoonDropped
<1>3. CASE TickSends
    <2>1. TypeOK /\ registry \in Registries
        BY DEF TransportInv, TypeOK, RegistryTypeOK
    <2>2. PICK to \in SUBSET Reachable(registry) : Send(registry, pending, to)
        BY <1>3 DEF TickSends
    <2>3. /\ numbering' = numbering /\ phase' = "resend"
          /\ \A q \in pending' : KeyOf(q) \in todo'
        BY <1>3 DEF TickSends
    <2>4. \A q \in pending' : q.at \in EndpointsOf[q.session] /\ q.numbering = numbering[q.session]
        BY <2>1, <2>2, SentIsLive, SentIsCurrent DEF CurrentInv
    <2>5. QED
        BY <2>3, <2>4 DEF CurrentInv, SoonDropped
<1>4. QED
    BY <1>1, <1>2, <1>3

\* A packet is only ever resent or timed out for its own session: at the ports
\* of its host there is no other.
LEMMA OwnerIsOwn ==
    ASSUME OwnHosts, TypeOK, ExactBinding, NEW q \in pending, pending \subseteq Packets,
           q.at \in EndpointsOf[q.session], OwnerPresent(KeyOf(q))
    PROVE  OwnerOf(KeyOf(q)) = q.session /\ Live(q) /\ q.session \in Sessions
<1>1. /\ q.session \in Sessions /\ q.at \in Endpoints
      /\ KeyOf(q).session = q.session /\ KeyOf(q).at = q.at
      /\ registry \in Registries
    BY DEF Packets, KeyOf, TypeOK, RegistryTypeOK
<1>2. CASE Known(registry, q.session)
    BY <1>1, <1>2 DEF OwnerOf, OwnerPresent, Resolve, Live
<1>3. CASE ~Known(registry, q.session)
    <2>1. OwnerOf(KeyOf(q)) = GetByEndpoint(registry, q.at)
        BY <1>1, <1>3 DEF OwnerOf, Resolve
    <2> DEFINE t == GetByEndpoint(registry, q.at)
    <2>2. t \in Sessions /\ Known(registry, t) /\ registry.endpoint[t] = q.at
        BY <1>1, <2>1, ResolvedIsKnown DEF OwnerPresent
    <2>3. q.at \in EndpointsOf[t]
        BY <2>2 DEF ExactBinding, AtHome
    <2>4. t = q.session
        BY <1>1, <2>2, <2>3 DEF OwnHosts, OwnHost
    <2>5. QED
        BY <1>3, <2>2, <2>4
<1>4. QED
    BY <1>2, <1>3

LEMMA ResendPassCurrent ==
    ASSUME OwnHosts, TransportInv, ExactBinding, ExactBinding', CurrentInv,
           registry' \in Registries, NEW k \in todo, ResendPass(k)
    PROVE  CurrentInv'
<1>1. /\ TypeOK /\ pending \subseteq Packets /\ registry \in Registries
      /\ numbering' = numbering /\ phase = "resend" /\ phase' = "resend"
      /\ todo' = todo \ {k}
    BY DEF TransportInv, TypeOK, RegistryTypeOK, ResendPass
<1>2. \A q \in pending : /\ q.at \in EndpointsOf[q.session] /\ q.numbering = numbering[q.session]
                         /\ Live(q) \/ KeyOf(q) \in todo
    BY <1>1 DEF CurrentInv, SoonDropped
<1>3. CASE Skip(k)
    <2>1. \A q \in pending : KeyOf(q) # k
        BY <1>3 DEF Skip, InFlight
    <2>2. pending' = pending /\ registry' = registry
        BY <1>3 DEF Skip
    <2>3. QED
        BY <1>1, <1>2, <2>1, <2>2 DEF CurrentInv, SoonDropped, Live
<1>4. CASE Resend(k)
    <2>1. \A q \in pending : KeyOf(q) = k => Live(q)
        BY <1>1, <1>2, <1>4, OwnerIsOwn DEF Resend
    <2>2. pending' = pending /\ registry' = registry
        BY <1>4 DEF Resend
    <2>3. QED
        BY <1>1, <1>2, <2>1, <2>2 DEF CurrentInv, SoonDropped, Live
<1>5. CASE DropMissing(k)
    <2>1. \A q \in pending' : q \in pending /\ KeyOf(q) # k
        BY <1>5 DEF DropMissing, Of, KeyOf
    <2>2. registry' = registry
        BY <1>5 DEF DropMissing
    <2>3. QED
        BY <1>1, <1>2, <2>1, <2>2 DEF CurrentInv, SoonDropped, Live
<1>6. CASE Timeout(k)
    <2>1. PICK x \in pending : KeyOf(x) = k
        BY <1>6 DEF Timeout, InFlight
    <2>2. OwnerOf(k) = x.session /\ Live(x) /\ x.session \in Sessions /\ x.at = k.at /\ x.session = k.session
        BY <1>1, <1>2, <1>6, <2>1, OwnerIsOwn DEF Timeout, KeyOf
    <2>3. Moves(registry, registry', x.session)
        BY <1>1, <1>6, <2>2, RemoveMoves DEF Timeout
    <2>4. \A t \in Sessions \ {x.session} : registry'.endpoint[t] = registry.endpoint[t]
        BY <1>1, <1>6, <2>2 DEF Timeout, Remove, Registries
    <2>5. PICK to \in SUBSET Reachable(registry') :
              Send(registry', pending \ Of(pending, k.at, k.session), to)
        BY <1>6 DEF Timeout
    <2>6. ASSUME NEW q \in pending'
          PROVE  /\ q.at \in EndpointsOf[q.session] /\ q.numbering = numbering[q.session]
                 /\ registry'.endpoint[q.session] = q.at \/ KeyOf(q) \in todo \ {k}
        <3>1. CASE q \in pending \ Of(pending, k.at, k.session)
            <4>1. q.session \in Sessions /\ KeyOf(q) # k /\ ~(q.session = x.session /\ q.at = k.at)
                BY <1>1, <2>2, <3>1 DEF Of, KeyOf, Packets
            <4>2. Live(q) => q.session # x.session
                BY <2>2, <4>1 DEF Live
            <4>3. QED
                BY <1>2, <2>4, <3>1, <4>1, <4>2 DEF Live
        <3>2. CASE \E t \in to : q = Packet(t, registry'.endpoint[t], requestNumber[t])
            BY <1>1, <3>2, SentIsCurrent DEF ExactBinding, AtHome
        <3>3. QED
            BY <2>5, <3>1, <3>2, SentIsLive
    <2>7. QED
        BY <1>1, <2>6 DEF CurrentInv, SoonDropped, Live
<1>7. QED
    BY <1>3, <1>4, <1>5, <1>6 DEF ResendPass

LEMMA CurrentStep ==
    ASSUME OwnHosts, TransportInv, TransportInv', ExactBinding, ExactBinding',
           CurrentInv, [Next]_vars
    PROVE  CurrentInv'
<1>1. registry' \in Registries
    BY DEF TransportInv, TypeOK, RegistryTypeOK
<1>2. AtHome(registry) /\ AtHome(registry')
    BY DEF ExactBinding, AtHome, Known
<1>3. ASSUME NEW s \in Sessions, NEW e \in EndpointsOf[s],
             Datagram(s, e) \/ BootstrapLogin(s, e) \/ KicsLogin(s, e)
      PROVE  CurrentInv'
    BY <1>1, <1>2, <1>3, DatagramCurrent, BootstrapLoginCurrent, KicsLoginCurrent
<1>4. CASE NoDatagram \/ TickSends \/ \E s \in Sessions : EndIdle(s)
    BY <1>2, <1>4, TickCurrent
<1>5. ASSUME NEW k \in todo, ResendPass(k)
      PROVE  CurrentInv'
    BY <1>1, <1>5, ResendPassCurrent
<1>6. CASE EndPass
    BY <1>6 DEF EndPass, CurrentInv, SoonDropped, Live
<1>7. CASE UNCHANGED vars
    BY <1>7 DEF vars, CurrentInv, SoonDropped, Live
<1>8. QED
    BY <1>3, <1>4, <1>5, <1>6, <1>7 DEF Next

LEMMA CurrentInvariant == ASSUME OwnHosts PROVE Spec => []CurrentInv
<1>1. Init => CurrentInv
    BY DEF Init, CurrentInv
<1>2. TransportInv /\ TransportInv' /\ ExactBinding /\ ExactBinding'
          /\ CurrentInv /\ [Next]_vars => CurrentInv'
    BY CurrentStep
<1>3. QED
    BY <1>1, <1>2, LivePacketsStay, LoopTablesMirror, PTL DEF Spec

\* Where clients do not share ports, a resend pass leaves nothing in flight for a
\* session that is gone or elsewhere (_retransmit_due, _drop_missing_session_pending).
THEOREM PassDropsWhatIsObsolete == ASSUME OwnHosts PROVE Spec => []PassDropsObsolete
<1>1. CurrentInv => PassDropsObsolete
    BY DEF CurrentInv, SoonDropped, Live, PassDropsObsolete
<1>2. QED
    BY <1>1, CurrentInvariant, PTL

\* ... and no packet numbered before a KICS login is sent after it
\* (_forget_session_reliables).
THEOREM OldNumberingIsForgotten == ASSUME OwnHosts PROVE Spec => []NoOldNumbering
<1>1. CurrentInv => NoOldNumbering
    BY DEF CurrentInv, NoOldNumbering
<1>2. QED
    BY <1>1, CurrentInvariant, PTL

-----------------------------------------------------------------------------
(***************************************************************************)
(* Time in one session.  First the framed link: every packet and every ACK *)
(* is in it at most once, and a packet waits exactly when it is there.     *)
(***************************************************************************)

\* Each packet is in the link once, and is there if it waits for it.
Linked(v) ==
    /\ v \in Servers
    /\ ~framed => v.queue = <<>>
    /\ \A i, j \in DOMAIN v.queue : v.queue[i].packet = v.queue[j].packet /\ v.queue[i].packet # Nil => i = j
    /\ \A i, j \in DOMAIN v.queue : v.queue[i].ack = v.queue[j].ack /\ v.queue[i].ack # Nil => i = j
    /\ \A s \in Slots : v.pending[s] # Nil => (v.pending[s].waiting <=> InQueue(v, s))

\* An ended session has nothing in the transport.
GoneAs(u) ==
    /\ u \in Servers /\ ~u.known /\ u.queue = <<>>
    /\ \A t \in Slots : u.pending[t] = Nil

LinkInv ==
    /\ TimingTypeOK
    /\ Linked(server)
    /\ GoneClientEnded
    /\ framed => Carried(server) = owed
    /\ server.known \/ GoneAs(server)

LEMMA TimingNumbers ==
    /\ ReliableTimeout \in Nat \ {0} /\ Interval \in Nat \ {0} /\ IdleLimit \in Nat \ {0} /\ MinFrames \in Nat \ {0}
    /\ Pace \in Nat \ {0} /\ FramedWait \in Nat \ {0} /\ Growth \in Nat \ {0} /\ Delay \in Nat \ {0}
    /\ RttLow \in Nat \ {0} /\ RttHigh \in Nat \ {0} /\ RttInit \in RttLow .. RttHigh
    /\ MaxTries \in Nat /\ MaxQueue \in Nat /\ MaxLast \in Nat
<1>1. /\ ReliableTimeout \in Nat \ {0} /\ Interval \in Nat \ {0} /\ IdleLimit \in Nat \ {0} /\ MinFrames \in Nat \ {0}
      /\ Pace \in Nat \ {0} /\ FramedWait \in Nat \ {0} /\ Growth \in Nat \ {0} /\ Delay \in Nat \ {0}
      /\ MaxTries \in Nat /\ MaxQueue \in Nat
    BY TimingAssumption
<1>2. RttLow \in Nat \ {0} /\ RttHigh \in Nat \ {0} /\ RttInit \in RttLow .. RttHigh
    BY TimingAssumption
<1>3. QED
    BY <1>1, <1>2 DEF MaxLast

\* A packet's ages are counted up to their bounds.
LEMMA OlderBounded ==
    ASSUME NEW most \in Nat, NEW n \in 0 .. most
    PROVE  /\ Older(n, most) \in 0 .. most
           /\ Older(n, most) = IF n < most THEN n + 1 ELSE n
    BY DEF Older

OlderPacket(q, p) ==
    /\ q \in Tracked /\ q.keepalive = p.keepalive /\ q.waiting = p.waiting /\ q.tries = p.tries
    /\ q.first = Older(p.first, ReliableTimeout) /\ q.last = Older(p.last, MaxLast)

AgedTo(u, v) ==
    /\ u \in Servers
    /\ u.known = v.known /\ u.kept = v.kept /\ u.queue = v.queue /\ u.rtt = v.rtt
    /\ u.silent = Older(v.silent, IdleLimit) /\ u.since = Older(v.since, Pace + 1)
    /\ \A s \in Slots : IF v.pending[s] = Nil THEN u.pending[s] = Nil
                        ELSE u.pending[s] # Nil /\ OlderPacket(u.pending[s], v.pending[s])

LEMMA AgedFields ==
    ASSUME NEW v \in Servers
    PROVE  AgedTo(Aged(v), v)
<1> DEFINE older(p) == AgedPacket(p)
           f == [s \in Slots |-> IF v.pending[s] = Nil THEN Nil ELSE older(v.pending[s])]
<1>1. \A s \in Slots : v.pending[s] # Nil => v.pending[s] \in Tracked /\ OlderPacket(older(v.pending[s]), v.pending[s])
    <2> SUFFICES ASSUME NEW p \in Tracked PROVE OlderPacket(older(p), p)
        BY DEF Servers
    <2>1. Older(p.first, ReliableTimeout) \in 0 .. ReliableTimeout /\ Older(p.last, MaxLast) \in 0 .. MaxLast
        BY TimingNumbers, OlderBounded DEF Tracked
    <2>2. QED
        BY <2>1 DEF OlderPacket, AgedPacket, Tracked
<1>2. \A s \in Slots : v.pending[s] # Nil => older(v.pending[s]) \in Tracked /\ older(v.pending[s]) # Nil
    BY <1>1, NilAssumption DEF OlderPacket
<1> HIDE DEF older
<1>3. f \in [Slots -> Tracked \cup {Nil}]
    BY <1>2
<1>4. Aged(v) = [v EXCEPT !.silent = Older(v.silent, IdleLimit), !.since = Older(v.since, Pace + 1), !.pending = f]
    BY DEF Aged, Servers, older
<1>5. Older(v.silent, IdleLimit) \in 0 .. IdleLimit /\ Older(v.since, Pace + 1) \in 0 .. Pace + 1
    BY TimingNumbers, OlderBounded DEF Servers
<1>6. \A s \in Slots : f[s] = IF v.pending[s] = Nil THEN Nil ELSE older(v.pending[s])
    OBVIOUS
<1> HIDE DEF f
<1>7. /\ Aged(v) \in Servers /\ Aged(v).pending = f /\ Aged(v).known = v.known /\ Aged(v).kept = v.kept
      /\ Aged(v).queue = v.queue /\ Aged(v).rtt = v.rtt
      /\ Aged(v).silent = Older(v.silent, IdleLimit) /\ Aged(v).since = Older(v.since, Pace + 1)
    BY <1>3, <1>4, <1>5 DEF Servers
<1>8. QED
    BY <1>1, <1>2, <1>6, <1>7 DEF AgedTo

-----------------------------------------------------------------------------
LEMMA AppendMessages ==
    ASSUME NEW u \in Servers, NEW v \in Servers, NEW e \in Entries, u.queue = Append(v.queue, e)
    PROVE  /\ Len(v.queue) \in Nat /\ Len(u.queue) = Len(v.queue) + 1
           /\ DOMAIN v.queue = 1 .. Len(v.queue) /\ DOMAIN u.queue = 1 .. Len(v.queue) + 1
           /\ u.queue[Len(v.queue) + 1] = e
           /\ \A i \in 1 .. Len(v.queue) : u.queue[i] = v.queue[i]
           /\ \A t : InQueue(u, t) <=> InQueue(v, t) \/ e.packet = t
           /\ Carried(u) = Carried(v) \cup ({e.ack} \ {Nil})
<1>1. v.queue \in Seq(Entries)
    BY DEF Servers
<1>2. /\ Len(v.queue) \in Nat /\ Len(u.queue) = Len(v.queue) + 1
      /\ DOMAIN v.queue = 1 .. Len(v.queue) /\ DOMAIN u.queue = 1 .. Len(v.queue) + 1
      /\ u.queue[Len(v.queue) + 1] = e
      /\ \A i \in 1 .. Len(v.queue) : u.queue[i] = v.queue[i]
    BY <1>1
<1>3. \A i : i \in DOMAIN u.queue <=> i \in DOMAIN v.queue \/ i = Len(v.queue) + 1
    BY <1>2
<1>4. \A i \in DOMAIN v.queue : u.queue[i] = v.queue[i]
    BY <1>2
<1>5. \A t : InQueue(u, t) <=> InQueue(v, t) \/ e.packet = t
    BY <1>2, <1>3, <1>4, Zenon DEF InQueue
<1>6. Carried(u) = Carried(v) \cup ({e.ack} \ {Nil})
    <2>1. {u.queue[i].ack : i \in DOMAIN u.queue} = {v.queue[i].ack : i \in DOMAIN v.queue} \cup {e.ack}
        BY <1>2, <1>3, <1>4, Zenon
    <2>2. QED
        BY <2>1 DEF Carried
<1>7. QED
    BY <1>2, <1>5, <1>6

\* A message goes into the link that has its packet and its ACK once.
Waits(u, v, e) ==
    \A t \in Slots : u.pending[t] # Nil =>
        IF t = e.packet THEN u.pending[t].waiting
        ELSE v.pending[t] # Nil /\ u.pending[t].waiting = v.pending[t].waiting

LEMMA AppendLinked ==
    ASSUME NEW v, Linked(v), framed, NEW u \in Servers, NEW e \in Entries, u.queue = Append(v.queue, e),
           e.packet # Nil => ~InQueue(v, e.packet), e.ack \notin Carried(v), Waits(u, v, e)
    PROVE  Linked(u)
<1> DEFINE n == Len(v.queue)
<1>1. v \in Servers
    BY DEF Linked
<1>2. /\ n \in Nat /\ DOMAIN v.queue = 1 .. n /\ DOMAIN u.queue = 1 .. n + 1 /\ u.queue[n + 1] = e
      /\ \A i \in 1 .. n : u.queue[i] = v.queue[i]
      /\ \A t : InQueue(u, t) <=> InQueue(v, t) \/ e.packet = t
    BY <1>1, AppendMessages
<1> HIDE DEF n
<1>3. \A i \in DOMAIN v.queue : /\ v.queue[i].packet = e.packet => e.packet = Nil
                                /\ v.queue[i].ack = e.ack => e.ack = Nil
    BY DEF InQueue, Carried
<1>4. ASSUME NEW i \in DOMAIN u.queue, NEW j \in DOMAIN u.queue,
             \/ u.queue[i].packet = u.queue[j].packet /\ u.queue[i].packet # Nil
             \/ u.queue[i].ack = u.queue[j].ack /\ u.queue[i].ack # Nil
      PROVE  i = j
    <2>1. CASE i \in 1 .. n /\ j \in 1 .. n
        BY <1>2, <1>4, <2>1 DEF Linked
    <2>2. CASE i = n + 1 /\ j \in 1 .. n
        BY <1>2, <1>3, <1>4, <2>2
    <2>3. CASE j = n + 1 /\ i \in 1 .. n
        BY <1>2, <1>3, <1>4, <2>3
    <2>4. QED
        BY <1>2, <2>1, <2>2, <2>3
<1>5. ASSUME NEW t \in Slots, u.pending[t] # Nil
      PROVE  u.pending[t].waiting <=> InQueue(u, t)
    <2>1. CASE t = e.packet
        BY <1>2, <1>5, <2>1 DEF Waits
    <2>2. CASE t # e.packet
        <3>1. v.pending[t] # Nil /\ u.pending[t].waiting = v.pending[t].waiting
            BY <1>5, <2>2 DEF Waits
        <3>2. v.pending[t].waiting <=> InQueue(v, t)
            BY <3>1 DEF Linked
        <3>3. QED
            BY <1>2, <2>2, <3>1, <3>2
    <2>3. QED
        BY <2>1, <2>2
<1>6. \A i, j \in DOMAIN u.queue : u.queue[i].packet = u.queue[j].packet /\ u.queue[i].packet # Nil => i = j
    BY <1>4
<1>7. \A i, j \in DOMAIN u.queue : u.queue[i].ack = u.queue[j].ack /\ u.queue[i].ack # Nil => i = j
    BY <1>4
<1>8. QED
    BY <1>5, <1>6, <1>7 DEF Linked

\* A packet is tracked, and sent or put into the link.
TrackedAs(u, v, s, k, ack) ==
    /\ u \in Servers /\ u.known = v.known /\ u.silent = v.silent /\ u.since = v.since /\ u.rtt = v.rtt
    /\ u.pending[s] = New(k) /\ New(k) # Nil
    /\ \A t \in Slots : t # s => u.pending[t] = v.pending[t]
    /\ u.queue = IF framed THEN Append(v.queue, [packet |-> s, ack |-> ack]) ELSE v.queue

LEMMA NewTracked ==
    ASSUME framed \in BOOLEAN, NEW k \in BOOLEAN
    PROVE  New(k) \in Tracked /\ New(k) # Nil
<1>1. New(k) \in Tracked
    BY TimingNumbers DEF New, Tracked
<1>2. QED
    BY <1>1, NilAssumption

LEMMA TrackFields ==
    ASSUME framed \in BOOLEAN, NEW v \in Servers, NEW s \in Slots, NEW k \in BOOLEAN, NEW ack \in Requests \cup {Nil}
    PROVE  TrackedAs(Track(v, s, k, ack), v, s, k, ack) /\ Track(v, s, k, ack).kept = v.kept
<1> DEFINE f == [v.pending EXCEPT ![s] = New(k)]
           q == Append(v.queue, [packet |-> s, ack |-> ack])
           u == [v EXCEPT !.pending = f]
<1>1. New(k) \in Tracked /\ New(k) # Nil
    BY NewTracked
<1>2. f \in [Slots -> Tracked \cup {Nil}] /\ f[s] = New(k) /\ \A t \in Slots : t # s => f[t] = v.pending[t]
    BY <1>1 DEF Servers
<1>3. q \in Seq(Entries)
    BY DEF Servers, Entries
<1>4. Track(v, s, k, ack) = IF framed THEN [u EXCEPT !.queue = Append(u.queue, [packet |-> s, ack |-> ack])] ELSE u
    BY DEF Track, Add
<1> HIDE DEF f
<1>5. /\ u \in Servers /\ u.known = v.known /\ u.kept = v.kept /\ u.silent = v.silent /\ u.since = v.since
      /\ u.rtt = v.rtt /\ u.pending = f /\ u.queue = v.queue
    BY <1>2 DEF Servers
<1> HIDE DEF u
<1>6. CASE framed
    <2>1. Track(v, s, k, ack) = [u EXCEPT !.queue = q]
        BY <1>4, <1>5, <1>6
    <2> HIDE DEF q
    <2> DEFINE w == [u EXCEPT !.queue = q]
    <2>2. /\ w \in Servers /\ w.known = u.known /\ w.kept = u.kept /\ w.silent = u.silent /\ w.since = u.since
          /\ w.rtt = u.rtt /\ w.pending = u.pending /\ w.queue = q
        BY <1>3, <1>5 DEF Servers
    <2> HIDE DEF w
    <2>3. TrackedAs(w, v, s, k, ack) /\ w.kept = v.kept
        BY <1>1, <1>2, <1>5, <1>6, <2>2 DEF TrackedAs, q
    <2>4. QED
        BY <2>1, <2>3 DEF w
<1>7. CASE ~framed
    <2>1. Track(v, s, k, ack) = u
        BY <1>4, <1>7
    <2>2. TrackedAs(u, v, s, k, ack) /\ u.kept = v.kept
        BY <1>1, <1>2, <1>5, <1>7 DEF TrackedAs
    <2>3. QED
        BY <2>1, <2>2
<1>8. QED
    BY <1>6, <1>7

LEMMA TrackLinked ==
    ASSUME framed \in BOOLEAN, NEW v, Linked(v), NEW s \in Slots, ~InQueue(v, s),
           NEW k \in BOOLEAN, NEW ack \in Requests \cup {Nil}, ack \notin Carried(v),
           NEW u, TrackedAs(u, v, s, k, ack)
    PROVE  Linked(u)
<1> DEFINE e == [packet |-> s, ack |-> ack]
<1>1. e \in Entries /\ e.packet = s /\ e.ack = ack
    BY DEF Entries
<1> HIDE DEF e
<1>2. u \in Servers /\ u.pending[s] # Nil /\ u.pending[s].waiting = framed
    BY DEF TrackedAs, New
<1>3. CASE framed
    <2>1. u.queue = Append(v.queue, e)
        BY <1>3 DEF TrackedAs, e
    <2>2. Waits(u, v, e)
        BY <1>1, <1>2, <1>3 DEF Waits, TrackedAs
    <2>3. QED
        BY <1>1, <1>2, <1>3, <2>1, <2>2, AppendLinked
<1>4. CASE ~framed
    <2>1. u.queue = v.queue /\ u.queue = <<>>
        BY <1>4 DEF TrackedAs, Linked
    <2>2. \A t : ~InQueue(u, t) /\ ~InQueue(v, t)
        BY <2>1 DEF InQueue
    <2>3. \A t \in Slots : u.pending[t] # Nil => ~u.pending[t].waiting
        BY <1>2, <1>4, <2>2 DEF TrackedAs, Linked
    <2>4. QED
        BY <1>2, <2>1, <2>2, <2>3 DEF Linked
<1>5. QED
    BY <1>3, <1>4

\* The messages of a set of packets: one for each.
LEMMA BareMessages ==
    ASSUME NEW due \in SUBSET Slots
    PROVE  /\ Bare(due) \in Seq(Entries) /\ Len(Bare(due)) = Cardinality(due) /\ Cardinality(due) \in Nat
           /\ DOMAIN Bare(due) = 1 .. Cardinality(due)
           /\ \A i \in DOMAIN Bare(due) : Bare(due)[i].packet \in due /\ Bare(due)[i].ack = Nil
           /\ \A i, j \in DOMAIN Bare(due) : Bare(due)[i].packet = Bare(due)[j].packet => i = j
           /\ \A s \in due : \E i \in DOMAIN Bare(due) : Bare(due)[i].packet = s
<1> DEFINE n == Cardinality(due)
           f == InOrder(due)
<1>1. IsFiniteSet(due)
    BY TimingAssumption, FS_Subset
<1>2. n \in Nat /\ ExistsBijection(1 .. n, due)
    BY <1>1, FS_CardinalityType
<1>3. f \in Bijection(1 .. n, due)
    BY <1>2, Zenon DEF InOrder, ExistsBijection
<1>4. f \in [1 .. n -> due] /\ IsInjective(f) /\ f \in Surjection(1 .. n, due)
    BY <1>3 DEF Bijection, Injection
<1>5. \A s \in due : \E i \in 1 .. n : f[i] = s
    BY <1>4 DEF Surjection
<1>6. Bare(due) = [i \in 1 .. n |-> [packet |-> f[i], ack |-> Nil]]
    BY DEF Bare
<1>7. \A i, j \in 1 .. n : f[i] = f[j] => i = j
    BY <1>4 DEF IsInjective
<1> HIDE DEF n, f
<1>8. \A i \in 1 .. n : [packet |-> f[i], ack |-> Nil] \in Entries
    BY <1>4 DEF Entries
<1>9. Bare(due) \in [1 .. n -> Entries] /\ DOMAIN Bare(due) = 1 .. n
    BY <1>6, <1>8
<1>10. Bare(due) \in Seq(Entries) /\ Len(Bare(due)) = n
    BY <1>2, <1>9
<1>11. \A i \in 1 .. n : Bare(due)[i].packet = f[i] /\ Bare(due)[i].ack = Nil
    BY <1>6
<1>12. QED
    BY <1>2, <1>4, <1>5, <1>7, <1>9, <1>10, <1>11 DEF n

\* A resend waits in the link for its turn, behind what is there.
RequeuedAs(u, v, due) ==
    /\ u \in Servers /\ u.known = v.known /\ u.kept = v.kept /\ u.silent = v.silent /\ u.since = v.since
    /\ u.rtt = v.rtt /\ u.queue = v.queue \o Bare(due)
    /\ \A t \in Slots : /\ u.pending[t] = Nil <=> v.pending[t] = Nil
                        /\ t \notin due => u.pending[t] = v.pending[t]
                        /\ t \in due => /\ u.pending[t].waiting
                                        /\ u.pending[t].keepalive = v.pending[t].keepalive
                                        /\ u.pending[t].first = v.pending[t].first

LEMMA RequeuedFields ==
    ASSUME NEW v \in Servers, NEW due \in SUBSET Slots, \A s \in due : v.pending[s] # Nil
    PROVE  RequeuedAs(Requeued(v, due), v, due)
<1> DEFINE wait(p) == [p EXCEPT !.waiting = TRUE]
           f == [s \in Slots |-> IF s \in due THEN wait(v.pending[s]) ELSE v.pending[s]]
           q == v.queue \o Bare(due)
           u == [v EXCEPT !.queue = q, !.pending = f]
<1>1. \A p \in Tracked : /\ wait(p) \in Tracked /\ wait(p) # Nil /\ wait(p).waiting /\ wait(p).keepalive = p.keepalive
                         /\ wait(p).first = p.first
    <2> SUFFICES ASSUME NEW p \in Tracked
                 PROVE  /\ wait(p) \in Tracked /\ wait(p) # Nil /\ wait(p).waiting
                        /\ wait(p).keepalive = p.keepalive /\ wait(p).first = p.first
        OBVIOUS
    <2>1. wait(p) \in Tracked /\ wait(p).waiting /\ wait(p).keepalive = p.keepalive /\ wait(p).first = p.first
        BY DEF Tracked
    <2>2. QED
        BY <2>1, NilAssumption
<1>2. Requeued(v, due) = u
    BY DEF Requeued
<1> HIDE DEF wait
<1>3. \A s \in Slots : v.pending[s] \in Tracked \cup {Nil}
    BY DEF Servers
<1>4. /\ f \in [Slots -> Tracked \cup {Nil}]
      /\ \A s \in Slots : f[s] = IF s \in due THEN wait(v.pending[s]) ELSE v.pending[s]
    BY <1>1, <1>3
<1>5. q \in Seq(Entries)
    BY BareMessages DEF Servers
<1> HIDE DEF f, q
<1>6. /\ u \in Servers /\ u.known = v.known /\ u.kept = v.kept /\ u.silent = v.silent /\ u.since = v.since
      /\ u.rtt = v.rtt /\ u.queue = q /\ u.pending = f
    BY <1>4, <1>5 DEF Servers
<1> HIDE DEF u
<1>7. \A t \in Slots : /\ u.pending[t] = Nil <=> v.pending[t] = Nil
                       /\ t \notin due => u.pending[t] = v.pending[t]
                       /\ t \in due => /\ u.pending[t].waiting
                                       /\ u.pending[t].keepalive = v.pending[t].keepalive
                                       /\ u.pending[t].first = v.pending[t].first
    BY <1>1, <1>3, <1>4, <1>6
<1>8. RequeuedAs(u, v, due)
    BY <1>6, <1>7 DEF RequeuedAs, q
<1>9. QED
    BY <1>2, <1>8

\* Two queues, one behind the other.
LEMMA Behind ==
    ASSUME NEW S, NEW q \in Seq(S), NEW b \in Seq(S), NEW r, r = q \o b
    PROVE  /\ Len(q) \in Nat /\ Len(b) \in Nat /\ Len(r) = Len(q) + Len(b)
           /\ DOMAIN q = 1 .. Len(q) /\ DOMAIN b = 1 .. Len(b) /\ DOMAIN r = 1 .. Len(q) + Len(b)
           /\ \A i \in 1 .. Len(q) : r[i] = q[i]
           /\ \A i \in 1 .. Len(b) : r[Len(q) + i] = b[i]
           /\ \A i \in 1 .. Len(q) + Len(b) : i \in 1 .. Len(q) \/ (i - Len(q) \in 1 .. Len(b) /\ r[i] = b[i - Len(q)])
    OBVIOUS

LEMMA ConcatLength ==
    ASSUME NEW S, NEW q \in Seq(S), NEW b \in Seq(S)
    PROVE  Len(q \o b) = Len(q) + Len(b)
    OBVIOUS

LEMMA RequeuedMessages ==
    ASSUME NEW v \in Servers, NEW due \in SUBSET Slots, NEW u, RequeuedAs(u, v, due)
    PROVE  /\ \A t : InQueue(u, t) <=> InQueue(v, t) \/ t \in due
           /\ Carried(u) = Carried(v)
<1> DEFINE n == Len(v.queue)
           b == Bare(due)
<1>1. v.queue \in Seq(Entries) /\ b \in Seq(Entries) /\ u.queue = v.queue \o b
    BY BareMessages DEF Servers, RequeuedAs
<1>2. /\ \A i \in DOMAIN b : b[i].packet \in due /\ b[i].ack = Nil
      /\ \A s \in due : \E i \in DOMAIN b : b[i].packet = s
    BY BareMessages
<1> HIDE DEF b
<1>3. /\ n \in Nat /\ Len(b) \in Nat
      /\ DOMAIN v.queue = 1 .. n /\ DOMAIN b = 1 .. Len(b) /\ DOMAIN u.queue = 1 .. n + Len(b)
      /\ \A i \in 1 .. n : u.queue[i] = v.queue[i]
      /\ \A i \in 1 .. Len(b) : u.queue[n + i] = b[i]
      /\ \A i \in 1 .. n + Len(b) : i \in 1 .. n \/ (i - n \in 1 .. Len(b) /\ u.queue[i] = b[i - n])
    BY <1>1, Behind
<1> HIDE DEF n
<1>4. \A i \in DOMAIN v.queue : i \in DOMAIN u.queue /\ u.queue[i] = v.queue[i]
    BY <1>3
<1>5. \A i \in DOMAIN b : n + i \in DOMAIN u.queue /\ u.queue[n + i] = b[i]
    BY <1>3
<1>6. \A i \in DOMAIN u.queue : \/ i \in DOMAIN v.queue /\ u.queue[i] = v.queue[i]
                                \/ \E j \in DOMAIN b : u.queue[i] = b[j]
    BY <1>3
<1>7. \A t : InQueue(u, t) <=> InQueue(v, t) \/ t \in due
    BY <1>2, <1>4, <1>5, <1>6 DEF InQueue
<1>8. \A a : a \in Carried(u) <=> a \in Carried(v)
    BY <1>2, <1>4, <1>6 DEF Carried
<1>9. QED
    BY <1>7, <1>8

LEMMA RequeuedLinked ==
    ASSUME NEW v, Linked(v), framed, NEW due \in SUBSET Slots,
           \A s \in due : v.pending[s] # Nil /\ ~v.pending[s].waiting,
           NEW u, RequeuedAs(u, v, due)
    PROVE  Linked(u)
<1> DEFINE n == Len(v.queue)
           b == Bare(due)
<1>1. /\ v \in Servers /\ v.queue \in Seq(Entries) /\ b \in Seq(Entries) /\ u.queue = v.queue \o b
      /\ u \in Servers
    BY BareMessages DEF Servers, RequeuedAs, Linked
<1>2. /\ \A i \in DOMAIN b : b[i].packet \in due /\ b[i].ack = Nil
      /\ \A i, j \in DOMAIN b : b[i].packet = b[j].packet => i = j
    BY BareMessages
<1> HIDE DEF b
<1>3. /\ n \in Nat /\ Len(b) \in Nat
      /\ DOMAIN v.queue = 1 .. n /\ DOMAIN b = 1 .. Len(b) /\ DOMAIN u.queue = 1 .. n + Len(b)
      /\ \A i \in 1 .. n : u.queue[i] = v.queue[i]
      /\ \A i \in 1 .. n + Len(b) : i \in 1 .. n \/ (i - n \in 1 .. Len(b) /\ u.queue[i] = b[i - n])
    BY <1>1, Behind
<1> HIDE DEF n
<1>4. \A s \in due : ~InQueue(v, s)
    BY DEF Linked
<1>5. \A i \in DOMAIN v.queue : v.queue[i].packet \notin due
    BY <1>4 DEF InQueue
<1>6. ASSUME NEW i \in DOMAIN u.queue, NEW j \in DOMAIN u.queue,
             u.queue[i].packet = u.queue[j].packet, u.queue[i].packet # Nil
      PROVE  i = j
    <2>1. CASE i \in 1 .. n /\ j \in 1 .. n
        BY <1>3, <1>6, <2>1 DEF Linked
    <2>2. CASE i \in 1 .. n /\ j \notin 1 .. n
        <3>1. u.queue[i].packet \notin due /\ u.queue[j].packet \in due
            BY <1>2, <1>3, <1>5, <2>2
        <3>2. QED
            BY <1>6, <3>1
    <2>3. CASE j \in 1 .. n /\ i \notin 1 .. n
        <3>1. u.queue[j].packet \notin due /\ u.queue[i].packet \in due
            BY <1>2, <1>3, <1>5, <2>3
        <3>2. QED
            BY <1>6, <3>1
    <2>4. CASE i \notin 1 .. n /\ j \notin 1 .. n
        <3>1. /\ i - n \in DOMAIN b /\ u.queue[i] = b[i - n] /\ j - n \in DOMAIN b /\ u.queue[j] = b[j - n]
              /\ i \in Int /\ j \in Int
            BY <1>3, <2>4
        <3>2. i - n = j - n
            BY <1>2, <1>6, <3>1
        <3>3. QED
            BY <1>3, <3>1, <3>2
    <2>5. QED
        BY <2>1, <2>2, <2>3, <2>4
<1>7. ASSUME NEW i \in DOMAIN u.queue, NEW j \in DOMAIN u.queue,
             u.queue[i].ack = u.queue[j].ack, u.queue[i].ack # Nil
      PROVE  i = j
    <2>1. i \in 1 .. n /\ j \in 1 .. n
        BY <1>2, <1>3, <1>7
    <2>2. QED
        BY <1>3, <1>7, <2>1 DEF Linked
<1>8. \A s \in Slots : u.pending[s] # Nil => (u.pending[s].waiting <=> InQueue(u, s))
    <2> SUFFICES ASSUME NEW s \in Slots, u.pending[s] # Nil PROVE u.pending[s].waiting <=> InQueue(u, s)
        OBVIOUS
    <2>1. InQueue(u, s) <=> InQueue(v, s) \/ s \in due
        BY <1>1, RequeuedMessages
    <2>2. CASE s \in due
        BY <2>1, <2>2 DEF RequeuedAs
    <2>3. CASE s \notin due
        <3>1. u.pending[s] = v.pending[s]
            BY <2>3 DEF RequeuedAs
        <3>2. v.pending[s].waiting <=> InQueue(v, s)
            BY <3>1 DEF Linked
        <3>3. QED
            BY <2>1, <2>3, <3>1, <3>2
    <2>4. QED
        BY <2>2, <2>3
<1>9. QED
    BY <1>1, <1>6, <1>7, <1>8 DEF Linked

LEMMA GoneFields ==
    ASSUME NEW v \in Servers
    PROVE  GoneAs(Gone(v)) /\ Linked(Gone(v)) /\ Carried(Gone(v)) = {}
<1> DEFINE r == IF \E s \in Slots : v.pending[s] # Nil THEN RttInit ELSE v.rtt
           u == [v EXCEPT !.known = FALSE, !.pending = [s \in Slots |-> Nil], !.queue = <<>>, !.rtt = r]
<1>1. r \in RttLow .. RttHigh
    BY TimingNumbers DEF Servers
<1>2. Gone(v) = u
    BY DEF Gone
<1> HIDE DEF r
<1>3. u \in Servers /\ ~u.known /\ u.queue = <<>> /\ \A t \in Slots : u.pending[t] = Nil
    <2> DEFINE f == [s \in Slots |-> Nil]
    <2>1. f \in [Slots -> Tracked \cup {Nil}] /\ \A t \in Slots : f[t] = Nil
        OBVIOUS
    <2> DEFINE q == <<>>
    <2>2. q \in Seq(Entries) /\ q = <<>>
        OBVIOUS
    <2> HIDE DEF f, q
    <2>3. u = [v EXCEPT !.known = FALSE, !.pending = f, !.queue = q, !.rtt = r]
        BY DEF f, q
    <2> HIDE DEF u
    <2>4. u \in Servers /\ ~u.known /\ u.queue = q /\ u.pending = f
        BY <1>1, <2>1, <2>2, <2>3 DEF Servers
    <2>5. QED
        BY <2>1, <2>2, <2>4
<1> HIDE DEF u
<1>4. GoneAs(u) /\ Linked(u)
    BY <1>3 DEF GoneAs, Linked
<1>5. Carried(u) = {}
    BY <1>3 DEF Carried
<1>6. QED
    BY <1>2, <1>4, <1>5

SentAs(u, v) ==
    /\ u \in Servers /\ u.known = v.known /\ u.kept = v.kept /\ u.silent = v.silent /\ u.since = v.since
    /\ u.rtt = v.rtt /\ u.queue = v.queue
    /\ \A t \in Slots : /\ u.pending[t] = Nil <=> v.pending[t] = Nil
                        /\ v.pending[t] # Nil => /\ u.pending[t].waiting = v.pending[t].waiting
                                                 /\ u.pending[t].keepalive = v.pending[t].keepalive
                                                 /\ u.pending[t].first = v.pending[t].first
                                                 /\ v.pending[t].last = 0 => u.pending[t].last = 0

LEMMA SentFields ==
    ASSUME NEW v \in Servers, NEW due \in SUBSET Slots, \A s \in due : v.pending[s] # Nil
    PROVE  SentAs(Sent(v, due), v)
<1> DEFINE again(p) == [p EXCEPT !.last = 0, !.tries = Tries(p.tries)]
           f == [s \in Slots |-> IF s \in due THEN again(v.pending[s]) ELSE v.pending[s]]
           u == [v EXCEPT !.pending = f]
<1>1. \A p \in Tracked : /\ again(p) \in Tracked /\ again(p) # Nil /\ again(p).waiting = p.waiting
                         /\ again(p).keepalive = p.keepalive /\ again(p).first = p.first /\ again(p).last = 0
    <2> SUFFICES ASSUME NEW p \in Tracked
                 PROVE  /\ again(p) \in Tracked /\ again(p) # Nil /\ again(p).waiting = p.waiting
                        /\ again(p).keepalive = p.keepalive /\ again(p).first = p.first /\ again(p).last = 0
        OBVIOUS
    <2>1. Tries(p.tries) \in 0 .. MaxTries
        BY TimingNumbers DEF Tries, Tracked
    <2> DEFINE n == Tries(p.tries)
    <2>2. again(p) = [p EXCEPT !.last = 0, !.tries = n]
        OBVIOUS
    <2>3. 0 \in 0 .. MaxLast
        BY TimingNumbers
    <2> HIDE DEF n, again
    <2>4. /\ again(p) \in Tracked /\ again(p).waiting = p.waiting /\ again(p).keepalive = p.keepalive
          /\ again(p).first = p.first /\ again(p).last = 0
        BY <2>1, <2>2, <2>3 DEF Tracked, n
    <2>5. QED
        BY <2>4, NilAssumption
<1>2. Sent(v, due) = u
    BY DEF Sent
<1> HIDE DEF again
<1>3. \A s \in Slots : v.pending[s] \in Tracked \cup {Nil}
    BY DEF Servers
<1>4. /\ f \in [Slots -> Tracked \cup {Nil}]
      /\ \A s \in Slots : f[s] = IF s \in due THEN again(v.pending[s]) ELSE v.pending[s]
    BY <1>1, <1>3
<1> HIDE DEF f
<1>5. /\ u \in Servers /\ u.known = v.known /\ u.kept = v.kept /\ u.silent = v.silent /\ u.since = v.since
      /\ u.rtt = v.rtt /\ u.queue = v.queue /\ u.pending = f
    BY <1>4 DEF Servers
<1> HIDE DEF u
<1>6. \A t \in Slots : /\ u.pending[t] = Nil <=> v.pending[t] = Nil
                       /\ v.pending[t] # Nil => /\ u.pending[t].waiting = v.pending[t].waiting
                                                /\ u.pending[t].keepalive = v.pending[t].keepalive
                                                /\ u.pending[t].first = v.pending[t].first
                                                /\ v.pending[t].last = 0 => u.pending[t].last = 0
    BY <1>1, <1>3, <1>4, <1>5
<1>7. QED
    BY <1>2, <1>5, <1>6 DEF SentAs

LEMMA SameMessages ==
    ASSUME NEW u, NEW v, u.queue = v.queue
    PROVE  Carried(u) = Carried(v) /\ \A t : InQueue(u, t) <=> InQueue(v, t)
    BY DEF Carried, InQueue

\* Nothing but the packets' ages changes.
LEMMA SameLinked ==
    ASSUME NEW v, Linked(v), NEW u \in Servers, u.queue = v.queue,
           \A t \in Slots : u.pending[t] # Nil => v.pending[t] # Nil /\ u.pending[t].waiting = v.pending[t].waiting
    PROVE  Linked(u)
<1>1. \A t \in Slots : u.pending[t] # Nil => (u.pending[t].waiting <=> InQueue(u, t))
    <2> SUFFICES ASSUME NEW t \in Slots, u.pending[t] # Nil PROVE u.pending[t].waiting <=> InQueue(u, t)
        OBVIOUS
    <2>1. v.pending[t].waiting <=> InQueue(v, t)
        BY DEF Linked
    <2>2. QED
        BY <2>1, SameMessages
<1>2. QED
    BY <1>1 DEF Linked

\* The head of the link leaves.
PoppedAs(u, v) ==
    /\ u \in Servers /\ u.known = v.known /\ u.kept = v.kept /\ u.silent = v.silent /\ u.since = 0
    /\ u.rtt = v.rtt /\ u.queue = Tail(v.queue)
    /\ \A t \in Slots : /\ u.pending[t] = Nil <=> v.pending[t] = Nil
                        /\ v.pending[t] # Nil => /\ u.pending[t].keepalive = v.pending[t].keepalive
                                                 /\ u.pending[t].first = v.pending[t].first
                                                 /\ IF t = v.queue[1].packet
                                                    THEN ~u.pending[t].waiting /\ u.pending[t].last = 0
                                                    ELSE u.pending[t] = v.pending[t]

LEMMA PoppedFields ==
    ASSUME NEW v \in Servers, v.queue # <<>>
    PROVE  PoppedAs([v EXCEPT !.queue = Tail(v.queue), !.since = 0,
                              !.pending = IF v.queue[1].packet # Nil /\ v.pending[v.queue[1].packet] # Nil
                                          THEN [v.pending EXCEPT ![v.queue[1].packet].last = 0,
                                                                 ![v.queue[1].packet].waiting = FALSE]
                                          ELSE v.pending], v)
<1> DEFINE s == v.queue[1].packet
           sent(p) == [p EXCEPT !.last = 0, !.waiting = FALSE]
           g == IF s # Nil /\ v.pending[s] # Nil
                THEN [v.pending EXCEPT ![s].last = 0, ![s].waiting = FALSE] ELSE v.pending
           q == Tail(v.queue)
           u == [v EXCEPT !.queue = q, !.since = 0, !.pending = g]
<1>1. v.queue \in Seq(Entries) /\ v.pending \in [Slots -> Tracked \cup {Nil}]
    BY DEF Servers
<1>2. s \in Slots \cup {Nil} /\ q \in Seq(Entries)
    <2>1. v.queue[1] \in Entries /\ q \in Seq(Entries)
        BY <1>1
    <2>2. QED
        BY <2>1 DEF Entries
<1>3. \A p \in Tracked : /\ sent(p) \in Tracked /\ sent(p) # Nil /\ ~sent(p).waiting /\ sent(p).last = 0
                         /\ sent(p).keepalive = p.keepalive /\ sent(p).first = p.first
    <2> SUFFICES ASSUME NEW p \in Tracked
                 PROVE  /\ sent(p) \in Tracked /\ sent(p) # Nil /\ ~sent(p).waiting /\ sent(p).last = 0
                        /\ sent(p).keepalive = p.keepalive /\ sent(p).first = p.first
        OBVIOUS
    <2>1. 0 \in 0 .. MaxLast
        BY TimingNumbers
    <2>2. /\ sent(p) \in Tracked /\ ~sent(p).waiting /\ sent(p).last = 0
          /\ sent(p).keepalive = p.keepalive /\ sent(p).first = p.first
        BY <2>1 DEF Tracked
    <2>3. QED
        BY <2>2, NilAssumption
<1> HIDE DEF q
<1>4. /\ g \in [Slots -> Tracked \cup {Nil}]
      /\ \A t \in Slots : g[t] = IF t = s /\ v.pending[t] # Nil THEN sent(v.pending[t]) ELSE v.pending[t]
    <2>1. CASE s # Nil /\ v.pending[s] # Nil
        <3>1. s \in Slots /\ v.pending[s] \in Tracked
            BY <1>1, <1>2, <2>1
        <3>2. g = [v.pending EXCEPT ![s] = sent(v.pending[s])]
            BY <1>1, <2>1, <3>1
        <3> HIDE DEF g, sent, s
        <3>3. sent(v.pending[s]) \in Tracked
            BY <1>3, <3>1
        <3>4. QED
            BY <1>1, <2>1, <3>1, <3>2, <3>3
    <2>2. CASE ~(s # Nil /\ v.pending[s] # Nil)
        <3>1. g = v.pending
            BY <2>2
        <3>2. \A t \in Slots : ~(t = s /\ v.pending[t] # Nil)
            BY <2>2, NilAssumption
        <3> HIDE DEF g, sent, s
        <3>3. QED
            BY <1>1, <3>1, <3>2
    <2>3. QED
        BY <2>1, <2>2
<1> HIDE DEF sent, g
<1>5. /\ u \in Servers /\ u.known = v.known /\ u.kept = v.kept /\ u.silent = v.silent /\ u.since = 0
      /\ u.rtt = v.rtt /\ u.queue = q /\ u.pending = g
    <2>1. 0 \in 0 .. Pace + 1
        BY TimingNumbers
    <2>2. QED
        BY <1>2, <1>4, <2>1 DEF Servers
<1>6. u = [v EXCEPT !.queue = Tail(v.queue), !.since = 0,
                    !.pending = IF v.queue[1].packet # Nil /\ v.pending[v.queue[1].packet] # Nil
                                THEN [v.pending EXCEPT ![v.queue[1].packet].last = 0,
                                                       ![v.queue[1].packet].waiting = FALSE]
                                ELSE v.pending]
    BY DEF q, g
<1> HIDE DEF u
<1>7. \A t \in Slots : v.pending[t] \in Tracked \cup {Nil}
    BY <1>1
<1>8. \A t \in Slots : /\ u.pending[t] = Nil <=> v.pending[t] = Nil
                       /\ v.pending[t] # Nil => /\ u.pending[t].keepalive = v.pending[t].keepalive
                                                /\ u.pending[t].first = v.pending[t].first
                                                /\ IF t = s THEN ~u.pending[t].waiting /\ u.pending[t].last = 0
                                                   ELSE u.pending[t] = v.pending[t]
    <2> HIDE DEF s
    <2>1. QED
        BY <1>3, <1>4, <1>5, <1>7
<1>9. PoppedAs(u, v)
    BY <1>5, <1>8 DEF PoppedAs, q
<1>10. QED
    BY <1>6, <1>9

LEMMA PumpedEither ==
    ASSUME NEW v \in Servers
    PROVE  (~Pops(v) /\ Pumped(v) = v) \/ (Pops(v) /\ PoppedAs(Pumped(v), v))
<1>1. CASE Pops(v)
    <2>1. v.queue # <<>>
        BY <1>1 DEF Pops
    <2>2. Pumped(v) = [v EXCEPT !.queue = Tail(v.queue), !.since = 0,
                              !.pending = IF v.queue[1].packet # Nil /\ v.pending[v.queue[1].packet] # Nil
                                          THEN [v.pending EXCEPT ![v.queue[1].packet].last = 0,
                                                                 ![v.queue[1].packet].waiting = FALSE]
                                          ELSE v.pending]
        BY <1>1 DEF Pumped
    <2>3. QED
        BY <1>1, <2>1, <2>2, PoppedFields
<1>2. CASE ~Pops(v)
    BY <1>2 DEF Pumped
<1>3. QED
    BY <1>1, <1>2

LEMMA TailMessages ==
    ASSUME NEW v \in Servers, v.queue # <<>>, NEW u, u.queue = Tail(v.queue)
    PROVE  /\ Len(v.queue) \in Nat \ {0} /\ Len(u.queue) = Len(v.queue) - 1
           /\ DOMAIN v.queue = 1 .. Len(v.queue) /\ DOMAIN u.queue = 1 .. Len(v.queue) - 1
           /\ \A i \in 1 .. Len(v.queue) - 1 : u.queue[i] = v.queue[i + 1]
<1>1. v.queue \in Seq(Entries)
    BY DEF Servers
<1>2. QED
    BY <1>1

LEMMA PoppedLinked ==
    ASSUME NEW v, Linked(v), v.queue # <<>>, NEW u, PoppedAs(u, v)
    PROVE  /\ Linked(u) /\ Carried(u) \subseteq Carried(v)
           /\ \A t \in Slots : InQueue(u, t) <=> InQueue(v, t) /\ t # v.queue[1].packet
<1> DEFINE n == Len(v.queue)
<1>1. v \in Servers /\ u \in Servers /\ framed
    BY DEF Linked, PoppedAs
<1>2. /\ n \in Nat \ {0} /\ DOMAIN v.queue = 1 .. n /\ DOMAIN u.queue = 1 .. n - 1
      /\ \A i \in 1 .. n - 1 : u.queue[i] = v.queue[i + 1]
    <2>1. u.queue = Tail(v.queue)
        BY DEF PoppedAs
    <2>2. QED
        BY <1>1, <2>1, TailMessages
<1> HIDE DEF n
<1>3. \A i \in DOMAIN u.queue : i + 1 \in DOMAIN v.queue /\ u.queue[i] = v.queue[i + 1] /\ i \in Int
    BY <1>2
<1>4. \A i \in DOMAIN v.queue : i # 1 => i - 1 \in DOMAIN u.queue /\ u.queue[i - 1] = v.queue[i]
    <2> SUFFICES ASSUME NEW i \in 1 .. n, i # 1 PROVE i - 1 \in 1 .. n - 1 /\ u.queue[i - 1] = v.queue[i]
        BY <1>2
    <2>1. i - 1 \in 1 .. n - 1 /\ (i - 1) + 1 = i
        BY <1>2
    <2>2. QED
        BY <1>2, <2>1
<1>5. 1 \in DOMAIN v.queue
    BY <1>2
<1>6. ASSUME NEW t \in Slots
      PROVE  InQueue(u, t) <=> InQueue(v, t) /\ t # v.queue[1].packet
    <2>1. ASSUME InQueue(u, t) PROVE InQueue(v, t) /\ t # v.queue[1].packet
        <3>1. PICK i \in DOMAIN u.queue : u.queue[i].packet = t
            BY <2>1 DEF InQueue
        <3>2. i + 1 \in DOMAIN v.queue /\ v.queue[i + 1].packet = t /\ i + 1 # 1
            BY <1>2, <1>3, <3>1
        <3>3. v.queue[1].packet # t
            BY <1>5, <3>2, NilAssumption DEF Linked
        <3>4. QED
            BY <3>2, <3>3 DEF InQueue
    <2>2. ASSUME InQueue(v, t), t # v.queue[1].packet PROVE InQueue(u, t)
        BY <1>4, <2>2 DEF InQueue
    <2>3. QED
        BY <2>1, <2>2
<1>7. Carried(u) \subseteq Carried(v)
    BY <1>3 DEF Carried
<1>8. \A i, j \in DOMAIN u.queue : u.queue[i].packet = u.queue[j].packet /\ u.queue[i].packet # Nil => i = j
    <2> SUFFICES ASSUME NEW i \in DOMAIN u.queue, NEW j \in DOMAIN u.queue,
                        u.queue[i].packet = u.queue[j].packet, u.queue[i].packet # Nil
                 PROVE  i = j
        OBVIOUS
    <2>1. i + 1 = j + 1
        BY <1>3 DEF Linked
    <2>2. QED
        BY <1>3, <2>1
<1>9. \A i, j \in DOMAIN u.queue : u.queue[i].ack = u.queue[j].ack /\ u.queue[i].ack # Nil => i = j
    <2> SUFFICES ASSUME NEW i \in DOMAIN u.queue, NEW j \in DOMAIN u.queue,
                        u.queue[i].ack = u.queue[j].ack, u.queue[i].ack # Nil
                 PROVE  i = j
        OBVIOUS
    <2>1. i + 1 = j + 1
        BY <1>3 DEF Linked
    <2>2. QED
        BY <1>3, <2>1
<1>10. \A t \in Slots : u.pending[t] # Nil => (u.pending[t].waiting <=> InQueue(u, t))
    <2> SUFFICES ASSUME NEW t \in Slots, u.pending[t] # Nil PROVE u.pending[t].waiting <=> InQueue(u, t)
        OBVIOUS
    <2>1. v.pending[t] # Nil /\ (v.pending[t].waiting <=> InQueue(v, t))
        BY DEF Linked, PoppedAs
    <2>2. IF t = v.queue[1].packet THEN ~u.pending[t].waiting ELSE u.pending[t].waiting = v.pending[t].waiting
        BY <2>1 DEF PoppedAs
    <2>3. QED
        BY <1>6, <2>1, <2>2
<1>11. QED
    BY <1>1, <1>6, <1>7, <1>8, <1>9, <1>10 DEF Linked

\* One keepalive in a silence, or nothing.
LEMMA KeptAliveEither ==
    ASSUME framed \in BOOLEAN, NEW v \in Servers
    PROVE  \/ KeptAlive(v) = v /\ (v.silent < Interval \/ v.kept \/ Free(v) = {})
           \/ /\ v.silent >= Interval /\ ~v.kept /\ KeptAlive(v).kept
              /\ \E s \in Free(v) : TrackedAs(KeptAlive(v), v, s, TRUE, Nil)
<1>1. CASE v.silent < Interval \/ v.kept \/ Free(v) = {}
    BY <1>1 DEF KeptAlive
<1>2. CASE ~(v.silent < Interval \/ v.kept \/ Free(v) = {})
    <2> DEFINE s == CHOOSE s \in Free(v) : TRUE
               w == Track(v, s, TRUE, Nil)
               u == [w EXCEPT !.kept = TRUE]
    <2>1. s \in Free(v) /\ s \in Slots
        BY <1>2 DEF Free
    <2>2. KeptAlive(v) = u
        BY <1>2 DEF KeptAlive
    <2> HIDE DEF s
    <2>3. TrackedAs(w, v, s, TRUE, Nil)
        BY <2>1, TrackFields
    <2> HIDE DEF w
    <2>4. /\ u \in Servers /\ u.kept /\ u.known = w.known /\ u.silent = w.silent /\ u.since = w.since
          /\ u.rtt = w.rtt /\ u.pending = w.pending /\ u.queue = w.queue
        BY <2>3 DEF TrackedAs, Servers
    <2> HIDE DEF u
    <2>5. TrackedAs(u, v, s, TRUE, Nil)
        BY <2>3, <2>4 DEF TrackedAs
    <2>6. v.silent >= Interval
        BY <1>2, TimingNumbers DEF Servers
    <2>7. QED
        BY <1>2, <2>1, <2>2, <2>4, <2>5, <2>6
<1>3. QED
    BY <1>1, <1>2

\* The ACKs in the link stay those or go.
Carries(u, v) == Linked(u) /\ Carried(u) \subseteq Carried(v) /\ (u.known => v.known)

LEMMA KeptAliveLinked ==
    ASSUME framed \in BOOLEAN, NEW v, Linked(v)
    PROVE  Carries(KeptAlive(v), v) /\ KeptAlive(v).silent = v.silent
<1>1. v \in Servers
    BY DEF Linked
<1>2. CASE KeptAlive(v) = v
    BY <1>2 DEF Carries
<1>3. ASSUME NEW s \in Free(v), NEW u, TrackedAs(u, v, s, TRUE, Nil)
      PROVE  Carries(u, v) /\ u.silent = v.silent
    <2>1. s \in Slots /\ ~InQueue(v, s) /\ Nil \notin Carried(v)
        BY DEF Free, Carried
    <2>2. Linked(u)
        BY <1>3, <2>1, TrackLinked
    <2>3. Carried(u) = Carried(v)
        <3>1. CASE framed
            <4> DEFINE e == [packet |-> s, ack |-> Nil]
            <4>1. e \in Entries /\ e.ack = Nil /\ u.queue = Append(v.queue, e) /\ u \in Servers
                BY <1>3, <2>1, <3>1 DEF TrackedAs, Entries
            <4> HIDE DEF e
            <4>2. Carried(u) = Carried(v) \cup ({e.ack} \ {Nil})
                BY <1>1, <4>1, AppendMessages
            <4>3. QED
                BY <4>1, <4>2
        <3>2. CASE ~framed
            BY <1>3, <3>2, SameMessages DEF TrackedAs
        <3>3. QED
            BY <3>1, <3>2
    <2>4. QED
        BY <1>3, <2>2, <2>3 DEF Carries, TrackedAs
<1>4. QED
    BY <1>1, <1>2, <1>3, KeptAliveEither

LEMMA TickedLinked ==
    ASSUME framed \in BOOLEAN, NEW v, Linked(v)
    PROVE  Carries(Ticked(v), v) /\ (Ticked(v).known => Ticked(v).silent < IdleLimit)
<1>1. v \in Servers
    BY DEF Linked
<1>2. CASE v.silent >= IdleLimit
    BY <1>1, <1>2, GoneFields DEF Ticked, Carries, GoneAs
<1>3. CASE ~(v.silent >= IdleLimit)
    <2>1. Ticked(v) = KeptAlive(v) /\ v.silent < IdleLimit
        BY <1>1, <1>3, TimingNumbers DEF Ticked, Servers
    <2>2. QED
        BY <2>1, KeptAliveLinked
<1>4. QED
    BY <1>2, <1>3

\* What is due is sent, or put into the link.
LEMMA RetransmittedEither ==
    ASSUME NEW v, Linked(v)
    PROVE  \/ /\ \E s \in Slots : v.pending[s] # Nil /\ Overdue(v, s)
              /\ Retransmitted(v) = Gone(v)
           \/ /\ ~\E s \in Slots : v.pending[s] # Nil /\ Overdue(v, s)
              /\ framed
              /\ \E due \in SUBSET Slots : /\ \A s \in due : v.pending[s] # Nil /\ ~v.pending[s].waiting
                                           /\ RequeuedAs(Retransmitted(v), v, due)
           \/ /\ ~\E s \in Slots : v.pending[s] # Nil /\ Overdue(v, s)
              /\ ~framed
              /\ SentAs(Retransmitted(v), v)
<1> DEFINE due == {s \in Slots : Due(v, s)}
           over == \E s \in Slots : v.pending[s] # Nil /\ Overdue(v, s)
<1>1. v \in Servers
    BY DEF Linked
<1>2. due \in SUBSET Slots /\ \A s \in due : v.pending[s] # Nil /\ ~v.pending[s].waiting
    BY DEF Due
<1>3. Retransmitted(v) = IF over THEN Gone(v) ELSE IF framed THEN Requeued(v, due) ELSE Sent(v, due)
    BY DEF Retransmitted
<1> HIDE DEF due
<1>4. RequeuedAs(Requeued(v, due), v, due) /\ SentAs(Sent(v, due), v)
    BY <1>1, <1>2, RequeuedFields, SentFields
<1>5. QED
    BY <1>2, <1>3, <1>4

LEMMA RetransmittedLinked ==
    ASSUME NEW v, Linked(v)
    PROVE  Carries(Retransmitted(v), v) /\ (Retransmitted(v).known => Retransmitted(v).silent = v.silent)
<1> DEFINE u == Retransmitted(v)
<1>1. v \in Servers
    BY DEF Linked
<1>2. CASE u = Gone(v)
    BY <1>1, <1>2, GoneFields DEF Carries, GoneAs
<1>3. ASSUME framed, NEW due \in SUBSET Slots, \A s \in due : v.pending[s] # Nil /\ ~v.pending[s].waiting,
             RequeuedAs(u, v, due)
      PROVE  Carries(u, v) /\ u.silent = v.silent
    <2> HIDE DEF u
    <2>1. Linked(u)
        BY <1>3, RequeuedLinked
    <2>2. Carried(u) = Carried(v)
        BY <1>1, <1>3, RequeuedMessages
    <2>3. QED
        BY <1>3, <2>1, <2>2 DEF Carries, RequeuedAs
<1>4. ASSUME SentAs(u, v)
      PROVE  Carries(u, v) /\ u.silent = v.silent
    <2> HIDE DEF u
    <2>1. \A t \in Slots : u.pending[t] # Nil => v.pending[t] # Nil /\ u.pending[t].waiting = v.pending[t].waiting
        BY <1>4 DEF SentAs
    <2>2. Linked(u) /\ Carried(u) = Carried(v)
        BY <1>4, <2>1, SameLinked, SameMessages DEF SentAs
    <2>3. QED
        BY <1>4, <2>2 DEF Carries, SentAs
<1> HIDE DEF u
<1>5. QED
    BY <1>2, <1>3, <1>4, RetransmittedEither DEF u

LEMMA PumpedLinked ==
    ASSUME NEW v, Linked(v)
    PROVE  Carries(Pumped(v), v) /\ Pumped(v).silent = v.silent /\ Pumped(v).known = v.known
<1>1. v \in Servers
    BY DEF Linked
<1>2. CASE Pumped(v) = v
    BY <1>2 DEF Carries
<1>3. CASE Pops(v) /\ PoppedAs(Pumped(v), v)
    <2>1. v.queue # <<>>
        BY <1>3 DEF Pops
    <2>2. Linked(Pumped(v)) /\ Carried(Pumped(v)) \subseteq Carried(v)
        BY <1>3, <2>1, PoppedLinked
    <2>3. QED
        BY <1>3, <2>2 DEF Carries, PoppedAs
<1>4. QED
    BY <1>1, <1>2, <1>3, PumpedEither

LEMMA AgedLinked ==
    ASSUME NEW v, Linked(v)
    PROVE  Carries(Aged(v), v)
<1>1. AgedTo(Aged(v), v)
    BY AgedFields DEF Linked
<1>2. \A t \in Slots : Aged(v).pending[t] # Nil =>
          v.pending[t] # Nil /\ Aged(v).pending[t].waiting = v.pending[t].waiting
    BY <1>1 DEF AgedTo, OlderPacket
<1>3. Linked(Aged(v)) /\ Carried(Aged(v)) = Carried(v)
    BY <1>1, <1>2, SameLinked, SameMessages DEF AgedTo
<1>4. QED
    BY <1>1, <1>3 DEF Carries, AgedTo

LEMMA PassLinked ==
    ASSUME framed \in BOOLEAN, NEW v, Linked(v), NEW u, u = Pumped(Retransmitted(Ticked(Aged(v))))
    PROVE  Carries(u, v) /\ (u.known => u.silent < IdleLimit)
<1> DEFINE a == Aged(v)
           b == Ticked(a)
           c == Retransmitted(b)
<1>1. Carries(a, v)
    BY AgedLinked
<1> HIDE DEF a
<1>2. Carries(b, a) /\ (b.known => b.silent < IdleLimit)
    BY <1>1, TickedLinked DEF Carries
<1> HIDE DEF b
<1>3. Carries(c, b) /\ (c.known => c.silent = b.silent)
    BY <1>2, RetransmittedLinked DEF Carries
<1> HIDE DEF c
<1>4. Carries(u, c) /\ u.silent = c.silent /\ u.known = c.known
    BY <1>3, PumpedLinked DEF Carries, a, b, c
<1>5. QED
    BY <1>1, <1>2, <1>3, <1>4 DEF Carries

-----------------------------------------------------------------------------
\* An ACK: its packet is retired, and the estimate stays in its limits.
LEMMA SampleBounded ==
    ASSUME NEW v \in Servers, NEW p \in Tracked
    PROVE  Sample(v, p) \in RttLow .. RttHigh
<1> DEFINE elapsed == p.last + (IF p.tries = 0 THEN 0 ELSE p.tries * v.rtt + 1 + p.tries)
           atLeast == IF elapsed < RttLow THEN RttLow ELSE elapsed
           clamped == IF atLeast > RttHigh THEN RttHigh ELSE atLeast
           most == v.rtt * Growth
<1>1. /\ p.last \in Nat /\ p.tries \in Nat /\ v.rtt \in RttLow .. RttHigh
      /\ RttLow \in Nat \ {0} /\ RttHigh \in Nat /\ Growth \in Nat \ {0}
    BY TimingNumbers DEF Tracked, Servers
<1>2. p.tries * v.rtt \in Nat /\ most \in Nat /\ v.rtt <= most
    <2>1. \A a, b \in Nat : a * b \in Nat
        OBVIOUS
    <2>2. \A a \in Nat : \A g \in Nat \ {0} : a <= a * g
        OBVIOUS
    <2>3. v.rtt \in Nat
        BY <1>1
    <2>4. QED
        BY <1>1, <2>1, <2>2, <2>3
<1>3. elapsed \in Nat
    BY <1>1, <1>2
<1>4. Sample(v, p) = IF clamped > most THEN most ELSE clamped
    BY DEF Sample
<1> HIDE DEF elapsed, most
<1>5. clamped \in RttLow .. RttHigh
    BY <1>1, <1>3
<1> HIDE DEF clamped
<1>6. QED
    BY <1>1, <1>2, <1>4, <1>5

RetiredAs(u, v, s) ==
    /\ u \in Servers /\ u.known = v.known /\ u.kept = v.kept /\ u.silent = v.silent /\ u.since = v.since
    /\ u.queue = v.queue
    /\ \A t \in Slots : u.pending[t] = IF t = s THEN Nil ELSE v.pending[t]

LEMMA RetiredFields ==
    ASSUME NEW v \in Servers, NEW s \in Slots
    PROVE  RetiredAs(Retired(v, s), v, s)
<1>1. CASE v.pending[s] = Nil
    BY <1>1 DEF Retired, RetiredAs
<1>2. CASE v.pending[s] # Nil
    <2> DEFINE f == [v.pending EXCEPT ![s] = Nil]
               r == IF framed THEN v.rtt ELSE Sample(v, v.pending[s])
               u == [v EXCEPT !.pending = f, !.rtt = r]
    <2>1. r \in RttLow .. RttHigh
        <3>1. v.pending[s] \in Tracked /\ v.rtt \in RttLow .. RttHigh
            BY <1>2 DEF Servers
        <3>2. QED
            BY <3>1, SampleBounded
    <2>2. f \in [Slots -> Tracked \cup {Nil}] /\ \A t \in Slots : f[t] = IF t = s THEN Nil ELSE v.pending[t]
        BY DEF Servers
    <2>3. Retired(v, s) = u
        BY <1>2 DEF Retired
    <2> HIDE DEF f, r
    <2>4. /\ u \in Servers /\ u.known = v.known /\ u.kept = v.kept /\ u.silent = v.silent /\ u.since = v.since
          /\ u.queue = v.queue /\ u.pending = f
        BY <2>1, <2>2 DEF Servers
    <2> HIDE DEF u
    <2>5. QED
        BY <2>2, <2>3, <2>4 DEF RetiredAs
<1>3. QED
    BY <1>1, <1>2

AliveAs(u, v) ==
    /\ u \in Servers /\ u.known = v.known /\ ~u.kept /\ u.silent = 0 /\ u.since = v.since
    /\ u.queue = v.queue /\ u.pending = v.pending

LEMMA AliveFields ==
    ASSUME NEW v \in Servers
    PROVE  AliveAs(Alive(v), v)
<1>1. 0 \in 0 .. IdleLimit
    BY TimingNumbers
<1>2. QED
    BY <1>1 DEF Alive, AliveAs, Servers

LEMMA AliveLinked ==
    ASSUME NEW v, Linked(v)
    PROVE  Linked(Alive(v)) /\ Carried(Alive(v)) = Carried(v)
<1>1. AliveAs(Alive(v), v)
    BY AliveFields DEF Linked
<1>2. QED
    BY <1>1, SameLinked, SameMessages DEF AliveAs

LEMMA RetiredLinked ==
    ASSUME NEW v, Linked(v), NEW s \in Slots
    PROVE  Linked(Retired(v, s)) /\ Carried(Retired(v, s)) = Carried(v)
<1>1. RetiredAs(Retired(v, s), v, s)
    BY RetiredFields DEF Linked
<1>2. \A t \in Slots : Retired(v, s).pending[t] # Nil =>
          v.pending[t] # Nil /\ Retired(v, s).pending[t].waiting = v.pending[t].waiting
    BY <1>1 DEF RetiredAs
<1>3. QED
    BY <1>1, <1>2, SameLinked, SameMessages DEF RetiredAs

\* A message alone.
AddedAs(u, v, s, ack) ==
    /\ u \in Servers /\ u.known = v.known /\ u.kept = v.kept /\ u.silent = v.silent /\ u.since = v.since
    /\ u.queue = Append(v.queue, [packet |-> s, ack |-> ack]) /\ u.pending = v.pending

LEMMA AddFields ==
    ASSUME NEW v \in Servers, NEW ack \in Requests \cup {Nil}
    PROVE  AddedAs(Add(v, Nil, ack), v, Nil, ack)
<1> DEFINE q == Append(v.queue, [packet |-> Nil, ack |-> ack])
           u == [v EXCEPT !.queue = q]
<1>1. q \in Seq(Entries)
    BY DEF Servers, Entries
<1>2. Add(v, Nil, ack) = u
    BY DEF Add
<1> HIDE DEF q
<1>3. /\ u \in Servers /\ u.known = v.known /\ u.kept = v.kept /\ u.silent = v.silent /\ u.since = v.since
      /\ u.queue = q /\ u.pending = v.pending
    BY <1>1 DEF Servers
<1> HIDE DEF u
<1>4. QED
    BY <1>2, <1>3 DEF AddedAs, q

LEMMA AddLinked ==
    ASSUME NEW v, Linked(v), framed, NEW ack \in Requests \cup {Nil}, ack \notin Carried(v)
    PROVE  Linked(Add(v, Nil, ack)) /\ Carried(Add(v, Nil, ack)) = Carried(v) \cup ({ack} \ {Nil})
<1> DEFINE e == [packet |-> Nil, ack |-> ack]
           u == Add(v, Nil, ack)
<1>1. AddedAs(u, v, Nil, ack)
    BY AddFields DEF Linked
<1>2. e \in Entries /\ e.packet = Nil /\ e.ack = ack
    BY DEF Entries
<1>3. u \in Servers /\ u.queue = Append(v.queue, e) /\ v \in Servers /\ u.pending = v.pending
    BY <1>1 DEF AddedAs, Linked
<1> HIDE DEF e, u
<1>4. Waits(u, v, e)
    BY <1>2, <1>3, NilAssumption DEF Waits
<1>5. Linked(u)
    BY <1>2, <1>3, <1>4, AppendLinked
<1>6. Carried(u) = Carried(v) \cup ({ack} \ {Nil})
    BY <1>2, <1>3, AppendMessages
<1>7. QED
    BY <1>5, <1>6 DEF u

\* An ACK on the first message that has none.
RidesAs(u, v, k, ack) ==
    /\ u \in Servers /\ u.known = v.known /\ u.kept = v.kept /\ u.silent = v.silent /\ u.since = v.since
    /\ u.pending = v.pending /\ DOMAIN u.queue = DOMAIN v.queue /\ Len(u.queue) = Len(v.queue)
    /\ k \in DOMAIN v.queue /\ v.queue[k].ack = Nil /\ u.queue[k].ack = ack
    /\ \A i \in DOMAIN v.queue : /\ u.queue[i].packet = v.queue[i].packet
                                 /\ i # k => u.queue[i].ack = v.queue[i].ack

LEMMA RidesFields ==
    ASSUME NEW v \in Servers, NEW ack \in Requests, NEW k \in DOMAIN v.queue, v.queue[k].ack = Nil
    PROVE  RidesAs([v EXCEPT !.queue[k].ack = ack], v, k, ack)
<1> DEFINE m == [v.queue[k] EXCEPT !.ack = ack]
           q == [v.queue EXCEPT ![k] = m]
           u == [v EXCEPT !.queue = q]
<1>1. v.queue \in Seq(Entries) /\ v.queue[k] \in Entries
    BY DEF Servers
<1>2. m \in Entries /\ m.packet = v.queue[k].packet /\ m.ack = ack
    BY <1>1 DEF Entries
<1>3. [v EXCEPT !.queue[k].ack = ack] = u
    BY DEF Servers
<1> HIDE DEF m
<1>4. /\ q \in Seq(Entries) /\ DOMAIN q = DOMAIN v.queue /\ Len(q) = Len(v.queue) /\ q[k] = m
      /\ \A i \in DOMAIN v.queue : i # k => q[i] = v.queue[i]
    BY <1>1, <1>2
<1> HIDE DEF q
<1>5. /\ u \in Servers /\ u.known = v.known /\ u.kept = v.kept /\ u.silent = v.silent /\ u.since = v.since
      /\ u.queue = q /\ u.pending = v.pending
    BY <1>4 DEF Servers
<1> HIDE DEF u
<1>6. \A i \in DOMAIN v.queue : u.queue[i].packet = v.queue[i].packet /\ (i # k => u.queue[i].ack = v.queue[i].ack)
    BY <1>2, <1>4, <1>5
<1>7. RidesAs(u, v, k, ack)
    BY <1>2, <1>4, <1>5, <1>6 DEF RidesAs
<1>8. QED
    BY <1>3, <1>7

LEMMA RidesLinked ==
    ASSUME NEW v, Linked(v), NEW ack \in Requests, ack \notin Carried(v), NEW k, NEW u, RidesAs(u, v, k, ack)
    PROVE  Linked(u) /\ Carried(u) = Carried(v) \cup {ack} /\ \A t : InQueue(u, t) <=> InQueue(v, t)
<1>1. ack # Nil
    BY NilAssumption
<1>2. \A i \in DOMAIN v.queue : v.queue[i].ack # ack
    BY <1>1 DEF Carried
<1>3. \A t : InQueue(u, t) <=> InQueue(v, t)
    BY DEF InQueue, RidesAs
<1>4. \A a : a \in Carried(u) <=> a \in Carried(v) \cup {ack}
    <2> SUFFICES ASSUME NEW a PROVE a \in Carried(u) <=> a \in Carried(v) \cup {ack}
        OBVIOUS
    <2>1. ASSUME a \in Carried(u) PROVE a \in Carried(v) \cup {ack}
        BY <2>1 DEF Carried, RidesAs
    <2>2. ack \in Carried(u)
        BY <1>1, Zenon DEF Carried, RidesAs
    <2>3. ASSUME a \in Carried(v) PROVE a \in Carried(u)
        BY <2>3 DEF Carried, RidesAs
    <2>4. QED
        BY <2>1, <2>2, <2>3
<1>5. \A i, j \in DOMAIN u.queue : u.queue[i].packet = u.queue[j].packet /\ u.queue[i].packet # Nil => i = j
    BY DEF RidesAs, Linked
<1>6. \A i, j \in DOMAIN u.queue : u.queue[i].ack = u.queue[j].ack /\ u.queue[i].ack # Nil => i = j
    BY <1>2 DEF RidesAs, Linked
<1>7. u.queue = <<>> <=> v.queue = <<>>
    BY DEF RidesAs, Linked, Servers
<1>8. QED
    BY <1>3, <1>4, <1>5, <1>6, <1>7 DEF Linked, RidesAs

LEMMA AddAckEither ==
    ASSUME NEW v \in Servers, NEW ack \in Requests
    PROVE  \/ \E k : RidesAs(AddAck(v, ack), v, k, ack)
           \/ AddAck(v, ack) = Add(v, Nil, ack)
<1> DEFINE bare == {i \in DOMAIN v.queue : v.queue[i].ack = Nil}
           k == CHOOSE i \in bare : \A j \in bare : i <= j
<1>1. CASE bare # {}
    <2>1. bare \subseteq Nat
        BY DEF Servers
    <2>2. \E i \in bare : \A j \in bare : i <= j
        <3>1. PICK i \in bare : \A j \in bare : ~(<<j, i>> \in OpToRel(<, Nat))
            BY <1>1, <2>1, NatLessThanWellFounded, WFMin
        <3>2. \A j \in bare : ~(j < i)
            BY <2>1, <3>1 DEF OpToRel
        <3>3. QED
            BY <2>1, <3>2
    <2>3. k \in bare
        BY <2>2
    <2>4. AddAck(v, ack) = [v EXCEPT !.queue[k].ack = ack]
        BY <1>1 DEF AddAck
    <2> HIDE DEF k
    <2>5. QED
        BY <2>3, <2>4, RidesFields
<1>2. CASE bare = {}
    BY <1>2 DEF AddAck
<1>3. QED
    BY <1>1, <1>2

-----------------------------------------------------------------------------
LEMMA HearsTyped ==
    ASSUME TimingTypeOK, NEW sent, NEW aged \in BOOLEAN, Hears(sent, aged)
    PROVE  heard' \in [Slots -> 0 .. Delay \cup {Nil}]
<1>1. PICK got \in SUBSET sent :
        heard' = [s \in Slots |-> IF s \in got /\ heard[s] = Nil THEN 0
                                  ELSE IF aged /\ heard[s] # Nil /\ heard[s] < Delay THEN heard[s] + 1
                                  ELSE heard[s]]
    BY DEF Hears
<1>2. \A s \in Slots : heard[s] \in 0 .. Delay \cup {Nil}
    BY DEF TimingTypeOK
<1>3. 0 \in 0 .. Delay /\ \A n \in 0 .. Delay : n < Delay => n + 1 \in 0 .. Delay
    BY TimingNumbers
<1>4. QED
    BY <1>1, <1>2, <1>3

\* What a step has to show of the server's state.
LinkedStep ==
    /\ framed' = framed /\ calm' = calm /\ client' \in {"polling", "deaf", "gone"}
    /\ heard' \in [Slots -> 0 .. Delay \cup {Nil}]
    /\ Linked(server') /\ owed' \subseteq Requests
    /\ framed => Carried(server') = owed'
    /\ server'.known => server'.silent < IdleLimit
    /\ server'.known \/ GoneAs(server')

LEMMA LinkedStepKeeps ==
    ASSUME LinkInv, LinkedStep
    PROVE  LinkInv'
<1>1. Linked(server)'
    BY DEF LinkedStep, Linked
<1>2. TimingTypeOK'
    BY <1>1 DEF LinkedStep, LinkInv, TimingTypeOK, Linked
<1>3. QED
    BY <1>1, <1>2 DEF LinkedStep, LinkInv, GoneClientEnded

LEMMA TickedKnown ==
    ASSUME framed \in BOOLEAN, NEW v \in Servers, v.known
    PROVE  Ticked(v).known \/ GoneAs(Ticked(v))
<1>1. GoneAs(Gone(v))
    BY GoneFields
<1>2. KeptAlive(v).known
    BY KeptAliveEither DEF TrackedAs
<1>3. QED
    BY <1>1, <1>2 DEF Ticked

LEMMA RetransmittedKnown ==
    ASSUME NEW v, Linked(v), v.known \/ GoneAs(v)
    PROVE  Retransmitted(v).known \/ GoneAs(Retransmitted(v))
<1> DEFINE u == Retransmitted(v)
<1>1. CASE u = Gone(v)
    BY <1>1, GoneFields DEF Linked
<1>2. ASSUME NEW due \in SUBSET Slots, \A s \in due : v.pending[s] # Nil, RequeuedAs(u, v, due)
      PROVE  u.known \/ GoneAs(u)
    <2> HIDE DEF u
    <2>1. CASE v.known
        BY <1>2, <2>1 DEF RequeuedAs
    <2>2. CASE GoneAs(v)
        <3>1. \A t : ~InQueue(v, t) /\ t \notin due
            BY <1>2, <2>2 DEF GoneAs, InQueue
        <3>2. due = {}
            BY <3>1
        <3>3. Cardinality(due) = 0
            BY <3>2, FS_EmptySet
        <3>4. Bare(due) = <<>>
            BY <3>3, BareMessages
        <3>5. u.queue = <<>>
            BY <1>2, <2>2, <3>4 DEF GoneAs, RequeuedAs
        <3>6. QED
            BY <1>2, <2>2, <3>5 DEF GoneAs, RequeuedAs
    <2>3. QED
        BY <2>1, <2>2
<1>3. ASSUME SentAs(u, v)
      PROVE  u.known \/ GoneAs(u)
    <2> HIDE DEF u
    <2>1. QED
        BY <1>3 DEF SentAs, GoneAs
<1> HIDE DEF u
<1>4. QED
    BY <1>1, <1>2, <1>3, RetransmittedEither DEF u

LEMMA PassKnown ==
    ASSUME framed \in BOOLEAN, NEW v, Linked(v), v.known, NEW u, u = Pumped(Retransmitted(Ticked(Aged(v))))
    PROVE  u.known \/ GoneAs(u)
<1> DEFINE a == Aged(v)
           b == Ticked(a)
           c == Retransmitted(b)
<1>1. Linked(a) /\ a.known
    BY AgedLinked, AgedFields DEF Linked, Carries, AgedTo
<1> HIDE DEF a
<1>2. Linked(b) /\ (b.known \/ GoneAs(b))
    BY <1>1, TickedLinked, TickedKnown DEF Carries, Linked
<1> HIDE DEF b
<1>3. Linked(c) /\ (c.known \/ GoneAs(c))
    BY <1>2, RetransmittedLinked, RetransmittedKnown DEF Carries
<1> HIDE DEF c
<1>4. (~Pops(c) /\ u = c) \/ (Pops(c) /\ PoppedAs(u, c))
    BY <1>3, PumpedEither DEF Linked, a, b, c
<1>5. QED
    BY <1>3, <1>4 DEF PoppedAs, GoneAs, Pops

LEMMA PassKeeps ==
    ASSUME LinkInv, Pass
    PROVE  LinkedStep
<1>1. /\ framed \in BOOLEAN /\ Linked(server) /\ server' = Pumped(Retransmitted(Ticked(Aged(server))))
      /\ owed \subseteq Requests /\ (framed => Carried(server) = owed)
    BY DEF LinkInv, TimingTypeOK, Pass
<1>2. Carries(server', server) /\ (server'.known => server'.silent < IdleLimit)
    BY <1>1, PassLinked
<1>3. heard' \in [Slots -> 0 .. Delay \cup {Nil}]
    BY HearsTyped DEF LinkInv, Pass
<1>4. owed' = IF server'.known THEN owed \cap Carried(server') ELSE {}
    BY DEF Pass
<1>7. server'.known \/ GoneAs(server')
    BY <1>1, PassKnown DEF Pass
<1>5. ASSUME framed PROVE Carried(server') = owed'
    <2>1. CASE server'.known
        BY <1>1, <1>2, <1>4, <1>5, <2>1 DEF Carries
    <2>2. CASE ~server'.known
        <3>1. server'.queue = <<>>
            BY <1>7, <2>2 DEF GoneAs
        <3>2. QED
            BY <1>4, <2>2, <3>1 DEF Carried
    <2>3. QED
        BY <2>1, <2>2
<1>6. QED
    BY <1>1, <1>2, <1>3, <1>4, <1>5, <1>7 DEF LinkedStep, Carries, Pass, LinkInv, TimingTypeOK

LEMMA ClientAckKeeps ==
    ASSUME LinkInv, NEW s \in Slots, ClientAck(s)
    PROVE  LinkedStep
<1>1. Linked(server) /\ server \in Servers
    BY DEF LinkInv, Linked
<1>2. server' = Retired(Alive(server), s) \/ server' = server
    BY DEF ClientAck
<1>3. heard' \in [Slots -> 0 .. Delay \cup {Nil}]
    BY DEF LinkInv, TimingTypeOK, ClientAck
<1>4. /\ Linked(server') /\ Carried(server') = Carried(server)
      /\ (server'.known => server'.silent < IdleLimit)
      /\ server'.known \/ GoneAs(server')
    <2>1. CASE server' = server
        BY <1>1, <2>1 DEF LinkInv, GoneClientEnded
    <2>2. CASE server' = Retired(Alive(server), s)
        <3>1. AliveAs(Alive(server), server) /\ Linked(Alive(server)) /\ Carried(Alive(server)) = Carried(server)
            BY <1>1, AliveFields, AliveLinked
        <3>2. RetiredAs(server', Alive(server), s) /\ Linked(server') /\ Carried(server') = Carried(Alive(server))
            BY <2>2, <3>1, RetiredFields, RetiredLinked DEF AliveAs
        <3>3. server'.known \/ GoneAs(server')
            BY <3>1, <3>2 DEF AliveAs, RetiredAs, GoneAs, LinkInv
        <3>4. QED
            BY <3>1, <3>2, <3>3, TimingNumbers DEF AliveAs, RetiredAs
    <2>3. QED
        BY <1>2, <2>1, <2>2
<1>5. QED
    BY <1>3, <1>4 DEF LinkedStep, ClientAck, LinkInv, TimingTypeOK

LEMMA ClientRequestKeeps ==
    ASSUME LinkInv, NEW r \in Requests, ClientRequest(r)
    PROVE  LinkedStep
<1> DEFINE v == Alive(server)
<1>1. /\ Linked(v) /\ Carried(v) = Carried(server) /\ AliveAs(v, server) /\ v \in Servers /\ v.known /\ framed \in BOOLEAN
      /\ (framed => r \notin Carried(v)) /\ (framed => Carried(server) = owed)
    BY AliveLinked, AliveFields DEF LinkInv, Linked, AliveAs, TimingTypeOK, ClientRequest
<1>2. r # Nil
    BY NilAssumption
<1> HIDE DEF v
<1>3. \/ server' = IF framed THEN AddAck(v, r) ELSE v
      \/ \E s \in Free(server) : server' = Track(v, s, FALSE, r)
    BY DEF ClientRequest, v
<1>4. ASSUME framed
      PROVE  /\ Linked(server') /\ Carried(server') = Carried(v) \cup {r} /\ server'.silent = 0 /\ server'.known
    <2>1. CASE server' = AddAck(v, r)
        <3>1. CASE \E k : RidesAs(server', v, k, r)
            <4>1. PICK k : RidesAs(server', v, k, r)
                BY <3>1
            <4>2. Linked(server') /\ Carried(server') = Carried(v) \cup {r}
                BY <1>1, <1>4, <4>1, RidesLinked
            <4>3. QED
                BY <1>1, <4>1, <4>2 DEF RidesAs, AliveAs
        <3>2. CASE server' = Add(v, Nil, r)
            <4>1. AddedAs(server', v, Nil, r) /\ Linked(server')
                  /\ Carried(server') = Carried(v) \cup ({r} \ {Nil})
                BY <1>1, <1>4, <3>2, AddFields, AddLinked
            <4>2. QED
                BY <1>1, <1>2, <4>1 DEF AddedAs, AliveAs
        <3>3. QED
            BY <1>1, <2>1, <3>1, <3>2, AddAckEither
    <2>2. ASSUME NEW s \in Free(server), server' = Track(v, s, FALSE, r)
          PROVE  Linked(server') /\ Carried(server') = Carried(v) \cup {r} /\ server'.silent = 0 /\ server'.known
        <3>1. s \in Slots /\ ~InQueue(v, s)
            BY <1>1, SameMessages DEF Free, AliveAs
        <3>2. TrackedAs(server', v, s, FALSE, r)
            BY <1>1, <2>2, <3>1, TrackFields
        <3>3. Linked(server')
            BY <1>1, <1>4, <3>1, <3>2, TrackLinked
        <3> DEFINE e == [packet |-> s, ack |-> r]
        <3>4. e \in Entries /\ e.ack = r /\ server'.queue = Append(v.queue, e) /\ server' \in Servers
            BY <1>4, <3>1, <3>2 DEF TrackedAs, Entries
        <3> HIDE DEF e
        <3>5. Carried(server') = Carried(v) \cup ({r} \ {Nil})
            BY <1>1, <3>4, AppendMessages
        <3>6. QED
            BY <1>1, <1>2, <3>2, <3>3, <3>5 DEF TrackedAs, AliveAs
    <2>3. QED
        BY <1>3, <1>4, <2>1, <2>2
<1>5. ASSUME ~framed
      PROVE  Linked(server') /\ server'.silent = 0 /\ server'.known
    <2>1. CASE server' = v
        BY <1>1, <2>1 DEF AliveAs
    <2>2. ASSUME NEW s \in Free(server), server' = Track(v, s, FALSE, r)
          PROVE  Linked(server') /\ server'.silent = 0 /\ server'.known
        <3>1. s \in Slots /\ ~InQueue(v, s) /\ r \notin Carried(v)
            BY <1>1, <1>5, SameMessages DEF Free, AliveAs, Linked, Carried
        <3>2. TrackedAs(server', v, s, FALSE, r)
            BY <1>1, <2>2, <3>1, TrackFields
        <3>3. QED
            BY <1>1, <3>1, <3>2, TrackLinked DEF TrackedAs, AliveAs
    <2>3. QED
        BY <1>3, <1>5, <2>1, <2>2
<1>6. heard' \in [Slots -> 0 .. Delay \cup {Nil}]
    BY HearsTyped DEF LinkInv, ClientRequest
<1>7. /\ framed' = framed /\ calm' = calm /\ client' \in {"polling", "deaf", "gone"}
      /\ owed \subseteq Requests /\ owed' = IF framed THEN owed \cup {r} ELSE owed
    BY DEF ClientRequest, LinkInv, TimingTypeOK
<1>8. QED
    BY <1>1, <1>4, <1>5, <1>6, <1>7, TimingNumbers DEF LinkedStep

LEMMA RelayKeeps ==
    ASSUME LinkInv, Relay
    PROVE  LinkedStep
<1>1. /\ Linked(server) /\ server \in Servers /\ framed \in BOOLEAN /\ server.known /\ server.silent < IdleLimit
      /\ (framed => Carried(server) = owed) /\ Nil \notin Carried(server)
    BY DEF LinkInv, Linked, TimingTypeOK, Relay, GoneClientEnded, Carried
<1>2. /\ Linked(server') /\ server'.silent = server.silent /\ server'.known
      /\ framed => Carried(server') = Carried(server)
    <2>1. CASE framed /\ server' = Add(server, Nil, Nil)
        <3>1. AddedAs(server', server, Nil, Nil)
            BY <1>1, <2>1, AddFields
        <3>2. Linked(server') /\ Carried(server') = Carried(server) \cup ({Nil} \ {Nil})
            BY <1>1, <2>1, AddLinked
        <3>3. server'.silent = server.silent /\ server'.known
            BY <1>1, <3>1 DEF AddedAs
        <3>4. QED
            BY <3>2, <3>3
    <2>2. ASSUME NEW s \in Free(server), server' = Track(server, s, FALSE, Nil)
          PROVE  /\ Linked(server') /\ server'.silent = server.silent /\ server'.known
                 /\ framed => Carried(server') = Carried(server)
        <3>1. s \in Slots /\ ~InQueue(server, s)
            BY DEF Free
        <3>2. TrackedAs(server', server, s, FALSE, Nil)
            BY <1>1, <2>2, <3>1, TrackFields
        <3>3. Linked(server')
            BY <1>1, <3>1, <3>2, TrackLinked
        <3>4. ASSUME framed PROVE Carried(server') = Carried(server)
            <4> DEFINE e == [packet |-> s, ack |-> Nil]
            <4>1. e \in Entries /\ e.ack = Nil /\ server'.queue = Append(server.queue, e) /\ server' \in Servers
                BY <3>1, <3>2, <3>4 DEF TrackedAs, Entries
            <4> HIDE DEF e
            <4>2. Carried(server') = Carried(server) \cup ({e.ack} \ {Nil})
                BY <1>1, <4>1, AppendMessages
            <4>3. QED
                BY <4>1, <4>2
        <3>5. QED
            BY <1>1, <3>2, <3>3, <3>4 DEF TrackedAs
    <2>3. QED
        BY <2>1, <2>2 DEF Relay
<1>3. heard' \in [Slots -> 0 .. Delay \cup {Nil}]
    BY HearsTyped DEF LinkInv, Relay
<1>4. /\ framed' = framed /\ calm' = calm /\ client' \in {"polling", "deaf", "gone"} /\ owed' = owed
      /\ owed \subseteq Requests
    BY DEF Relay, LinkInv, TimingTypeOK
<1>5. QED
    BY <1>1, <1>2, <1>3, <1>4 DEF LinkedStep

LEMMA NewSessionFields ==
    /\ NewSession \in Servers /\ NewSession.known /\ NewSession.silent = 0 /\ NewSession.queue = <<>>
    /\ ~NewSession.kept /\ \A t \in Slots : NewSession.pending[t] = Nil
<1> DEFINE f == [s \in Slots |-> Nil]
           q == <<>>
<1>1. f \in [Slots -> Tracked \cup {Nil}] /\ q \in Seq(Entries) /\ \A t \in Slots : f[t] = Nil
    OBVIOUS
<1>2. 0 \in 0 .. IdleLimit /\ Pace + 1 \in 0 .. Pace + 1 /\ RttInit \in RttLow .. RttHigh
    BY TimingNumbers
<1>3. NewSession = [known |-> TRUE, silent |-> 0, kept |-> FALSE, pending |-> f,
                    queue |-> q, since |-> Pace + 1, rtt |-> RttInit] /\ q = <<>>
    BY DEF NewSession
<1> HIDE DEF f, q
<1>4. QED
    BY <1>1, <1>2, <1>3 DEF Servers

LEMMA EmptyLinked ==
    ASSUME NEW u \in Servers, u.queue = <<>>, \A t \in Slots : u.pending[t] = Nil
    PROVE  Linked(u) /\ Carried(u) = {}
    BY DEF Linked, Carried

LEMMA LoginKeeps ==
    ASSUME LinkInv, Login
    PROVE  LinkedStep
<1>1. server.rtt \in RttLow .. RttHigh /\ server.queue \in Seq(Entries)
    BY DEF LinkInv, Linked, Servers
<1>2. /\ server' \in Servers /\ server'.queue = <<>> /\ server'.silent = 0 /\ server'.known
      /\ \A t \in Slots : server'.pending[t] = Nil
    <2>1. CASE server' = NewSession
        BY <2>1, NewSessionFields
    <2>2. CASE server' = [NewSession EXCEPT !.rtt = server.rtt]
        BY <1>1, <2>2, NewSessionFields DEF Servers
    <2>3. QED
        BY <2>1, <2>2 DEF Login
<1>3. Linked(server') /\ Carried(server') = {}
    BY <1>2, EmptyLinked
<1>4. framed => owed = {}
    BY DEF Login, LinkInv, Carried, GoneAs
<1>5. QED
    BY <1>2, <1>3, <1>4, TimingNumbers DEF LinkedStep, Login, LinkInv, TimingTypeOK

LEMMA TimingInitLinked ==
    ASSUME TimingInit
    PROVE  LinkInv
<1>1. /\ server = NewSession /\ NewSession \in Servers /\ NewSession.known /\ NewSession.silent = 0
      /\ NewSession.queue = <<>> /\ \A t \in Slots : NewSession.pending[t] = Nil
    BY NewSessionFields DEF TimingInit
<1>2. Linked(server) /\ Carried(server) = {}
    BY <1>1, EmptyLinked
<1>3. TimingTypeOK
    BY <1>1 DEF TimingInit, TimingTypeOK
<1>4. QED
    BY <1>1, <1>2, <1>3, TimingNumbers DEF LinkInv, GoneClientEnded, TimingInit

LEMMA TimingNextLinked ==
    ASSUME LinkInv, [TimingNext]_timingVars
    PROVE  LinkInv'
<1>1. CASE Pass
    BY <1>1, PassKeeps, LinkedStepKeeps
<1>2. CASE \E s \in Slots : ClientAck(s)
    BY <1>2, ClientAckKeeps, LinkedStepKeeps
<1>3. CASE \E r \in Requests : ClientRequest(r)
    BY <1>3, ClientRequestKeeps, LinkedStepKeeps
<1>4. CASE Relay
    BY <1>4, RelayKeeps, LinkedStepKeeps
<1>5. CASE Login
    BY <1>5, LoginKeeps, LinkedStepKeeps
<1>6. CASE ClientTurns \/ UNCHANGED timingVars
    <2>1. /\ framed' = framed /\ calm' = calm /\ heard' = heard /\ server' = server /\ owed' = owed
          /\ client' \in {"polling", "deaf", "gone"}
        BY <1>6 DEF ClientTurns, timingVars, LinkInv, TimingTypeOK
    <2>2. LinkedStep
        BY <2>1 DEF LinkedStep, LinkInv, TimingTypeOK, GoneClientEnded
    <2>3. QED
        BY <2>2, LinkedStepKeeps
<1>7. QED
    BY <1>1, <1>2, <1>3, <1>4, <1>5, <1>6 DEF TimingNext

LEMMA TimingLinked == TimingSpec => []LinkInv
<1>1. TimingInit => LinkInv
    BY TimingInitLinked
<1>2. LinkInv /\ [TimingNext]_timingVars => LinkInv'
    BY TimingNextLinked
<1>3. QED
    BY <1>1, <1>2, PTL DEF TimingSpec

LEMMA LinkedQueuesAgree ==
    ASSUME LinkInv
    PROVE  TimingTypeOK /\ GoneClientEnded /\ AcksRideOnce /\ WaitingIsQueued
<1>1. AcksRideOnce
    BY DEF LinkInv, Linked, AcksRideOnce
<1>2. ASSUME NEW s \in Slots, server.pending[s] # Nil
      PROVE  Cardinality({i \in DOMAIN server.queue : server.queue[i].packet = s})
                 = IF server.pending[s].waiting THEN 1 ELSE 0
    <2> DEFINE at == {i \in DOMAIN server.queue : server.queue[i].packet = s}
    <2>1. server.pending[s].waiting \in BOOLEAN /\ s # Nil
        BY <1>2, NilAssumption DEF LinkInv, TimingTypeOK, Servers, Tracked
    <2>2. server.pending[s].waiting <=> InQueue(server, s)
        BY <1>2 DEF LinkInv, Linked
    <2>3. CASE InQueue(server, s)
        <3>1. PICK i \in DOMAIN server.queue : server.queue[i].packet = s
            BY <2>3 DEF InQueue
        <3>2. \A j \in at : j = i
            BY <2>1, <3>1 DEF LinkInv, Linked
        <3>3. at = {i}
            BY <3>1, <3>2
        <3>4. Cardinality(at) = 1
            BY <3>3, FS_Singleton
        <3>5. QED
            BY <2>1, <2>2, <2>3, <3>4
    <2>4. CASE ~InQueue(server, s)
        <3>1. at = {}
            BY <2>4 DEF InQueue
        <3>2. Cardinality(at) = 0
            BY <3>1, FS_EmptySet
        <3>3. QED
            BY <2>1, <2>2, <2>4, <3>2
    <2>5. QED
        BY <2>3, <2>4
<1>3. QED
    BY <1>1, <1>2 DEF LinkInv, WaitingIsQueued

\* A step that ends a session.
PatientStep ==
    server.known /\ ~server'.known /\ (\A s \in Slots : server.pending[s] # Nil => server.pending[s].keepalive)
        => server.silent + 1 >= IdleLimit

LEMMA PassPatient ==
    ASSUME LinkInv, Pass
    PROVE  PatientStep
<1> DEFINE a == Aged(server)
           b == Ticked(a)
           c == Retransmitted(b)
<1> SUFFICES ASSUME server.known, \A s \in Slots : server.pending[s] # Nil => server.pending[s].keepalive,
                    server.silent + 1 < IdleLimit
             PROVE  server'.known
    BY TimingNumbers DEF PatientStep, LinkInv, TimingTypeOK, Servers
<1>1. Linked(a) /\ AgedTo(a, server) /\ framed \in BOOLEAN /\ server \in Servers
    BY AgedLinked, AgedFields DEF LinkInv, Linked, Carries, TimingTypeOK
<1>2. a.silent < IdleLimit /\ a.known
    <2>1. server.silent \in Nat /\ IdleLimit \in Nat
        BY <1>1, TimingNumbers DEF Servers
    <2>2. a.silent = Older(server.silent, IdleLimit) /\ a.known = server.known
        BY <1>1 DEF AgedTo
    <2>3. QED
        BY <2>1, <2>2 DEF Older
<1>3. \A s \in Slots : a.pending[s] # Nil => a.pending[s].keepalive
    BY <1>1 DEF AgedTo, OlderPacket
<1>4. server' = Pumped(c)
    BY DEF Pass
<1> HIDE DEF a
<1>5. b = KeptAlive(a) /\ Linked(b)
    <2>1. ~(a.silent >= IdleLimit)
        BY <1>1, <1>2, TimingNumbers DEF AgedTo, Servers
    <2>2. QED
        BY <1>1, <2>1, TickedLinked DEF Ticked, Carries
<1>6. b.known /\ \A s \in Slots : b.pending[s] # Nil => b.pending[s].keepalive
    <2>1. CASE b = a
        BY <1>2, <1>3, <2>1
    <2>2. ASSUME NEW s \in Slots, TrackedAs(b, a, s, TRUE, Nil)
          PROVE  b.known /\ \A t \in Slots : b.pending[t] # Nil => b.pending[t].keepalive
        BY <1>2, <1>3, <2>2 DEF TrackedAs, New
    <2>3. QED
        BY <1>1, <1>5, <2>1, <2>2, KeptAliveEither DEF AgedTo, Free
<1> HIDE DEF b
<1>7. ~\E s \in Slots : b.pending[s] # Nil /\ Overdue(b, s)
    BY <1>6 DEF Overdue
<1>8. c.known
    BY <1>5, <1>6, <1>7, RetransmittedEither DEF RequeuedAs, SentAs
<1>9. Linked(c)
    BY <1>5, RetransmittedLinked DEF Carries
<1> HIDE DEF c
<1>10. QED
    BY <1>4, <1>8, <1>9, PumpedLinked

LEMMA TimingPatient ==
    ASSUME LinkInv, [TimingNext]_timingVars
    PROVE  PatientStep
<1>1. CASE Pass
    BY <1>1, PassPatient
<1>2. CASE \E s \in Slots : ClientAck(s)
    <2>1. PICK s \in Slots : ClientAck(s)
        BY <1>2
    <2>2. server \in Servers /\ (server' = Retired(Alive(server), s) \/ server' = server)
        BY <2>1 DEF ClientAck, LinkInv, Linked
    <2>3. AliveAs(Alive(server), server)
        BY <2>2, AliveFields
    <2>4. RetiredAs(Retired(Alive(server), s), Alive(server), s)
        BY <2>3, RetiredFields DEF AliveAs
    <2>5. QED
        BY <2>2, <2>3, <2>4 DEF PatientStep, AliveAs, RetiredAs
<1>3. CASE \E r \in Requests : ClientRequest(r)
    <2>1. PICK r \in Requests : ClientRequest(r)
        BY <1>3
    <2> DEFINE v == Alive(server)
    <2>2. v \in Servers /\ v.known /\ framed \in BOOLEAN
        BY <2>1, AliveFields DEF AliveAs, ClientRequest, LinkInv, Linked, TimingTypeOK
    <2>3. \/ server' = AddAck(v, r)
          \/ server' = v
          \/ \E s \in Slots : server' = Track(v, s, FALSE, r)
        BY <2>1 DEF ClientRequest, Free
    <2> HIDE DEF v
    <2>4. AddAck(v, r).known
        <3>1. AddedAs(Add(v, Nil, r), v, Nil, r)
            BY <2>2, AddFields
        <3>2. (\E k : RidesAs(AddAck(v, r), v, k, r)) \/ AddAck(v, r) = Add(v, Nil, r)
            BY <2>2, AddAckEither
        <3>3. QED
            BY <2>2, <3>1, <3>2 DEF RidesAs, AddedAs
    <2>5. \A s \in Slots : Track(v, s, FALSE, r).known
        BY <2>2, TrackFields DEF TrackedAs
    <2>6. QED
        BY <2>2, <2>3, <2>4, <2>5 DEF PatientStep
<1>4. CASE Relay
    <2>1. server \in Servers /\ server.known /\ framed \in BOOLEAN
        BY <1>4 DEF Relay, LinkInv, Linked, TimingTypeOK
    <2>2. \/ server' = Add(server, Nil, Nil)
          \/ \E s \in Slots : server' = Track(server, s, FALSE, Nil)
        BY <1>4 DEF Relay, Free
    <2>3. \A s \in Slots : Track(server, s, FALSE, Nil).known
        BY <2>1, TrackFields DEF TrackedAs
    <2>4. Add(server, Nil, Nil).known
        BY <2>1, AddFields DEF AddedAs
    <2>5. QED
        BY <2>1, <2>2, <2>3, <2>4 DEF PatientStep
<1>5. CASE ClientTurns \/ Login \/ UNCHANGED timingVars
    BY <1>5 DEF PatientStep, ClientTurns, Login, timingVars
<1>6. QED
    BY <1>1, <1>2, <1>3, <1>4, <1>5 DEF TimingNext

\* A session whose client owes only keepalives ends at the idle limit, never
\* before (_peer_is_inactive, _end_idle_sessions).
THEOREM KeepalivesArePatient == TimingSpec => KeepalivesPatient
<1>1. LinkInv /\ [TimingNext]_timingVars =>
        [server.known /\ ~server'.known /\ (\A s \in Slots : server.pending[s] # Nil => server.pending[s].keepalive)
           => server.silent + 1 >= IdleLimit]_timingVars
    BY TimingPatient DEF PatientStep
<1>2. QED
    BY <1>1, TimingLinked, PTL DEF TimingSpec, KeepalivesPatient

-----------------------------------------------------------------------------
(***************************************************************************)
(* A client that answers in time.  A packet is either in the link, where   *)
(* each pass brings its turn nearer, or its ACK is due; so none is old     *)
(* enough to end the session.  A silence is short, or a packet of it is in *)
(* flight, or a keepalive is to come: none lasts until the idle limit.     *)
(***************************************************************************)

\* How long the link may take to send all that can wait in it; how long the
\* client of a session that is kept alive may be silent.
Gap == Pace + 1
Drain == (MaxQueue + Cardinality(Slots)) * Gap
CalmLimit == Interval + Drain + 1

\* The silence limit is beyond the time a packet waits for its turn and for its
\* ACK; the idle limit, beyond that of the keepalive which a silence starts.
CalmTiming ==
    /\ MinFrames <= Gap
    /\ ReliableTimeout > Drain + Delay
    /\ IdleLimit > CalmLimit + Drain + Delay

\* When message i leaves the link at the latest, in passes.
Line(v, i) == i * Gap - v.since
Turn(v, i) == IF v.since < Gap THEN Line(v, i) ELSE Line(v, i) + 1

Queued(v) == {s \in Slots : InQueue(v, s)}

NotLong(v) == Len(v.queue) <= MaxQueue + Cardinality(Queued(v))

\* A packet in flight has been waiting for its turn, or its ACK is on its way.
OnItsWay(v, h, s) ==
    IF h[s] = Nil THEN \E i \in DOMAIN v.queue : v.queue[i].packet = s /\ v.pending[s].first + Turn(v, i) <= Drain
    ELSE v.pending[s].first <= Drain + h[s]

\* ... so its client is silent only so long.
Awaited(v) == \E s \in Slots : v.pending[s] # Nil /\ v.silent <= CalmLimit + v.pending[s].first

Idle(v, h) == \E s \in Slots : v.pending[s] = Nil /\ ~InQueue(v, s) /\ h[s] = Nil

\* A keepalive is to come.
Upcoming(v, h) ==
    \/ v.silent < Interval
    \/ \E i \in DOMAIN v.queue : v.queue[i].packet # Nil /\ v.silent + Turn(v, i) < CalmLimit
    \/ v.silent < CalmLimit /\ Idle(v, h)

Calm(v, h) ==
    /\ v.known
    /\ NotLong(v)
    /\ \A s \in Slots : IF v.pending[s] = Nil THEN h[s] = Nil ELSE OnItsWay(v, h, s)
    /\ Awaited(v) \/ (~v.kept /\ Upcoming(v, h))

CalmInv == calm => Calm(server, heard)

LEMMA CalmNumbers ==
    ASSUME TRUE
    PROVE  /\ Gap \in Nat \ {0} /\ Gap = Pace + 1 /\ Drain \in Nat /\ CalmLimit \in Nat /\ CalmLimit = Interval + Drain + 1
           /\ IsFiniteSet(Slots) /\ Cardinality(Slots) \in Nat /\ Interval \in Nat /\ IdleLimit \in Nat
           /\ ReliableTimeout \in Nat /\ Delay \in Nat /\ MaxQueue \in Nat
<1>1. Cardinality(Slots) \in Nat /\ IsFiniteSet(Slots)
    BY TimingAssumption, FS_CardinalityType
<1>2. Gap \in Nat \ {0} /\ Gap = Pace + 1
    BY TimingNumbers DEF Gap
<1>3. \A a, b \in Nat : a * b \in Nat
    OBVIOUS
<1>4. Drain \in Nat
    BY <1>1, <1>2, <1>3, TimingNumbers DEF Drain
<1>5. QED
    BY <1>1, <1>2, <1>4, TimingNumbers DEF CalmLimit

LEMMA QueuedPackets ==
    ASSUME NEW v \in Servers
    PROVE  /\ IsFiniteSet(Queued(v)) /\ Cardinality(Queued(v)) \in Nat /\ Cardinality(Queued(v)) <= Cardinality(Slots)
           /\ Len(v.queue) \in Nat /\ DOMAIN v.queue = 1 .. Len(v.queue)
<1>1. Queued(v) \in SUBSET Slots
    BY DEF Queued
<1>2. QED
    BY <1>1, CalmNumbers, FS_Subset, FS_CardinalityType DEF Servers

\* The link is never so long that its last message waits longer than Drain.
LEMMA LineBounded ==
    ASSUME NEW v \in Servers, NEW i \in Nat \ {0}, i <= MaxQueue + Cardinality(Slots)
    PROVE  /\ i * Gap \in Nat /\ i * Gap <= Drain /\ v.since \in 0 .. Gap
           /\ Line(v, i) \in 0 .. Drain /\ Line(v, i) = i * Gap - v.since
<1>1. \A a, b, g \in Nat : a <= b => a * g <= b * g /\ a * g \in Nat
    OBVIOUS
<1>2. i * Gap \in Nat /\ i * Gap <= Drain
    BY <1>1, CalmNumbers DEF Drain
<1>3. \A g \in Nat : g <= i * g
    BY <1>1
<1>4. Gap <= i * Gap /\ v.since \in 0 .. Gap
    BY <1>3, CalmNumbers DEF Servers
<1> DEFINE k == i * Gap
<1>5. k \in Nat /\ Gap <= k /\ k <= Drain /\ Line(v, i) = k - v.since
    BY <1>2, <1>4 DEF Line
<1> HIDE DEF k
<1>6. Line(v, i) \in 0 .. Drain
    BY <1>4, <1>5, CalmNumbers
<1>7. QED
    BY <1>2, <1>4, <1>6 DEF Line

LEMMA NotLongBounds ==
    ASSUME NEW v \in Servers, NotLong(v)
    PROVE  /\ Len(v.queue) \in Nat /\ Len(v.queue) <= MaxQueue + Cardinality(Slots)
           /\ \A i \in DOMAIN v.queue : /\ i \in Nat \ {0} /\ i <= Len(v.queue) /\ i <= MaxQueue + Cardinality(Slots)
                                        /\ Line(v, i) \in 0 .. Drain /\ v.since \in 0 .. Gap
<1>1. /\ Len(v.queue) \in Nat /\ DOMAIN v.queue = 1 .. Len(v.queue)
      /\ Len(v.queue) <= MaxQueue + Cardinality(Slots)
    <2>1. /\ Len(v.queue) \in Nat /\ DOMAIN v.queue = 1 .. Len(v.queue)
          /\ Cardinality(Queued(v)) \in Nat /\ Cardinality(Queued(v)) <= Cardinality(Slots)
        BY QueuedPackets
    <2>2. Len(v.queue) <= MaxQueue + Cardinality(Queued(v))
        BY DEF NotLong
    <2>3. MaxQueue \in Nat /\ Cardinality(Slots) \in Nat
        BY CalmNumbers
    <2>4. QED
        BY <2>1, <2>2, <2>3
<1>2. \A i \in DOMAIN v.queue : i \in Nat \ {0} /\ i <= Len(v.queue) /\ i <= MaxQueue + Cardinality(Slots)
    BY <1>1, CalmNumbers
<1>3. QED
    BY <1>1, <1>2, LineBounded

-----------------------------------------------------------------------------
\* Within a pass, after the clock: an unframed packet may just have been sent.
InLine(v, s) ==
    IF heard[s] = Nil THEN \/ \E i \in DOMAIN v.queue : v.queue[i].packet = s /\ v.pending[s].first + Line(v, i) <= Drain
                           \/ ~framed /\ ~v.pending[s].waiting /\ v.pending[s].last = 0 /\ v.pending[s].first <= Drain
    ELSE v.pending[s].first <= Drain + heard[s] + 1

OnTime(v) ==
    /\ Linked(v) /\ v.known /\ NotLong(v) /\ v.silent < IdleLimit
    /\ \A s \in Slots : IF v.pending[s] = Nil THEN heard[s] = Nil ELSE InLine(v, s)

NextUp(v) == \E i \in DOMAIN v.queue : v.queue[i].packet # Nil /\ v.silent + Line(v, i) < CalmLimit

AgedCalm(v) ==
    /\ OnTime(v)
    /\ Awaited(v) \/ (~v.kept /\ (v.silent <= Interval \/ NextUp(v) \/ (v.silent <= CalmLimit /\ Idle(v, heard))))

TickedCalm(v) == OnTime(v) /\ (Awaited(v) \/ (~v.kept /\ (v.silent < Interval \/ NextUp(v))))

\* The client answers in time.
Patient == heard \in [Slots -> 0 .. Delay \cup {Nil}] /\ \A s \in Slots : heard[s] # Nil => heard[s] < Delay

LEMMA AgedSilence ==
    ASSUME CalmTiming, Patient, NEW v \in Servers, Calm(v, heard)
    PROVE  /\ v.silent + 1 < IdleLimit
           /\ \A s \in Slots : v.pending[s] # Nil => v.pending[s].first + 1 < ReliableTimeout
<1>1. v.silent \in Nat /\ \A s \in Slots : v.pending[s] # Nil => v.pending[s].first \in Nat
    BY DEF Servers, Tracked
<1>2. \A i \in DOMAIN v.queue : Turn(v, i) \in Nat
    BY NotLongBounds, CalmNumbers DEF Calm, Turn
<1>3. ASSUME NEW s \in Slots, v.pending[s] # Nil
      PROVE  v.pending[s].first + 1 <= Drain + Delay
    <2>1. OnItsWay(v, heard, s)
        BY <1>3 DEF Calm
    <2>2. CASE heard[s] = Nil
        <3>1. PICK i \in DOMAIN v.queue : v.pending[s].first + Turn(v, i) <= Drain
            BY <2>1, <2>2 DEF OnItsWay
        <3>2. QED
            BY <1>1, <1>2, <1>3, <3>1, CalmNumbers, TimingNumbers
    <2>3. CASE heard[s] # Nil
        <3>1. heard[s] \in Nat /\ heard[s] < Delay
            BY <2>3 DEF Patient
        <3>2. QED
            BY <1>1, <1>3, <2>1, <2>3, <3>1, CalmNumbers DEF OnItsWay
    <2>4. QED
        BY <2>2, <2>3
<1>4. CASE Awaited(v)
    BY <1>1, <1>3, <1>4, CalmNumbers DEF Awaited, CalmTiming
<1>5. CASE Upcoming(v, heard)
    <2>1. v.silent <= CalmLimit
        BY <1>1, <1>2, <1>5, CalmNumbers DEF Upcoming
    <2>2. QED
        BY <1>1, <1>3, <2>1, CalmNumbers, TimingNumbers DEF CalmTiming
<1>6. v.silent + 1 < IdleLimit
    BY <1>4, <1>5 DEF Calm
<1>7. QED
    BY <1>1, <1>3, <1>6, CalmNumbers DEF CalmTiming

\* The clock advances: a message's turn is one pass nearer.
LEMMA AgedTurn ==
    ASSUME NEW v \in Servers, NotLong(v), NEW u, AgedTo(u, v), NEW i \in DOMAIN v.queue
    PROVE  Line(u, i) + 1 <= Turn(v, i) /\ Line(u, i) \in Nat /\ Turn(v, i) \in Nat
<1>1. /\ i \in Nat \ {0} /\ i <= MaxQueue + Cardinality(Slots) /\ v.since \in 0 .. Gap
    BY NotLongBounds
<1>2. /\ u \in Servers /\ u.since = IF v.since < Gap THEN v.since + 1 ELSE v.since
    BY CalmNumbers DEF AgedTo, Older
<1>3. /\ i * Gap \in Nat /\ Line(u, i) = i * Gap - u.since /\ Line(v, i) = i * Gap - v.since
      /\ Line(u, i) \in Nat
    BY <1>1, <1>2, LineBounded
<1> DEFINE k == i * Gap
<1>4. k \in Nat /\ Line(u, i) = k - u.since /\ Line(v, i) = k - v.since /\ Line(u, i) \in Nat
    BY <1>3
<1> HIDE DEF k
<1>5. QED
    BY <1>1, <1>2, <1>4, CalmNumbers DEF Turn

LEMMA AgedOnTime ==
    ASSUME CalmTiming, Patient, NEW v, Linked(v), Calm(v, heard)
    PROVE  AgedCalm(Aged(v))
<1> DEFINE u == Aged(v)
<1>1. v \in Servers /\ AgedTo(u, v) /\ Linked(u)
    BY AgedFields, AgedLinked DEF Linked, Carries
<1> HIDE DEF u
<1>2. v.silent + 1 < IdleLimit /\ \A s \in Slots : v.pending[s] # Nil => v.pending[s].first + 1 < ReliableTimeout
    BY <1>1, AgedSilence
<1>3. v.silent \in Nat /\ u.silent = v.silent + 1 /\ u.silent < IdleLimit
    BY <1>1, <1>2, CalmNumbers DEF AgedTo, Older, Servers
<1>4. \A s \in Slots : /\ u.pending[s] = Nil <=> v.pending[s] = Nil
                       /\ v.pending[s] # Nil => /\ v.pending[s].first \in Nat
                                                /\ u.pending[s].first = v.pending[s].first + 1
                                                /\ u.pending[s].waiting = v.pending[s].waiting
    <2> SUFFICES ASSUME NEW s \in Slots
                 PROVE  /\ u.pending[s] = Nil <=> v.pending[s] = Nil
                        /\ v.pending[s] # Nil => /\ v.pending[s].first \in Nat
                                                 /\ u.pending[s].first = v.pending[s].first + 1
                                                 /\ u.pending[s].waiting = v.pending[s].waiting
        OBVIOUS
    <2>1. CASE v.pending[s] = Nil
        BY <1>1, <2>1 DEF AgedTo
    <2>2. CASE v.pending[s] # Nil
        <3>1. u.pending[s] # Nil /\ OlderPacket(u.pending[s], v.pending[s])
            BY <1>1, <2>2 DEF AgedTo
        <3>2. v.pending[s].first \in Nat
            BY <1>1, <2>2 DEF Servers, Tracked
        <3>3. v.pending[s].first < ReliableTimeout
            BY <1>2, <2>2, <3>2, CalmNumbers
        <3>4. QED
            BY <2>2, <3>1, <3>2, <3>3 DEF OlderPacket, Older
    <2>3. QED
        BY <2>1, <2>2
<1>5. u.queue = v.queue /\ u.known /\ u.kept = v.kept /\ \A t : InQueue(u, t) <=> InQueue(v, t)
    BY <1>1, SameMessages DEF AgedTo, Calm
<1>6. NotLong(u) /\ NotLong(v)
    <2>1. Queued(u) = Queued(v)
        BY <1>5 DEF Queued
    <2>2. QED
        BY <1>5, <2>1 DEF NotLong, Calm
<1>7. \A i \in DOMAIN v.queue : Line(u, i) + 1 <= Turn(v, i) /\ Line(u, i) \in Nat /\ Turn(v, i) \in Nat
    BY <1>1, <1>6, AgedTurn
<1>8. ASSUME NEW s \in Slots, u.pending[s] # Nil
      PROVE  InLine(u, s)
    <2>1. /\ OnItsWay(v, heard, s) /\ v.pending[s].first \in Nat /\ u.pending[s].first = v.pending[s].first + 1
        BY <1>4, <1>8 DEF Calm
    <2>2. CASE heard[s] = Nil
        <3>1. PICK i \in DOMAIN v.queue : v.queue[i].packet = s /\ v.pending[s].first + Turn(v, i) <= Drain
            BY <2>1, <2>2 DEF OnItsWay
        <3>2. u.pending[s].first + Line(u, i) <= Drain
            BY <1>7, <2>1, <3>1, CalmNumbers
        <3>3. QED
            BY <1>5, <2>2, <3>1, <3>2 DEF InLine
    <2>3. CASE heard[s] # Nil
        <3>1. heard[s] \in Nat
            BY <2>3 DEF Patient
        <3>2. QED
            BY <2>1, <2>3, <3>1, CalmNumbers DEF OnItsWay, InLine
    <2>4. QED
        BY <2>2, <2>3
<1>9. OnTime(u)
    BY <1>1, <1>3, <1>4, <1>5, <1>6, <1>8 DEF OnTime, Calm
<1>10. CASE Awaited(v)
    <2>1. Awaited(u)
        BY <1>3, <1>4, <1>10, CalmNumbers DEF Awaited
    <2>2. QED
        BY <1>9, <2>1 DEF AgedCalm, u
<1>11. CASE ~v.kept /\ Upcoming(v, heard)
    <2>1. CASE v.silent < Interval
        <3>1. u.silent <= Interval
            BY <1>3, <2>1, CalmNumbers
        <3>2. QED
            BY <1>5, <1>9, <1>11, <3>1 DEF AgedCalm, u
    <2>2. CASE \E i \in DOMAIN v.queue : v.queue[i].packet # Nil /\ v.silent + Turn(v, i) < CalmLimit
        <3>1. PICK i \in DOMAIN v.queue : v.queue[i].packet # Nil /\ v.silent + Turn(v, i) < CalmLimit
            BY <2>2
        <3>2. u.silent + Line(u, i) < CalmLimit
            BY <1>3, <1>7, <3>1, CalmNumbers
        <3>3. NextUp(u)
            BY <1>5, <3>1, <3>2 DEF NextUp
        <3>4. QED
            BY <1>5, <1>9, <1>11, <3>3 DEF AgedCalm, u
    <2>3. CASE v.silent < CalmLimit /\ Idle(v, heard)
        <3>1. u.silent <= CalmLimit
            BY <1>3, <2>3, CalmNumbers
        <3>2. Idle(u, heard)
            BY <1>4, <1>5, <2>3 DEF Idle
        <3>3. QED
            BY <1>5, <1>9, <1>11, <3>1, <3>2 DEF AgedCalm, u
    <2>4. QED
        BY <1>11, <2>1, <2>2, <2>3 DEF Upcoming
<1>12. QED
    BY <1>10, <1>11 DEF Calm

\* A message behind the others is as far from its turn as the link is long.
LEMMA AppendedInLine ==
    ASSUME NEW u \in Servers, NotLong(u), NEW n \in Nat, n + 1 = Len(u.queue)
    PROVE  n + 1 \in DOMAIN u.queue /\ Line(u, n + 1) \in 0 .. Drain
<1>1. n + 1 \in DOMAIN u.queue
    BY QueuedPackets
<1>2. QED
    BY <1>1, NotLongBounds

LEMMA TickedOnTime ==
    ASSUME CalmTiming, Patient, framed \in BOOLEAN, NEW v, AgedCalm(v)
    PROVE  TickedCalm(Ticked(v))
<1> DEFINE u == Ticked(v)
<1>1. Linked(v) /\ v \in Servers /\ v.known /\ v.silent \in Nat /\ v.silent < IdleLimit /\ NotLong(v) /\ OnTime(v)
    BY DEF AgedCalm, OnTime, Linked, Servers
<1>2. u = KeptAlive(v)
    BY <1>1, CalmNumbers DEF Ticked
<1>3. Linked(u) /\ u.silent = v.silent
    BY <1>1, <1>2, KeptAliveLinked DEF Carries
<1>4. \A i \in DOMAIN v.queue : Line(v, i) \in 0 .. Drain
    BY <1>1, NotLongBounds
<1> HIDE DEF u
<1>5. CASE u = v /\ (v.silent < Interval \/ v.kept \/ Free(v) = {})
    <2>1. CASE Awaited(v) \/ v.silent < Interval \/ NextUp(v)
        BY <1>5, <1>1, <2>1 DEF AgedCalm, TickedCalm, u
    <2>2. CASE ~Awaited(v) /\ ~(v.silent < Interval) /\ ~NextUp(v)
        <3>1. ~v.kept /\ (v.silent <= Interval \/ Idle(v, heard)) /\ Free(v) = {}
            BY <1>5, <2>2 DEF AgedCalm
        <3>2. ~Idle(v, heard)
            BY <3>1 DEF Free, Idle
        <3>3. PICK s \in Slots : TRUE
            BY TimingAssumption
        <3>4. v.silent <= Interval
            BY <3>1, <3>2
        <3>5. v.pending[s] = Nil
            <4>1. v.pending[s] # Nil => v.pending[s].first \in Nat
                BY <1>1 DEF Servers, Tracked
            <4>2. QED
                BY <1>1, <2>2, <3>4, <4>1, CalmNumbers DEF Awaited
        <3>6. heard[s] = Nil
            BY <1>1, <3>5 DEF OnTime
        <3>7. PICK i \in DOMAIN v.queue : v.queue[i].packet = s
            BY <3>2, <3>5, <3>6 DEF Idle, InQueue
        <3>8. v.silent + Line(v, i) < CalmLimit
            BY <1>1, <1>4, <3>4, CalmNumbers
        <3>9. QED
            BY <2>2, <3>7, <3>8, NilAssumption DEF NextUp
    <2>3. QED
        BY <2>1, <2>2
<1>6. CASE /\ v.silent >= Interval /\ ~v.kept /\ \E s \in Free(v) : TrackedAs(u, v, s, TRUE, Nil)
    <2>1. PICK s \in Free(v) : TrackedAs(u, v, s, TRUE, Nil)
        BY <1>6
    <2>2. s \in Slots /\ v.pending[s] = Nil /\ ~InQueue(v, s) /\ heard[s] = Nil
        BY DEF Free
    <2>3. /\ u \in Servers /\ u.known /\ u.since = v.since /\ u.pending[s] # Nil /\ u.pending[s].first = 0
          /\ u.pending[s].last = 0 /\ u.pending[s].waiting = framed
          /\ \A t \in Slots : t # s => u.pending[t] = v.pending[t]
        BY <1>1, <2>1 DEF TrackedAs, New
    <2>4. /\ NotLong(u) /\ InLine(u, s)
          /\ \A i \in DOMAIN v.queue : i \in DOMAIN u.queue /\ u.queue[i] = v.queue[i]
        <3>1. CASE ~framed
            <4>1. u.queue = v.queue
                BY <2>1, <3>1 DEF TrackedAs
            <4>2. Queued(u) = Queued(v)
                BY <4>1 DEF Queued, InQueue
            <4>3. NotLong(u)
                BY <1>1, <4>1, <4>2 DEF NotLong
            <4>4. InLine(u, s)
                BY <2>2, <2>3, <3>1, CalmNumbers DEF InLine
            <4>5. QED
                BY <4>1, <4>3, <4>4
        <3>2. CASE framed
            <4> DEFINE e == [packet |-> s, ack |-> Nil]
                       n == Len(v.queue)
            <4>1. e \in Entries /\ e.packet = s /\ u.queue = Append(v.queue, e)
                BY <2>1, <2>2, <3>2 DEF TrackedAs, Entries
            <4> HIDE DEF e
            <4>2. /\ n \in Nat /\ Len(u.queue) = n + 1 /\ DOMAIN v.queue = 1 .. n /\ DOMAIN u.queue = 1 .. n + 1
                  /\ u.queue[n + 1] = e /\ \A i \in 1 .. n : u.queue[i] = v.queue[i]
                  /\ \A t : InQueue(u, t) <=> InQueue(v, t) \/ e.packet = t
                BY <1>1, <2>3, <4>1, AppendMessages
            <4> HIDE DEF n
            <4>3. Queued(u) = Queued(v) \cup {s} /\ s \notin Queued(v)
                BY <2>2, <4>1, <4>2 DEF Queued
            <4>4. Cardinality(Queued(u)) = Cardinality(Queued(v)) + 1
                BY <1>1, <4>3, QueuedPackets, FS_AddElement
            <4>5. NotLong(u)
                <5>1. Cardinality(Queued(v)) \in Nat /\ n <= MaxQueue + Cardinality(Queued(v))
                    BY <1>1, QueuedPackets DEF NotLong, n
                <5>2. n + 1 <= MaxQueue + (Cardinality(Queued(v)) + 1)
                    <6>1. \A m, c, q \in Nat : m <= q + c => m + 1 <= q + (c + 1)
                        OBVIOUS
                    <6>2. MaxQueue \in Nat
                        BY CalmNumbers
                    <6>3. QED
                        BY <4>2, <5>1, <6>1, <6>2
                <5>3. QED
                    BY <4>2, <4>4, <5>2 DEF NotLong
            <4>6. Line(u, n + 1) \in 0 .. Drain
                BY <2>3, <4>2, <4>5, AppendedInLine
            <4>7. u.pending[s].first + Line(u, n + 1) <= Drain
                BY <2>3, <4>6, CalmNumbers
            <4>8. n + 1 \in DOMAIN u.queue
                BY <4>2
            <4>9. InLine(u, s)
                BY <2>2, <4>1, <4>2, <4>7, <4>8 DEF InLine
            <4>10. QED
                BY <4>2, <4>5, <4>9
        <3>3. QED
            BY <3>1, <3>2
    <2>5. \A i \in DOMAIN v.queue : Line(u, i) = Line(v, i)
        BY <2>3 DEF Line
    <2>6. ASSUME NEW t \in Slots, u.pending[t] # Nil PROVE InLine(u, t)
        <3>1. CASE t = s
            BY <2>4, <3>1
        <3>2. CASE t # s
            <4>1. u.pending[t] = v.pending[t] /\ InLine(v, t)
                BY <1>1, <2>3, <2>6, <3>2 DEF OnTime
            <4>2. QED
                BY <2>4, <2>5, <4>1 DEF InLine
        <3>3. QED
            BY <3>1, <3>2
    <2>7. \A t \in Slots : u.pending[t] = Nil => heard[t] = Nil
        BY <1>1, <2>3 DEF OnTime
    <2>8. OnTime(u)
        BY <1>1, <1>3, <2>3, <2>4, <2>6, <2>7 DEF OnTime
    <2>9. v.silent <= CalmLimit \/ Awaited(v)
        <3>1. ASSUME NextUp(v) PROVE v.silent <= CalmLimit
            BY <1>1, <1>4, <3>1, CalmNumbers DEF NextUp
        <3>2. QED
            BY <1>1, <3>1, CalmNumbers DEF AgedCalm
    <2>10. Awaited(u)
        <3>1. CASE Awaited(v)
            BY <1>3, <2>2, <2>3, <3>1 DEF Awaited
        <3>2. CASE v.silent <= CalmLimit
            BY <1>1, <1>3, <2>2, <2>3, <3>2, CalmNumbers DEF Awaited
        <3>3. QED
            BY <2>9, <3>1, <3>2
    <2>11. QED
        BY <2>8, <2>10 DEF TickedCalm, u
<1>7. QED
    BY <1>1, <1>2, <1>5, <1>6, KeptAliveEither

LEMMA NothingOverdue ==
    ASSUME CalmTiming, Patient, NEW v, OnTime(v)
    PROVE  ~\E s \in Slots : v.pending[s] # Nil /\ Overdue(v, s)
<1> SUFFICES ASSUME NEW s \in Slots, v.pending[s] # Nil PROVE v.pending[s].first < ReliableTimeout
    <2>1. \A s \in Slots : v.pending[s] # Nil => v.pending[s].first \in Nat
        BY DEF OnTime, Linked, Servers, Tracked
    <2>2. QED
        BY <2>1, CalmNumbers DEF Overdue
<1>1. v.pending[s].first \in Nat /\ NotLong(v) /\ v \in Servers /\ InLine(v, s)
    BY DEF OnTime, Linked, Servers, Tracked
<1>2. CASE heard[s] = Nil
    <2>1. \A i \in DOMAIN v.queue : Line(v, i) \in 0 .. Drain
        BY <1>1, NotLongBounds
    <2>2. QED
        BY <1>1, <1>2, <2>1, CalmNumbers DEF InLine, CalmTiming
<1>3. CASE heard[s] # Nil
    <2>1. heard[s] \in Nat /\ heard[s] < Delay
        BY <1>3 DEF Patient
    <2>2. QED
        BY <1>1, <1>3, <2>1, CalmNumbers DEF InLine, CalmTiming
<1>4. QED
    BY <1>2, <1>3

\* What is behind the messages of v leaves the others in their turn.
LEMMA StillInLine ==
    ASSUME NEW v, NEW u, u.since = v.since,
           \A i \in DOMAIN v.queue : i \in DOMAIN u.queue /\ u.queue[i] = v.queue[i],
           \A t \in Slots : /\ u.pending[t] = Nil <=> v.pending[t] = Nil
                            /\ v.pending[t] # Nil => u.pending[t].first = v.pending[t].first
    PROVE  /\ \A i \in DOMAIN v.queue : Line(u, i) = Line(v, i)
           /\ u.silent = v.silent => /\ NextUp(v) => NextUp(u)
                                     /\ Awaited(v) => Awaited(u)
           /\ \A t \in Slots : v.pending[t] # Nil /\ InLine(v, t) /\ (framed \/ heard[t] # Nil) => InLine(u, t)
<1>1. \A i \in DOMAIN v.queue : Line(u, i) = Line(v, i)
    BY DEF Line
<1>2. u.silent = v.silent /\ NextUp(v) => NextUp(u)
    BY <1>1 DEF NextUp
<1>3. u.silent = v.silent /\ Awaited(v) => Awaited(u)
    BY DEF Awaited
<1>4. ASSUME NEW t \in Slots, v.pending[t] # Nil, InLine(v, t), framed \/ heard[t] # Nil
      PROVE  InLine(u, t)
    <2>1. u.pending[t].first = v.pending[t].first
        BY <1>4
    <2>2. CASE heard[t] = Nil
        <3>1. PICK i \in DOMAIN v.queue : v.queue[i].packet = t /\ v.pending[t].first + Line(v, i) <= Drain
            BY <1>4, <2>2 DEF InLine
        <3>2. u.queue[i].packet = t /\ u.pending[t].first + Line(u, i) <= Drain /\ i \in DOMAIN u.queue
            BY <1>1, <2>1, <3>1
        <3>3. QED
            BY <2>2, <3>2 DEF InLine
    <2>3. CASE heard[t] # Nil
        BY <1>4, <2>1, <2>3 DEF InLine
    <2>4. QED
        BY <2>2, <2>3
<1>5. QED
    BY <1>1, <1>2, <1>3, <1>4

LEMMA RequeuedOnTime ==
    ASSUME framed, NEW v, TickedCalm(v), NEW due \in SUBSET Slots,
           \A s \in due : v.pending[s] # Nil /\ ~v.pending[s].waiting, NEW u, RequeuedAs(u, v, due)
    PROVE  TickedCalm(u)
<1> DEFINE n == Len(v.queue)
           b == Bare(due)
<1>1. Linked(v) /\ v \in Servers /\ OnTime(v) /\ NotLong(v) /\ u \in Servers
    BY DEF TickedCalm, OnTime, Linked, RequeuedAs
<1>2. Linked(u) /\ \A t \in Slots : InQueue(u, t) <=> InQueue(v, t) \/ t \in due
    BY <1>1, RequeuedLinked, RequeuedMessages
<1>3. /\ v.queue \in Seq(Entries) /\ b \in Seq(Entries) /\ u.queue = v.queue \o b
      /\ Len(b) = Cardinality(due) /\ Cardinality(due) \in Nat
    BY <1>1, BareMessages DEF Servers, RequeuedAs
<1> HIDE DEF b
<1>4. /\ n \in Nat /\ DOMAIN v.queue = 1 .. n /\ DOMAIN u.queue = 1 .. n + Len(b)
      /\ \A i \in 1 .. n : u.queue[i] = v.queue[i]
    <2>1. v.queue \in Seq(Entries) /\ b \in Seq(Entries) /\ u.queue = v.queue \o b
        BY <1>3
    <2>2. QED
        BY <2>1, Behind
<1>5. Len(u.queue) = n + Cardinality(due)
    <2>1. Len(u.queue) = Len(v.queue) + Len(b)
        BY <1>3, ConcatLength
    <2>2. QED
        BY <1>3, <2>1
<1> HIDE DEF n
<1>6. \A i \in DOMAIN v.queue : i \in DOMAIN u.queue /\ u.queue[i] = v.queue[i]
    BY <1>3, <1>4
<1>7. NotLong(u)
    <2>1. Queued(u) = Queued(v) \cup due /\ Queued(v) \cap due = {}
        BY <1>1, <1>2 DEF Queued, Linked
    <2>2. IsFiniteSet(due) /\ IsFiniteSet(Queued(v)) /\ Cardinality(Queued(v)) \in Nat
        BY <1>1, QueuedPackets, CalmNumbers, FS_Subset
    <2>3. Cardinality(Queued(u)) = Cardinality(Queued(v)) + Cardinality(due) - Cardinality(Queued(v) \cap due)
        BY <2>1, <2>2, FS_Union
    <2>4. Cardinality(Queued(v) \cap due) = 0
        BY <2>1, FS_EmptySet
    <2>5. n <= MaxQueue + Cardinality(Queued(v))
        BY <1>1 DEF NotLong, n
    <2>6. n + Cardinality(due) <= MaxQueue + (Cardinality(Queued(v)) + Cardinality(due) - 0)
        <3>1. \A m, c, d, q \in Nat : m <= q + c => m + d <= q + (c + d - 0)
            OBVIOUS
        <3>2. MaxQueue \in Nat /\ Cardinality(due) \in Nat /\ n \in Nat
            BY <1>3, <1>4, CalmNumbers
        <3>3. QED
            BY <2>2, <2>5, <3>1, <3>2
    <2>7. QED
        BY <1>5, <2>3, <2>4, <2>6 DEF NotLong
<1>8. /\ u.known /\ u.silent = v.silent /\ u.since = v.since /\ u.kept = v.kept
      /\ \A t \in Slots : /\ u.pending[t] = Nil <=> v.pending[t] = Nil
                          /\ v.pending[t] # Nil => u.pending[t].first = v.pending[t].first
    BY <1>1 DEF RequeuedAs, OnTime
<1>9. /\ (NextUp(v) => NextUp(u)) /\ (Awaited(v) => Awaited(u))
      /\ \A t \in Slots : v.pending[t] # Nil /\ InLine(v, t) => InLine(u, t)
    BY <1>6, <1>8, StillInLine
<1>10. OnTime(u)
    BY <1>1, <1>2, <1>7, <1>8, <1>9 DEF OnTime
<1>11. QED
    BY <1>8, <1>9, <1>10 DEF TickedCalm

LEMMA SentOnTime ==
    ASSUME framed \in BOOLEAN, ~framed, NEW v, TickedCalm(v), NEW u, SentAs(u, v)
    PROVE  TickedCalm(u)
<1>1. Linked(v) /\ v \in Servers /\ OnTime(v) /\ NotLong(v) /\ v.queue = <<>>
    BY DEF TickedCalm, OnTime, Linked
<1>2. /\ u.known /\ u.silent = v.silent /\ u.since = v.since /\ u.kept = v.kept /\ u.queue = v.queue /\ u \in Servers
      /\ \A t \in Slots : /\ u.pending[t] = Nil <=> v.pending[t] = Nil
                          /\ v.pending[t] # Nil => /\ u.pending[t].first = v.pending[t].first
                                                   /\ u.pending[t].waiting = v.pending[t].waiting
                                                   /\ v.pending[t].last = 0 => u.pending[t].last = 0
    BY <1>1 DEF SentAs, OnTime
<1>3. Linked(u)
    BY <1>1, <1>2, SameLinked
<1>4. (NextUp(v) => NextUp(u)) /\ (Awaited(v) => Awaited(u))
    BY <1>2, StillInLine
<1>5. ASSUME NEW t \in Slots, u.pending[t] # Nil PROVE InLine(u, t)
    <2>1. InLine(v, t)
        BY <1>1, <1>2, <1>5 DEF OnTime
    <2>2. ~\E i \in DOMAIN v.queue : TRUE
        BY <1>1
    <2>3. QED
        BY <1>2, <1>5, <2>1, <2>2 DEF InLine
<1>6. NotLong(u)
    <2>1. Queued(u) = Queued(v)
        BY <1>2 DEF Queued, InQueue
    <2>2. QED
        BY <1>1, <1>2, <2>1 DEF NotLong
<1>7. OnTime(u)
    BY <1>1, <1>2, <1>3, <1>5, <1>6 DEF OnTime
<1>8. QED
    BY <1>2, <1>4, <1>7 DEF TickedCalm

LEMMA RetransmittedOnTime ==
    ASSUME CalmTiming, Patient, framed \in BOOLEAN, NEW v, TickedCalm(v)
    PROVE  TickedCalm(Retransmitted(v))
<1>1. OnTime(v) /\ Linked(v)
    BY DEF TickedCalm, OnTime
<1>2. ~\E s \in Slots : v.pending[s] # Nil /\ Overdue(v, s)
    BY <1>1, NothingOverdue
<1>3. \/ framed /\ \E due \in SUBSET Slots : /\ \A s \in due : v.pending[s] # Nil /\ ~v.pending[s].waiting
                                             /\ RequeuedAs(Retransmitted(v), v, due)
      \/ ~framed /\ SentAs(Retransmitted(v), v)
    BY <1>1, <1>2, RetransmittedEither
<1>4. QED
    BY <1>3, RequeuedOnTime, SentOnTime

\* What has left has been heard; of the rest, a pass goes by.
HeardAfter(u, h) ==
    \A s \in Slots : h[s] = IF s \in Left(u) /\ heard[s] = Nil THEN 0
                            ELSE IF heard[s] # Nil /\ heard[s] < Delay THEN heard[s] + 1
                            ELSE heard[s]

LEMMA HeardSlots ==
    ASSUME Patient, NEW u, NEW h, HeardAfter(u, h), NEW s \in Slots
    PROVE  /\ heard[s] # Nil => heard[s] \in Nat /\ h[s] = heard[s] + 1 /\ h[s] # Nil
           /\ heard[s] = Nil => IF s \in Left(u) THEN h[s] = 0 /\ h[s] # Nil ELSE h[s] = Nil
<1>1. h[s] = IF s \in Left(u) /\ heard[s] = Nil THEN 0
             ELSE IF heard[s] # Nil /\ heard[s] < Delay THEN heard[s] + 1
             ELSE heard[s]
    BY DEF HeardAfter
<1>2. heard[s] # Nil => heard[s] \in Nat /\ heard[s] < Delay
    BY DEF Patient
<1>3. Nil \notin Nat
    BY NilAssumption
<1>4. QED
    BY <1>1, <1>2, <1>3

LEMMA UnpoppedOnTime ==
    ASSUME CalmTiming, Patient, NEW v, TickedCalm(v), ~Pops(v), NEW h, HeardAfter(v, h)
    PROVE  Calm(v, h)
<1>1. Linked(v) /\ v \in Servers /\ OnTime(v) /\ NotLong(v) /\ v.known /\ v.silent \in Nat
    BY DEF TickedCalm, OnTime, Linked, Servers
<1>2. \A i \in DOMAIN v.queue : Turn(v, i) = Line(v, i) /\ Line(v, i) \in 0 .. Drain
    <2> SUFFICES ASSUME NEW i \in DOMAIN v.queue PROVE Turn(v, i) = Line(v, i) /\ Line(v, i) \in 0 .. Drain
        OBVIOUS
    <2>1. Line(v, i) \in 0 .. Drain /\ v.since \in 0 .. Gap
        BY <1>1, NotLongBounds
    <2>2. v.queue # <<>>
        BY <1>1 DEF Servers
    <2>3. v.since < Gap
        <3>1. ~(v.since >= MinFrames) \/ ~(v.since > Pace)
            BY <2>2 DEF Pops
        <3>2. MinFrames \in Nat /\ Pace \in Nat /\ Gap = Pace + 1 /\ MinFrames <= Gap /\ v.since \in Nat
            BY <2>1, CalmNumbers, TimingNumbers DEF CalmTiming
        <3>3. QED
            BY <3>1, <3>2
    <2>4. QED
        BY <2>1, <2>3 DEF Turn
<1>3. ASSUME NEW t \in Slots, v.pending[t] # Nil PROVE OnItsWay(v, h, t)
    <2>1. InLine(v, t) /\ v.pending[t].first \in Nat
        BY <1>1, <1>3 DEF OnTime, Servers, Tracked
    <2>2. CASE heard[t] # Nil
        <3>1. heard[t] \in Nat /\ h[t] = heard[t] + 1 /\ h[t] # Nil
            BY <2>2, HeardSlots
        <3>2. QED
            BY <2>1, <2>2, <3>1, CalmNumbers DEF InLine, OnItsWay
    <2>3. CASE heard[t] = Nil /\ \E i \in DOMAIN v.queue : v.queue[i].packet = t /\ v.pending[t].first + Line(v, i) <= Drain
        <3>1. PICK i \in DOMAIN v.queue : v.queue[i].packet = t /\ v.pending[t].first + Line(v, i) <= Drain
            BY <2>3
        <3>2. InQueue(v, t)
            BY <3>1 DEF InQueue
        <3>3. t \notin Left(v)
            BY <1>1, <1>3, <3>2 DEF Left, Linked
        <3>4. h[t] = Nil
            BY <2>3, <3>3, HeardSlots
        <3>5. v.pending[t].first + Turn(v, i) <= Drain
            BY <1>2, <3>1
        <3>6. QED
            BY <3>1, <3>4, <3>5 DEF OnItsWay
    <2>4. CASE heard[t] = Nil /\ ~framed /\ ~v.pending[t].waiting /\ v.pending[t].last = 0 /\ v.pending[t].first <= Drain
        <3>1. t \in Left(v)
            BY <1>3, <2>4 DEF Left
        <3>2. h[t] = 0 /\ h[t] # Nil
            BY <2>4, <3>1, HeardSlots
        <3>3. QED
            BY <2>1, <2>4, <3>2, CalmNumbers DEF OnItsWay
    <2>5. QED
        BY <2>1, <2>2, <2>3, <2>4 DEF InLine
<1>4. ASSUME NEW t \in Slots, v.pending[t] = Nil PROVE h[t] = Nil
    <2>1. heard[t] = Nil /\ t \notin Left(v)
        BY <1>1, <1>4 DEF OnTime, Left
    <2>2. QED
        BY <2>1, HeardSlots
<1>5. ASSUME ~Awaited(v) PROVE ~v.kept /\ Upcoming(v, h)
    <2>1. ~v.kept /\ (v.silent < Interval \/ NextUp(v))
        BY <1>5 DEF TickedCalm
    <2>2. CASE NextUp(v)
        <3>1. PICK i \in DOMAIN v.queue : v.queue[i].packet # Nil /\ v.silent + Line(v, i) < CalmLimit
            BY <2>2 DEF NextUp
        <3>2. v.silent + Turn(v, i) < CalmLimit
            BY <1>2, <3>1
        <3>3. QED
            BY <2>1, <3>1, <3>2 DEF Upcoming
    <2>3. QED
        BY <2>1, <2>2 DEF Upcoming
<1>6. QED
    BY <1>1, <1>3, <1>4, <1>5 DEF Calm

\* When the head has left, the next message's turn is no farther.
LEMMA PoppedTurn ==
    ASSUME NEW v \in Servers, NotLong(v), NEW u \in Servers, u.since = 0, NEW i \in DOMAIN v.queue, i # 1
    PROVE  Turn(u, i - 1) \in Nat /\ Turn(u, i - 1) <= Line(v, i)
<1>1. i \in Nat \ {0} /\ v.since \in 0 .. Gap /\ Line(v, i) \in 0 .. Drain
    BY NotLongBounds
<1> DEFINE j == i - 1
<1>2. j \in Nat /\ i = j + 1
    BY <1>1
<1> HIDE DEF j
<1>3. j * Gap \in Nat /\ i * Gap = j * Gap + Gap
    <2>1. \A a, g \in Nat : a * g \in Nat /\ (a + 1) * g = a * g + g
        OBVIOUS
    <2>2. QED
        BY <1>2, <2>1, CalmNumbers
<1> DEFINE k == j * Gap
<1>4. Turn(u, j) = k
    BY <1>3, CalmNumbers DEF Turn, Line
<1>5. Line(v, i) = k + Gap - v.since /\ k \in Nat
    <2> DEFINE m == i * Gap
    <2>1. m = k + Gap /\ k \in Nat /\ Line(v, i) = m - v.since
        BY <1>3 DEF Line
    <2> HIDE DEF m, k
    <2>2. QED
        BY <1>1, <2>1, CalmNumbers
<1> HIDE DEF k
<1>6. Turn(u, j) \in Nat /\ Turn(u, j) <= Line(v, i)
    BY <1>1, <1>4, <1>5, CalmNumbers
<1>7. QED
    BY <1>6 DEF j

LEMMA PoppedOnTime ==
    ASSUME CalmTiming, Patient, framed \in BOOLEAN, NEW v, TickedCalm(v), v.queue # <<>>,
           NEW u, PoppedAs(u, v), NEW h, HeardAfter(u, h)
    PROVE  Calm(u, h)
<1> DEFINE s == v.queue[1].packet
           n == Len(v.queue)
<1>1. Linked(v) /\ v \in Servers /\ OnTime(v) /\ NotLong(v) /\ v.known /\ v.silent \in Nat /\ framed
    BY DEF TickedCalm, OnTime, Linked, Servers
<1>2. /\ u \in Servers /\ u.known /\ u.kept = v.kept /\ u.silent = v.silent /\ u.since = 0 /\ u.queue = Tail(v.queue)
      /\ \A t \in Slots : /\ u.pending[t] = Nil <=> v.pending[t] = Nil
                          /\ v.pending[t] # Nil => /\ u.pending[t].first = v.pending[t].first
                                                   /\ v.pending[t].first \in Nat
                                                   /\ t = s => ~u.pending[t].waiting /\ u.pending[t].last = 0
    BY <1>1 DEF PoppedAs, Servers, Tracked
<1>3. Linked(u) /\ \A t \in Slots : InQueue(u, t) <=> InQueue(v, t) /\ t # s
    BY <1>1, PoppedLinked
<1>4. /\ n \in Nat \ {0} /\ Len(u.queue) = n - 1 /\ DOMAIN v.queue = 1 .. n /\ DOMAIN u.queue = 1 .. n - 1
      /\ \A i \in 1 .. n - 1 : u.queue[i] = v.queue[i + 1]
    BY <1>1, <1>2, TailMessages
<1>5. \A i \in DOMAIN v.queue : Line(v, i) \in 0 .. Drain
    BY <1>1, NotLongBounds
<1>6. ASSUME NEW i \in DOMAIN v.queue, i # 1
      PROVE  /\ i - 1 \in DOMAIN u.queue /\ u.queue[i - 1] = v.queue[i]
             /\ Turn(u, i - 1) \in Nat /\ Turn(u, i - 1) <= Line(v, i)
    <2>1. i - 1 \in 1 .. n - 1 /\ (i - 1) + 1 = i
        BY <1>4, <1>6
    <2>2. QED
        BY <1>1, <1>2, <1>4, <1>6, <2>1, PoppedTurn
<1>7. 1 \in DOMAIN v.queue
    BY <1>4
<1>8. NotLong(u)
    <2>1. Queued(u) = Queued(v) \ {s}
        BY <1>3 DEF Queued
    <2>2. IsFiniteSet(Queued(v)) /\ Cardinality(Queued(v)) \in Nat
        BY <1>1, QueuedPackets
    <2> HIDE DEF s
    <2>3. Cardinality(Queued(u)) = IF s \in Queued(v) THEN Cardinality(Queued(v)) - 1 ELSE Cardinality(Queued(v))
        BY <2>1, <2>2, FS_RemoveElement
    <2>4. n <= MaxQueue + Cardinality(Queued(v))
        BY <1>1 DEF NotLong
    <2> HIDE DEF n
    <2>5. QED
        BY <1>4, <2>2, <2>3, <2>4, CalmNumbers DEF NotLong
<1> HIDE DEF s, n
<1>9. ASSUME NEW t \in Slots, u.pending[t] # Nil PROVE OnItsWay(u, h, t)
    <2>1. InLine(v, t) /\ v.pending[t].first \in Nat /\ u.pending[t].first = v.pending[t].first
        BY <1>1, <1>2, <1>9 DEF OnTime
    <2>2. CASE heard[t] # Nil
        <3>1. heard[t] \in Nat /\ h[t] = heard[t] + 1 /\ h[t] # Nil
            BY <2>2, HeardSlots
        <3>2. QED
            BY <2>1, <2>2, <3>1, CalmNumbers DEF InLine, OnItsWay
    <2>3. CASE heard[t] = Nil
        <3>1. PICK i \in DOMAIN v.queue : v.queue[i].packet = t /\ v.pending[t].first + Line(v, i) <= Drain
            BY <1>1, <2>1, <2>3 DEF InLine
        <3>2. CASE i = 1
            <4>1. t = s
                BY <3>1, <3>2 DEF s
            <4>2. t \in Left(u)
                BY <1>2, <1>9, <4>1 DEF Left
            <4>3. h[t] = 0 /\ h[t] # Nil
                BY <2>3, <4>2, HeardSlots
            <4>4. v.pending[t].first <= Drain
                <5> DEFINE line == Line(v, i)
                           first == v.pending[t].first
                <5>1. line \in Nat /\ first \in Nat /\ first + line <= Drain /\ Drain \in Nat
                    BY <1>5, <2>1, <3>1, CalmNumbers
                <5> HIDE DEF line, first
                <5>2. first <= Drain
                    BY <5>1
                <5>3. QED
                    BY <5>2 DEF first
            <4>5. QED
                BY <2>1, <4>3, <4>4, CalmNumbers DEF OnItsWay
        <3>3. CASE i # 1
            <4>1. t # s
                BY <1>1, <1>7, <3>1, <3>3, NilAssumption DEF Linked, s
            <4>2. InQueue(u, t)
                BY <1>3, <3>1, <4>1 DEF InQueue
            <4>3. t \notin Left(u)
                BY <1>3, <1>9, <4>2 DEF Left, Linked
            <4>4. h[t] = Nil
                BY <2>3, <4>3, HeardSlots
            <4>5. u.pending[t].first + Turn(u, i - 1) <= Drain
                <5> DEFINE turn == Turn(u, i - 1)
                           line == Line(v, i)
                           first == v.pending[t].first
                <5>1. turn \in Nat /\ line \in Nat /\ turn <= line
                    BY <1>5, <1>6, <3>3
                <5>2. first \in Nat /\ first + line <= Drain /\ u.pending[t].first = first /\ Drain \in Nat
                    BY <2>1, <3>1, CalmNumbers
                <5> HIDE DEF turn, line, first
                <5>3. first + turn <= Drain
                    BY <5>1, <5>2
                <5>4. QED
                    BY <5>2, <5>3 DEF turn
            <4>6. QED
                BY <1>6, <3>1, <3>3, <4>4, <4>5 DEF OnItsWay
        <3>4. QED
            BY <3>2, <3>3
    <2>4. QED
        BY <2>2, <2>3
<1>10. ASSUME NEW t \in Slots, u.pending[t] = Nil PROVE h[t] = Nil
    <2>1. heard[t] = Nil /\ t \notin Left(u)
        BY <1>1, <1>2, <1>10 DEF OnTime, Left
    <2>2. QED
        BY <2>1, HeardSlots
<1>11. Awaited(v) => Awaited(u)
    BY <1>2 DEF Awaited
<1>12. ASSUME ~Awaited(u) PROVE ~u.kept /\ Upcoming(u, h)
    <2>1. ~u.kept /\ (v.silent < Interval \/ NextUp(v))
        BY <1>2, <1>11, <1>12 DEF TickedCalm
    <2>2. CASE NextUp(v)
        <3>1. PICK i \in DOMAIN v.queue : v.queue[i].packet # Nil /\ v.silent + Line(v, i) < CalmLimit
            BY <2>2 DEF NextUp
        <3>2. CASE i = 1
            <4>1. s \in Slots /\ u.silent < CalmLimit
                <5>1. v.queue[1] \in Entries
                    BY <1>1, <1>7 DEF Servers
                <5>2. Line(v, 1) \in 0 .. Drain
                    BY <1>5, <1>7
                <5>3. QED
                    BY <1>1, <1>2, <3>1, <3>2, <5>1, <5>2, CalmNumbers DEF Entries, s
            <4>2. u.pending[s] = Nil
                <5>1. u.pending[s] # Nil => u.pending[s].first \in Nat
                    BY <1>2, <4>1
                <5>2. u.silent \in Nat
                    BY <1>1, <1>2
                <5>3. ASSUME u.pending[s] # Nil PROVE u.silent <= CalmLimit + u.pending[s].first
                    <6> DEFINE first == u.pending[s].first
                    <6>1. first \in Nat /\ u.silent < CalmLimit /\ CalmLimit \in Nat
                        BY <4>1, <5>1, <5>3, CalmNumbers
                    <6> HIDE DEF first
                    <6>2. u.silent <= CalmLimit + first
                        BY <5>2, <6>1
                    <6>3. QED
                        BY <6>2 DEF first
                <5>4. u.pending[s] # Nil => Awaited(u)
                    BY <4>1, <5>3 DEF Awaited
                <5>5. QED
                    BY <1>12, <5>4
            <4>3. ~InQueue(u, s) /\ h[s] = Nil
                BY <1>3, <1>10, <4>1, <4>2
            <4>4. QED
                BY <2>1, <4>1, <4>2, <4>3 DEF Upcoming, Idle
        <3>3. CASE i # 1
            <4>1. u.silent + Turn(u, i - 1) < CalmLimit
                <5> DEFINE turn == Turn(u, i - 1)
                           line == Line(v, i)
                <5>1. turn \in Nat /\ line \in Nat /\ turn <= line
                    BY <1>5, <1>6, <3>3
                <5>2. v.silent + line < CalmLimit /\ v.silent \in Nat /\ u.silent = v.silent /\ CalmLimit \in Nat
                    BY <1>1, <1>2, <3>1, CalmNumbers
                <5> HIDE DEF turn, line
                <5>3. u.silent + turn < CalmLimit
                    BY <5>1, <5>2
                <5>4. QED
                    BY <5>3 DEF turn
            <4>2. QED
                BY <1>6, <2>1, <3>1, <3>3, <4>1 DEF Upcoming
        <3>4. QED
            BY <3>2, <3>3
    <2>3. QED
        BY <1>2, <2>1, <2>2 DEF Upcoming
<1>13. QED
    BY <1>2, <1>8, <1>9, <1>10, <1>12 DEF Calm

LEMMA PassCalm ==
    ASSUME CalmTiming, LinkInv, CalmInv, Pass
    PROVE  CalmInv'
<1> SUFFICES ASSUME calm PROVE Calm(server', heard')
    BY DEF CalmInv, Pass, Calm
<1> DEFINE a == Aged(server)
           b == Ticked(a)
           c == Retransmitted(b)
<1>1. Patient /\ Linked(server) /\ framed \in BOOLEAN /\ Calm(server, heard)
    BY DEF LinkInv, TimingTypeOK, Pass, Patient, CalmInv
<1>2. AgedCalm(a)
    BY <1>1, AgedOnTime
<1>3. server' = Pumped(c) /\ Hears(Left(server'), TRUE)
    BY DEF Pass
<1> HIDE DEF a
<1>4. TickedCalm(b)
    BY <1>1, <1>2, TickedOnTime
<1> HIDE DEF b
<1>5. TickedCalm(c)
    BY <1>1, <1>4, RetransmittedOnTime
<1> HIDE DEF c
<1>6. c \in Servers
    BY <1>5 DEF TickedCalm, OnTime, Linked
<1>7. HeardAfter(server', heard')
    BY <1>3 DEF Hears, HeardAfter
<1>8. (~Pops(c) /\ server' = c) \/ (Pops(c) /\ PoppedAs(server', c))
    BY <1>3, <1>6, PumpedEither
<1>9. CASE ~Pops(c) /\ server' = c
    BY <1>1, <1>5, <1>7, <1>9, UnpoppedOnTime
<1>10. CASE Pops(c) /\ PoppedAs(server', c)
    <2>1. c.queue # <<>>
        BY <1>10 DEF Pops
    <2>2. QED
        BY <1>1, <1>5, <1>7, <1>10, <2>1, PoppedOnTime
<1>11. QED
    BY <1>8, <1>9, <1>10

\* What other players and the client itself cause, between two passes.
LEMMA SameTurn ==
    ASSUME NEW v, NEW u, u.since = v.since
    PROVE  \A i : Turn(u, i) = Turn(v, i)
    BY DEF Turn, Line

\* The messages of v stay where they are, their packets too.
Extends(u, v) ==
    /\ u \in Servers /\ u.known = v.known /\ u.since = v.since
    /\ \A i \in DOMAIN v.queue : i \in DOMAIN u.queue /\ u.queue[i].packet = v.queue[i].packet

LEMMA ExtendedWay ==
    ASSUME NEW v, NEW u, Extends(u, v), NEW h, NEW t, OnItsWay(v, h, t),
           u.pending[t].first = v.pending[t].first, NEW k, k[t] = h[t]
    PROVE  OnItsWay(u, k, t)
<1>1. \A i : Turn(u, i) = Turn(v, i)
    BY SameTurn DEF Extends
<1>2. QED
    BY <1>1 DEF OnItsWay, Extends

LEMMA ExtendedUpcoming ==
    ASSUME NEW v, NEW u, Extends(u, v), u.silent = v.silent, NEW h, Upcoming(v, h), NEW k,
           Idle(v, h) => Idle(u, k)
    PROVE  Upcoming(u, k)
<1>1. \A i : Turn(u, i) = Turn(v, i)
    BY SameTurn DEF Extends
<1>2. QED
    BY <1>1 DEF Upcoming, Extends

\* A packet that has just gone into the link, or has left.
LEMMA JustTracked ==
    ASSUME framed \in BOOLEAN, NEW v \in Servers, NEW s \in Slots, NEW k \in BOOLEAN, NEW ack \in Requests \cup {Nil},
           NEW u, TrackedAs(u, v, s, k, ack), NotLong(u), NEW h, IF framed THEN h[s] = Nil ELSE h[s] = 0
    PROVE  OnItsWay(u, h, s)
<1>1. u \in Servers /\ u.pending[s].first = 0
    BY DEF TrackedAs, New
<1>2. CASE ~framed
    <2>1. h[s] # Nil /\ h[s] = 0
        BY <1>2, NilAssumption
    <2>2. QED
        BY <1>1, <2>1, CalmNumbers DEF OnItsWay
<1>3. CASE framed
    <2> DEFINE e == [packet |-> s, ack |-> ack]
               n == Len(v.queue)
    <2>1. e \in Entries /\ e.packet = s /\ u.queue = Append(v.queue, e)
        BY <1>3 DEF TrackedAs, Entries
    <2> HIDE DEF e
    <2>2. n \in Nat /\ Len(u.queue) = n + 1 /\ u.queue[n + 1] = e
        BY <1>1, <2>1, AppendMessages
    <2> HIDE DEF n
    <2>3. n + 1 \in DOMAIN u.queue
        BY <1>1, <2>2, AppendedInLine
    <2> DEFINE m == (n + 1) * Gap
    <2>4. m \in Nat /\ m <= Drain /\ Line(u, n + 1) = m - u.since /\ u.since \in 0 .. Gap /\ Gap <= m
        <3>1. n + 1 \in Nat \ {0} /\ n + 1 <= MaxQueue + Cardinality(Slots)
            BY <1>1, <2>2, <2>3, NotLongBounds
        <3>2. \A a, g \in Nat : g <= (a + 1) * g
            OBVIOUS
        <3>3. QED
            BY <1>1, <2>2, <3>1, <3>2, LineBounded, CalmNumbers
    <2> HIDE DEF m
    <2>5. Turn(u, n + 1) \in Nat /\ Turn(u, n + 1) <= Drain
        BY <2>4, CalmNumbers DEF Turn
    <2>6. QED
        BY <1>1, <1>3, <2>1, <2>2, <2>3, <2>5 DEF OnItsWay
<1>4. QED
    BY <1>2, <1>3

LEMMA RoomNotLong ==
    ASSUME NEW u \in Servers, Len(u.queue) <= MaxQueue
    PROVE  NotLong(u)
    BY QueuedPackets, CalmNumbers DEF NotLong

\* A new packet in room that the link has.
LEMMA TrackedCalm ==
    ASSUME framed \in BOOLEAN, NEW v \in Servers, NotLong(v), Linked(v), Len(v.queue) < MaxQueue, NEW s \in Slots, NEW k \in BOOLEAN,
           NEW ack \in Requests \cup {Nil}, NEW u, TrackedAs(u, v, s, k, ack)
    PROVE  Extends(u, v) /\ NotLong(u)
<1>1. u \in Servers /\ u.known = v.known /\ u.since = v.since
    BY DEF TrackedAs
<1>2. CASE framed
    <2> DEFINE e == [packet |-> s, ack |-> ack]
    <2>1. e \in Entries /\ u.queue = Append(v.queue, e)
        BY <1>2 DEF TrackedAs, Entries
    <2> HIDE DEF e
    <2>2. /\ Len(v.queue) \in Nat /\ Len(u.queue) = Len(v.queue) + 1
          /\ DOMAIN v.queue = 1 .. Len(v.queue) /\ DOMAIN u.queue = 1 .. Len(v.queue) + 1
          /\ \A i \in 1 .. Len(v.queue) : u.queue[i] = v.queue[i]
        BY <1>1, <2>1, AppendMessages
    <2>3. Len(u.queue) <= MaxQueue
        BY <2>2, CalmNumbers
    <2>4. QED
        BY <1>1, <2>2, <2>3, RoomNotLong DEF Extends
<1>3. CASE ~framed
    <2>1. u.queue = v.queue
        BY <1>3 DEF TrackedAs
    <2>2. NotLong(u)
        BY <1>1, <2>1, RoomNotLong, QueuedPackets, CalmNumbers
    <2>3. QED
        BY <1>1, <2>1, <2>2 DEF Extends
<1>4. QED
    BY <1>2, <1>3

\* What a step between two passes does to the client's side.
LEMMA HeardSent ==
    ASSUME LinkInv, calm, NEW sent \in SUBSET Slots, Hears(sent, FALSE)
    PROVE  \A s \in Slots : heard'[s] = IF s \in sent /\ heard[s] = Nil THEN 0 ELSE heard[s]
    BY DEF Hears

LEMMA HeardNothing ==
    ASSUME LinkInv, Hears({}, FALSE)
    PROVE  \A s \in Slots : heard'[s] = heard[s]
    BY DEF Hears

LEMMA ClientAckCalm ==
    ASSUME CalmTiming, LinkInv, CalmInv, NEW s \in Slots, ClientAck(s)
    PROVE  CalmInv'
<1> SUFFICES ASSUME calm PROVE Calm(server', heard')
    BY DEF CalmInv, ClientAck, Calm
<1> DEFINE v == Alive(server)
<1>1. Linked(server) /\ server \in Servers /\ Calm(server, heard)
    BY DEF LinkInv, Linked, CalmInv
<1>2. AliveAs(v, server)
    BY <1>1, AliveFields
<1>3. server' = Retired(v, s)
    BY DEF ClientAck
<1> HIDE DEF v
<1>4. RetiredAs(server', v, s) /\ server' \in Servers
    BY <1>2, <1>3, RetiredFields DEF AliveAs, RetiredAs
<1>5. /\ server'.known /\ ~server'.kept /\ server'.silent = 0 /\ server'.since = server.since
      /\ server'.queue = server.queue
      /\ \A t \in Slots : server'.pending[t] = IF t = s THEN Nil ELSE server.pending[t]
    BY <1>1, <1>2, <1>4 DEF AliveAs, RetiredAs, Calm
<1>6. \A t \in Slots : heard'[t] = IF t = s THEN Nil ELSE heard[t]
    BY DEF ClientAck, LinkInv, TimingTypeOK
<1>7. Extends(server', server)
    BY <1>1, <1>4, <1>5 DEF Extends, Calm
<1>8. NotLong(server')
    <2>1. Queued(server') = Queued(server)
        BY <1>5 DEF Queued, InQueue
    <2>2. QED
        BY <1>1, <1>5, <2>1 DEF NotLong, Calm
<1>9. ASSUME NEW t \in Slots
      PROVE  IF server'.pending[t] = Nil THEN heard'[t] = Nil ELSE OnItsWay(server', heard', t)
    <2>1. CASE t = s
        BY <1>5, <1>6, <2>1
    <2>2. CASE t # s
        <3>1. server'.pending[t] = server.pending[t] /\ heard'[t] = heard[t]
            BY <1>5, <1>6, <2>2
        <3>2. CASE server.pending[t] = Nil
            BY <1>1, <3>1, <3>2 DEF Calm
        <3>3. CASE server.pending[t] # Nil
            <4>1. OnItsWay(server, heard, t)
                BY <1>1, <3>3 DEF Calm
            <4>2. OnItsWay(server', heard', t)
                BY <1>7, <3>1, <4>1, ExtendedWay
            <4>3. QED
                BY <3>1, <3>3, <4>2
        <3>4. QED
            BY <3>2, <3>3
    <2>3. QED
        BY <2>1, <2>2
<1>10. Upcoming(server', heard')
    BY <1>5, TimingNumbers DEF Upcoming
<1>11. QED
    BY <1>5, <1>8, <1>9, <1>10 DEF Calm

\* A step after which the link has only more messages.
LEMMA ExtendedCalm ==
    ASSUME LinkInv, calm, CalmInv, server'.known, Extends(server', server), NotLong(server'),
           \A t \in Slots : heard'[t] = heard[t] /\ server'.pending[t] = server.pending[t],
           \A t \in Slots : InQueue(server', t) <=> InQueue(server, t),
           \/ ~server'.kept /\ server'.silent = 0
           \/ server'.kept = server.kept /\ server'.silent = server.silent
    PROVE  Calm(server', heard')
<1>1. Calm(server, heard)
    BY DEF CalmInv
<1>2. ASSUME NEW t \in Slots
      PROVE  IF server'.pending[t] = Nil THEN heard'[t] = Nil ELSE OnItsWay(server', heard', t)
    <2>1. CASE server.pending[t] = Nil
        BY <1>1, <2>1 DEF Calm
    <2>2. CASE server.pending[t] # Nil
        <3>1. OnItsWay(server, heard, t)
            BY <1>1, <2>2 DEF Calm
        <3>2. OnItsWay(server', heard', t)
            BY <3>1, ExtendedWay
        <3>3. QED
            BY <2>2, <3>2
    <2>3. QED
        BY <2>1, <2>2
<1>3. Awaited(server') \/ (~server'.kept /\ Upcoming(server', heard'))
    <2>1. CASE ~server'.kept /\ server'.silent = 0
        BY <2>1, TimingNumbers DEF Upcoming
    <2>2. CASE server'.kept = server.kept /\ server'.silent = server.silent
        <3>1. Awaited(server) => Awaited(server')
            BY <2>2 DEF Awaited
        <3>2. Idle(server, heard) => Idle(server', heard')
            BY DEF Idle
        <3>3. Upcoming(server, heard) => Upcoming(server', heard')
            BY <2>2, <3>2, ExtendedUpcoming
        <3>4. QED
            BY <1>1, <2>2, <3>1, <3>3 DEF Calm
    <2>3. QED
        BY <2>1, <2>2
<1>4. QED
    BY <1>2, <1>3 DEF Calm

\* A step that sends a packet.
LEMMA SendingCalm ==
    ASSUME LinkInv, calm, CalmInv, NEW v \in Servers, v.known, v.queue = server.queue, v.pending = server.pending,
           v.since = server.since,
           \/ v.silent = 0 /\ ~v.kept
           \/ v.silent = server.silent /\ v.kept = server.kept,
           Len(server.queue) < MaxQueue,
           NEW s \in Free(server), NEW ack \in Requests \cup {Nil},
           TrackedAs(server', v, s, FALSE, ack), server'.kept = v.kept, Linked(v), Hears(IF framed THEN {} ELSE {s}, FALSE)
    PROVE  Calm(server', heard')
<1>1. Calm(server, heard) /\ framed \in BOOLEAN
    BY DEF CalmInv, LinkInv, TimingTypeOK
<1>2. s \in Slots /\ server.pending[s] = Nil /\ heard[s] = Nil
    BY DEF Free
<1>3. NotLong(v)
    BY RoomNotLong, QueuedPackets, CalmNumbers
<1>4. Extends(server', v) /\ NotLong(server')
    BY <1>1, <1>2, <1>3, TrackedCalm
<1>5. Extends(server', server)
    BY <1>1, <1>4 DEF Extends, Calm
<1>6. \A t \in Slots : heard'[t] = IF t = s /\ ~framed THEN 0 ELSE heard[t]
    <2>1. (IF framed THEN {} ELSE {s}) \in SUBSET Slots
        BY <1>2
    <2>2. QED
        BY <1>2, <2>1, HeardSent
<1>7. /\ server'.pending[s] # Nil /\ server'.pending[s].first = 0 /\ server'.known /\ server'.silent = v.silent
      /\ \A t \in Slots : t # s => server'.pending[t] = server.pending[t]
    BY <1>2 DEF TrackedAs, New
<1>8. OnItsWay(server', heard', s)
    BY <1>1, <1>2, <1>4, <1>6, JustTracked
<1>9. ASSUME NEW t \in Slots
      PROVE  IF server'.pending[t] = Nil THEN heard'[t] = Nil ELSE OnItsWay(server', heard', t)
    <2>1. CASE t = s
        BY <1>7, <1>8, <2>1
    <2>2. CASE t # s
        <3>1. server'.pending[t] = server.pending[t] /\ heard'[t] = heard[t]
            BY <1>6, <1>7, <2>2
        <3>2. CASE server.pending[t] = Nil
            BY <1>1, <3>1, <3>2 DEF Calm
        <3>3. CASE server.pending[t] # Nil
            <4>1. OnItsWay(server, heard, t)
                BY <1>1, <3>3 DEF Calm
            <4>2. OnItsWay(server', heard', t)
                BY <1>5, <3>1, <4>1, ExtendedWay
            <4>3. QED
                BY <3>1, <3>3, <4>2
        <3>4. QED
            BY <3>2, <3>3
    <2>3. QED
        BY <2>1, <2>2
<1>10. Awaited(server') \/ (~server'.kept /\ Upcoming(server', heard'))
    <2>1. CASE v.silent = 0 /\ ~v.kept
        BY <1>7, <2>1, TimingNumbers DEF Upcoming
    <2>2. CASE v.silent = server.silent /\ v.kept = server.kept
        <3>1. CASE Awaited(server)
            BY <1>2, <1>7, <2>2, <3>1 DEF Awaited
        <3>2. CASE ~server.kept /\ Upcoming(server, heard)
            <4>1. CASE Idle(server, heard) /\ server.silent < CalmLimit
                <5>1. server.silent \in Nat
                    BY DEF LinkInv, TimingTypeOK, Servers
                <5>2. server'.silent <= CalmLimit + server'.pending[s].first
                    BY <1>7, <2>2, <4>1, <5>1, CalmNumbers
                <5>3. QED
                    BY <1>2, <1>7, <5>2 DEF Awaited
            <4>2. CASE ~(Idle(server, heard) /\ server.silent < CalmLimit)
                <5>1. \A i : Turn(server', i) = Turn(server, i)
                    BY <1>5, SameTurn DEF Extends
                <5>2. Upcoming(server', heard')
                    BY <1>5, <1>7, <2>2, <3>2, <4>2, <5>1 DEF Upcoming, Extends
                <5>3. QED
                    BY <2>2, <3>2, <5>2
            <4>3. QED
                BY <4>1, <4>2
        <3>3. QED
            BY <1>1, <3>1, <3>2 DEF Calm
    <2>3. QED
        BY <2>1, <2>2
<1>11. QED
    BY <1>4, <1>7, <1>9, <1>10 DEF Calm

LEMMA ClientRequestCalm ==
    ASSUME CalmTiming, LinkInv, CalmInv, NEW r \in Requests, ClientRequest(r)
    PROVE  CalmInv'
<1> SUFFICES ASSUME calm PROVE Calm(server', heard')
    BY DEF CalmInv, ClientRequest, Calm
<1> DEFINE v == Alive(server)
<1>1. /\ server \in Servers /\ framed \in BOOLEAN /\ server.known /\ Len(server.queue) < MaxQueue
      /\ NotLong(server) /\ Linked(v)
    BY AliveLinked DEF LinkInv, Linked, TimingTypeOK, ClientRequest, CalmInv, Calm
<1>2. AliveAs(v, server)
    BY <1>1, AliveFields
<1>3. \/ server' = (IF framed THEN AddAck(v, r) ELSE v) /\ Hears({}, FALSE)
      \/ \E s \in Free(server) : server' = Track(v, s, FALSE, r) /\ Hears(IF framed THEN {} ELSE {s}, FALSE)
    BY DEF ClientRequest
<1> HIDE DEF v
<1>4. /\ v \in Servers /\ v.known /\ v.silent = 0 /\ ~v.kept /\ v.queue = server.queue /\ v.pending = server.pending
      /\ v.since = server.since /\ \A t : InQueue(v, t) <=> InQueue(server, t)
    BY <1>1, <1>2, SameMessages DEF AliveAs
<1>5. CASE server' = (IF framed THEN AddAck(v, r) ELSE v) /\ Hears({}, FALSE)
    <2>1. \A t \in Slots : heard'[t] = heard[t]
        BY <1>5, HeardNothing
    <2>2. /\ server' \in Servers /\ server'.known /\ ~server'.kept /\ server'.silent = 0 /\ server'.since = server.since
          /\ server'.pending = server.pending /\ NotLong(server')
          /\ \A i \in DOMAIN server.queue : i \in DOMAIN server'.queue /\ server'.queue[i].packet = server.queue[i].packet
          /\ \A t \in Slots : InQueue(server', t) <=> InQueue(server, t)
        <3>1. CASE framed /\ \E k : RidesAs(server', v, k, r)
            <4>1. PICK k : RidesAs(server', v, k, r)
                BY <3>1
            <4>2. \A t : InQueue(server', t) <=> InQueue(v, t)
                BY <4>1 DEF RidesAs, InQueue
            <4>3. Queued(server') = Queued(server)
                BY <1>4, <4>2 DEF Queued
            <4>4. NotLong(server')
                BY <1>1, <1>4, <4>1, <4>3 DEF NotLong, RidesAs
            <4>5. QED
                BY <1>4, <4>1, <4>2, <4>4 DEF RidesAs
        <3>2. CASE framed /\ server' = Add(v, Nil, r)
            <4>1. AddedAs(server', v, Nil, r)
                BY <1>4, <3>2, AddFields
            <4> DEFINE e == [packet |-> Nil, ack |-> r]
            <4>2. e \in Entries /\ e.packet = Nil /\ server' \in Servers /\ server'.queue = Append(v.queue, e)
                BY <4>1 DEF AddedAs, Entries
            <4> HIDE DEF e
            <4>3. /\ Len(v.queue) \in Nat /\ Len(server'.queue) = Len(v.queue) + 1
                  /\ DOMAIN v.queue = 1 .. Len(v.queue) /\ DOMAIN server'.queue = 1 .. Len(v.queue) + 1
                  /\ \A i \in 1 .. Len(v.queue) : server'.queue[i] = v.queue[i]
                  /\ \A t : InQueue(server', t) <=> InQueue(v, t) \/ e.packet = t
                BY <1>4, <4>2, AppendMessages
            <4>4. NotLong(server')
                <5>1. Len(server'.queue) <= MaxQueue
                    BY <1>1, <1>4, <4>3, CalmNumbers
                <5>2. QED
                    BY <4>2, <5>1, RoomNotLong
            <4>5. QED
                BY <1>4, <4>1, <4>2, <4>3, <4>4, NilAssumption DEF AddedAs
        <3>3. CASE ~framed
            <4>1. server' = v
                BY <1>5, <3>3
            <4>2. NotLong(server')
                BY <1>1, <1>4, <4>1, RoomNotLong, QueuedPackets, CalmNumbers
            <4>3. QED
                BY <1>4, <4>1, <4>2
        <3>4. QED
            BY <1>1, <1>4, <1>5, <3>1, <3>2, <3>3, AddAckEither
    <2>3. Extends(server', server)
        BY <1>1, <2>2 DEF Extends
    <2>4. QED
        BY <2>1, <2>2, <2>3, ExtendedCalm
<1>6. ASSUME NEW s \in Free(server), server' = Track(v, s, FALSE, r), Hears(IF framed THEN {} ELSE {s}, FALSE)
      PROVE  Calm(server', heard')
    <2>1. s \in Slots
        BY DEF Free
    <2>2. TrackedAs(server', v, s, FALSE, r) /\ server'.kept = v.kept
        BY <1>1, <1>4, <1>6, <2>1, TrackFields
    <2>3. QED
        BY <1>1, <1>4, <1>6, <2>2, SendingCalm
<1>7. QED
    BY <1>3, <1>5, <1>6

LEMMA RelayCalm ==
    ASSUME CalmTiming, LinkInv, CalmInv, Relay
    PROVE  CalmInv'
<1> SUFFICES ASSUME calm PROVE Calm(server', heard')
    BY DEF CalmInv, Relay, Calm
<1>1. /\ server \in Servers /\ framed \in BOOLEAN /\ server.known /\ Len(server.queue) < MaxQueue
      /\ NotLong(server) /\ Linked(server)
    BY DEF LinkInv, Linked, TimingTypeOK, Relay, CalmInv, Calm
<1>2. CASE server' = Add(server, Nil, Nil) /\ Hears({}, FALSE)
    <2>1. \A t \in Slots : heard'[t] = heard[t]
        BY <1>2, HeardNothing
    <2>2. AddedAs(server', server, Nil, Nil)
        BY <1>1, <1>2, AddFields
    <2> DEFINE e == [packet |-> Nil, ack |-> Nil]
    <2>3. e \in Entries /\ e.packet = Nil /\ server' \in Servers /\ server'.queue = Append(server.queue, e)
        BY <2>2 DEF AddedAs, Entries
    <2> HIDE DEF e
    <2>4. /\ Len(server.queue) \in Nat /\ Len(server'.queue) = Len(server.queue) + 1
          /\ DOMAIN server.queue = 1 .. Len(server.queue) /\ DOMAIN server'.queue = 1 .. Len(server.queue) + 1
          /\ \A i \in 1 .. Len(server.queue) : server'.queue[i] = server.queue[i]
          /\ \A t : InQueue(server', t) <=> InQueue(server, t) \/ e.packet = t
        BY <1>1, <2>3, AppendMessages
    <2>5. NotLong(server')
        <3>1. Len(server'.queue) <= MaxQueue
            BY <1>1, <2>4, CalmNumbers
        <3>2. QED
            BY <2>3, <3>1, RoomNotLong
    <2>6. /\ server'.known /\ server'.since = server.since /\ server'.pending = server.pending
          /\ server'.kept = server.kept /\ server'.silent = server.silent
        BY <1>1, <2>2 DEF AddedAs
    <2>7. Extends(server', server)
        BY <1>1, <2>3, <2>4, <2>6 DEF Extends
    <2>8. \A t \in Slots : InQueue(server', t) <=> InQueue(server, t)
        BY <2>3, <2>4, NilAssumption
    <2>9. QED
        BY <2>1, <2>5, <2>6, <2>7, <2>8, ExtendedCalm
<1>3. ASSUME NEW s \in Free(server), server' = Track(server, s, FALSE, Nil), Hears(IF framed THEN {} ELSE {s}, FALSE)
      PROVE  Calm(server', heard')
    <2>1. s \in Slots
        BY DEF Free
    <2>2. TrackedAs(server', server, s, FALSE, Nil) /\ server'.kept = server.kept
        BY <1>1, <1>3, <2>1, TrackFields
    <2>3. QED
        BY <1>1, <1>3, <2>2, SendingCalm
<1>4. QED
    BY <1>2, <1>3 DEF Relay

LEMMA TimingInitCalm ==
    ASSUME TimingInit
    PROVE  CalmInv
<1>1. /\ server = NewSession /\ NewSession \in Servers /\ NewSession.known /\ NewSession.silent = 0
      /\ ~NewSession.kept /\ NewSession.queue = <<>> /\ \A t \in Slots : NewSession.pending[t] = Nil
    BY NewSessionFields DEF TimingInit
<1>2. \A s \in Slots : heard[s] = Nil
    BY DEF TimingInit
<1>3. Len(server.queue) <= MaxQueue
    BY <1>1, CalmNumbers
<1>4. NotLong(server)
    BY <1>1, <1>3, RoomNotLong
<1>5. Upcoming(server, heard)
    BY <1>1, TimingNumbers DEF Upcoming
<1>6. QED
    BY <1>1, <1>2, <1>4, <1>5 DEF CalmInv, Calm

LEMMA TimingNextCalm ==
    ASSUME CalmTiming, LinkInv, CalmInv, [TimingNext]_timingVars
    PROVE  CalmInv'
<1>1. CASE Pass
    BY <1>1, PassCalm
<1>2. CASE \E s \in Slots : ClientAck(s)
    BY <1>2, ClientAckCalm
<1>3. CASE \E r \in Requests : ClientRequest(r)
    BY <1>3, ClientRequestCalm
<1>4. CASE Relay
    BY <1>4, RelayCalm
<1>5. CASE ClientTurns \/ Login
    <2>1. ~calm /\ calm' = calm
        BY <1>5 DEF ClientTurns, Login, CalmInv, Calm
    <2>2. QED
        BY <2>1 DEF CalmInv
<1>6. CASE UNCHANGED timingVars
    <2>1. calm' = calm /\ server' = server /\ heard' = heard
        BY <1>6 DEF timingVars
    <2>2. QED
        BY <2>1 DEF CalmInv, Calm, NotLong, Queued, InQueue, OnItsWay, Turn, Line, Awaited, Upcoming, Idle
<1>7. QED
    BY <1>1, <1>2, <1>3, <1>4, <1>5, <1>6 DEF TimingNext

\* With these limits a client that answers in time is kept for ever, whatever
\* it leaves unsaid; one that is gone is ended; and the link's queue, its ACKs
\* and the resend timers agree (_peer_is_inactive, _keep_idle_sessions_alive,
\* _end_idle_sessions, _FramedLink).
THEOREM TimingIsSound == ASSUME CalmTiming PROVE TimingSpec => []TimingSound
<1>1. TimingInit => LinkInv /\ CalmInv
    BY TimingInitLinked, TimingInitCalm
<1>2. LinkInv /\ CalmInv /\ [TimingNext]_timingVars => LinkInv' /\ CalmInv'
    BY TimingNextLinked, TimingNextCalm
<1>3. LinkInv /\ CalmInv => TimingSound
    BY LinkedQueuesAgree DEF CalmInv, Calm, CalmClientKept, TimingSound
<1>4. QED
    BY <1>1, <1>2, <1>3, PTL DEF TimingSpec

=============================================================================

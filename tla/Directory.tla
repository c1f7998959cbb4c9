----------------------------- MODULE Directory -----------------------------
(***************************************************************************)
(* The Worlds, Lands and Areas of a Monster Hunter server                  *)
(* (plugins/monsterhunter/directory.py): how the configured Worlds number  *)
(* their Areas, and how the APP service lists them page by page and counts *)
(* the players in them from the shared online players.                     *)
(***************************************************************************)
EXTENDS OnlinePlayers, Sequences, FiniteSets, Listings

CONSTANTS
    Local,         \* the empty host: the World is served here
    Hosts,         \* hosts a World may be configured with
    LandCounts,    \* how many Areas each Land of a World has, in order
    MaxWorlds,     \* bound: Worlds configured
    PageSize,      \* entries a client asks for at once
    Unasked

ASSUME DirectoryAssumption ==
    /\ Local \in Hosts /\ LandCounts \subseteq Seq(Nat \ {0})
    /\ MaxWorlds \in Nat /\ PageSize \in Nat \ {0}

VARIABLES
    worlds,        \* the published Worlds, in menu order
    client         \* what an APP client was told

directoryVars == <<onlineVars, worlds, client>>

Setting == [host : Hosts, enabled : BOOLEAN, lands : LandCounts]

-----------------------------------------------------------------------------
\* A fault: the Areas of Worlds served elsewhere use numbers up too.
CountedElsewhere(spec) == spec.enabled

\* Only the Areas of the World that is served here use numbers up.
Counted(spec) == spec.enabled /\ spec.host = Local

ReadLand(spec, numbering, count) ==
    [next |-> IF Counted(spec) THEN numbering.next + count ELSE numbering.next,
     lands |-> Append(numbering.lands, numbering.next .. numbering.next + count - 1)]

ReadLands(spec, next) ==
    LET read[l \in 0 .. Len(spec.lands)] ==
            IF l = 0 THEN [next |-> next, lands |-> <<>>] ELSE ReadLand(spec, read[l - 1], spec.lands[l])
    IN read[Len(spec.lands)]

ReadWorld(numbering, spec) ==
    LET read == ReadLands(spec, numbering.next)
    IN [next |-> read.next,
        worlds |-> IF spec.enabled THEN Append(numbering.worlds, [host |-> spec.host, lands |-> read.lands])
                   ELSE numbering.worlds]

ReadDirectory(specs) ==
    LET read[i \in 0 .. Len(specs)] ==
            IF i = 0 THEN [next |-> 1, worlds |-> <<>>] ELSE ReadWorld(read[i - 1], specs[i])
    IN read[Len(specs)].worlds

Valid(read) ==
    /\ \A i, j \in DOMAIN read : read[i].host = read[j].host => i = j
    /\ \E i \in DOMAIN read : read[i].host = Local

-----------------------------------------------------------------------------
LocalWorld == CHOOSE i \in DOMAIN worlds : worlds[i].host = Local

LocalAreas == UNION {worlds[LocalWorld].lands[l] : l \in DOMAIN worlds[LocalWorld].lands}

\* The list a client asks for: 0 is the Worlds, i the Lands of the i-th World.
ListOf(i) == IF i = 0 THEN [j \in DOMAIN worlds |-> worlds[j].host] ELSE worlds[i].lands

\* A fault: the page is one entry short and the total is that of the page.
PageShort(list, start) ==
    LET page == SubSeq(list, start + 1, start + PageSize - 1) IN [total |-> start + Len(page), entries |-> page]

\* One page of 6503 or 6504, and the whole number of entries.
Page(list, start) ==
    LET end == IF start + PageSize < Len(list) THEN start + PageSize ELSE Len(list)
    IN [total |-> Len(list), entries |-> SubSeq(list, start + 1, end)]

\* A fault: the Land's Areas are counted whoever serves it.
PopulationAnywhere(i, land) == Cardinality({s \in Listed : online[s].area \in worlds[i].lands[land]})

\* 6510: the Lands of a World served elsewhere report nobody.
Population(i, land) ==
    IF i = LocalWorld THEN Cardinality({s \in Listed : online[s].area \in worlds[i].lands[land]}) ELSE 0

DirectoryTypeOK ==
    /\ OnlineTypeOK
    /\ Valid(worlds)
    /\ client.list \in 0 .. Len(worlds)
    /\ client.populations # Unasked => DOMAIN client.populations = DOMAIN ListOf(client.list)

\* A setting that is refused leaves no service.
DirectoryInit ==
    /\ OnlineInit
    /\ \E specs \in UNION {[1 .. n -> Setting] : n \in 1 .. MaxWorlds} :
        worlds = ReadDirectory(specs) /\ Valid(worlds)
    /\ client = [list |-> 0, got |-> <<>>, total |-> 0, asked |-> FALSE, populations |-> Unasked]

WholeList == client.asked /\ Len(client.got) >= client.total

ListPage ==
    /\ ~WholeList
    /\ LET page == Page(ListOf(client.list), Len(client.got))
       IN client' = [client EXCEPT !.got = @ \o page.entries, !.total = page.total, !.asked = TRUE]
    /\ UNCHANGED <<onlineVars, worlds>>

\* The client connects to a World of the list: its Lands come next.
ChooseWorld(i) ==
    /\ client.list = 0 /\ WholeList
    /\ client' = [list |-> i, got |-> <<>>, total |-> 0, asked |-> FALSE, populations |-> Unasked]
    /\ UNCHANGED <<onlineVars, worlds>>

\* A fault: only the Lands with players are in the reply.
PopulatedLands ==
    /\ client.list # 0 /\ WholeList
    /\ client' = [client EXCEPT !.populations =
        [l \in {m \in DOMAIN ListOf(client.list) : Population(client.list, m) > 0} |-> Population(client.list, l)]]
    /\ UNCHANGED <<onlineVars, worlds>>

LandPopulations ==
    /\ client.list # 0 /\ WholeList
    /\ client' = [client EXCEPT !.populations = [l \in DOMAIN ListOf(client.list) |-> Population(client.list, l)]]
    /\ UNCHANGED <<onlineVars, worlds>>

Players ==
    /\ GameServer /\ \A s \in Sessions : online'[s] # Away => online'[s].area \in LocalAreas \cup {0}
    /\ UNCHANGED <<worlds, client>>

DirectoryNext == ListPage \/ (\E i \in DOMAIN worlds : ChooseWorld(i)) \/ LandPopulations \/ Players

DirectorySpec == DirectoryInit /\ [][DirectoryNext]_directoryVars

-----------------------------------------------------------------------------
\* No two Lands served here have an Area number in common, whatever Worlds are
\* configured around theirs: the game server keys its lobbies by that number.
AreaIdsUnique ==
    LET lands == worlds[LocalWorld].lands
    IN /\ \A i, j \in DOMAIN lands : i # j => lands[i] \cap lands[j] = {}
       /\ LocalAreas = 1 .. Cardinality(LocalAreas)

\* A client that asks until it has as many entries as it was told there are
\* has every entry, in the order of the menu.
ListsComplete == WholeList => client.got = ListOf(client.list)

\* The Lands' populations add up to the players in the Areas of the World at
\* that moment, and are those of no other World though the numbers overlap.
PopulationsAddUp ==
    [][LandPopulations =>
        SumOf(client'.populations) =
            IF client.list = LocalWorld THEN Cardinality({s \in Listed : online[s].area # 0}) ELSE 0]_directoryVars

\* The lists of Worlds and Lands that a client reads page by page are the configured ones.
DirectorySound ==
  /\ DirectoryTypeOK
  /\ AreaIdsUnique
  /\ ListsComplete

=============================================================================

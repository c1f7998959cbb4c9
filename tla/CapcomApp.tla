----------------------------- MODULE CapcomApp -----------------------------
(***************************************************************************)
(* The Capcom APP services (opensnap_app/capcom: server.py, connection.py, *)
(* the Monster Hunter, Outbreak and Outbreak File#2 services): what a      *)
(* connection's thread does with the reports its client uploads and the    *)
(* pages it asks for.                                                      *)
(*                                                                         *)
(* Every connection has a thread, which answers one request after another; *)
(* its submissions and its reads are statements of their own, between      *)
(* which the other threads and the game server run.                        *)
(***************************************************************************)
EXTENDS Records, OnlinePlayers

CONSTANTS
    UserOf,        \* the account each session is logged in with
    PageRows,      \* rows of a ranking page
    NoPage

ASSUME CapcomAssumption == PageRows \in Nat \ {0} /\ NoPage \notin Nat

VARIABLES
    title,         \* the service the connections are for
    apps           \* each connection's thread

appVars == <<recordVars, onlineVars, title, apps>>

Titles == {"hunter", "test", "outbreak"}

NoThread == [stage |-> "closed", user |-> NoRecord, plan |-> <<>>, draft |-> NoPage, page |-> NoPage, chunks |-> {}]

\* _player: the Monster Hunter players who share the address are told apart by
\* login.  Outbreak asks the accounts.
KnownPlayer(u) == title = "outbreak" \/ \E s \in Listed : UserOf[s] = u

-----------------------------------------------------------------------------
\* What a report is stored as.
Untracked == {10, 18, 32}
Monsters == <<1, 10>>

HuntPlan(u, counts) ==
    LET hunted == Kept(<<1, 2>>, {i \in {1, 2} : counts[i] > 0 /\ Monsters[i] \notin Untracked})
    IN [j \in DOMAIN hunted |-> Submission("kills", u, counts[hunted[j]], NoRecord)]

ClearPlan(u, seconds, weapon) == <<Submission("clear", u, seconds, weapon)>>

\* A Rathian kill comes without its total.
TestBuildPlan(u, total) == IF total = NoRecord THEN <<>> ELSE <<Submission("tles", u, total, NoRecord)>>

SummaryPlan(u, points) == <<Submission("hrp", u, points, NoRecord)>>

ScenarioPlan(u, points, cleared, ticks) ==
    <<Submission("points", u, points, NoRecord)>>
        \o IF cleared THEN <<Submission("clear", u, ticks, NoRecord)>> ELSE <<>>

Reports(u) ==
    CASE title = "hunter" ->
            {HuntPlan(u, counts) : counts \in {<<1, 0>>, <<1, 1>>, <<0, 1>>}}
                \cup {ClearPlan(u, t, 9 - t) : t \in {1, 2}}
                \cup {SummaryPlan(u, p) : p \in {1, 2}}
      [] title = "test" -> {TestBuildPlan(u, t) : t \in {NoRecord, 1, 2}}
      [] OTHER -> {ScenarioPlan(u, p, c, 1) : p \in {0, 1}, c \in BOOLEAN}

-----------------------------------------------------------------------------
CapcomTypeOK ==
    /\ title \in Titles
    /\ DOMAIN apps = Writers
    /\ \A w \in Writers :
        /\ apps[w].stage \in {"closed", "opened", "ready", "storing", "boards", "top", "own", "publish"}
        /\ apps[w].stage \in {"closed", "opened"} <=> apps[w].user = NoRecord
        /\ apps[w].stage \notin {"closed", "storing"} => jobs[w] = <<>>

CapcomInit ==
    /\ RecordsInit /\ OnlineInit
    /\ title \in Titles
    /\ apps = [w \in Writers |-> NoThread]

Open(w) ==
    /\ apps[w].stage = "closed"
    /\ apps' = [apps EXCEPT ![w].stage = "opened"]
    /\ UNCHANGED <<recordVars, onlineVars, title>>

\* The 1002 answer names the build, which is the title's, and the login.
Answer(w, u) ==
    /\ apps[w].stage = "opened"
    /\ apps' = [apps EXCEPT ![w].stage = "ready", ![w].user = u]
    /\ UNCHANGED <<recordVars, onlineVars, title>>

\* The client closes, is silent for too long, completes (1004), sends what the
\* service refuses, or a statement fails: the thread ends, whatever it still
\* had to store.
End(w) ==
    /\ apps[w].stage # "closed"
    /\ apps' = [apps EXCEPT ![w] = NoThread]
    /\ jobs' = [jobs EXCEPT ![w] = <<>>]
    /\ UNCHANGED <<rows, boards, clock, announced, log, completed, onlineVars, title>>

\* A report of a player nobody knows is acknowledged and not stored.
Report(w, submissions) ==
    /\ apps[w].stage = "ready" /\ KnownPlayer(apps[w].user) /\ Room(Len(submissions))
    /\ apps' = [apps EXCEPT ![w].stage = "storing", ![w].plan = submissions]
    /\ jobs' = [jobs EXCEPT ![w] = Plan(submissions)]
    /\ UNCHANGED <<rows, boards, clock, announced, log, completed, onlineVars, title>>

\* A fault: the reply goes out while the records are still being stored.
AcknowledgeFirst(w) ==
    /\ apps[w].stage = "storing" /\ Len(jobs[w]) < 2
    /\ apps' = [apps EXCEPT ![w].stage = "ready", ![w].plan = <<>>]
    /\ jobs' = [jobs EXCEPT ![w] = <<>>]
    /\ UNCHANGED <<rows, boards, clock, announced, log, completed, onlineVars, title>>

\* A fault: the reply does not wait for the thread that stores the records.
AcknowledgeApart(w) ==
    /\ apps[w].stage = "storing"
    /\ apps' = [apps EXCEPT ![w].stage = "ready", ![w].plan = <<>>]
    /\ UNCHANGED <<recordVars, onlineVars, title>>

\* The empty reply to a report: the client may forget it.
Acknowledge(w) ==
    /\ apps[w].stage = "storing" /\ jobs[w] = <<>>
    /\ apps' = [apps EXCEPT ![w].stage = "ready", ![w].plan = <<>>]
    /\ UNCHANGED <<recordVars, onlineVars, title>>

Store(w) == apps[w].stage = "storing" /\ Submit(w) /\ UNCHANGED <<onlineVars, title, apps>>

-----------------------------------------------------------------------------
\* The ranking page of each title, and whose own row it shows.
PageBoard == CASE title = "hunter" -> "kills" [] title = "test" -> "tles" [] OTHER -> "points"

Viewer(w) == IF title # "outbreak" /\ KnownPlayer(apps[w].user) THEN apps[w].user ELSE NoRecord

\* 6101 of a page: the viewer is looked up, then the boards are read.
AskPage(w) ==
    /\ apps[w].stage = "ready"
    /\ apps' = [apps EXCEPT ![w].stage = IF title = "outbreak" THEN "top" ELSE "boards",
                            ![w].draft = [viewer |-> Viewer(w), top |-> <<>>, own |-> NoRecord]]
    /\ UNCHANGED <<recordVars, onlineVars, title>>

\* Only the boards that are listed are shown.
ReadBoards(w) ==
    /\ apps[w].stage = "boards"
    /\ apps' = [apps EXCEPT ![w].stage = IF PageBoard \in boards THEN "top" ELSE "publish"]
    /\ UNCHANGED <<recordVars, onlineVars, title>>

Ranked(board, limit) == LET top == Top(board, limit) IN [i \in DOMAIN top |-> [rank |-> i, user |-> top[i]]]

ReadTop(w) ==
    /\ apps[w].stage = "top"
    /\ apps' = [apps EXCEPT ![w].draft.top = Ranked(PageBoard, PageRows),
                            ![w].stage = IF apps[w].draft.viewer = NoRecord THEN "publish" ELSE "own"]
    /\ UNCHANGED <<recordVars, onlineVars, title>>

ReadOwn(w) ==
    /\ apps[w].stage = "own"
    /\ apps' = [apps EXCEPT ![w].draft.own = Entry(PageBoard, apps[w].draft.viewer), ![w].stage = "publish"]
    /\ UNCHANGED <<recordVars, onlineVars, title>>

\* A fault: the own row is added when its rank is past the rows.
RowsByRank(top, own) == IF own # NoRecord /\ own.rank > Len(top) THEN Append(top, own) ELSE top

\* _board: the own record is added below the others when it is not among them.
RowsOf(top, own) ==
    IF own # NoRecord /\ \A i \in DOMAIN top : top[i].user # own.user THEN Append(top, own) ELSE top

\* The reply to 6101: the page as its size was told is kept for the chunks.
Publish(w) ==
    /\ apps[w].stage = "publish"
    /\ apps' = [apps EXCEPT ![w].stage = "ready", ![w].draft = NoPage, ![w].chunks = {},
                            ![w].page = RowsOf(apps[w].draft.top, apps[w].draft.own)]
    /\ UNCHANGED <<recordVars, onlineVars, title>>

\* A fault: every chunk is cut from a page rendered again.
ChunkOfNew(w) ==
    LET own == IF Viewer(w) = NoRecord THEN NoRecord ELSE Entry(PageBoard, Viewer(w))
    IN RowsOf(Ranked(PageBoard, PageRows), own)

\* What a chunk is cut from.
ChunkOf(w) == apps[w].page

\* 6102, after the page's 6101.
AskChunk(w) ==
    /\ apps[w].stage = "ready" /\ apps[w].page # NoPage
    /\ apps' = [apps EXCEPT ![w].chunks = @ \cup {ChunkOf(w)}]
    /\ UNCHANGED <<recordVars, onlineVars, title>>

-----------------------------------------------------------------------------
Lobby ==
    /\ GameServer
    /\ UNCHANGED <<recordVars, title, apps>>

CapcomNext ==
    \/ \E w \in Writers :
        \/ Open(w) \/ End(w) \/ Acknowledge(w) \/ Store(w)
        \/ AskPage(w) \/ ReadBoards(w) \/ ReadTop(w) \/ ReadOwn(w) \/ Publish(w) \/ AskChunk(w)
        \/ \E u \in Users : Answer(w, u)
        \/ \E submissions \in Reports(apps[w].user) : Report(w, submissions)
    \/ Lobby

CapcomSpec == CapcomInit /\ [][CapcomNext]_appVars

-----------------------------------------------------------------------------
\* A report that is acknowledged is stored: every board it goes on has its row
\* and is listed, though the game server, other reports and failing threads
\* come between the statements.  The client forgets a report that was
\* acknowledged.
AckedIsStored ==
    [][\A w \in Writers : Acknowledge(w) =>
        \A i \in DOMAIN apps[w].plan :
            LET s == apps[w].plan[i]
                kept == log[s.board][s.user]
            IN s.board \in boards /\ \E j \in DOMAIN kept : kept[j].by = w /\ kept[j].score = s.score]_appVars

\* The chunks a client puts together are of the one page whose size it was
\* told, though records change between its requests.
PageWhole == \A w \in Writers : apps[w].chunks \subseteq {apps[w].page}

\* A page lists nobody twice and its viewer when a record of the viewer's was
\* found, although the top and the own rank are read apart.
OwnRowOnce ==
    \A w \in Writers : apps[w].stage = "publish" =>
        LET shown == RowsOf(apps[w].draft.top, apps[w].draft.own)
        IN /\ \A i, j \in DOMAIN shown : shown[i].user = shown[j].user => i = j
           /\ apps[w].draft.own # NoRecord => \E i \in DOMAIN shown : shown[i].user = apps[w].draft.own.user

\* A page of rankings is read whole and lists its viewer once though records change.
ReportsSound ==
  /\ CapcomTypeOK
  /\ PageWhole
  /\ OwnRowOnce

=============================================================================

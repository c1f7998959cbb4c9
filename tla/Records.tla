------------------------------- MODULE Records -------------------------------
(***************************************************************************)
(* The record store (core/records.py, storage/sql.py SqlRecordStore): one  *)
(* row per board and player, how a submission changes it in each backend,  *)
(* and what the rankings read.                                             *)
(*                                                                         *)
(* Threads of several processes submit.  A submission takes the time, then *)
(* runs two statements, the upsert of the row and the insert of the board; *)
(* a thread may stop between any two of them.                              *)
(***************************************************************************)
EXTENDS Integers, Sequences, FiniteSets, Listings

CONSTANTS
    Users,         \* user ids
    Writers,       \* threads that submit
    NoRecord,
    MaxTime,       \* bound: readings of the clock
    MaxCommits     \* bound: submissions

ASSUME RecordsAssumption ==
    /\ Users \subseteq Nat \ {0} /\ IsFiniteSet(Users) /\ NoRecord \notin Nat
    /\ MaxTime \in Nat /\ MaxCommits \in Nat

VARIABLES
    rows,        \* table records
    boards,      \* table boards
    clock,       \* the time
    jobs,        \* the submissions each thread still has to make
    announced,   \* webhook: course records announced
    log,         \* history: the submissions committed to each row, in order
    completed    \* history: boards some submission was completed for

recordVars == <<rows, boards, clock, jobs, announced, log, completed>>

\* The boards of the games, one of each sort, and how each is ranked.
Boards == {"clear", "course", "kills", "points", "hrp", "tles"}
Ranking == [b \in Boards |-> CASE b \in {"clear", "course"} -> "LOWEST" [] b \in {"kills", "points"} -> "TOTAL"
                               [] b = "hrp" -> "LATEST" [] b = "tles" -> "HIGHEST"]

\* One ascending key ranks every board.
SortKey(board, score) == IF Ranking[board] = "LOWEST" THEN score ELSE -score

Submission(board, user, score, details) == [board |-> board, user |-> user, score |-> score, details |-> details]

-----------------------------------------------------------------------------
\* A row clashes with the submitted one: the SET list of each ranking.
Improves(row, new) == new.key < row.key

Best(column, row, new) == IF Improves(row, new) THEN new[column] ELSE row[column]

\* A fault: the times of a total are added up like its scores.
AssignedSum(ranking, column, row, new) ==
    IF ranking \in {"LOWEST", "HIGHEST"} THEN Best(column, row, new)
    ELSE CASE column = "details" -> new.details
           [] column = "at" /\ ranking = "LATEST" -> IF new.score = row.score THEN row.at ELSE new.at
           [] OTHER -> IF ranking = "LATEST" THEN new[column] ELSE row[column] + new[column]

Assigned(ranking, column, row, new) ==
    IF ranking \in {"LOWEST", "HIGHEST"} THEN Best(column, row, new)
    ELSE CASE column = "details" -> new.details
           [] column = "at" -> IF new.score = (IF ranking = "LATEST" THEN row.score ELSE 0) THEN row.at ELSE new.at
           [] OTHER -> IF ranking = "LATEST" THEN new[column] ELSE row[column] + new[column]

\* A fault: the sort key goes with the score it belongs to.
KeyWithScore(ranking) ==
    IF ranking \in {"LOWEST", "HIGHEST"} THEN <<"score", "key", "at", "details">> ELSE <<"details", "score", "key", "at">>

\* The order of the SET list.
Columns(ranking) ==
    IF ranking \in {"LOWEST", "HIGHEST"} THEN <<"score", "at", "details", "key">> ELSE <<"details", "at", "score", "key">>

\* SQLite and PostgreSQL: every assignment sees the stored row.
Simultaneous(ranking, row, new) == [c \in DOMAIN row |-> Assigned(ranking, c, row, new)]

\* MariaDB: each assignment sees the ones before it.
LeftToRight(ranking, row, new) ==
    LET Set(r, i) == [r EXCEPT ![Columns(ranking)[i]] = Assigned(ranking, Columns(ranking)[i], r, new)]
    IN Set(Set(Set(Set(row, 1), 2), 3), 4)

\* A fault: a time that ties the best one replaces it.
UpsertedTies(row, new, ranking) ==
    IF row = NoRecord \/ (ranking = "LOWEST" /\ new.key = row.key) THEN new ELSE Simultaneous(ranking, row, new)

Upserted(row, new, ranking) == IF row = NoRecord THEN new ELSE Simultaneous(ranking, row, new)

RowOf(s, at) == [score |-> s.score, key |-> SortKey(s.board, s.score), at |-> at, details |-> s.details]

-----------------------------------------------------------------------------
\* Reading: `records_rank` orders a board by key, time and user id.
Holders(board) == {u \in Users : rows[board][u] # NoRecord}

Before(board, u, v) ==
    LET a == rows[board][u]
        b == rows[board][v]
    IN \/ a.key < b.key
       \/ a.key = b.key /\ (a.at < b.at \/ (a.at = b.at /\ u < v))

Top(board, limit) ==
    LET all == Ordered(Holders(board), {p \in Holders(board) \X Holders(board) : Before(board, p[1], p[2])})
    IN SubSeq(all, 1, IF Len(all) < limit THEN Len(all) ELSE limit)

\* A fault: a record counts the ones that tie with it in score.
AheadTies(board, u) ==
    {v \in Holders(board) \ {u} : rows[board][v].key <= rows[board][u].key}

\* The records ahead of one, as the subquery of `entry` counts them.
Ahead(board, u) ==
    LET r == rows[board][u]
    IN {v \in Holders(board) :
            LET a == rows[board][v]
            IN a.key <= r.key /\ (a.key < r.key \/ a.at < r.at \/ (a.at = r.at /\ v < u))}

Entry(board, u) == IF rows[board][u] = NoRecord THEN NoRecord ELSE [rank |-> Cardinality(Ahead(board, u)) + 1, user |-> u]

-----------------------------------------------------------------------------
Details == Nat \cup {NoRecord}
Row == [score : Nat, key : Int, at : 1 .. MaxTime, details : Details]
ASSUME NoRecordIsNoRow == NoRecord \notin Row

Logged == [by : Writers, score : Nat, at : 1 .. MaxTime, details : Details]
Job == [board : Boards, user : Users, score : Nat, details : Details,
        step : {"new", "row", "board"}, at : 0 .. MaxTime, best : Nat, beats : BOOLEAN]

RecordsTypeOK ==
    /\ rows \in [Boards -> [Users -> Row \cup {NoRecord}]]
    /\ log \in [Boards -> [Users -> Seq(Logged)]]
    /\ boards \subseteq Boards /\ completed \subseteq Boards /\ announced \subseteq Users \X Nat
    /\ clock \in 0 .. MaxTime
    /\ jobs \in [Writers -> Seq(Job)]
    /\ \A w \in Writers : \A i \in DOMAIN jobs[w] :
        IF i = 1 THEN jobs[w][i].step # "new" => jobs[w][i].at # 0 ELSE jobs[w][i].step = "new"

RecordsInit ==
    /\ rows = [b \in Boards |-> [u \in Users |-> NoRecord]]
    /\ boards = {} /\ clock = 0 /\ announced = {} /\ completed = {}
    /\ jobs = [w \in Writers |-> <<>>]
    /\ log = [b \in Boards |-> [u \in Users |-> <<>>]]

\* The submissions of one report, in order.
Plan(submissions) ==
    [i \in DOMAIN submissions |->
        LET s == submissions[i]
        IN [board |-> s.board, user |-> s.user, score |-> s.score, details |-> s.details,
            step |-> "new", at |-> 0, best |-> 0, beats |-> FALSE]]

Committed == Cardinality({c \in Boards \X Users \X (1 .. MaxCommits) : c[3] \in DOMAIN log[c[1]][c[2]]})

Queued == Cardinality({q \in Writers \X (1 .. MaxCommits) : q[2] \in DOMAIN jobs[q[1]] /\ jobs[q[1]][q[2]].step # "board"})

\* Bound: a thread starts n submissions only while they can all be made.
Room(n) == Committed + Queued + n <= MaxCommits

\* The best lap, which only a course upload reads; 0 is no lap.
BestScore(board) == IF board # "course" \/ Holders(board) = {} THEN 0 ELSE rows[board][Top(board, 1)[1]].score

\* A fault: a lap is announced before it is stored.
StampAnnounces(w) ==
    /\ jobs[w] # <<>> /\ Head(jobs[w]).step = "new"
    /\ \E now \in {clock, clock + 1} \cap 1 .. MaxTime :
        /\ clock' = now
        /\ jobs' = [jobs EXCEPT ![w][1].step = "row", ![w][1].at = now, ![w][1].best = BestScore(Head(jobs[w]).board)]
    /\ announced' = IF Head(jobs[w]).board = "course" THEN announced \cup {<<Head(jobs[w]).user, Head(jobs[w]).score>>}
                    ELSE announced
    /\ UNCHANGED <<rows, boards, log, completed>>

\* The time is taken before the row is written; the course upload reads the
\* board's best before that.
Stamp(w) ==
    /\ jobs[w] # <<>> /\ Head(jobs[w]).step = "new"
    /\ \E now \in {clock, clock + 1} \cap 1 .. MaxTime :
        /\ clock' = now
        /\ jobs' = [jobs EXCEPT ![w][1].step = "row", ![w][1].at = now, ![w][1].best = BestScore(Head(jobs[w]).board)]
    /\ UNCHANGED <<rows, boards, announced, log, completed>>

Upsert(w) ==
    /\ jobs[w] # <<>> /\ Head(jobs[w]).step = "row"
    /\ LET s == Head(jobs[w])
           best == BestScore(s.board)
       IN /\ rows' = [rows EXCEPT ![s.board][s.user] = Upserted(@, RowOf(s, s.at), Ranking[s.board])]
          /\ log' = [log EXCEPT ![s.board][s.user] = Append(@, [by |-> w, score |-> s.score, at |-> s.at, details |-> s.details])]
          /\ jobs' = [jobs EXCEPT ![w][1].step = "board", ![w][1].beats = s.board = "course" /\ (best = 0 \/ s.score < best)]
    /\ UNCHANGED <<boards, clock, announced, completed>>

\* A fault: the best is read after the lap was stored.
AnnouncesAfter(s) == s.board = "course" /\ (BestScore("course") = 0 \/ s.score < BestScore("course"))

\* A course record is announced by the thread that submitted it.
Announces(s) == s.board = "course" /\ (s.best = 0 \/ s.score < s.best)

\* A fault: only the first row of a board lists it.
ListBoardOnce(w) ==
    /\ jobs[w] # <<>> /\ Head(jobs[w]).step = "board"
    /\ LET s == Head(jobs[w]) IN
        /\ boards' = IF Cardinality(Holders(s.board)) > 1 THEN boards ELSE boards \cup {s.board}
        /\ completed' = completed \cup {s.board}
        /\ announced' = IF Announces(s) THEN announced \cup {<<s.user, s.score>>} ELSE announced
    /\ jobs' = [jobs EXCEPT ![w] = Tail(@)]
    /\ UNCHANGED <<rows, clock, log>>

\* INSERT OR IGNORE INTO boards: the submission is complete.
ListBoard(w) ==
    /\ jobs[w] # <<>> /\ Head(jobs[w]).step = "board"
    /\ LET s == Head(jobs[w]) IN
        /\ boards' = boards \cup {s.board}
        /\ completed' = completed \cup {s.board}
        /\ announced' = IF Announces(s) THEN announced \cup {<<s.user, s.score>>} ELSE announced
    /\ jobs' = [jobs EXCEPT ![w] = Tail(@)]
    /\ UNCHANGED <<rows, clock, log>>

Submit(w) == Stamp(w) \/ Upsert(w) \/ ListBoard(w)

-----------------------------------------------------------------------------
\* The SET lists give the same row on a backend whose assignments see the
\* earlier ones (SqlConnection.upsert).
BackendsAgree ==
    \A b \in Boards, u \in Users, w \in Writers :
        rows[b][u] # NoRecord /\ jobs[w] # <<>> /\ Head(jobs[w]).step = "row" /\ Head(jobs[w]).board = b
            => LET new == RowOf(Head(jobs[w]), Head(jobs[w]).at)
               IN LeftToRight(Ranking[b], rows[b][u], new) = Simultaneous(Ranking[b], rows[b][u], new)

\* What a row says of everything that was committed to it: the latest score,
\* the best one with the details of the submission that reached it first, or
\* the total; and since when the player has had that score (Record).
Scores(subs) == [i \in DOMAIN subs |-> subs[i].score]

\* The submission i since which the player has had the score.
HadSince(board, subs, i) ==
    LET n == Len(subs) IN
    CASE Ranking[board] = "LATEST" ->
            (\A j \in i .. n : subs[j].score = subs[n].score) /\ (i = 1 \/ subs[i - 1].score # subs[n].score)
      [] Ranking[board] = "TOTAL" ->
            (\A j \in i + 1 .. n : subs[j].score = 0) /\ (i = 1 \/ subs[i].score # 0)
      [] OTHER ->
            \A j \in 1 .. n :
                LET a == SortKey(board, subs[i].score)
                    b == SortKey(board, subs[j].score)
                IN a < b \/ (a = b /\ i <= j)

Since(board, subs) == CHOOSE i \in 1 .. Len(subs) : HadSince(board, subs, i)

RowTellsHistory ==
    \A b \in Boards : \A u \in Holders(b) :
        LET subs == log[b][u]
            since == Since(b, subs)
        IN /\ rows[b][u].score = IF Ranking[b] = "TOTAL" THEN SumOf(Scores(subs)) ELSE subs[since].score
           /\ rows[b][u].key = SortKey(b, rows[b][u].score)
           /\ rows[b][u].at = subs[since].at
           /\ rows[b][u].details = subs[IF Ranking[b] \in {"LATEST", "TOTAL"} THEN Len(subs) ELSE since].details

\* The rank that `entry` counts is the place `top` gives: ties end in the same
\* order in both queries.
RankAgrees ==
    \A b \in Boards : \A i \in DOMAIN Top(b, Cardinality(Users)) :
        Entry(b, Top(b, Cardinality(Users))[i]).rank = i

\* A board that a submission was completed for is listed, though an earlier
\* submission stopped between its two statements (submit).
CompletedIsListed == completed \subseteq boards

\* A lap that was the best when it was stored is announced, however many
\* uploads overlap: the best is read before the lap is stored.
CourseRecordAnnounced ==
    [][\A w \in Writers : ListBoard(w) =>
        LET s == Head(jobs[w]) IN s.board = "course" /\ s.beats => <<s.user, s.score>> \in announced']_recordVars

\* An account's lap is announced only when it was stored: an upload that was
\* lost or whose row is still to be written announces nothing.
AnnouncedWasStored ==
    \A a \in announced : \E i \in DOMAIN log["course"][a[1]] : log["course"][a[1]][i].score = a[2]

\* Rows, boards, ranks and announcements agree with what was submitted, in either backend,
\* while submissions interleave statement by statement or stop between two.
RecordsSound ==
  /\ RecordsTypeOK
  /\ BackendsAgree
  /\ RowTellsHistory
  /\ RankAgrees
  /\ CompletedIsListed
  /\ AnnouncedWasStored

=============================================================================

---------------------------- MODULE MCCompanions ----------------------------
(***************************************************************************)
(* The companion services around the game servers for TLC.  They share     *)
(* tables, not memory, so each is explored by itself beside the writers of *)
(* the tables it uses; `part` says which one a behaviour is about.         *)
(***************************************************************************)
EXTENDS Accounts, AppFlows, CapcomApp, LapRankings, Directory, Webhooks, TLC

CONSTANTS s1, s2, k1, w1, w2

VARIABLE part

Parts == {"accounts", "flows", "reports", "pages", "laps", "lists", "hooks"}

MCClientOf == s1 :> k1 @@ s2 :> k1
MCUserOf == s1 :> 1 @@ s2 :> 2
MCLandCounts == {<<1>>, <<1, 2>>}

otherThanAccounts == <<flowVars, recordVars, title, apps, worlds, client, webhookVars>>
otherThanFlows == <<accountVars, recordVars, title, apps, worlds, client, webhookVars>>
otherThanApps == <<accountVars, flows, conns, worlds, client, webhookVars>>
otherThanLaps == <<accountVars, flowVars, title, apps, worlds, client, webhookVars>>
otherThanLists == <<accountVars, recordVars, flows, conns, title, apps, webhookVars>>
otherThanHooks == <<accountVars, recordVars, flowVars, title, apps, worlds, client>>

Init ==
    /\ part \in Parts
    /\ AccountsInit /\ FlowsInit /\ CapcomInit /\ DirectoryInit /\ WebhooksInit
    /\ part \notin {"reports", "pages"} => title = "outbreak"
    /\ part = "pages" => title = "hunter"
    /\ part # "lists" => worlds = <<[host |-> Local, lands |-> <<1 .. 1>>]>>

\* Bounds of the parts.  Where flows or reports are explored nobody changes
\* areas, and the third login finds one connection open at most.  Where reports
\* and pages are, the connections open once both players are logged in, who do
\* not log in again, and two submissions are made: in the reports by player 1
\* on w1, with hunts only on w2 where hunters report; in the pages by w1, which
\* reports hunts, while player 1 reads pages on w2.
NoAreas == \A s \in Sessions : online'[s] # Away => online'[s].area = 0

OneConnection == logins' <= Cardinality(Sessions) \/ Cardinality({c \in Connections : conns'[c] # Closed}) <= 1

LoginsFirst ==
    /\ NoAreas /\ logins' <= Cardinality(Sessions) /\ \A s \in Listed : online'[s] \in {online[s], Away}
    /\ online' # online => title # "outbreak" /\ (logins' = logins => logins = Cardinality(Sessions))
    /\ apps' # apps => title = "outbreak" \/ logins = Cardinality(Sessions)

TwoCommits == Committed' + Queued' <= 2

Hunts(w) == \A i \in DOMAIN jobs'[w] : jobs'[w][i].board = "kills"

OnlyReports ==
    /\ TwoCommits /\ apps'[w1].user # 2 /\ \A w \in Writers : apps'[w].draft = NoPage
    /\ title = "hunter" => Hunts(w2)

PageRoles ==
    /\ TwoCommits /\ apps'[w1].draft = NoPage /\ Hunts(w1)
    /\ apps'[w2].stage # "storing" /\ apps'[w2].user # 2

Next ==
    /\ UNCHANGED part
    /\ \/ part = "accounts" /\ AccountsNext /\ UNCHANGED otherThanAccounts
       \/ part = "flows" /\ FlowsNext /\ NoAreas /\ OneConnection /\ UNCHANGED otherThanFlows
       \/ part = "reports" /\ CapcomNext /\ LoginsFirst /\ OnlyReports /\ UNCHANGED otherThanApps
       \/ part = "pages" /\ CapcomNext /\ LoginsFirst /\ PageRoles /\ UNCHANGED otherThanApps
       \/ part = "laps" /\ LapsNext /\ UNCHANGED otherThanLaps
       \/ part = "lists" /\ DirectoryNext /\ UNCHANGED otherThanLists
       \/ part = "hooks" /\ WebhooksNext /\ UNCHANGED otherThanHooks

Spec == Init /\ [][Next]_<<accountVars, flowVars, recordVars, title, apps, worlds, client, webhookVars, part>>

(* What no step of a companion may do: rewind a flow, acknowledge a report that is not
   stored, keep a course record quiet, or count players of another World. *)
CompanionSteps ==
  /\ ReloginKeepsPhase
  /\ AckedIsStored
  /\ CourseRecordAnnounced
  /\ PopulationsAddUp

=============================================================================

---------------------------- MODULE LapRankings ----------------------------
(***************************************************************************)
(* The lap rankings of Auto Modellista's web module                        *)
(* (opensnap_web/games/automodellista/rankings.py): threads of the web     *)
(* server that take uploads, and the announcement of a course record.      *)
(***************************************************************************)
EXTENDS Records

CONSTANTS
    Laps,          \* times an upload may carry; 0 is that of a club meeting
    NoAccountName  \* a login ID no account has

ASSUME LapsAssumption == Laps \subseteq Nat /\ NoAccountName \notin Users

\* A lap of 0, a board the page does not show and an unknown login ID leave
\* everything as it is.
UploadLap(w, user, lap) ==
    /\ jobs[w] = <<>>
    /\ user # NoAccountName /\ lap # 0 /\ Room(1)
    /\ jobs' = [jobs EXCEPT ![w] = Plan(<<Submission("course", user, lap, NoRecord)>>)]
    /\ UNCHANGED <<rows, boards, clock, announced, log, completed>>

\* A statement fails or the web server stops: the upload's thread ends.
LoseUpload(w) ==
    /\ jobs[w] # <<>>
    /\ jobs' = [jobs EXCEPT ![w] = <<>>]
    /\ UNCHANGED <<rows, boards, clock, announced, log, completed>>

LapsNext ==
    \E w \in Writers :
        \/ Submit(w)
        \/ LoseUpload(w)
        \/ \E user \in Users \cup {NoAccountName}, lap \in Laps : UploadLap(w, user, lap)

LapsSpec == RecordsInit /\ [][LapsNext]_recordVars

=============================================================================

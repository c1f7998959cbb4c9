-------------------------------- MODULE Login ----------------------------------
(***************************************************************************)
(* A console's way in: the bootstrap login at one server process, the      *)
(* session handoff in the shared store, and the KICS login at the game     *)
(* server, a process of its own (core/bootstrap/handlers.py,               *)
(* core/game/handlers.py, storage/sql.py).  The session id is a digest of  *)
(* the client's host and account, so every login of one account on one     *)
(* host has the same session id: a login is that id.                       *)
(*                                                                         *)
(* A request and its answer are one action; either may be lost, and the    *)
(* console asks again.  Rooms and reliable numbers are left out.           *)
(***************************************************************************)
EXTENDS Naturals

CONSTANTS
    Logins,          \* session ids: one per account and host
    Endpoints,       \* (host, port) pairs
    EndpointsOf,     \* [Logins -> SUBSET Endpoints]: the ports of the host
    None,
    EndsDuringLogin, \* FALSE: no server gives a session up while its console logs in
    MaxSerial,       \* bound: bootstrap logins
    MaxNumber,       \* bound: unreliable packets of one session and server
    MaxGameRestarts  \* bound: restarts of the game server

ASSUME LoginAssumption ==
    /\ EndpointsOf \in [Logins -> SUBSET Endpoints]
    /\ None \notin Logins \cup Endpoints
    /\ None \notin [serial : Nat, at : Endpoints, number : Nat]
    /\ None \notin [login : Logins, at : Endpoints]
    /\ EndsDuringLogin \in BOOLEAN
    /\ MaxSerial \in Nat
    /\ MaxNumber \in Nat \ {0}
    /\ MaxGameRestarts \in Nat

VARIABLES
    console,      \* each console: where it is in the login
    serial,       \* the last handoff serial the store gave out
    handoff,      \* the session_handoffs table, by session id
    issuing,      \* the login the bootstrap is issuing a handoff for
    boot,         \* the bootstrap's session registry
    bootNumber,   \* its sessions' sequence_number
    owed,         \* its sessions with an unACKed reliable answer
    game,         \* the game server's session registry
    gameNumber,   \* its sessions' sequence_number
    gameSerial,   \* its sessions' handoff_serial
    gameRestarts

bootstrapVars == <<issuing, boot, bootNumber, owed>>
gameVars == <<game, gameNumber, gameSerial, gameRestarts>>
storeVars == <<serial, handoff>>
vars == <<console, storeVars, bootstrapVars, gameVars>>

Registry == INSTANCE SessionRegistry WITH Sessions <- Logins, registry <- game

Serials == 0 .. MaxSerial
Numbers == 0 .. MaxNumber

\* port: where the console sends from.  last: the last unreliable number it
\* accepted.  session: the session word of its headers, once a KICS answer
\* gave it one.  serial: its newest login (history).
Consoles ==
    [phase : {"off", "login", "check", "kics", "playing"},
     port : Endpoints \cup {None}, last : Numbers,
     session : Logins \cup {None}, serial : Serials]

Rows == [serial : Serials, at : Endpoints, number : Numbers]

TypeOK ==
    /\ console \in [Logins -> Consoles]
    /\ serial \in Serials
    /\ handoff \in [Logins -> Rows \cup {None}]
    /\ issuing \in [login : Logins, at : Endpoints] \cup {None}
    /\ {boot, game} \subseteq Registry!Registries
    /\ bootNumber \in [Logins -> Numbers]
    /\ owed \subseteq Logins
    /\ gameNumber \in [Logins -> Numbers]
    /\ gameSerial \in [Logins -> Serials]
    /\ gameRestarts \in 0 .. MaxGameRestarts

-----------------------------------------------------------------------------
(***************************************************************************)
(* The store (storage/sql.py, SqlSessionHandoffStore).                     *)
(***************************************************************************)

HasRow(s) == handoff[s] # None

Without(table, gone) == [s \in Logins |-> IF s \in gone THEN None ELSE table[s]]

\* The console side of a lost or received answer.
Answered(s, received, next) ==
    console' = IF received THEN [console EXCEPT ![s] = next] ELSE console

-----------------------------------------------------------------------------
(***************************************************************************)
(* The console.                                                            *)
(***************************************************************************)

\* A port of the host that no other console sends from now.
FreePorts(s) ==
    {e \in EndpointsOf[s] :
        \A c \in Logins \ {s} : console[c].phase = "off" \/ console[c].port # e}

\* It starts, or crashes and starts again, and logs in from any port.
PowerOn(s) ==
    /\ \E e \in FreePorts(s) :
        console' = [console EXCEPT ![s] =
            [phase |-> "login", port |-> e, last |-> 0, session |-> None, serial |-> 0]]
    /\ UNCHANGED <<storeVars, bootstrapVars, gameVars>>

PowerOff(s) ==
    /\ console' = [console EXCEPT ![s].phase = "off"]
    /\ UNCHANGED <<storeVars, bootstrapVars, gameVars>>

-----------------------------------------------------------------------------
(***************************************************************************)
(* The bootstrap server.                                                   *)
(***************************************************************************)

\* A fault: only the login's own handoff is replaced.
ReplacedBySession(s, e) == {s}

\* The handoffs that a login of s from e replaces.
Replaced(s, e) == {t \in Logins : t = s \/ (HasRow(t) /\ handoff[t].at = e)}

\* handle_login_client, up to the DELETE of SqlSessionHandoffStore.issue,
\* which is committed before the INSERT.
IssueDelete(s) ==
    /\ issuing = None
    /\ serial < MaxSerial
    /\ console[s].phase = "login"
    /\ issuing' = [login |-> s, at |-> console[s].port]
    /\ handoff' = Without(handoff, Replaced(s, console[s].port))
    /\ UNCHANGED <<console, serial, boot, bootNumber, owed, gameVars>>

\* The INSERT and the rest of the handler.  A KAGE title is answered with the
\* login's success at once, any other with a challenge; the answer is reliable
\* when the request was and its header resolved to this session.
IssueInsert ==
    /\ issuing # None
    /\ \E kage, reliable, received \in BOOLEAN :
        LET s == issuing.login
            n == IF reliable THEN 0 ELSE 1
        IN  /\ reliable => Registry!GetByEndpoint(boot, issuing.at) = s
            /\ serial' = serial + 1
            /\ handoff' = [handoff EXCEPT ![s] =
                   [serial |-> serial + 1, at |-> issuing.at, number |-> IF kage THEN n ELSE 0]]
            /\ boot' = Registry!Adopt(boot, s, issuing.at)
            /\ bootNumber' = [bootNumber EXCEPT ![s] = n]
            /\ owed' \in IF reliable THEN {owed, owed \cup {s}} ELSE {owed}
            /\ received => console[s].phase = "login" /\ console[s].port = issuing.at
            /\ Answered(s, received,
                   [console[s] EXCEPT !.phase = IF kage THEN "kics" ELSE "check",
                                      !.last = n, !.serial = serial + 1])
    /\ issuing' = None
    /\ UNCHANGED gameVars

\* Two faults: the number handed over is the one before the answer, or the
\* one after.
HandedOverBeforeAnswer(t, n) == IF n = 0 THEN 0 ELSE n - 1

HandedOverNext(t, n) == n + 1

\* What set_sequence hands over after an answer that left the counter of t at n.
HandedOver(t, n) == n

\* handle_bootstrap_check with a right verifier.  The login is whichever is
\* bound to the console's port; the console is told that it may go on.
BootstrapCheck(s) ==
    /\ issuing = None
    /\ console[s].phase = "check"
    /\ LET t == Registry!GetByEndpoint(boot, console[s].port)
       IN  /\ t # None
           /\ \E reliable, received \in BOOLEAN :
                LET n == bootNumber[t] + IF reliable THEN 0 ELSE 1
                IN  /\ n <= MaxNumber
                    /\ bootNumber' = [bootNumber EXCEPT ![t] = n]
                    /\ handoff' = IF HasRow(t) THEN [handoff EXCEPT ![t].number = HandedOver(t, n)]
                                  ELSE handoff
                    /\ owed' \in IF reliable THEN {owed, owed \cup {t}} ELSE {owed}
                    /\ Answered(s, received, [console[s] EXCEPT !.phase = "kics", !.last = n])
    /\ UNCHANGED <<serial, issuing, boot, gameVars>>

\* Nobody is bound to the console's port: the login has failed.
BootstrapCheckFails(s) ==
    /\ issuing = None
    /\ console[s].phase = "check"
    /\ Registry!GetByEndpoint(boot, console[s].port) = None
    /\ console' = [console EXCEPT ![s].phase = "off"]
    /\ UNCHANGED <<storeVars, bootstrapVars, gameVars>>

\* The reliable answer of s is ACKed at last, or dropped with its session.
Settled(s) ==
    /\ s \in owed
    /\ owed' = owed \ {s}
    /\ UNCHANGED <<console, storeVars, issuing, boot, bootNumber, gameVars>>

\* A server may give up on s.
MayGiveUp(s) == EndsDuringLogin \/ console[s].phase \in {"off", "playing"}

\* A fault: an idle session goes with its handoff.
ForgetIdleWithHandoff(s) ==
    /\ issuing = None
    /\ Registry!Known(boot, s)
    /\ boot' = Registry!Remove(boot, s)
    /\ handoff' = Without(handoff, {s})
    /\ UNCHANGED <<console, serial, issuing, bootNumber, owed, gameVars>>

\* _forget_idle_bootstrap_sessions: only the session goes.
ForgetIdle(s) ==
    /\ issuing = None
    /\ Registry!Known(boot, s)
    /\ boot' = Registry!Remove(boot, s)
    /\ UNCHANGED <<console, storeVars, issuing, bootNumber, owed, gameVars>>

\* handle_transport_timeout at the bootstrap: _end_session.
BootstrapTimeout(s) ==
    /\ issuing = None
    /\ MayGiveUp(s)
    /\ s \in owed
    /\ Registry!Known(boot, s)
    /\ boot' = Registry!Remove(boot, s)
    /\ handoff' = Without(handoff, {s})
    /\ owed' = owed \ {s}
    /\ UNCHANGED <<console, serial, issuing, bootNumber, gameVars>>

BootstrapRestart ==
    /\ issuing' = None
    /\ boot' = [endpoint |-> [s \in Logins |-> None], at |-> [e \in Endpoints |-> None]]
    /\ owed' = {}
    /\ UNCHANGED <<console, storeVars, bootNumber, gameVars>>

-----------------------------------------------------------------------------
(***************************************************************************)
(* The game server.                                                        *)
(***************************************************************************)

\* The engine before the handler of a packet of s from e: a session that its
\* header names follows to e ...
Followed(s, e) ==
    IF console[s].session = None THEN game ELSE Registry!Follow(game, console[s].session, e)

\* ... and an unknown session word gives way to the session that e stands for.
Header(s, e) ==
    LET word == console[s].session
        here == Registry!GetByEndpoint(game, e)
    IN  IF here = None \/ (word # None /\ Registry!Known(game, word)) THEN word ELSE here

\* find_handoff for a KICS login of account s from e: by the session word of
\* the header, else by the port, else by host and login name.
Found(s, e) ==
    LET here == {t \in Logins : HasRow(t) /\ handoff[t].at = e}
    IN  IF Header(s, e) # None /\ HasRow(Header(s, e)) THEN {Header(s, e)}
        ELSE IF here # {} THEN here
        ELSE {t \in {s} : HasRow(t)}

\* A fault: a session that lives on is kept although the login is a new one.
NewLoginOnlyIfGone(t) == ~Registry!Known(game, t)

\* The runtime session of t is not one of its handoff's login.
NewLogin(t) == ~Registry!Known(game, t) \/ gameSerial[t] # handoff[t].serial

\* handle_login_to_kics from port e, for the handoff found: the session that
\* e stood for ends, with its handoff; a new login gets a runtime session that
\* continues the bootstrap's numbering.
KicsLogin(s, e) ==
    /\ console[s].phase \in {"kics", "playing"}
    /\ e \in FreePorts(s)
    /\ \E t \in Found(s, e), received \in BOOLEAN :
        LET stale == Registry!GetByEndpoint(Followed(s, e), e)
            n     == (IF NewLogin(t) THEN handoff[t].number ELSE gameNumber[t]) + 1
        IN  /\ n <= MaxNumber
            /\ game' = Registry!LoggedIn(Followed(s, e), t, e, handoff[t].at, NewLogin(t))
            /\ gameSerial' = IF NewLogin(t) THEN [gameSerial EXCEPT ![t] = handoff[t].serial]
                             ELSE gameSerial
            /\ gameNumber' = [gameNumber EXCEPT ![t] = n]
            /\ handoff' = Without(handoff, {stale} \ {t})
            /\ received => n >= console[s].last
            /\ Answered(s, received,
                   [console[s] EXCEPT !.phase = "playing", !.port = e, !.last = n, !.session = t])
    /\ UNCHANGED <<serial, bootstrapVars, gameRestarts>>

\* A NAT gives a console that plays another port.
PortChange(s) ==
    /\ console[s].phase = "playing"
    /\ \E e \in FreePorts(s) :
        /\ game' = Followed(s, e)
        /\ console' = [console EXCEPT ![s].port = e]
    /\ UNCHANGED <<storeVars, bootstrapVars, gameNumber, gameSerial, gameRestarts>>

\* An unreliable packet of the game server; the console drops one numbered
\* below the last it accepted.
GameSend(s) ==
    /\ Registry!Known(game, s)
    /\ gameNumber[s] < MaxNumber
    /\ gameNumber' = [gameNumber EXCEPT ![s] = @ + 1]
    /\ console' \in {console} \cup
           {[console EXCEPT ![c].last = gameNumber[s] + 1] :
               c \in {c \in Logins : /\ console[c].phase = "playing"
                                     /\ console[c].session = s
                                     /\ console[c].last <= gameNumber[s] + 1}}
    /\ UNCHANGED <<storeVars, bootstrapVars, game, gameSerial, gameRestarts>>

\* _end_session, on idle time or a transport timeout.
GameEnd(s) ==
    /\ MayGiveUp(s)
    /\ Registry!Known(game, s)
    /\ game' = Registry!Remove(game, s)
    /\ handoff' = Without(handoff, {s})
    /\ UNCHANGED <<console, serial, bootstrapVars, gameNumber, gameSerial, gameRestarts>>

GameRestart ==
    /\ gameRestarts < MaxGameRestarts
    /\ gameRestarts' = gameRestarts + 1
    /\ game' = [endpoint |-> [s \in Logins |-> None], at |-> [e \in Endpoints |-> None]]
    /\ UNCHANGED <<console, storeVars, bootstrapVars, gameNumber, gameSerial>>

-----------------------------------------------------------------------------
Init ==
    /\ console = [s \in Logins |->
           [phase |-> "off", port |-> None, last |-> 0, session |-> None, serial |-> 0]]
    /\ serial = 0
    /\ handoff = [s \in Logins |-> None]
    /\ issuing = None
    /\ boot = [endpoint |-> [s \in Logins |-> None], at |-> [e \in Endpoints |-> None]]
    /\ bootNumber = [s \in Logins |-> 0]
    /\ owed = {}
    /\ Registry!Empty
    /\ gameNumber = [s \in Logins |-> 0]
    /\ gameSerial = [s \in Logins |-> 0]
    /\ gameRestarts = 0

Next ==
    \/ \E s \in Logins :
        \/ PowerOn(s) \/ PowerOff(s)
        \/ IssueDelete(s) \/ BootstrapCheck(s) \/ BootstrapCheckFails(s)
        \/ Settled(s) \/ ForgetIdle(s) \/ BootstrapTimeout(s)
        \/ \E e \in EndpointsOf[s] : KicsLogin(s, e)
        \/ PortChange(s) \/ GameSend(s) \/ GameEnd(s)
    \/ IssueInsert \/ BootstrapRestart \/ GameRestart

Spec == Init /\ [][Next]_vars

\* The servers handle what arrives, the console asks again until it is
\* answered, and of its requests and their answers not all are lost.
Fairness ==
    /\ WF_vars(IssueInsert)
    /\ SF_vars(IssueInsert /\ console' # console)
    /\ \A s \in Logins :
        /\ SF_vars(IssueDelete(s))
        /\ SF_vars(BootstrapCheck(s) /\ console' # console)
        /\ WF_vars(BootstrapCheckFails(s))
        /\ \A e \in EndpointsOf[s] :
            SF_vars(KicsLogin(s, e) /\ console[s].phase = "kics" /\ console' # console)

FairSpec == Spec /\ Fairness

-----------------------------------------------------------------------------
(***************************************************************************)
(* Properties.                                                             *)
(***************************************************************************)

\* "Record a new login, replacing earlier handoffs of the session or
\* endpoint" (storage/interfaces.py:53): a port never stands for two logins.
OneHandoffPerPort ==
    \A s, t \in Logins :
        (HasRow(s) /\ HasRow(t) /\ handoff[s].at = handoff[t].at) => s = t

\* A console that was told its login succeeded finds this login's handoff at
\* the game server, whatever the bootstrap forgets or restarts in between.
LoginKeepsHandoff ==
    \A s \in Logins : console[s].phase = "kics" =>
        HasRow(s) /\ handoff[s].serial = console[s].serial

\* The console drops unreliable packets numbered below the last one it
\* accepted, "so the game server continues unreliable numbering"
\* (core/sessions.py:65-68): whatever the handoff or the runtime session of
\* its login gives out next, it accepts.
NumbersContinue ==
    \A s \in Logins :
        /\ (console[s].phase = "kics" /\ HasRow(s) /\ handoff[s].serial = console[s].serial)
                => handoff[s].number >= console[s].last
        /\ (/\ console[s].phase = "playing"
            /\ console[s].session = s
            /\ Registry!Known(game, s)
            /\ gameSerial[s] = console[s].serial)
                => gameNumber[s] >= console[s].last

\* A console that plays is never served by the runtime session of an earlier
\* login of its account.
OwnLoginServed ==
    \A s \in Logins :
        (console[s].phase = "playing" /\ console[s].session = s /\ Registry!Known(game, s))
            => gameSerial[s] = console[s].serial

\* _end_session removes "one session with its plugin, room and handoff state"
\* (core/engine.py:432): ending a session removes no other login's handoff.  The
\* code breaks it: it deletes by session id, which the account's next login has too.
EndKeepsNewerHandoff ==
    [][\A s \in Logins : GameEnd(s) /\ HasRow(s) => handoff[s].serial = gameSerial[s]]_vars

\* find_handoff finds "the bootstrap login that one kkLoginToKICS continues"
\* (core/game/handlers.py:140): nobody enters as another account.  The code breaks
\* it where accounts share a host: the port's handoff is taken before the name's.
OwnSession ==
    \A s \in Logins : console[s].session \in {None, s}

\* Everyone who switches on gets in, unless it is switched off, its login
\* fails, or a counter reaches its bound.
AtBound(s) == serial = MaxSerial \/ MaxNumber \in {bootNumber[s], gameNumber[s]}

LoginCompletes ==
    \A s \in Logins :
        console[s].phase = "login" ~> (console[s].phase \in {"playing", "off"} \/ AtBound(s))

\* The login of a console that no other one shares its ports with: its handoff is there
\* when the game asks, the numbers go on from it, and it is served its own login
\* (bootstrap/handlers.py, core/game/handlers.py:100-190).
LoginInv ==
  /\ TypeOK
  /\ LoginKeepsHandoff
  /\ NumbersContinue
  /\ OwnLoginServed

=============================================================================

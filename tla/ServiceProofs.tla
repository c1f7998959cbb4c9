----------------------------- MODULE ServiceProofs -----------------------------
(***************************************************************************)
(* The services around the game servers: the handoff of a login, the       *)
(* accounts it checks, the announcements, and the companions with the      *)
(* tables they share.                                                      *)
(*                                                                         *)
(* Login.  The handoff table of the shared store never holds two logins of *)
(* one port, for every number of logins and ports and whatever is lost,    *)
(* restarted or given up between the DELETE and the INSERT of a login; and *)
(* a console on a host of its own gets in, as itself, with the numbering   *)
(* it expects.                                                             *)
(*                                                                         *)
(* Accounts.  That a code was accepted once says nothing of the requests   *)
(* that are still to be accepted.  What is inductive is that codes are     *)
(* fresh: no two accounts and no two requests have the same one, so a      *)
(* request that finds its new code in the account is the one whose update  *)
(* took place, and the code that it used is no account's any more.  On     *)
(* that rests which password a code stands for (PasswordInv): the one that *)
(* was accepted with it, that a verified login has still to store, and     *)
(* that the account has.                                                   *)
(*                                                                         *)
(* Announcements.  What the receiver has is compared with what was queued, *)
(* so the invariant (HookInv) says where each event is: still in the       *)
(* queue, in the worker's hand, or behind it.                              *)
(*                                                                         *)
(* Records.  Every row is what the log of its commits makes of it          *)
(* (RowsTold), whichever writer came last, and a writer that is to list a  *)
(* board has stored its submission (JobsStored).  LapsInv adds what a      *)
(* thread read as the best lap, CapcomInv how far each report has come:    *)
(* the submissions that wait no more are stored and listed (StoredSoFar).  *)
(*                                                                         *)
(* Menus.  A World's Lands are numbered from where the Worlds before it    *)
(* stopped, so the first one served here has the numbers from 1 on; the    *)
(* lists are folds, and the lemmas follow them World by World.             *)
(*                                                                         *)
(* Connection kinds.  A tracked login is active, waits, or its client's    *)
(* last phase is kept (Covered); each operation of the tracker keeps that, *)
(* so a thread that catches up with an old list, which forgets and arms    *)
(* logins one by one, keeps it too.                                        *)
(***************************************************************************)
EXTENDS Login, Accounts, Webhooks, CapcomApp, LapRankings, AppFlows, Directory,
        FiniteSetTheorems, SequenceTheorems, WellFoundedInduction, TLAPS

\* A row names the port of its login.
RowsNamePorts == \A s \in Logins : HasRow(s) => "at" \in DOMAIN handoff[s]

\* Between the DELETE and the INSERT the port of the login is free.
IssuedPortIsFree ==
    issuing # None => \A s \in Logins : HasRow(s) => handoff[s].at # issuing.at

HandoffInv ==
    /\ handoff = [s \in Logins |-> handoff[s]]
    /\ RowsNamePorts
    /\ OneHandoffPerPort
    /\ IssuedPortIsFree

\* Taking rows out of the table disturbs none of this while the bootstrap is at
\* the same login, or at none.
LEMMA RemovalKeepsHandoffs ==
    ASSUME HandoffInv, NEW gone,
           handoff' \in {handoff, Without(handoff, gone)},
           issuing' \in {issuing, None}
    PROVE  HandoffInv'
<1>1. /\ handoff' = [s \in Logins |-> handoff'[s]]
      /\ \A s \in Logins : handoff'[s] \in {handoff[s], None}
    BY DEF HandoffInv, Without
<1>2. \A s \in Logins : HasRow(s)' => HasRow(s) /\ handoff'[s] = handoff[s]
    BY <1>1 DEF HasRow
<1>3. RowsNamePorts' /\ OneHandoffPerPort'
    BY <1>2 DEF HandoffInv, RowsNamePorts, OneHandoffPerPort
<1>4. IssuedPortIsFree'
    BY <1>2 DEF HandoffInv, IssuedPortIsFree
<1>5. QED
    BY <1>1, <1>3, <1>4 DEF HandoffInv

\* The DELETE takes out every row of the port.
LEMMA DeleteFreesThePort ==
    ASSUME HandoffInv, NEW s \in Logins, IssueDelete(s)
    PROVE  HandoffInv'
<1> DEFINE gone == Replaced(s, console[s].port)
<1>1. handoff' = Without(handoff, gone) /\ issuing' = [login |-> s, at |-> console[s].port]
    BY DEF IssueDelete
<1>2. /\ handoff' = [t \in Logins |-> handoff'[t]]
      /\ \A t \in Logins : HasRow(t)' => t \notin gone /\ HasRow(t) /\ handoff'[t] = handoff[t]
    BY <1>1 DEF Without, HasRow
<1>3. RowsNamePorts' /\ OneHandoffPerPort'
    BY <1>2 DEF HandoffInv, RowsNamePorts, OneHandoffPerPort
<1>4. \A t \in Logins : HasRow(t)' => handoff'[t].at # console[s].port
    BY <1>2 DEF Replaced
<1>5. IssuedPortIsFree'
    BY <1>1, <1>4 DEF IssuedPortIsFree
<1>6. QED
    BY <1>2, <1>3, <1>5 DEF HandoffInv

\* The INSERT takes the port that the DELETE has freed.
LEMMA InsertTakesTheFreePort ==
    ASSUME HandoffInv, IssueInsert
    PROVE  HandoffInv'
<1> DEFINE s == issuing.login
<1>1. issuing # None /\ issuing' = None
    BY DEF IssueInsert
<1>2. PICK n : handoff' =
          [handoff EXCEPT ![s] = [serial |-> serial + 1, at |-> issuing.at, number |-> n]]
    BY DEF IssueInsert
<1>3. /\ handoff' = [t \in Logins |-> handoff'[t]]
      /\ \A t \in Logins \ {s} : handoff'[t] = handoff[t]
      /\ s \in Logins => "at" \in DOMAIN handoff'[s] /\ handoff'[s].at = issuing.at
    BY <1>2 DEF HandoffInv
<1>4. RowsNamePorts'
    BY <1>3 DEF HandoffInv, RowsNamePorts, HasRow
<1>5. OneHandoffPerPort'
    BY <1>1, <1>3 DEF HandoffInv, OneHandoffPerPort, IssuedPortIsFree, HasRow
<1>6. IssuedPortIsFree'
    BY <1>1 DEF IssuedPortIsFree
<1>7. QED
    BY <1>3, <1>4, <1>5, <1>6 DEF HandoffInv

\* set_sequence writes the number of a row that is there, not its port.
LEMMA CheckWritesTheNumber ==
    ASSUME HandoffInv, NEW s \in Logins, BootstrapCheck(s)
    PROVE  HandoffInv'
<1>1. issuing = None /\ issuing' = None
    BY DEF BootstrapCheck
<1>2. PICK t, n : \/ HasRow(t) /\ handoff' = [handoff EXCEPT ![t].number = n]
                  \/ handoff' = handoff
    BY DEF BootstrapCheck
<1>3. CASE HasRow(t) /\ handoff' = [handoff EXCEPT ![t].number = n]
    <2>1. /\ handoff' = [u \in Logins |-> handoff'[u]]
          /\ \A u \in Logins \ {t} : handoff'[u] = handoff[u]
          /\ t \in Logins => handoff'[t] = [handoff[t] EXCEPT !.number = n]
        BY <1>3 DEF HandoffInv
    <2>2. t \in Logins => "at" \in DOMAIN handoff'[t] /\ handoff'[t].at = handoff[t].at
        BY <1>3, <2>1 DEF HandoffInv, RowsNamePorts
    <2>3. \A u \in Logins : HasRow(u)' =>
              HasRow(u) /\ "at" \in DOMAIN handoff'[u] /\ handoff'[u].at = handoff[u].at
        BY <1>3, <2>1, <2>2 DEF HandoffInv, RowsNamePorts, HasRow
    <2>4. RowsNamePorts' /\ OneHandoffPerPort'
        BY <2>3 DEF HandoffInv, RowsNamePorts, OneHandoffPerPort
    <2>5. QED
        BY <1>1, <2>1, <2>4 DEF HandoffInv, IssuedPortIsFree
<1>4. CASE handoff' = handoff
    BY <1>1, <1>4, RemovalKeepsHandoffs
<1>5. QED
    BY <1>2, <1>3, <1>4

LEMMA HandoffStep ==
    ASSUME HandoffInv, [Next]_vars
    PROVE  HandoffInv'
<1>1. CASE UNCHANGED vars
    BY <1>1, RemovalKeepsHandoffs DEF vars, storeVars, bootstrapVars
<1>2. CASE \E s \in Logins : IssueDelete(s)
    BY <1>2, DeleteFreesThePort
<1>3. CASE IssueInsert
    BY <1>3, InsertTakesTheFreePort
<1>4. CASE \E s \in Logins : BootstrapCheck(s)
    BY <1>4, CheckWritesTheNumber
\* The other steps of the store only take rows out.
<1>5. CASE \E s \in Logins : BootstrapTimeout(s) \/ GameEnd(s)
    BY <1>5, RemovalKeepsHandoffs DEF BootstrapTimeout, GameEnd, bootstrapVars
<1>6. CASE \E s \in Logins : \E e \in EndpointsOf[s] : KicsLogin(s, e)
    <2>1. PICK s \in Logins : \E e \in EndpointsOf[s] : KicsLogin(s, e)
        BY <1>6
    <2>2. PICK e \in EndpointsOf[s] : KicsLogin(s, e)
        BY <2>1
    <2>3. PICK gone : handoff' = Without(handoff, gone)
        BY <2>2 DEF KicsLogin
    <2>4. issuing' = issuing
        BY <2>2 DEF KicsLogin, bootstrapVars
    <2>5. QED
        BY <2>3, <2>4, RemovalKeepsHandoffs
\* ... and the rest leave it alone.
<1>7. CASE \E s \in Logins :
               \/ PowerOn(s) \/ PowerOff(s) \/ BootstrapCheckFails(s) \/ Settled(s)
               \/ ForgetIdle(s) \/ PortChange(s) \/ GameSend(s)
    BY <1>7, RemovalKeepsHandoffs
       DEF PowerOn, PowerOff, BootstrapCheckFails, Settled, ForgetIdle, PortChange, GameSend,
           storeVars, bootstrapVars
<1>8. CASE BootstrapRestart \/ GameRestart
    BY <1>8, RemovalKeepsHandoffs DEF BootstrapRestart, GameRestart, storeVars, bootstrapVars
<1>9. QED
    BY <1>1, <1>2, <1>3, <1>4, <1>5, <1>6, <1>7, <1>8 DEF Next

\* A port never stands for two logins in the handoff table
\* (SqlSessionHandoffStore.issue, storage/sql.py).
THEOREM PortStandsForOneLogin == Spec => []OneHandoffPerPort
<1>1. Init => HandoffInv
    BY DEF Init, HandoffInv, RowsNamePorts, OneHandoffPerPort, IssuedPortIsFree, HasRow
<1>2. HandoffInv /\ [Next]_vars => HandoffInv'
    BY HandoffStep
<1>3. HandoffInv => OneHandoffPerPort
    BY DEF HandoffInv
<1>4. QED
    BY <1>1, <1>2, <1>3, PTL DEF Spec

-----------------------------------------------------------------------------
(***************************************************************************)
(* Logins on hosts of their own.                                           *)
(***************************************************************************)

\* No other account logs in from the ports of this one's host.
OwnHosts == \A s, t \in Logins : s # t => EndpointsOf[s] \cap EndpointsOf[t] = {}

\* Everybody is at home: each session in r, whether it is known there or only bound.
RegistryAtHome(r) ==
    /\ r \in Registry!Registries
    /\ \A s \in Logins : Registry!Known(r, s) => r.endpoint[s] \in EndpointsOf[s]
    /\ \A e \in Endpoints : r.at[e] # None => e \in EndpointsOf[r.at[e]]

\* ... each console, its handoff and the login that is being issued.
AtHome ==
    /\ RegistryAtHome(boot)
    /\ RegistryAtHome(game)
    /\ \A s \in Logins :
        /\ console[s].port \in EndpointsOf[s] \cup {None}
        /\ console[s].phase # "off" => console[s].port # None
        /\ console[s].session \in {None, s}
        /\ HasRow(s) => handoff[s].at \in EndpointsOf[s]
    /\ issuing # None => issuing.at \in EndpointsOf[issuing.login]

\* A console whose handoff is being written has not got beyond its request.
IssuedWaits ==
    issuing # None => console[issuing.login].phase \in {"off", "login"} /\ serial < MaxSerial

\* What the two servers and the store know of the login that console s is at.
SerialsKnown(s) ==
    /\ HasRow(s) => handoff[s].serial <= serial
    /\ gameSerial[s] <= serial
    /\ console[s].phase \in {"check", "kics"} => HasRow(s)
    /\ (console[s].phase \in {"check", "kics", "playing"} /\ HasRow(s))
            => handoff[s].serial = console[s].serial
    /\ console[s].phase = "check" => gameSerial[s] < console[s].serial
    /\ console[s].phase = "playing" => gameSerial[s] = console[s].serial

\* What they number their next packet with is not below what console s accepted.
NumbersKnown(s) ==
    /\ console[s].phase = "check" => bootNumber[s] >= console[s].last
    /\ console[s].phase = "kics" =>
        /\ handoff[s].number >= console[s].last
        /\ gameSerial[s] = console[s].serial => gameNumber[s] >= console[s].last
    /\ (MaxGameRestarts = 0 /\ console[s].phase = "playing") =>
        /\ gameNumber[s] >= console[s].last
        /\ HasRow(s) => Registry!Known(game, s)

ServedInv ==
    /\ TypeOK
    /\ AtHome
    /\ IssuedWaits
    /\ \A s \in Logins : SerialsKnown(s) /\ NumbersKnown(s)

LEMMA RegistryEmptyAtHome ==
    ASSUME NEW r, r = [endpoint |-> [s \in Logins |-> None], at |-> [e \in Endpoints |-> None]]
    PROVE  RegistryAtHome(r)
    BY LoginAssumption DEF RegistryAtHome, Registry!Registries, Registry!Known

LEMMA AdoptAtHome ==
    ASSUME OwnHosts, NEW r, RegistryAtHome(r), NEW s \in Logins, NEW e \in EndpointsOf[s]
    PROVE  /\ RegistryAtHome(Registry!Adopt(r, s, e))
           /\ Registry!Adopt(r, s, e).endpoint[s] = e
           /\ \A t \in Logins \ {s} : Registry!Adopt(r, s, e).endpoint[t] = r.endpoint[t]
    BY LoginAssumption
    DEF OwnHosts, RegistryAtHome, Registry!Registries, Registry!Known, Registry!Adopt, Registry!Unbind

LEMMA RebindAtHome ==
    ASSUME NEW r, RegistryAtHome(r), NEW s \in Logins, NEW e \in EndpointsOf[s]
    PROVE  /\ RegistryAtHome(Registry!Rebind(r, s, e))
           /\ Registry!Known(r, s) => Registry!Rebind(r, s, e).endpoint[s] = e
           /\ \A t \in Logins \ {s} : Registry!Rebind(r, s, e).endpoint[t] = r.endpoint[t]
    BY LoginAssumption
    DEF RegistryAtHome, Registry!Registries, Registry!Known, Registry!Rebind, Registry!Unbind

LEMMA FollowAtHome ==
    ASSUME NEW r, RegistryAtHome(r), NEW s \in Logins, NEW e \in EndpointsOf[s]
    PROVE  /\ RegistryAtHome(Registry!Follow(r, s, e))
           /\ \A t \in Logins : Registry!Known(r, t) => Registry!Known(Registry!Follow(r, s, e), t)
    BY RebindAtHome, LoginAssumption DEF Registry!Follow, Registry!Known

LEMMA RemoveAtHome ==
    ASSUME NEW r, RegistryAtHome(r), NEW s \in Logins
    PROVE  /\ RegistryAtHome(Registry!Remove(r, s))
           /\ \A t \in Logins \ {s} : Registry!Remove(r, s).endpoint[t] = r.endpoint[t]
    BY LoginAssumption
    DEF RegistryAtHome, Registry!Registries, Registry!Known, Registry!Remove, Registry!Unbind

\* A port of a host stands for nobody but its own login.
LEMMA PortAtHome ==
    ASSUME OwnHosts, NEW r, RegistryAtHome(r), NEW s \in Logins, NEW e \in EndpointsOf[s]
    PROVE  Registry!GetByEndpoint(r, e) \in {None, s}
    BY LoginAssumption DEF OwnHosts, RegistryAtHome, Registry!Registries, Registry!GetByEndpoint

LEMMA LoggedInAtHome ==
    ASSUME OwnHosts, NEW r, RegistryAtHome(r), NEW s \in Logins,
           NEW e \in EndpointsOf[s], NEW h \in EndpointsOf[s], NEW newLogin \in BOOLEAN
    PROVE  /\ RegistryAtHome(Registry!LoggedIn(r, s, e, h, newLogin))
           /\ Registry!Known(Registry!LoggedIn(r, s, e, h, newLogin), s)
           /\ \A t \in Logins : Registry!Known(r, t) =>
                  Registry!Known(Registry!LoggedIn(r, s, e, h, newLogin), t)
<1> DEFINE adopted == IF newLogin \/ ~Registry!Known(r, s) THEN Registry!Adopt(r, s, h) ELSE r
<1>1. /\ RegistryAtHome(adopted)
      /\ Registry!Known(adopted, s)
      /\ \A t \in Logins \ {s} : adopted.endpoint[t] = r.endpoint[t]
    BY AdoptAtHome, LoginAssumption DEF Registry!Known
<1>2. Registry!LoggedIn(r, s, e, h, newLogin)
          = IF adopted.endpoint[s] # e THEN Registry!Rebind(adopted, s, e) ELSE adopted
    BY PortAtHome DEF Registry!LoggedIn
<1> HIDE DEF adopted
<1>3. QED
    BY <1>1, <1>2, RebindAtHome, LoginAssumption DEF Registry!Known

\* Nothing that concerns login t has changed.
Undisturbed(t) ==
    /\ console'[t] = console[t]
    /\ handoff'[t] = handoff[t]
    /\ gameSerial'[t] = gameSerial[t]
    /\ bootNumber'[t] = bootNumber[t]
    /\ gameNumber'[t] = gameNumber[t]
    /\ Registry!Known(game, t) => Registry!Known(game', t)

LEMMA UndisturbedIsKnown ==
    ASSUME TypeOK, serial' \in Serials, serial <= serial',
           NEW t \in Logins, SerialsKnown(t), NumbersKnown(t), Undisturbed(t)
    PROVE  SerialsKnown(t)' /\ NumbersKnown(t)'
<1>1. /\ HasRow(t)' = HasRow(t)
      /\ HasRow(t) => handoff[t].serial \in Nat
      /\ gameSerial[t] \in Nat /\ serial \in Nat /\ serial' \in Nat
    BY LoginAssumption DEF TypeOK, HasRow, Undisturbed, Rows, Serials
<1>2. SerialsKnown(t)'
    BY <1>1 DEF SerialsKnown, Undisturbed
<1>3. NumbersKnown(t)'
    BY <1>1 DEF NumbersKnown, Undisturbed
<1>4. QED
    BY <1>2, <1>3

\* What the rest of a proof needs of the types.
LEMMA Typed ==
    ASSUME TypeOK
    PROVE  /\ serial \in Nat
           /\ \A s \in Logins :
                /\ console[s] \in Consoles
                /\ console[s].last \in Nat /\ console[s].serial \in Nat
                /\ HasRow(s) => /\ handoff[s] \in Rows
                                /\ handoff[s].serial \in Nat /\ handoff[s].number \in Nat
                /\ gameSerial[s] \in Nat /\ gameNumber[s] \in Nat /\ bootNumber[s] \in Nat
           /\ issuing # None => issuing.login \in Logins /\ issuing.at \in Endpoints
    BY LoginAssumption DEF TypeOK, Consoles, Serials, Numbers, HasRow, Rows

-----------------------------------------------------------------------------
(***************************************************************************)
(* The console.                                                            *)
(***************************************************************************)

LEMMA PowerOnServed ==
    ASSUME ServedInv, NEW s \in Logins, PowerOn(s)
    PROVE  ServedInv'
<1>1. PICK e \in EndpointsOf[s] : console' = [console EXCEPT ![s] =
            [phase |-> "login", port |-> e, last |-> 0, session |-> None, serial |-> 0]]
    BY DEF PowerOn, FreePorts
<1>2. /\ e \in Endpoints /\ e # None
      /\ console'[s] = [phase |-> "login", port |-> e, last |-> 0, session |-> None, serial |-> 0]
      /\ \A t \in Logins \ {s} : console'[t] = console[t]
    BY <1>1, LoginAssumption DEF ServedInv, TypeOK
<1>3. UNCHANGED <<storeVars, bootstrapVars, gameVars>>
    BY DEF PowerOn
<1>4. TypeOK'
    <2>1. console'[s] \in Consoles
        BY <1>2, LoginAssumption DEF Consoles, Numbers, Serials
    <2>2. QED
        BY <1>1, <1>3, <2>1 DEF ServedInv, TypeOK, storeVars, bootstrapVars, gameVars
<1>5. AtHome' /\ IssuedWaits'
    BY <1>2, <1>3, Typed DEF ServedInv, AtHome, IssuedWaits, HasRow, storeVars, bootstrapVars, gameVars
<1>6. SerialsKnown(s)' /\ NumbersKnown(s)'
    BY <1>2, <1>3 DEF ServedInv, SerialsKnown, NumbersKnown, HasRow, storeVars, bootstrapVars, gameVars
<1>7. ASSUME NEW t \in Logins \ {s}
      PROVE  SerialsKnown(t)' /\ NumbersKnown(t)'
    BY <1>2, <1>3, Typed, UndisturbedIsKnown
       DEF ServedInv, TypeOK, Undisturbed, storeVars, bootstrapVars, gameVars
<1>8. QED
    BY <1>4, <1>5, <1>6, <1>7 DEF ServedInv

\* A console that goes off, from wherever it was.
LEMMA GoingOffServed ==
    ASSUME ServedInv, NEW s \in Logins,
           console' = [console EXCEPT ![s].phase = "off"],
           UNCHANGED <<storeVars, bootstrapVars, gameVars>>
    PROVE  ServedInv'
<1>1. /\ console'[s] = [console[s] EXCEPT !.phase = "off"]
      /\ console'[s].phase = "off"
      /\ console'[s].port = console[s].port /\ console'[s].session = console[s].session
      /\ \A t \in Logins \ {s} : console'[t] = console[t]
      /\ console' \in [Logins -> Consoles]
    BY DEF ServedInv, TypeOK, Consoles
<1>2. TypeOK'
    BY <1>1 DEF ServedInv, TypeOK, storeVars, bootstrapVars, gameVars
<1>3. AtHome' /\ IssuedWaits'
    BY <1>1, Typed DEF ServedInv, AtHome, IssuedWaits, HasRow, storeVars, bootstrapVars, gameVars
<1>4. SerialsKnown(s)' /\ NumbersKnown(s)'
    BY <1>1 DEF ServedInv, SerialsKnown, NumbersKnown, HasRow, storeVars, bootstrapVars, gameVars
<1>5. ASSUME NEW t \in Logins \ {s}
      PROVE  SerialsKnown(t)' /\ NumbersKnown(t)'
    BY <1>1, Typed, UndisturbedIsKnown
       DEF ServedInv, TypeOK, Undisturbed, storeVars, bootstrapVars, gameVars
<1>6. QED
    BY <1>2, <1>3, <1>4, <1>5 DEF ServedInv

-----------------------------------------------------------------------------
(***************************************************************************)
(* The bootstrap.                                                          *)
(***************************************************************************)

\* The DELETE takes out the login's own row at most.
LEMMA IssueDeleteServed ==
    ASSUME OwnHosts, ServedInv, NEW s \in Logins, IssueDelete(s)
    PROVE  ServedInv'
<1> DEFINE e == console[s].port
<1>1. /\ console[s].phase = "login" /\ e \in EndpointsOf[s] /\ e \in Endpoints
      /\ issuing' = [login |-> s, at |-> e] /\ issuing'.login = s /\ issuing'.at = e
      /\ serial < MaxSerial
      /\ UNCHANGED <<console, serial, boot, bootNumber, owed, gameVars>>
    BY LoginAssumption DEF IssueDelete, ServedInv, AtHome
<1>2. \A t \in Logins : t \in Replaced(s, e) => t = s
    BY <1>1 DEF Replaced, OwnHosts, ServedInv, AtHome
<1>3. /\ handoff' = [t \in Logins |-> IF t \in Replaced(s, e) THEN None ELSE handoff[t]]
      /\ s \in Replaced(s, e)
    BY DEF IssueDelete, Without, Replaced
<1>4. /\ handoff'[s] = None
      /\ \A t \in Logins \ {s} : handoff'[t] = handoff[t]
    BY <1>2, <1>3
<1>5. TypeOK'
    BY <1>1, <1>3 DEF ServedInv, TypeOK, gameVars
<1>6. AtHome' /\ IssuedWaits'
    BY <1>1, <1>4 DEF ServedInv, AtHome, IssuedWaits, HasRow, gameVars
<1>7. SerialsKnown(s)' /\ NumbersKnown(s)'
    BY <1>1, <1>4 DEF ServedInv, SerialsKnown, NumbersKnown, HasRow, gameVars
<1>8. ASSUME NEW t \in Logins \ {s}
      PROVE  SerialsKnown(t)' /\ NumbersKnown(t)'
    BY <1>1, <1>4, Typed, UndisturbedIsKnown DEF ServedInv, TypeOK, Undisturbed, gameVars
<1>9. QED
    BY <1>5, <1>6, <1>7, <1>8 DEF ServedInv

\* The INSERT gives its console a row of a serial that no server has seen.
LEMMA IssueInsertServed ==
    ASSUME OwnHosts, ServedInv, IssueInsert, NEW s, s = issuing.login
    PROVE  ServedInv'
<1>1. PICK kage \in BOOLEAN, reliable \in BOOLEAN, received \in BOOLEAN :
        LET n == IF reliable THEN 0 ELSE 1
        IN  /\ serial' = serial + 1
            /\ handoff' = [handoff EXCEPT ![s] =
                   [serial |-> serial + 1, at |-> issuing.at, number |-> IF kage THEN n ELSE 0]]
            /\ boot' = Registry!Adopt(boot, s, issuing.at)
            /\ bootNumber' = [bootNumber EXCEPT ![s] = n]
            /\ owed' \in IF reliable THEN {owed, owed \cup {s}} ELSE {owed}
            /\ received => console[s].phase = "login" /\ console[s].port = issuing.at
            /\ Answered(s, received,
                   [console[s] EXCEPT !.phase = IF kage THEN "kics" ELSE "check",
                                      !.last = n, !.serial = serial + 1])
    BY DEF IssueInsert
<1> DEFINE n == IF reliable THEN 0 ELSE 1
           next == [console[s] EXCEPT !.phase = IF kage THEN "kics" ELSE "check",
                                      !.last = n, !.serial = serial + 1]
<1>2. /\ issuing # None /\ issuing' = None /\ UNCHANGED gameVars
      /\ s \in Logins /\ issuing.at \in EndpointsOf[s] /\ issuing.at \in Endpoints
      /\ console[s].phase \in {"off", "login"}
      /\ serial < MaxSerial
    BY Typed DEF IssueInsert, ServedInv, AtHome, IssuedWaits
<1>3. n \in {0, 1} /\ n \in Numbers /\ serial + 1 \in Serials /\ serial \in Nat
    BY <1>2, Typed, LoginAssumption DEF ServedInv, Numbers, Serials
<1>4. /\ handoff'[s] = [serial |-> serial + 1, at |-> issuing.at, number |-> IF kage THEN n ELSE 0]
      /\ \A t \in Logins \ {s} : handoff'[t] = handoff[t]
      /\ handoff' \in [Logins -> Rows \cup {None}]
      /\ handoff'[s] # None
    BY <1>1, <1>2, <1>3, LoginAssumption DEF ServedInv, TypeOK, Rows, Numbers, Serials
<1>5. /\ bootNumber'[s] = n
      /\ \A t \in Logins \ {s} : bootNumber'[t] = bootNumber[t]
      /\ bootNumber' \in [Logins -> Numbers]
    BY <1>1, <1>2, <1>3 DEF ServedInv, TypeOK
<1> HIDE DEF n
<1>6. next \in Consoles
    <2>1. console[s] \in Consoles /\ (IF kage THEN "kics" ELSE "check") \in {"kics", "check"}
        BY <1>2 DEF ServedInv, TypeOK
    <2>2. QED
        BY <1>3, <2>1 DEF Consoles
<1>7. /\ console' \in [Logins -> Consoles]
      /\ \A t \in Logins \ {s} : console'[t] = console[t]
      /\ \/ console'[s] = console[s]
         \/ console'[s] = next
    BY <1>1, <1>2, <1>6 DEF Answered, ServedInv, TypeOK, n
<1>8. /\ next.phase = (IF kage THEN "kics" ELSE "check")
      /\ next.last = n /\ next.serial = serial + 1
      /\ next.port = console[s].port /\ next.session = console[s].session
    BY <1>2 DEF ServedInv, TypeOK, Consoles
<1>9. /\ RegistryAtHome(boot')
      /\ boot' \in Registry!Registries
    BY <1>1, <1>2, AdoptAtHome DEF ServedInv, AtHome, RegistryAtHome
<1>10. TypeOK'
    BY <1>1, <1>2, <1>3, <1>4, <1>5, <1>7, <1>9 DEF ServedInv, TypeOK, gameVars
<1> HIDE DEF next
<1>11. AtHome' /\ IssuedWaits'
    <2>1. /\ console'[s].port = console[s].port /\ console'[s].session = console[s].session
          /\ console'[s].phase # "off" => console[s].phase # "off"
        BY <1>1, <1>2, <1>7, <1>8 DEF n, next, Answered
    <2>2. QED
        BY <1>2, <1>4, <1>7, <1>9, <2>1 DEF ServedInv, AtHome, IssuedWaits, HasRow, gameVars
<1>12. serial' = serial + 1
    BY <1>1
<1>13. SerialsKnown(s)'
    BY <1>2, <1>3, <1>4, <1>7, <1>8, <1>12, Typed DEF ServedInv, SerialsKnown, HasRow, gameVars
<1>14. NumbersKnown(s)'
    BY <1>2, <1>3, <1>4, <1>5, <1>7, <1>8, Typed DEF ServedInv, SerialsKnown, NumbersKnown, HasRow, gameVars
<1>15. ASSUME NEW t \in Logins \ {s}
       PROVE  SerialsKnown(t)' /\ NumbersKnown(t)'
    BY <1>2, <1>3, <1>4, <1>5, <1>7, <1>12, UndisturbedIsKnown
       DEF ServedInv, TypeOK, Undisturbed, gameVars
<1>16. QED
    BY <1>2, <1>10, <1>11, <1>13, <1>14, <1>15 DEF ServedInv

\* The session at the console's port is its own, so it is told and handed over
\* the number of its own answer.
LEMMA BootstrapCheckServed ==
    ASSUME OwnHosts, ServedInv, NEW s \in Logins, BootstrapCheck(s)
    PROVE  ServedInv'
<1> DEFINE e == console[s].port
<1>1. /\ console[s].phase = "check" /\ e \in EndpointsOf[s]
      /\ issuing = None
      /\ HasRow(s)
      /\ UNCHANGED <<serial, issuing, boot, gameVars>>
    BY DEF BootstrapCheck, ServedInv, AtHome, SerialsKnown
<1>2. Registry!GetByEndpoint(boot, e) = s
    BY <1>1, PortAtHome DEF BootstrapCheck, ServedInv, AtHome
<1>3. PICK reliable \in BOOLEAN, received \in BOOLEAN :
         LET n == bootNumber[s] + IF reliable THEN 0 ELSE 1
         IN  /\ n <= MaxNumber
             /\ bootNumber' = [bootNumber EXCEPT ![s] = n]
             /\ handoff' = [handoff EXCEPT ![s].number = n]
             /\ owed' \in IF reliable THEN {owed, owed \cup {s}} ELSE {owed}
             /\ Answered(s, received, [console[s] EXCEPT !.phase = "kics", !.last = n])
    BY <1>1, <1>2 DEF BootstrapCheck, HandedOver
<1> DEFINE n == bootNumber[s] + IF reliable THEN 0 ELSE 1
           next == [console[s] EXCEPT !.phase = "kics", !.last = n]
<1>4. n \in Numbers /\ n \in Nat /\ n >= bootNumber[s]
    BY <1>3, Typed, LoginAssumption DEF ServedInv, Numbers
<1> HIDE DEF n
<1>5. /\ handoff[s] \in Rows
      /\ handoff'[s] = [handoff[s] EXCEPT !.number = n]
      /\ \A t \in Logins \ {s} : handoff'[t] = handoff[t]
    BY <1>1, <1>3, Typed DEF ServedInv, TypeOK, n
<1>6. /\ handoff'[s] \in Rows /\ handoff'[s] # None
      /\ handoff'[s].number = n /\ handoff'[s].at = handoff[s].at
      /\ handoff'[s].serial = handoff[s].serial
    BY <1>4, <1>5, LoginAssumption DEF Rows, Serials, Numbers
<1>7. handoff' \in [Logins -> Rows \cup {None}]
    BY <1>3, <1>5, <1>6 DEF ServedInv, TypeOK
<1>8. /\ bootNumber'[s] = n
      /\ \A t \in Logins \ {s} : bootNumber'[t] = bootNumber[t]
      /\ bootNumber' \in [Logins -> Numbers]
    BY <1>3, <1>4 DEF ServedInv, TypeOK, n
<1>9. /\ next \in Consoles
      /\ next.phase = "kics" /\ next.last = n /\ next.serial = console[s].serial
      /\ next.port = console[s].port /\ next.session = console[s].session
    BY <1>4 DEF ServedInv, TypeOK, Consoles
<1> HIDE DEF next
<1>10. /\ console' \in [Logins -> Consoles]
       /\ \A t \in Logins \ {s} : console'[t] = console[t]
       /\ console'[s] \in {console[s], next}
    BY <1>3, <1>9 DEF Answered, ServedInv, TypeOK, n, next
<1>11. TypeOK'
    BY <1>1, <1>3, <1>7, <1>8, <1>10 DEF ServedInv, TypeOK, gameVars
<1>12. AtHome' /\ IssuedWaits'
    <2>1. console'[s].port = e /\ console'[s].session = console[s].session
        BY <1>9, <1>10
    <2>2. e # None
        BY <1>1 DEF ServedInv, AtHome
    <2>3. HasRow(s)' => handoff'[s].at \in EndpointsOf[s]
        BY <1>1, <1>6 DEF ServedInv, AtHome, HasRow
    <2>4. \A t \in Logins \ {s} : HasRow(t)' => HasRow(t) /\ handoff'[t] = handoff[t]
        BY <1>5 DEF HasRow
    <2>5. AtHome'
        BY <1>1, <1>10, <2>1, <2>2, <2>3, <2>4 DEF ServedInv, AtHome, gameVars
    <2>6. QED
        BY <1>1, <2>5 DEF IssuedWaits
<1>13. SerialsKnown(s)'
    BY <1>1, <1>6, <1>9, <1>10 DEF ServedInv, SerialsKnown, HasRow, gameVars
<1>14. NumbersKnown(s)'
    <2>1. console[s].last \in Nat /\ bootNumber[s] \in Nat /\ bootNumber[s] >= console[s].last
        BY <1>1, Typed DEF ServedInv, NumbersKnown
    <2>2. gameSerial[s] \in Nat /\ console[s].serial \in Nat /\ gameSerial[s] < console[s].serial
        BY <1>1, Typed DEF ServedInv, SerialsKnown
    <2>3. QED
        BY <1>1, <1>4, <1>6, <1>8, <1>9, <1>10, <2>1, <2>2 DEF NumbersKnown, gameVars
<1>15. ASSUME NEW t \in Logins \ {s}
       PROVE  SerialsKnown(t)' /\ NumbersKnown(t)'
    BY <1>1, <1>5, <1>8, <1>10, Typed, UndisturbedIsKnown DEF ServedInv, TypeOK, Undisturbed, gameVars
<1>16. QED
    BY <1>11, <1>12, <1>13, <1>14, <1>15 DEF ServedInv

\* Whatever only takes rows of consoles that are off or play, and sessions of
\* the bootstrap, leaves the logins alone.
LEMMA BootstrapGivesUpServed ==
    ASSUME ServedInv, NEW s \in Logins,
           handoff' \in {handoff, Without(handoff, {s})},
           handoff' # handoff => console[s].phase \in {"off", "playing"},
           issuing' \in {issuing, None}, owed' \subseteq Logins, RegistryAtHome(boot'),
           UNCHANGED <<console, serial, bootNumber, gameVars>>
    PROVE  ServedInv'
<1>1. /\ \A t \in Logins : handoff'[t] \in {handoff[t], None}
      /\ handoff' \in [Logins -> Rows \cup {None}]
      /\ \A t \in Logins \ {s} : handoff'[t] = handoff[t]
      /\ console[s].phase \notin {"off", "playing"} => handoff'[s] = handoff[s]
    BY DEF Without, ServedInv, TypeOK
<1>2. TypeOK'
    BY <1>1 DEF ServedInv, TypeOK, RegistryAtHome, gameVars
<1>3. AtHome' /\ IssuedWaits'
    BY <1>1 DEF ServedInv, AtHome, IssuedWaits, HasRow, gameVars
<1>4. SerialsKnown(s)' /\ NumbersKnown(s)'
    BY <1>1 DEF ServedInv, SerialsKnown, NumbersKnown, HasRow, gameVars
<1>5. ASSUME NEW t \in Logins \ {s}
      PROVE  SerialsKnown(t)' /\ NumbersKnown(t)'
    BY <1>1, Typed, UndisturbedIsKnown DEF ServedInv, TypeOK, Undisturbed, gameVars
<1>6. QED
    BY <1>2, <1>3, <1>4, <1>5 DEF ServedInv

-----------------------------------------------------------------------------
(***************************************************************************)
(* The game server.                                                        *)
(***************************************************************************)

\* What a packet of s from e finds, and where it leads, is its own.
LEMMA FoundAtHome ==
    ASSUME OwnHosts, ServedInv, NEW s \in Logins, NEW e \in EndpointsOf[s]
    PROVE  /\ RegistryAtHome(Followed(s, e))
           /\ \A t \in Logins : Registry!Known(game, t) => Registry!Known(Followed(s, e), t)
           /\ Registry!GetByEndpoint(Followed(s, e), e) \in {None, s}
           /\ \A t \in Found(s, e) : t = s /\ HasRow(s)
<1>1. RegistryAtHome(game) /\ console[s].session \in {None, s}
    BY DEF ServedInv, AtHome
<1>2. /\ RegistryAtHome(Followed(s, e))
      /\ \A t \in Logins : Registry!Known(game, t) => Registry!Known(Followed(s, e), t)
    BY <1>1, FollowAtHome, LoginAssumption DEF Followed
<1>3. Header(s, e) \in {None, s}
    BY <1>1, PortAtHome DEF Header
<1>4. {t \in Logins : HasRow(t) /\ handoff[t].at = e} \subseteq {s}
    BY DEF OwnHosts, ServedInv, AtHome
<1>5. QED
    BY <1>2, <1>3, <1>4, PortAtHome DEF Found

\* The KICS login binds the runtime session to its handoff's serial and counts on.
LEMMA KicsLoginServed ==
    ASSUME OwnHosts, ServedInv, NEW s \in Logins, NEW e \in EndpointsOf[s], KicsLogin(s, e)
    PROVE  ServedInv'
<1>1. PICK t \in Found(s, e), received \in BOOLEAN :
        LET stale == Registry!GetByEndpoint(Followed(s, e), e)
            n     == (IF NewLogin(t) THEN handoff[t].number ELSE gameNumber[t]) + 1
        IN  /\ n <= MaxNumber
            /\ game' = Registry!LoggedIn(Followed(s, e), t, e, handoff[t].at, NewLogin(t))
            /\ gameSerial' = IF NewLogin(t) THEN [gameSerial EXCEPT ![t] = handoff[t].serial]
                             ELSE gameSerial
            /\ gameNumber' = [gameNumber EXCEPT ![t] = n]
            /\ handoff' = Without(handoff, {stale} \ {t})
            /\ received => n >= console[s].last
            /\ Answered(s, received,
                   [console[s] EXCEPT !.phase = "playing", !.port = e, !.last = n, !.session = t])
    BY DEF KicsLogin
<1>2. /\ t = s /\ HasRow(s)
      /\ Registry!GetByEndpoint(Followed(s, e), e) \in {None, s}
      /\ RegistryAtHome(Followed(s, e))
      /\ \A u \in Logins : Registry!Known(game, u) => Registry!Known(Followed(s, e), u)
    BY FoundAtHome
<1>3. /\ console[s].phase \in {"kics", "playing"}
      /\ UNCHANGED <<serial, bootstrapVars, gameRestarts>>
    BY DEF KicsLogin
<1>4. /\ handoff[s] \in Rows /\ handoff[s].at \in EndpointsOf[s]
      /\ handoff[s].serial = console[s].serial
      /\ e \in Endpoints /\ e # None /\ s # None
    BY <1>2, <1>3, Typed, LoginAssumption DEF ServedInv, AtHome, SerialsKnown
<1> DEFINE n == (IF NewLogin(s) THEN handoff[s].number ELSE gameNumber[s]) + 1
           next == [console[s] EXCEPT !.phase = "playing", !.port = e, !.last = n, !.session = s]
<1>5. NewLogin(s) \in BOOLEAN
    BY DEF NewLogin
<1>6. handoff' = handoff
    <2>1. \A u \in Logins : u \in {Registry!GetByEndpoint(Followed(s, e), e)} \ {s} => handoff[u] = None
        BY <1>2, LoginAssumption
    <2>2. handoff' = [u \in Logins |-> handoff[u]]
        BY <1>1, <1>2, <2>1 DEF Without
    <2>3. QED
        BY <2>2 DEF ServedInv, TypeOK
<1>7. /\ RegistryAtHome(game')
      /\ Registry!Known(game', s)
      /\ \A u \in Logins : Registry!Known(game, u) => Registry!Known(game', u)
    BY <1>1, <1>2, <1>4, <1>5, LoggedInAtHome
<1>8. /\ handoff[s].number \in Nat /\ gameNumber[s] \in Nat /\ n \in Nat
      /\ n <= MaxNumber /\ n \in Numbers
    BY <1>1, <1>2, Typed, LoginAssumption DEF ServedInv, Numbers
<1>9. n >= console[s].last \/ (console[s].phase = "playing" /\ MaxGameRestarts # 0)
    <2>1. console[s].last \in Nat
        BY Typed DEF ServedInv
    <2>2. CASE console[s].phase = "kics"
        BY <1>4, <1>8, <2>1, <2>2 DEF ServedInv, NumbersKnown, NewLogin
    <2>3. CASE console[s].phase = "playing" /\ MaxGameRestarts = 0
        <3>1. ~NewLogin(s)
            BY <1>2, <1>4, <2>3 DEF NewLogin, ServedInv, NumbersKnown, SerialsKnown
        <3>2. QED
            BY <1>8, <2>1, <2>3, <3>1 DEF ServedInv, NumbersKnown
    <2>4. QED
        BY <1>3, <2>2, <2>3
<1>10. /\ gameSerial'[s] = console[s].serial
       /\ \A u \in Logins \ {s} : gameSerial'[u] = gameSerial[u]
       /\ gameSerial' \in [Logins -> Serials]
    BY <1>1, <1>2, <1>4 DEF NewLogin, ServedInv, TypeOK, Rows
<1> HIDE DEF n
<1>11. /\ gameNumber'[s] = n
       /\ \A u \in Logins \ {s} : gameNumber'[u] = gameNumber[u]
       /\ gameNumber' \in [Logins -> Numbers]
    BY <1>1, <1>2, <1>8 DEF ServedInv, TypeOK, n
<1>12. /\ next \in Consoles
       /\ next.phase = "playing" /\ next.last = n /\ next.serial = console[s].serial
       /\ next.port = e /\ next.session = s
    BY <1>4, <1>8 DEF ServedInv, TypeOK, Consoles
<1> HIDE DEF next
<1>13. /\ console' \in [Logins -> Consoles]
       /\ \A u \in Logins \ {s} : console'[u] = console[u]
       /\ console'[s] \in {console[s], next}
       /\ console'[s] # console[s] => n >= console[s].last
    BY <1>1, <1>2, <1>12 DEF Answered, ServedInv, TypeOK, n, next
<1>14. TypeOK'
    BY <1>3, <1>6, <1>7, <1>10, <1>11, <1>13 DEF ServedInv, TypeOK, RegistryAtHome, bootstrapVars
<1>15. AtHome' /\ IssuedWaits'
    BY <1>3, <1>4, <1>6, <1>7, <1>12, <1>13, Typed
       DEF ServedInv, AtHome, IssuedWaits, HasRow, bootstrapVars
<1>16. SerialsKnown(s)'
    BY <1>2, <1>3, <1>4, <1>6, <1>10, <1>12, <1>13, Typed
       DEF ServedInv, SerialsKnown, HasRow
<1>17. NumbersKnown(s)'
    BY <1>3, <1>4, <1>6, <1>7, <1>8, <1>9, <1>10, <1>11, <1>12, <1>13, Typed
       DEF ServedInv, NumbersKnown, HasRow, bootstrapVars
<1>18. ASSUME NEW u \in Logins \ {s}
       PROVE  SerialsKnown(u)' /\ NumbersKnown(u)'
    BY <1>3, <1>6, <1>7, <1>10, <1>11, <1>13, Typed, UndisturbedIsKnown
       DEF ServedInv, TypeOK, Undisturbed, bootstrapVars
<1>19. QED
    BY <1>14, <1>15, <1>16, <1>17, <1>18 DEF ServedInv

LEMMA PortChangeServed ==
    ASSUME OwnHosts, ServedInv, NEW s \in Logins, PortChange(s)
    PROVE  ServedInv'
<1>1. PICK e \in FreePorts(s) : game' = Followed(s, e) /\ console' = [console EXCEPT ![s].port = e]
    BY DEF PortChange
<1>2. /\ e \in EndpointsOf[s] /\ e \in Endpoints /\ e # None
      /\ console[s].phase = "playing"
      /\ UNCHANGED <<storeVars, bootstrapVars, gameNumber, gameSerial, gameRestarts>>
    BY LoginAssumption DEF PortChange, FreePorts
<1>3. /\ RegistryAtHome(game')
      /\ \A u \in Logins : Registry!Known(game, u) => Registry!Known(game', u)
    BY <1>1, <1>2, FoundAtHome
<1>4. /\ console' \in [Logins -> Consoles]
      /\ \A u \in Logins \ {s} : console'[u] = console[u]
      /\ console'[s] = [console[s] EXCEPT !.port = e]
    BY <1>1, <1>2 DEF ServedInv, TypeOK, Consoles
<1>5. /\ console'[s].phase = "playing" /\ console'[s].last = console[s].last
      /\ console'[s].serial = console[s].serial /\ console'[s].session = console[s].session
      /\ console'[s].port = e
    BY <1>2, <1>4 DEF ServedInv, TypeOK, Consoles
<1>6. TypeOK'
    BY <1>2, <1>3, <1>4 DEF ServedInv, TypeOK, RegistryAtHome, storeVars, bootstrapVars
<1>7. AtHome' /\ IssuedWaits'
    BY <1>2, <1>3, <1>4, <1>5, Typed, ZenonT(40)
       DEF ServedInv, AtHome, IssuedWaits, HasRow, storeVars, bootstrapVars
<1>8. SerialsKnown(s)' /\ NumbersKnown(s)'
    BY <1>2, <1>3, <1>5 DEF ServedInv, SerialsKnown, NumbersKnown, HasRow, storeVars, bootstrapVars
<1>9. ASSUME NEW u \in Logins \ {s}
      PROVE  SerialsKnown(u)' /\ NumbersKnown(u)'
    BY <1>2, <1>3, <1>4, Typed, UndisturbedIsKnown
       DEF ServedInv, TypeOK, Undisturbed, storeVars, bootstrapVars
<1>10. QED
    BY <1>6, <1>7, <1>8, <1>9 DEF ServedInv

\* Its own console alone hears a session.
LEMMA GameSendServed ==
    ASSUME ServedInv, NEW s \in Logins, GameSend(s)
    PROVE  ServedInv'
<1> DEFINE n == gameNumber[s] + 1
<1>1. /\ n \in Numbers /\ n \in Nat /\ gameNumber[s] \in Nat
      /\ gameNumber' \in [Logins -> Numbers]
      /\ gameNumber'[s] = n
      /\ \A t \in Logins \ {s} : gameNumber'[t] = gameNumber[t]
      /\ UNCHANGED <<storeVars, bootstrapVars, game, gameSerial, gameRestarts>>
    BY Typed, LoginAssumption DEF GameSend, ServedInv, TypeOK, Numbers
<1>2. \/ console' = console
      \/ /\ console[s].phase = "playing" /\ console[s].session = s
         /\ console' = [console EXCEPT ![s].last = n]
    <2>1. PICK new \in {console} \cup
                   {[console EXCEPT ![c].last = gameNumber[s] + 1] :
                       c \in {c \in Logins : /\ console[c].phase = "playing"
                                             /\ console[c].session = s
                                             /\ console[c].last <= gameNumber[s] + 1}} : console' = new
        BY DEF GameSend
    <2>2. CASE console' # console
        <3>1. PICK c \in Logins : /\ console[c].phase = "playing" /\ console[c].session = s
                                  /\ console' = [console EXCEPT ![c].last = n]
            BY <2>1, <2>2
        <3>2. c = s
            BY <3>1, LoginAssumption DEF ServedInv, AtHome
        <3>3. QED
            BY <3>1, <3>2
    <2>3. QED
        BY <2>2
<1>3. /\ console' \in [Logins -> Consoles]
      /\ \A t \in Logins \ {s} : console'[t] = console[t]
      /\ \/ console'[s] = console[s]
         \/ console'[s] = [console[s] EXCEPT !.last = n] /\ console[s].phase = "playing"
    BY <1>1, <1>2 DEF ServedInv, TypeOK, Consoles
<1>4. /\ console'[s].phase = console[s].phase /\ console'[s].port = console[s].port
      /\ console'[s].serial = console[s].serial /\ console'[s].session = console[s].session
      /\ \/ console'[s].last = console[s].last
         \/ console'[s].last = n /\ console[s].phase = "playing"
    BY <1>3 DEF ServedInv, TypeOK, Consoles
<1> HIDE DEF n
<1>5. TypeOK'
    BY <1>1, <1>3 DEF ServedInv, TypeOK, storeVars, bootstrapVars
<1>6. AtHome' /\ IssuedWaits'
    BY <1>1, <1>3, <1>4, Typed DEF ServedInv, AtHome, IssuedWaits, HasRow, storeVars, bootstrapVars
<1>7. SerialsKnown(s)'
    BY <1>1, <1>4 DEF ServedInv, SerialsKnown, HasRow, storeVars, bootstrapVars
<1>8. NumbersKnown(s)'
    BY <1>1, <1>4, Typed DEF ServedInv, NumbersKnown, HasRow, storeVars, bootstrapVars, n
<1>9. ASSUME NEW t \in Logins \ {s}
      PROVE  SerialsKnown(t)' /\ NumbersKnown(t)'
    BY <1>1, <1>3, Typed, UndisturbedIsKnown
       DEF ServedInv, TypeOK, Undisturbed, storeVars, bootstrapVars
<1>10. QED
    BY <1>5, <1>6, <1>7, <1>8, <1>9 DEF ServedInv

\* An ended session takes the row of a console that is off or plays.
LEMMA GameEndServed ==
    ASSUME ServedInv, ~EndsDuringLogin, NEW s \in Logins, GameEnd(s)
    PROVE  ServedInv'
<1>1. /\ console[s].phase \in {"off", "playing"}
      /\ game' = Registry!Remove(game, s)
      /\ handoff' = [t \in Logins |-> IF t \in {s} THEN None ELSE handoff[t]]
      /\ UNCHANGED <<console, serial, bootstrapVars, gameNumber, gameSerial, gameRestarts>>
    BY DEF GameEnd, MayGiveUp, Without
<1>2. /\ RegistryAtHome(game')
      /\ \A t \in Logins \ {s} : game'.endpoint[t] = game.endpoint[t]
    BY <1>1, RemoveAtHome DEF ServedInv, AtHome
<1>3. /\ handoff'[s] = None
      /\ \A t \in Logins \ {s} : handoff'[t] = handoff[t]
      /\ handoff' \in [Logins -> Rows \cup {None}]
    BY <1>1 DEF ServedInv, TypeOK
<1>4. TypeOK'
    BY <1>1, <1>2, <1>3 DEF ServedInv, TypeOK, RegistryAtHome, bootstrapVars
<1>5. AtHome' /\ IssuedWaits'
    BY <1>1, <1>2, <1>3 DEF ServedInv, AtHome, IssuedWaits, HasRow, bootstrapVars
<1>6. SerialsKnown(s)' /\ NumbersKnown(s)'
    BY <1>1, <1>3 DEF ServedInv, SerialsKnown, NumbersKnown, HasRow
<1>7. ASSUME NEW t \in Logins \ {s}
      PROVE  SerialsKnown(t)' /\ NumbersKnown(t)'
    BY <1>1, <1>2, <1>3, Typed, UndisturbedIsKnown
       DEF ServedInv, TypeOK, Undisturbed, Registry!Known, bootstrapVars
<1>8. QED
    BY <1>4, <1>5, <1>6, <1>7 DEF ServedInv

LEMMA GameRestartServed ==
    ASSUME ServedInv, GameRestart
    PROVE  ServedInv'
<1>1. /\ RegistryAtHome(game')
      /\ UNCHANGED <<console, storeVars, bootstrapVars, gameNumber, gameSerial>>
      /\ MaxGameRestarts # 0
      /\ gameRestarts' \in 0 .. MaxGameRestarts
    BY RegistryEmptyAtHome, LoginAssumption DEF GameRestart, ServedInv, TypeOK
<1>2. TypeOK'
    BY <1>1 DEF ServedInv, TypeOK, RegistryAtHome, storeVars, bootstrapVars
<1>3. AtHome' /\ IssuedWaits'
    BY <1>1 DEF ServedInv, AtHome, IssuedWaits, HasRow, storeVars, bootstrapVars
<1>4. \A s \in Logins : SerialsKnown(s)' /\ NumbersKnown(s)'
    BY <1>1 DEF ServedInv, SerialsKnown, NumbersKnown, HasRow, storeVars, bootstrapVars
<1>5. QED
    BY <1>2, <1>3, <1>4 DEF ServedInv

-----------------------------------------------------------------------------
(***************************************************************************)
(* The theorems.                                                           *)
(***************************************************************************)

LEMMA ServedStep ==
    ASSUME OwnHosts, ~EndsDuringLogin, ServedInv, [Next]_vars
    PROVE  ServedInv'
<1>1. ASSUME NEW s \in Logins, PowerOff(s) \/ BootstrapCheckFails(s)
      PROVE  ServedInv'
    BY <1>1, GoingOffServed DEF PowerOff, BootstrapCheckFails
<1>2. ASSUME NEW s \in Logins, Settled(s)
      PROVE  ServedInv'
    BY <1>2, BootstrapGivesUpServed DEF Settled, ServedInv, TypeOK, AtHome, storeVars
<1>3. ASSUME NEW s \in Logins, ForgetIdle(s)
      PROVE  ServedInv'
    BY <1>3, BootstrapGivesUpServed, RemoveAtHome DEF ForgetIdle, ServedInv, TypeOK, AtHome, storeVars
<1>4. ASSUME NEW s \in Logins, BootstrapTimeout(s)
      PROVE  ServedInv'
    BY <1>4, BootstrapGivesUpServed, RemoveAtHome
       DEF BootstrapTimeout, MayGiveUp, ServedInv, TypeOK, AtHome
<1>5. CASE UNCHANGED vars \/ BootstrapRestart
    <2>1. /\ UNCHANGED <<console, storeVars, bootNumber, gameVars>>
          /\ issuing' \in {issuing, None} /\ owed' \subseteq Logins /\ RegistryAtHome(boot')
        BY <1>5, RegistryEmptyAtHome
           DEF BootstrapRestart, ServedInv, TypeOK, AtHome, vars, bootstrapVars
    <2>2. CASE Logins # {}
        BY <2>1, <2>2, BootstrapGivesUpServed DEF storeVars
    <2>3. CASE Logins = {}
        BY <2>1, <2>3 DEF ServedInv, TypeOK, AtHome, IssuedWaits, RegistryAtHome, storeVars, gameVars
    <2>4. QED
        BY <2>2, <2>3
<1>6. ASSUME NEW s \in Logins,
             PowerOn(s) \/ IssueDelete(s) \/ BootstrapCheck(s)
                 \/ PortChange(s) \/ GameSend(s) \/ GameEnd(s)
      PROVE  ServedInv'
    BY <1>6, PowerOnServed, IssueDeleteServed, BootstrapCheckServed, PortChangeServed,
       GameSendServed, GameEndServed
<1>7. ASSUME NEW s \in Logins, NEW e \in EndpointsOf[s], KicsLogin(s, e)
      PROVE  ServedInv'
    BY <1>7, KicsLoginServed
<1>8. CASE IssueInsert \/ GameRestart
    BY <1>8, IssueInsertServed, GameRestartServed
<1>9. QED
    BY <1>1, <1>2, <1>3, <1>4, <1>5, <1>6, <1>7, <1>8 DEF Next

LEMMA ServedInvariant ==
    ASSUME OwnHosts, ~EndsDuringLogin
    PROVE  Spec => []ServedInv
<1>1. Init => ServedInv
    <2> SUFFICES ASSUME Init PROVE ServedInv
        OBVIOUS
    <2>1. TypeOK /\ AtHome
        <3>1. /\ boot = [endpoint |-> [s \in Logins |-> None], at |-> [e \in Endpoints |-> None]]
              /\ game = [endpoint |-> [s \in Logins |-> None], at |-> [e \in Endpoints |-> None]]
            BY DEF Init, Registry!Empty
        <3>2. RegistryAtHome(boot) /\ RegistryAtHome(game)
            BY <3>1, RegistryEmptyAtHome
        <3>3. \A s \in Logins : console[s] \in Consoles
            <4>1. 0 \in Numbers /\ 0 \in Serials
                BY LoginAssumption DEF Numbers, Serials
            <4>2. [phase |-> "off", port |-> None, last |-> 0, session |-> None, serial |-> 0] \in Consoles
                BY <4>1 DEF Consoles
            <4>3. QED
                BY <4>2 DEF Init
        <3>4. TypeOK
            BY <3>2, <3>3, LoginAssumption DEF Init, TypeOK, RegistryAtHome, Numbers, Serials
        <3>5. AtHome
            BY <3>2, LoginAssumption DEF Init, AtHome, HasRow
        <3>6. QED
            BY <3>4, <3>5
    <2>2. IssuedWaits /\ \A s \in Logins : SerialsKnown(s) /\ NumbersKnown(s)
        BY DEF Init, IssuedWaits, SerialsKnown, NumbersKnown, HasRow
    <2>3. QED
        BY <2>1, <2>2 DEF ServedInv
<1>2. ServedInv /\ [Next]_vars => ServedInv'
    BY ServedStep
<1>3. QED
    BY <1>1, <1>2, PTL DEF Spec

\* Accounts on hosts of their own whose servers give no session up during a login:
\* a console that was told its login succeeded finds this login's handoff, and is never
\* served by an earlier one, whatever is lost and whichever server restarts when.
THEOREM LoginsAreServed ==
    ASSUME OwnHosts, ~EndsDuringLogin
    PROVE  Spec => [](LoginKeepsHandoff /\ OwnLoginServed)
<1>1. ServedInv => LoginKeepsHandoff /\ OwnLoginServed
    BY DEF ServedInv, SerialsKnown, LoginKeepsHandoff, OwnLoginServed
<1>2. QED
    BY <1>1, ServedInvariant, PTL

\* ... and its packets are never numbered below what it has accepted, as long as the
\* game server keeps its counters: the invariant of the login run.
THEOREM NumberingContinues ==
    ASSUME OwnHosts, ~EndsDuringLogin, MaxGameRestarts = 0
    PROVE  Spec => []LoginInv
<1>1. ServedInv => LoginInv
    BY Typed DEF ServedInv, SerialsKnown, NumbersKnown, LoginInv, LoginKeepsHandoff, OwnLoginServed,
                 NumbersContinue
<1>2. QED
    BY <1>1, ServedInvariant, PTL

-----------------------------------------------------------------------------
\* Accounts: no code is used twice.

HasAccount(n) == users[n] # NoAccount

\* A request between its UPDATE and its end.
Recovering(f) == forms[f].at \in {"update", "reread"}

\* Its update took place, and nobody has recovered the account since.
Won(f) == forms[f].at = "reread" /\ users[forms[f].name].code = forms[f].new

FormOK(x) ==
    /\ {"at", "name", "typed"} \subseteq DOMAIN x
    /\ x.name \in Usernames /\ x.typed \in Passwords
    /\ x.at \in {"find", "update", "reread"} =>
           {"code", "new"} \subseteq DOMAIN x /\ x.code \in 1 .. codes
    /\ x.at \in {"update", "reread"} => x.new \in 1 .. codes
    /\ x.at \in {"update", "reread", "key"} => HasAccount(x.name)

Types ==
    /\ users \in [Usernames -> Account \cup {NoAccount}]
    /\ codes \in 0 .. MaxCodes
    /\ spent \in [Codes -> Nat]
    /\ forms = [f \in Forms |-> forms[f]]
    /\ \A f \in Forms : forms[f].at # "idle" => FormOK(forms[f])
    /\ \A n \in Usernames : HasAccount(n) => users[n].code <= codes

\* No code is given out twice.
Fresh ==
    /\ \A n, m \in Usernames :
           HasAccount(n) /\ HasAccount(m) /\ users[n].code = users[m].code => n = m
    /\ \A f, g \in Forms :
           Recovering(f) /\ Recovering(g) /\ forms[f].new = forms[g].new => f = g
    /\ \A f \in Forms, n \in Usernames :
           Recovering(f) /\ HasAccount(n) /\ users[n].code = forms[f].new =>
               forms[f].at = "reread" /\ n = forms[f].name

\* No request was accepted for this code, and none is about to be.
Unused(c) ==
    /\ spent[c] = 0
    /\ \A f \in Forms : Won(f) => forms[f].code # c

\* A code is used once: those that can still be used have not been.
UsedUp ==
    /\ \A n \in Usernames : HasAccount(n) => Unused(users[n].code)
    /\ \A f \in Forms : forms[f].at = "update" => Unused(forms[f].new)
    /\ \A c \in Codes : c > codes => Unused(c)
    /\ \A f \in Forms : Won(f) => spent[forms[f].code] = 0
    /\ \A f, g \in Forms : Won(f) /\ Won(g) /\ forms[f].code = forms[g].code => f = g

RecoveryInv == Types /\ Fresh /\ UsedUp /\ OneRecoveryPerCode

-----------------------------------------------------------------------------
\* A request that goes on, or ends, without touching the accounts: another is
\* at the same statement as before.
LEMMA FormMoves ==
    ASSUME RecoveryInv, NEW f \in Forms, NEW x,
           forms' = [forms EXCEPT ![f] = x],
           x.at = "idle" \/ FormOK(x), x.at \notin {"update", "reread"},
           UNCHANGED <<users, codes, spent>>
    PROVE  RecoveryInv'
<1>1. /\ \A g \in Forms : forms'[g] = IF g = f THEN x ELSE forms[g]
      /\ forms' = [g \in Forms |-> forms'[g]]
    BY DEF RecoveryInv, Types
<1>2. Types'
    BY <1>1 DEF RecoveryInv, Types, FormOK, HasAccount
<1>3. \A g \in Forms : (Recovering(g)' => g # f) /\ (Won(g)' => Won(g) /\ g # f)
    BY <1>1 DEF Recovering, Won
<1>4. Fresh'
    BY <1>1, <1>3 DEF RecoveryInv, Fresh, Recovering, HasAccount
<1>5. UsedUp'
    <2>1. \A c : Unused(c) => Unused(c)'
        BY <1>1, <1>3 DEF Unused
    <2>2. QED
        BY <1>1, <1>3, <2>1 DEF RecoveryInv, UsedUp, HasAccount
<1>6. QED
    BY <1>2, <1>4, <1>5 DEF RecoveryInv, OneRecoveryPerCode

\* The request has the key of a login to store.
KeyForm(x, f) ==
    /\ {"at", "name", "typed"} \subseteq DOMAIN x
    /\ x.at = "key" /\ x.name = forms[f].name /\ x.typed = forms[f].typed

\* What Accept and Refuse make of the request.
LEMMA RequestEnds ==
    ASSUME RecoveryInv, NEW f \in Forms, forms[f].at # "idle",
           NEW account, Accept(f, account) \/ Refuse(f) \/ VerifyPassword(f, account)
    PROVE  \E x : /\ forms' = [forms EXCEPT ![f] = x]
                  /\ x.at = "idle" \/ KeyForm(x, f)
<1> DEFINE key(a) == [forms[f] EXCEPT !.at = "key", !.account = a]
<1>1. Idle.at = "idle"
    BY DEF Idle
<1>2. KeyForm(key(account), f)
    BY DEF RecoveryInv, Types, FormOK, KeyForm
<1>3. CASE forms' = [forms EXCEPT ![f] = Idle]
    BY <1>1, <1>3
<1>4. CASE forms' = [forms EXCEPT ![f] = key(account)]
    BY <1>2, <1>4
<1>5. QED
    BY <1>3, <1>4 DEF Accept, Refuse, VerifyPassword, Ready, Go

-----------------------------------------------------------------------------
\* The INSERT of a new account, with a code that nobody has had.
LEMMA CreateKeeps ==
    ASSUME RecoveryInv, NEW f \in Forms, CreateUser(f)
    PROVE  RecoveryInv'
<1> DEFINE name == forms[f].name
           account == NewAccount(forms[f].typed)
<1>1. forms[f].at = "create" /\ FormOK(forms[f]) /\ spent' = spent
    BY DEF CreateUser, RecoveryInv, Types
<1>2. CASE users[name] # NoAccount
    <2> DEFINE x == [forms[f] EXCEPT !.at = "again"]
    <2>1. forms' = [forms EXCEPT ![f] = x] /\ UNCHANGED <<users, codes>>
        BY <1>2 DEF CreateUser, Go
    <2>2. FormOK(x) /\ x.at = "again"
        BY <1>1 DEF FormOK
    <2>3. QED
        BY <1>1, <2>1, <2>2, FormMoves
<1>3. CASE users[name] = NoAccount
    <2>1. /\ codes < MaxCodes /\ codes' = codes + 1
          /\ users' = [users EXCEPT ![name] = account]
          /\ Accept(f, account)
        BY <1>3 DEF CreateUser
    <2>2. PICK x : /\ forms' = [forms EXCEPT ![f] = x]
                   /\ x.at = "idle" \/ KeyForm(x, f)
        BY <1>1, <2>1, RequestEnds
    <2>3. /\ codes \in Nat /\ codes + 1 \in Codes /\ MaxCodes \in Nat
          /\ name \in Usernames /\ account \in Account /\ account.code = codes + 1
        BY <1>1, <2>1, AccountsAssumption
        DEF RecoveryInv, Types, FormOK, NewAccount, Account, Codes
    <2>4. /\ \A n \in Usernames : users'[n] = IF n = name THEN account ELSE users[n]
          /\ \A n \in Usernames : HasAccount(n)' <=> HasAccount(n) \/ n = name
        BY <1>3, <2>1, <2>3, AccountsAssumption DEF RecoveryInv, Types, HasAccount
    <2>5. /\ forms' = [g \in Forms |-> forms'[g]]
          /\ \A g \in Forms : forms'[g] = IF g = f THEN x ELSE forms[g]
        BY <2>2 DEF RecoveryInv, Types
    <2>6. \A g \in Forms : Recovering(g)' =>
              g # f /\ Recovering(g) /\ forms[g].name # name /\ FormOK(forms[g])
        BY <1>3, <2>2, <2>5 DEF KeyForm, Recovering, RecoveryInv, Types, FormOK, HasAccount
    <2>7. \A g \in Forms : Won(g)' => g # f /\ Won(g) /\ Recovering(g) /\ FormOK(forms[g])
        BY <2>4, <2>5, <2>6 DEF Won, Recovering, FormOK
    <2>8. \A n \in Usernames : HasAccount(n) => users[n].code \in 1 .. codes
        BY <2>3 DEF RecoveryInv, Types, HasAccount, Account, Codes
    <2>9. Types'
        <3>1. \A g \in Forms : (forms[g].at # "idle" => FormOK(forms[g]))'
            <4> SUFFICES ASSUME NEW g \in Forms, forms'[g].at # "idle" PROVE FormOK(forms[g])'
                OBVIOUS
            <4>1. CASE g = f
                BY <1>1, <2>2, <2>4, <2>5, <4>1 DEF FormOK, KeyForm
            <4>2. CASE g # f
                <5>1. forms'[g] = forms[g] /\ FormOK(forms[g]) /\ codes' = codes + 1 /\ codes \in Nat
                    BY <2>1, <2>3, <2>5, <4>2 DEF RecoveryInv, Types
                <5>2. \A c \in 1 .. codes : c \in 1 .. codes'
                    BY <5>1
                <5>3. QED
                    BY <2>4, <5>1, <5>2 DEF FormOK
            <4>3. QED
                BY <4>1, <4>2
        <3>2. users' \in [Usernames -> Account \cup {NoAccount}]
            BY <2>1, <2>3 DEF RecoveryInv, Types
        <3>3. codes' \in 0 .. MaxCodes /\ spent' \in [Codes -> Nat]
            BY <1>1, <2>1, <2>3 DEF RecoveryInv, Types
        <3>4. \A n \in Usernames : HasAccount(n)' => users'[n].code <= codes'
            BY <2>1, <2>3, <2>4, <2>8
        <3>5. QED
            BY <2>5, <3>1, <3>2, <3>3, <3>4 DEF Types
    <2>10. Fresh'
        BY <2>3, <2>4, <2>5, <2>6, <2>8 DEF RecoveryInv, Fresh, Recovering, FormOK
    <2>11. UsedUp'
        <3>1. \A g \in Forms : Won(g)' =>
                  Won(g) /\ forms'[g] = forms[g] /\ forms[g].code \in 1 .. codes
            BY <2>5, <2>7 DEF FormOK, Won
        <3>2. \A c : Unused(c) => Unused(c)'
            BY <1>1, <3>1 DEF Unused
        <3>3. Unused(codes + 1) /\ \A c \in Codes : c > codes' => Unused(c)
            BY <2>1, <2>3 DEF RecoveryInv, UsedUp, Codes
        <3>4. \A n \in Usernames : HasAccount(n)' => Unused(users'[n].code)
            BY <2>3, <2>4, <3>3 DEF RecoveryInv, UsedUp
        <3>5. \A g \in Forms : forms'[g].at = "update" => Unused(forms'[g].new)
            BY <2>5, <2>6 DEF RecoveryInv, UsedUp, Recovering
        <3>6. \A g \in Forms : Won(g)' => spent'[forms'[g].code] = 0
            BY <1>1, <3>1 DEF RecoveryInv, UsedUp
        <3>7. \A g, h \in Forms : Won(g)' /\ Won(h)' /\ forms'[g].code = forms'[h].code => g = h
            BY <3>1 DEF RecoveryInv, UsedUp
        <3>8. QED
            BY <3>2, <3>3, <3>4, <3>5, <3>6, <3>7 DEF UsedUp
    <2>12. QED
        BY <1>1, <2>9, <2>10, <2>11 DEF RecoveryInv, OneRecoveryPerCode
<1>4. QED
    BY <1>2, <1>3

\* The key does not change the code of an account.
LEMMA KeyKeeps ==
    ASSUME RecoveryInv, NEW f \in Forms, SetKageLoginKey(f)
    PROVE  RecoveryInv'
<1> DEFINE name == forms[f].name
<1>1. /\ forms[f].at = "key" /\ name \in Usernames /\ forms[f].typed \in Passwords
      /\ UNCHANGED <<codes, spent>>
      /\ forms' = [forms EXCEPT ![f] = Idle] /\ Idle.at = "idle"
    BY DEF SetKageLoginKey, Ready, Go, Idle, RecoveryInv, Types, FormOK
<1>2. users' = [users EXCEPT ![name].key = forms[f].typed]
    BY DEF SetKageLoginKey
<1>3. HasAccount(name)
    BY <1>1 DEF RecoveryInv, Types, FormOK
<1>4. /\ users' \in [Usernames -> Account \cup {NoAccount}]
      /\ \A n \in Usernames : HasAccount(n)' <=> HasAccount(n)
      /\ \A n \in Usernames : HasAccount(n) => users'[n].code = users[n].code
    <2>1. users[name] \in Account /\ [users[name] EXCEPT !.key = forms[f].typed] \in Account
        BY <1>1, <1>3 DEF RecoveryInv, Types, HasAccount, Account
    <2>2. /\ users' \in [Usernames -> Account \cup {NoAccount}]
          /\ \A n \in Usernames \ {name} : users'[n] = users[n]
          /\ users'[name] = [users[name] EXCEPT !.key = forms[f].typed]
        BY <1>1, <1>2, <2>1 DEF RecoveryInv, Types
    <2>3. users'[name].code = users[name].code /\ users'[name] # NoAccount
        BY <2>1, <2>2, AccountsAssumption DEF Account
    <2>4. QED
        BY <1>3, <2>2, <2>3 DEF HasAccount
<1>5. /\ forms' = [g \in Forms |-> forms'[g]]
      /\ \A g \in Forms : forms'[g] = IF g = f THEN Idle ELSE forms[g]
    BY <1>1 DEF RecoveryInv, Types
<1>6. Types'
    BY <1>1, <1>4, <1>5 DEF RecoveryInv, Types, FormOK
<1>7. \A g \in Forms : Recovering(g)' =>
          g # f /\ Recovering(g) /\ forms'[g] = forms[g] /\ FormOK(forms[g])
    BY <1>1, <1>5 DEF Recovering, RecoveryInv, Types
<1>8. \A g \in Forms : Won(g)' => Won(g) /\ forms'[g] = forms[g]
    BY <1>4, <1>7 DEF Won, Recovering, FormOK
<1>9. Fresh'
    BY <1>4, <1>7 DEF RecoveryInv, Fresh, Recovering
<1>10. UsedUp'
    <2>1. \A c : Unused(c) => Unused(c)'
        BY <1>1, <1>8 DEF Unused
    <2>2. QED
        BY <1>1, <1>4, <1>7, <1>8, <2>1 DEF RecoveryInv, UsedUp, Recovering
<1>11. QED
    BY <1>1, <1>6, <1>9, <1>10 DEF RecoveryInv, OneRecoveryPerCode

-----------------------------------------------------------------------------
\* The request reads the account and makes the new code.
LEMMA FindKeeps ==
    ASSUME RecoveryInv, NEW f \in Forms, FindAccount(f)
    PROVE  RecoveryInv'
<1>1. /\ forms[f].at = "find" /\ FormOK(forms[f]) /\ forms[f].name \in Usernames
      /\ UNCHANGED <<users, spent>>
    BY DEF FindAccount, RecoveryInv, Types, FormOK
<1>2. CASE Refuse(f) /\ codes' = codes
    <2>1. forms' = [forms EXCEPT ![f] = Idle] /\ Idle.at = "idle"
        BY <1>2 DEF Refuse, Go, Idle
    <2>2. QED
        BY <1>1, <1>2, <2>1, FormMoves
<1>3. CASE users[forms[f].name] # NoAccount
    <2> DEFINE x == [forms[f] EXCEPT !.at = "update", !.new = codes + 1]
    <2>1. /\ codes < MaxCodes /\ codes' = codes + 1 /\ codes \in Nat
          /\ codes + 1 \in Codes /\ MaxCodes \in Nat
          /\ forms' = [forms EXCEPT ![f] = x]
        BY <1>3, AccountsAssumption DEF FindAccount, Go, RecoveryInv, Types, Codes
    <2>2. /\ DOMAIN x = DOMAIN forms[f]
          /\ x.at = "update" /\ x.name = forms[f].name /\ x.typed = forms[f].typed
          /\ x.code = forms[f].code /\ x.new = codes + 1
        BY <1>1 DEF FormOK
    <2>3. /\ forms' = [g \in Forms |-> forms'[g]]
          /\ \A g \in Forms : forms'[g] = IF g = f THEN x ELSE forms[g]
        BY <2>1 DEF RecoveryInv, Types
    <2>4. \A n \in Usernames :
              (HasAccount(n)' <=> HasAccount(n)) /\ (HasAccount(n) => users[n].code \in 1 .. codes)
        BY <1>1, <2>1 DEF RecoveryInv, Types, HasAccount, Account, Codes
    <2>5. \A g \in Forms : Recovering(g)' =>
              \/ g = f
              \/ g # f /\ Recovering(g) /\ forms'[g] = forms[g] /\ FormOK(forms[g])
        BY <2>3 DEF Recovering, RecoveryInv, Types
    <2>6. \A g \in Forms : Won(g)' =>
              g # f /\ Won(g) /\ forms'[g] = forms[g] /\ forms[g].code \in 1 .. codes
        BY <1>1, <2>2, <2>3, <2>5 DEF Won, Recovering, FormOK
    <2>7. Types'
        <3>1. \A g \in Forms : (forms[g].at # "idle" => FormOK(forms[g]))'
            <4> SUFFICES ASSUME NEW g \in Forms, forms'[g].at # "idle" PROVE FormOK(forms[g])'
                OBVIOUS
            <4>0. \A c \in 1 .. codes : c \in 1 .. codes'
                BY <2>1
            <4>1. CASE g = f
                <5>1. HasAccount(forms[f].name)' /\ codes + 1 \in 1 .. codes'
                    BY <1>1, <1>3, <2>1 DEF HasAccount
                <5>2. QED
                    BY <1>1, <2>1, <2>2, <2>3, <4>0, <4>1, <5>1 DEF FormOK
            <4>2. CASE g # f
                <5>1. forms'[g] = forms[g] /\ FormOK(forms[g])
                    BY <2>3, <4>2 DEF RecoveryInv, Types
                <5>2. QED
                    BY <2>4, <4>0, <5>1 DEF FormOK
            <4>3. QED
                BY <4>1, <4>2
        <3>2. codes' \in 0 .. MaxCodes
            BY <2>1
        <3>3. \A n \in Usernames : HasAccount(n)' => users'[n].code <= codes'
            BY <1>1, <2>1, <2>4
        <3>4. QED
            BY <1>1, <2>3, <3>1, <3>2, <3>3 DEF RecoveryInv, Types
    <2>8. Fresh'
        <3>1. \A g \in Forms : Recovering(g)' /\ g # f => forms'[g].new \in 1 .. codes
            BY <2>5 DEF FormOK, Recovering
        <3>2. forms'[f].new = codes + 1 /\ ~(codes + 1 <= codes)
            <4>1. ~(codes + 1 <= codes)
                BY <2>1
            <4>2. QED
                BY <2>2, <2>3, <4>1
        <3>3. QED
            BY <1>1, <2>4, <2>5, <3>1, <3>2 DEF RecoveryInv, Fresh, Recovering
    <2>9. UsedUp'
        <3>1. \A c : Unused(c) => Unused(c)'
            BY <1>1, <2>6 DEF Unused
        <3>2. Unused(codes + 1) /\ \A c \in Codes : c > codes' => Unused(c)
            BY <2>1 DEF RecoveryInv, UsedUp, Codes
        <3>3. \A g \in Forms : forms'[g].at = "update" => Unused(forms'[g].new)
            BY <2>2, <2>3, <3>2 DEF RecoveryInv, UsedUp
        <3>4. QED
            BY <1>1, <2>4, <2>6, <3>1, <3>2, <3>3 DEF RecoveryInv, UsedUp
    <2>10. QED
        BY <1>1, <2>7, <2>8, <2>9 DEF RecoveryInv, OneRecoveryPerCode
<1>4. QED
    BY <1>2, <1>3 DEF FindAccount

-----------------------------------------------------------------------------
\* The UPDATE takes place when the account still has the code that was typed;
\* the request is then the only one that can be accepted for it.
LEMMA UpdateKeeps ==
    ASSUME RecoveryInv, NEW f \in Forms, Update(f)
    PROVE  RecoveryInv'
<1> DEFINE name == forms[f].name
           x == [forms[f] EXCEPT !.at = "reread"]
           account == [password |-> forms[f].typed, code |-> forms[f].new, key |-> NoAccount]
<1>1. /\ forms[f].at = "update" /\ FormOK(forms[f]) /\ Recovering(f)
      /\ forms' = [forms EXCEPT ![f] = x] /\ UNCHANGED <<codes, spent>>
    BY DEF Update, Go, RecoveryInv, Types, Recovering
<1>2. /\ name \in Usernames /\ HasAccount(name) /\ codes \in Nat /\ MaxCodes \in Nat
      /\ forms[f].new \in 1 .. codes /\ forms[f].new \in Codes
      /\ account \in Account /\ account.code = forms[f].new
    BY <1>1, AccountsAssumption DEF RecoveryInv, Types, FormOK, Account, Codes
<1>3. /\ DOMAIN x = DOMAIN forms[f]
      /\ x.at = "reread" /\ x.name = name /\ x.typed = forms[f].typed
      /\ x.code = forms[f].code /\ x.new = forms[f].new
    BY <1>1 DEF FormOK
<1>4. /\ forms' = [g \in Forms |-> forms'[g]]
      /\ \A g \in Forms : forms'[g] = IF g = f THEN x ELSE forms[g]
    BY <1>1 DEF RecoveryInv, Types
<1>5. /\ \A g \in Forms : forms'[g].name = forms[g].name /\ forms'[g].code = forms[g].code
                        /\ forms'[g].new = forms[g].new
      /\ \A g \in Forms : Recovering(g)' <=> Recovering(g)
    BY <1>1, <1>3, <1>4 DEF Recovering
<1>6. \A n \in Usernames : HasAccount(n) => users[n].code # forms[f].new
    BY <1>1 DEF RecoveryInv, Fresh
<1>7. CASE users[name].code = forms[f].code
    <2>1. /\ users' = [users EXCEPT ![name] = account]
          /\ users' \in [Usernames -> Account \cup {NoAccount}]
        BY <1>2, <1>7 DEF Update, RecoveryInv, Types
    <2>2. /\ \A n \in Usernames : users'[n] = IF n = name THEN account ELSE users[n]
          /\ \A n \in Usernames : HasAccount(n)' <=> HasAccount(n)
        BY <1>2, <2>1, AccountsAssumption DEF RecoveryInv, Types, HasAccount
    <2>3. Types'
        <3>1. \A g \in Forms : (forms[g].at # "idle" => FormOK(forms[g]))'
            BY <1>1, <1>2, <1>3, <1>4, <2>2 DEF RecoveryInv, Types, FormOK
        <3>2. \A n \in Usernames : HasAccount(n)' => users'[n].code <= codes'
            BY <1>1, <1>2, <2>2 DEF RecoveryInv, Types
        <3>3. QED
            BY <1>1, <1>4, <2>1, <3>1, <3>2 DEF RecoveryInv, Types
    <2>4. Fresh'
        <3>1. \A n, m \in Usernames :
                  HasAccount(n)' /\ HasAccount(m)' /\ users'[n].code = users'[m].code => n = m
            BY <1>2, <1>6, <2>2 DEF RecoveryInv, Fresh
        <3>2. \A g, h \in Forms : Recovering(g)' /\ Recovering(h)' /\ forms'[g].new = forms'[h].new => g = h
            BY <1>5 DEF RecoveryInv, Fresh
        <3>3. ASSUME NEW g \in Forms, NEW n \in Usernames,
                     Recovering(g)', HasAccount(n)', users'[n].code = forms'[g].new
              PROVE  forms'[g].at = "reread" /\ n = forms'[g].name
            <4>1. CASE n = name
                <5>1. g = f
                    BY <1>1, <1>2, <1>5, <2>2, <3>3, <4>1 DEF RecoveryInv, Fresh
                <5>2. QED
                    BY <1>3, <1>4, <4>1, <5>1
            <4>2. CASE n # name
                BY <1>3, <1>4, <1>5, <1>6, <2>2, <3>3, <4>2 DEF RecoveryInv, Fresh
            <4>3. QED
                BY <4>1, <4>2
        <3>4. QED
            BY <3>1, <3>2, <3>3 DEF Fresh
    <2>5. \A g \in Forms : Won(g)' => g = f \/ Won(g)
        <3> SUFFICES ASSUME NEW g \in Forms, Won(g)', g # f PROVE Won(g)
            OBVIOUS
        <3>1. /\ forms[g].at = "reread" /\ forms[g].name \in Usernames
              /\ users'[forms[g].name].code = forms[g].new /\ Recovering(g)
            BY <1>4 DEF Won, Recovering, RecoveryInv, Types, FormOK
        <3>2. forms[g].name # name
            BY <1>1, <1>2, <2>2, <3>1 DEF RecoveryInv, Fresh
        <3>3. QED
            BY <2>2, <3>1, <3>2 DEF Won
    <2>6. UsedUp'
        <3>1. Unused(forms[f].code) /\ Unused(forms[f].new) /\ forms[f].code # forms[f].new
            BY <1>1, <1>2, <1>6, <1>7 DEF RecoveryInv, UsedUp
        <3>2. \A c : Unused(c) /\ c # forms[f].code => Unused(c)'
            BY <1>1, <1>5, <2>5 DEF Unused
        <3>3. \A n \in Usernames : (HasAccount(n) => Unused(users[n].code))'
            BY <1>2, <1>7, <2>2, <3>1, <3>2 DEF RecoveryInv, UsedUp, Fresh
        <3>4. \A g \in Forms : (forms[g].at = "update" => Unused(forms[g].new))'
            BY <1>2, <1>3, <1>4, <1>7, <3>2 DEF RecoveryInv, UsedUp, Fresh, Recovering
        <3>5. \A c \in Codes : c > codes' => Unused(c)'
            BY <1>1, <1>2, <3>2 DEF RecoveryInv, UsedUp, FormOK, Codes
        <3>6. \A g \in Forms : Won(g)' => spent'[forms'[g].code] = 0
            BY <1>1, <1>5, <2>5, <3>1 DEF RecoveryInv, UsedUp, Unused
        <3>7. \A g, h \in Forms : Won(g)' /\ Won(h)' /\ forms'[g].code = forms'[h].code => g = h
            BY <1>5, <2>5, <3>1 DEF RecoveryInv, UsedUp, Unused
        <3>8. QED
            BY <3>3, <3>4, <3>5, <3>6, <3>7 DEF UsedUp
    <2>7. QED
        BY <1>1, <2>3, <2>4, <2>6 DEF RecoveryInv, OneRecoveryPerCode
<1>8. CASE users[name].code # forms[f].code
    <2>1. users' = users /\ \A n \in Usernames : HasAccount(n)' <=> HasAccount(n)
        BY <1>8 DEF Update, HasAccount
    <2>2. Types'
        <3>1. \A g \in Forms : (forms[g].at # "idle" => FormOK(forms[g]))'
            BY <1>1, <1>2, <1>3, <1>4, <2>1 DEF RecoveryInv, Types, FormOK
        <3>2. QED
            BY <1>1, <1>4, <2>1, <3>1 DEF RecoveryInv, Types
    <2>3. Fresh'
        BY <1>1, <1>3, <1>4, <1>5, <1>6, <2>1 DEF RecoveryInv, Fresh
    <2>4. \A g \in Forms : Won(g)' => Won(g)
        BY <1>2, <1>3, <1>4, <1>6, <2>1 DEF Won
    <2>5. UsedUp'
        <3>1. \A c : Unused(c) => Unused(c)'
            BY <1>1, <1>5, <2>4 DEF Unused
        <3>2. \A g \in Forms : forms'[g].at = "update" => forms[g].at = "update"
            BY <1>3, <1>4
        <3>3. QED
            BY <1>1, <1>5, <2>1, <2>4, <3>1, <3>2 DEF RecoveryInv, UsedUp
    <2>6. QED
        BY <1>1, <2>2, <2>3, <2>5 DEF RecoveryInv, OneRecoveryPerCode
<1>9. QED
    BY <1>7, <1>8

-----------------------------------------------------------------------------
\* The request that won is accepted, and its code is spent.
LEMMA RereadKeeps ==
    ASSUME RecoveryInv, NEW f \in Forms, Reread(f)
    PROVE  RecoveryInv'
<1>1. /\ forms[f].at = "reread" /\ FormOK(forms[f]) /\ HasAccount(forms[f].name)
      /\ forms[f].code \in Codes /\ forms[f].code \in 1 .. codes
      /\ codes \in Nat /\ UNCHANGED <<users, codes>>
    BY AccountsAssumption DEF Reread, RecoveryInv, Types, FormOK, Codes
<1>2. PICK x : /\ forms' = [forms EXCEPT ![f] = x]
               /\ x.at = "idle" \/ KeyForm(x, f)
    BY <1>1, RequestEnds DEF Reread
<1>3. /\ x.at = "idle" \/ FormOK(x)
      /\ x.at \notin {"update", "reread"}
    BY <1>1, <1>2 DEF KeyForm, FormOK
<1>4. CASE ~Won(f)
    BY <1>1, <1>2, <1>3, <1>4, FormMoves DEF Reread, Won
<1>5. CASE Won(f)
    <2>1. /\ spent' = [spent EXCEPT ![forms[f].code] = @ + 1]
          /\ spent[forms[f].code] = 0
        BY <1>5 DEF Reread, Won, RecoveryInv, UsedUp
    <2>2. /\ spent' \in [Codes -> Nat]
          /\ \A c \in Codes : spent'[c] = IF c = forms[f].code THEN 1 ELSE spent[c]
        BY <1>1, <2>1 DEF RecoveryInv, Types
    <2>3. /\ \A g \in Forms : forms'[g] = IF g = f THEN x ELSE forms[g]
          /\ forms' = [g \in Forms |-> forms'[g]]
        BY <1>2 DEF RecoveryInv, Types
    <2>4. Types'
        BY <1>1, <1>3, <2>2, <2>3 DEF RecoveryInv, Types, FormOK, HasAccount
    <2>5. /\ \A g \in Forms : Recovering(g)' => Recovering(g) /\ g # f /\ forms'[g] = forms[g]
          /\ \A g \in Forms : Won(g)' => Won(g) /\ g # f /\ forms'[g] = forms[g]
        BY <1>1, <1>3, <2>3 DEF Recovering, Won
    <2>6. Fresh'
        BY <1>1, <2>5 DEF RecoveryInv, Fresh, Recovering, HasAccount
    <2>7. UsedUp'
        <3>1. \A c \in Codes : Unused(c) => Unused(c)'
            BY <1>5, <2>2, <2>5 DEF Unused
        <3>2. \A n \in Usernames : HasAccount(n) => users[n].code \in Codes
            BY DEF RecoveryInv, Types, HasAccount, Account
        <3>3. \A g \in Forms : Recovering(g) => forms[g].new \in Codes /\ forms[g].code \in Codes
            BY AccountsAssumption DEF RecoveryInv, Types, FormOK, Recovering, Codes
        <3>4. \A g \in Forms : (forms[g].at = "update" => Unused(forms[g].new))'
            BY <2>5, <3>1, <3>3 DEF RecoveryInv, UsedUp, Recovering
        <3>5. \A g \in Forms : Won(g)' => spent'[forms'[g].code] = 0
            BY <1>5, <2>2, <2>5, <3>3 DEF RecoveryInv, UsedUp, Won, Recovering
        <3>6. QED
            BY <1>1, <2>5, <3>1, <3>2, <3>4, <3>5 DEF RecoveryInv, UsedUp, HasAccount
    <2>8. OneRecoveryPerCode'
        BY <2>2 DEF RecoveryInv, Types, OneRecoveryPerCode
    <2>9. QED
        BY <2>4, <2>6, <2>7, <2>8 DEF RecoveryInv
<1>6. QED
    BY <1>4, <1>5

\* The web server stops: no request is left that could be accepted.
LEMMA StopKeeps ==
    ASSUME RecoveryInv, WebStops
    PROVE  RecoveryInv'
<1>1. /\ forms' = [f \in Forms |-> Idle] /\ Idle.at = "idle"
      /\ UNCHANGED <<users, codes, spent>>
    BY DEF WebStops, Idle
<1>2. \A f \in Forms : forms'[f].at = "idle" /\ ~Recovering(f)' /\ ~Won(f)'
    BY <1>1 DEF Recovering, Won
<1>3. Types'
    BY <1>1, <1>2 DEF RecoveryInv, Types, HasAccount
<1>4. Fresh'
    BY <1>1, <1>2 DEF RecoveryInv, Fresh, HasAccount
<1>5. UsedUp'
    BY <1>1, <1>2 DEF RecoveryInv, UsedUp, Unused, HasAccount
<1>6. QED
    BY <1>1, <1>3, <1>4, <1>5 DEF RecoveryInv, OneRecoveryPerCode

-----------------------------------------------------------------------------
LEMMA RecoveryInit == AccountsInit => RecoveryInv
<1> SUFFICES ASSUME AccountsInit PROVE RecoveryInv
    OBVIOUS
<1>1. /\ \A f \in Forms : forms[f].at = "idle" /\ ~Recovering(f) /\ ~Won(f)
      /\ \A n \in Usernames : ~HasAccount(n)
      /\ \A c \in Codes : spent[c] = 0
    BY DEF AccountsInit, Idle, Recovering, Won, HasAccount
<1>2. Types
    BY <1>1, AccountsAssumption DEF AccountsInit, Types, Codes
<1>3. QED
    BY <1>1, <1>2 DEF RecoveryInv, Fresh, UsedUp, Unused, OneRecoveryPerCode

LEMMA RecoveryStep == RecoveryInv /\ [AccountsNext]_accountVars => RecoveryInv'
<1> SUFFICES ASSUME RecoveryInv, [AccountsNext]_accountVars PROVE RecoveryInv'
    OBVIOUS
<1>1. CASE UNCHANGED accountVars
    <2>1. UNCHANGED <<users, codes, forms, spent>>
        BY <1>1 DEF accountVars
    <2>2. Types' /\ OneRecoveryPerCode'
        BY <2>1 DEF RecoveryInv, Types, FormOK, HasAccount, OneRecoveryPerCode
    <2>3. Fresh'
        BY <2>1 DEF RecoveryInv, Fresh, Recovering, HasAccount
    <2>4. UsedUp'
        BY <2>1 DEF RecoveryInv, UsedUp, Unused, Won, HasAccount
    <2>5. QED
        BY <2>2, <2>3, <2>4 DEF RecoveryInv
<1>2. ASSUME NEW f \in Forms, NEW name \in Usernames, NEW typed \in Passwords,
             NEW kage \in BOOLEAN, CreateId(f, name, typed, kage)
      PROVE  RecoveryInv'
    <2> DEFINE x == [at |-> "lookup", name |-> name, typed |-> typed, kage |-> kage, account |-> NoAccount]
    <2>1. FormOK(x) /\ x.at = "lookup"
        BY DEF FormOK
    <2>2. QED
        BY <1>2, <2>1, FormMoves DEF CreateId, Go
<1>3. ASSUME NEW f \in Forms, NEW name \in Usernames, NEW typed \in Passwords,
             NEW kage \in BOOLEAN, NEW code \in 1 .. codes, RecoverId(f, name, code, typed, kage)
      PROVE  RecoveryInv'
    <2> DEFINE x == [at |-> "find", name |-> name, typed |-> typed, kage |-> kage,
                     account |-> NoAccount, code |-> code, new |-> 0]
    <2>1. FormOK(x) /\ x.at = "find"
        BY DEF FormOK
    <2>2. QED
        BY <1>3, <2>1, FormMoves DEF RecoverId, Go
<1>4. ASSUME NEW f \in Forms, GetByName(f) \/ GetAgain(f) PROVE RecoveryInv'
    <2>1. /\ forms[f].at \in {"lookup", "again"} /\ FormOK(forms[f])
          /\ UNCHANGED <<users, codes, spent>>
        BY <1>4 DEF GetByName, GetAgain, RecoveryInv, Types
    <2>2. CASE Go(f, [forms[f] EXCEPT !.at = "create"])
        <3> DEFINE x == [forms[f] EXCEPT !.at = "create"]
        <3>1. FormOK(x) /\ x.at = "create"
            BY <2>1 DEF FormOK
        <3>2. QED
            BY <2>1, <2>2, <3>1, FormMoves DEF Go
    <2>3. CASE \/ Refuse(f)
               \/ HasAccount(forms[f].name) /\ VerifyPassword(f, users[forms[f].name])
        <3>1. CASE Refuse(f)
            BY <2>1, <3>1, FormMoves DEF Refuse, Go, Idle
        <3>2. CASE HasAccount(forms[f].name) /\ VerifyPassword(f, users[forms[f].name])
            <4>1. PICK x : /\ forms' = [forms EXCEPT ![f] = x]
                           /\ x.at = "idle" \/ KeyForm(x, f)
                BY <2>1, <3>2, RequestEnds
            <4>2. x.at = "idle" \/ FormOK(x)
                BY <2>1, <3>2, <4>1 DEF KeyForm, FormOK
            <4>3. x.at \notin {"update", "reread"}
                BY <4>1 DEF KeyForm
            <4>4. QED
                BY <2>1, <4>1, <4>2, <4>3, FormMoves
        <3>3. QED
            BY <2>3, <3>1, <3>2
    <2>4. QED
        BY <1>4, <2>2, <2>3 DEF GetByName, GetAgain, HasAccount
<1>5. QED
    BY <1>1, <1>2, <1>3, <1>4, CreateKeeps, KeyKeeps, FindKeeps, UpdateKeeps, RereadKeeps, StopKeeps
    DEF AccountsNext

\* A recovery code sets one new password, however many requests use it at once
\* (SqlAccountStore.recover).
THEOREM CodesAreUsedOnce == AccountsSpec => []OneRecoveryPerCode
<1>1. RecoveryInv => OneRecoveryPerCode
    BY DEF RecoveryInv
<1>2. QED
    BY <1>1, RecoveryInit, RecoveryStep, PTL DEF AccountsSpec

-----------------------------------------------------------------------------
\* Which password goes with which recovery code of a name: the pairs that were
\* accepted, and those of the logins that still have the key to store.
Verified(f) == [code |-> forms[f].account.code, typed |-> forms[f].typed]
Storing(n) == {f \in Forms : forms[f].at = "key" /\ forms[f].name = n}
Vouched(n) == accepted[n] \cup {Verified(f) : f \in Storing(n)}

Stages == {"idle", "lookup", "create", "again", "find", "update", "reread", "key"}

Requests ==
    /\ \A f \in Forms : /\ forms[f].at \in Stages
                        /\ forms[f].at # "idle" => "account" \in DOMAIN forms[f]
    /\ accepted \in [Usernames -> SUBSET [code : Codes, typed : Passwords]]
    /\ overtaken \subseteq Usernames

\* What is vouched for a code is one password: the account's, while it has that
\* code.  A code that was made and not stored has none.
Agreed ==
    /\ \A n \in Usernames : \A a \in Vouched(n) : a.code \in 1 .. codes
    /\ \A n \in Usernames : \A a, b \in Vouched(n) : a.code = b.code => a.typed = b.typed
    /\ \A n \in Usernames : \A a \in Vouched(n) :
           HasAccount(n) /\ a.code = users[n].code => a.typed = users[n].password
    /\ \A f \in Forms : Won(f) => users[forms[f].name].password = forms[f].typed
    /\ \A n \in Usernames : \A a \in Vouched(n), f \in Forms :
           forms[f].at = "update" /\ forms[f].name = n => a.code # forms[f].new

\* A login that has its key to store typed the password, unless it was overtaken.
KeysFit ==
    /\ \A n \in Usernames \ overtaken : HasAccount(n) => users[n].key \in {NoAccount, users[n].password}
    /\ \A f \in Forms : forms[f].at = "key" /\ forms[f].name \notin overtaken =>
          users[forms[f].name].password = forms[f].typed

PasswordInv == RecoveryInv /\ Requests /\ Agreed /\ KeysFit

\* The account that is accepted, with what was typed, is all that is added.
LEMMA AcceptVouches ==
    ASSUME PasswordInv, NEW f \in Forms, forms[f].at \notin {"idle", "key"},
           NEW account \in Account, Accept(f, account), UNCHANGED overtaken
    PROVE  /\ Requests'
           /\ \E x : /\ forms' = [forms EXCEPT ![f] = x] /\ x.at \in {"idle", "key"}
                     /\ x.at = "key" => x.name = forms[f].name /\ x.typed = forms[f].typed
           /\ \A n \in Usernames : \A a \in Vouched(n)' :
                 a \in Vouched(n) \/ (n = forms[f].name /\ a.code = account.code /\ a.typed = forms[f].typed)
<1> DEFINE name == forms[f].name
           typed == forms[f].typed
           key == [forms[f] EXCEPT !.at = "key", !.account = account]
           entry == [code |-> account.code, typed |-> typed]
<1>1. /\ {"at", "name", "typed", "account"} \subseteq DOMAIN forms[f] /\ name \in Usernames /\ typed \in Passwords
      /\ account.code \in Codes /\ forms = [g \in Forms |-> forms[g]]
    BY DEF PasswordInv, Requests, RecoveryInv, Types, FormOK, Account
<1>2. /\ key.at = "key" /\ key.name = name /\ key.typed = typed /\ key.account = account
      /\ "account" \in DOMAIN key
    BY <1>1
<1>3. Idle.at = "idle"
    BY DEF Idle
<1>4. entry \in [code : Codes, typed : Passwords] /\ entry.code = account.code /\ entry.typed = typed
    BY <1>1
<1>5. CASE forms' = [forms EXCEPT ![f] = key] /\ accepted' = accepted
    <2> HIDE DEF key
    <2>1. \A g \in Forms : forms'[g] = IF g = f THEN key ELSE forms[g]
        BY <1>1, <1>5
    <2>2. Requests'
        BY <1>2, <1>5, <2>1 DEF PasswordInv, Requests, Stages
    <2>3. ASSUME NEW n \in Usernames, NEW g \in Storing(n)'
          PROVE  Verified(g)' \in Vouched(n) \/ (n = name /\ Verified(g)' = entry)
        <3>1. CASE g = f
            BY <1>2, <2>1, <2>3, <3>1 DEF Storing, Verified
        <3>2. CASE g # f
            <4>1. g \in Storing(n) /\ Verified(g)' = Verified(g)
                BY <2>1, <2>3, <3>2 DEF Storing, Verified
            <4>2. QED
                BY <4>1 DEF Vouched
        <3>3. QED
            BY <3>1, <3>2
    <2>4. ASSUME NEW n \in Usernames, NEW a \in Vouched(n)'
          PROVE  a \in Vouched(n) \/ (n = name /\ a = entry)
        <3>1. a \in accepted[n] \/ \E g \in Storing(n)' : a = Verified(g)'
            BY <1>5, <2>4 DEF Vouched
        <3>2. QED
            BY <2>3, <3>1 DEF Vouched
    <2>5. QED
        BY <1>2, <1>4, <1>5, <2>2, <2>4
<1>6. CASE forms' = [forms EXCEPT ![f] = Idle] /\ accepted' = [accepted EXCEPT ![name] = @ \cup {entry}]
    <2> HIDE DEF key, entry
    <2>1. \A g \in Forms : forms'[g] = IF g = f THEN Idle ELSE forms[g]
        BY <1>1, <1>6
    <2>2. \A n \in Usernames : accepted'[n] = IF n = name THEN accepted[n] \cup {entry} ELSE accepted[n]
        BY <1>1, <1>6 DEF PasswordInv, Requests
    <2>3. Requests'
        BY <1>1, <1>3, <1>4, <1>6, <2>1 DEF PasswordInv, Requests, Stages
    <2>4. ASSUME NEW n \in Usernames, NEW a \in Vouched(n)'
          PROVE  a \in Vouched(n) \/ (n = name /\ a = entry)
        <3>1. \A g \in Storing(n)' : g \in Storing(n) /\ Verified(g)' = Verified(g)
            BY <1>3, <2>1 DEF Storing, Verified
        <3>2. QED
            BY <2>2, <2>4, <3>1, ZenonT(40) DEF Vouched
    <2>5. QED
        BY <1>3, <1>4, <1>6, <2>3, <2>4
<1>7. QED
    BY <1>5, <1>6 DEF Accept, Ready, Go

\* A request is accepted with the password that the account has.
LEMMA AcceptKeeps ==
    ASSUME PasswordInv, RecoveryInv', NEW f \in Forms, forms[f].at \notin {"idle", "key"},
           NEW account \in Account, Accept(f, account), UNCHANGED overtaken,
           account = users'[forms[f].name], account.password = forms[f].typed,
           codes' \in Nat, codes <= codes', users' \in [Usernames -> Account \cup {NoAccount}],
           \A n \in Usernames \ {forms[f].name} : users'[n] = users[n],
           \/ users[forms[f].name] = account
           \/ /\ users[forms[f].name] = NoAccount
              /\ account.key = NoAccount /\ account.code = codes + 1
    PROVE  PasswordInv'
<1> DEFINE name == forms[f].name
           typed == forms[f].typed
<1>1. /\ name \in Usernames /\ codes \in Nat /\ account # NoAccount
      /\ forms = [g \in Forms |-> forms[g]]
    BY AccountsAssumption DEF PasswordInv, Requests, RecoveryInv, Types, FormOK
<1>2. /\ users'[name] # NoAccount
      /\ \A n \in Usernames \ {name} : HasAccount(n)' => HasAccount(n)
    BY <1>1 DEF HasAccount
<1>3. Requests'
    BY AcceptVouches
<1>4. PICK x : /\ forms' = [forms EXCEPT ![f] = x] /\ x.at \in {"idle", "key"}
               /\ x.at = "key" => x.name = name /\ x.typed = typed
    BY AcceptVouches
<1>5. \A n \in Usernames : \A a \in Vouched(n)' :
          a \in Vouched(n) \/ (n = name /\ a.code = account.code /\ a.typed = typed)
    BY AcceptVouches
<1>6. \A g \in Forms : forms'[g] = IF g = f THEN x ELSE forms[g]
    BY <1>1, <1>4
<1>7. \A g \in Forms : forms'[g].at \in {"update", "reread"} =>
          g # f /\ forms'[g] = forms[g] /\ FormOK(forms[g]) /\ forms[g].name \in Usernames /\ HasAccount(forms[g].name)
    BY <1>4, <1>6 DEF PasswordInv, RecoveryInv, Types, FormOK
<1>8. \A n \in Usernames : HasAccount(n) => users'[n] = users[n]
    BY <1>1 DEF HasAccount
<1>9. Agreed'
    <2>1. account.code \in 1 .. codes'
        <3>1. \A n \in Usernames : users'[n] # NoAccount => users'[n].code <= codes'
            BY DEF RecoveryInv, Types, HasAccount
        <3>2. account.code <= codes' /\ account.code \in Nat /\ account.code >= 1
            BY <1>1, <1>2, <3>1 DEF Account, Codes
        <3>3. QED
            BY <3>2
    <2>2. ASSUME NEW n \in Usernames, NEW a \in Vouched(n)' PROVE a.code \in 1 .. codes'
        <3>1. a \in Vouched(n) => a.code \in 1 .. codes'
            BY <1>1 DEF PasswordInv, Agreed
        <3>2. QED
            BY <1>5, <2>1, <2>2, <3>1
    <2>3. ASSUME NEW a \in Vouched(name), a.code = account.code PROVE a.typed = typed
        <3>1. CASE users[name] = account
            BY <1>1, <2>3, <3>1 DEF PasswordInv, Agreed, HasAccount
        <3>2. CASE account.code = codes + 1
            <4>1. a.code \in 1 .. codes
                BY <1>1 DEF PasswordInv, Agreed
            <4>2. QED
                BY <1>1, <2>3, <3>2, <4>1
        <3>3. QED
            BY <3>1, <3>2
    <2>4. ASSUME NEW n \in Usernames, NEW a \in Vouched(n)', NEW b \in Vouched(n)', a.code = b.code
          PROVE  a.typed = b.typed
        <3>1. a \in Vouched(n) /\ b \in Vouched(n) => a.typed = b.typed
            BY <2>4 DEF PasswordInv, Agreed
        <3>2. QED
            BY <1>5, <2>3, <2>4, <3>1
    <2>5. ASSUME NEW n \in Usernames, NEW a \in Vouched(n)', HasAccount(n)', a.code = users'[n].code
          PROVE  a.typed = users'[n].password
        <3>1. CASE n = name
            BY <1>5, <2>3, <2>5, <3>1
        <3>2. CASE n # name
            <4>1. users'[n] = users[n] /\ a \in Vouched(n) /\ HasAccount(n)
                BY <1>2, <1>5, <2>5, <3>2
            <4>2. QED
                BY <2>5, <4>1 DEF PasswordInv, Agreed
        <3>3. QED
            BY <3>1, <3>2
    <2>6. ASSUME NEW g \in Forms, Won(g)' PROVE users'[forms'[g].name].password = forms'[g].typed
        <3>1. g # f /\ forms'[g] = forms[g] /\ forms[g].at = "reread"
              /\ users'[forms[g].name] = users[forms[g].name]
            BY <1>7, <1>8, <2>6 DEF Won
        <3>2. Won(g)
            BY <2>6, <3>1 DEF Won
        <3>3. QED
            BY <3>1, <3>2 DEF PasswordInv, Agreed
    <2>7. ASSUME NEW n \in Usernames, NEW a \in Vouched(n)', NEW g \in Forms,
                 forms'[g].at = "update", forms'[g].name = n
          PROVE  a.code # forms'[g].new
        <3>1. g # f /\ forms'[g] = forms[g] /\ HasAccount(n)
            BY <1>7, <2>7
        <3>2. a \in Vouched(n) => a.code # forms[g].new
            BY <2>7, <3>1 DEF PasswordInv, Agreed
        <3>3. n = name => account.code # forms[g].new
            BY <1>8, <2>7, <3>1 DEF PasswordInv, RecoveryInv, Fresh, Recovering
        <3>4. QED
            BY <1>5, <2>7, <3>1, <3>2, <3>3
    <2>8. QED
        BY <2>2, <2>4, <2>5, <2>6, <2>7 DEF Agreed
<1>10. KeysFit'
    <2>1. ASSUME NEW n \in Usernames \ overtaken, HasAccount(n)'
          PROVE  users'[n].key \in {NoAccount, users'[n].password}
        <3>1. CASE users'[n] = users[n]
            BY <2>1, <3>1 DEF PasswordInv, KeysFit, HasAccount
        <3>2. CASE n = name /\ account.key = NoAccount
            BY <3>2
        <3>3. QED
            BY <3>1, <3>2
    <2>2. ASSUME NEW g \in Forms, forms'[g].at = "key", forms'[g].name \notin overtaken
          PROVE  users'[forms'[g].name].password = forms'[g].typed
        <3>1. CASE g = f
            BY <1>4, <1>6, <2>2, <3>1
        <3>2. CASE g # f
            <4>1. forms'[g] = forms[g] /\ HasAccount(forms[g].name) /\ forms[g].name \in Usernames
                BY <1>6, <2>2, <3>2 DEF PasswordInv, RecoveryInv, Types, FormOK
            <4>2. users'[forms[g].name] = users[forms[g].name]
                BY <1>8, <4>1
            <4>3. QED
                BY <2>2, <4>1, <4>2 DEF PasswordInv, KeysFit
        <3>3. QED
            BY <3>1, <3>2
    <2>3. QED
        BY <2>1, <2>2 DEF KeysFit
<1>11. QED
    BY <1>3, <1>9, <1>10 DEF PasswordInv

\* A request goes on or ends without being accepted, and no account changes.
LEMMA RequestKeeps ==
    ASSUME PasswordInv, RecoveryInv', NEW f \in Forms, NEW x,
           forms' = [forms EXCEPT ![f] = x], UNCHANGED <<users, accepted, overtaken>>,
           codes' \in Nat, codes <= codes',
           x.at \in Stages \ {"key"}, x.at # "idle" => "account" \in DOMAIN x,
           x.at = "update" => x.new = codes + 1,
           x.at = "reread" => forms[f].at = "update" /\ x.name = forms[f].name /\ x.new = forms[f].new
    PROVE  PasswordInv'
<1>1. codes \in Nat /\ \A g \in Forms : forms'[g] = IF g = f THEN x ELSE forms[g]
    BY AccountsAssumption DEF PasswordInv, RecoveryInv, Types
<1>2. \A n : HasAccount(n)' <=> HasAccount(n)
    BY DEF HasAccount
<1>3. Requests'
    BY <1>1 DEF PasswordInv, Requests
<1>4. \A n \in Usernames : Vouched(n)' \subseteq Vouched(n)
    <2> SUFFICES ASSUME NEW n \in Usernames PROVE Vouched(n)' \subseteq Vouched(n)
        OBVIOUS
    <2>1. \A g \in Storing(n)' : g \in Storing(n) /\ Verified(g)' = Verified(g)
        BY <1>1 DEF Storing, Verified, Stages
    <2>2. QED
        BY <2>1 DEF Vouched
<1>5. \A g \in Forms : Won(g)' => g # f /\ Won(g)
    <2>1. ASSUME NEW g \in Forms, Won(g)' PROVE g # f
        <3>1. CASE g = f
            <4>1. /\ forms[f].at = "update" /\ users[forms[f].name].code = forms[f].new
                  /\ FormOK(forms[f])
                BY <1>1, <2>1, <3>1 DEF Won, PasswordInv, RecoveryInv, Types
            <4>2. QED
                BY <4>1 DEF FormOK, PasswordInv, RecoveryInv, Fresh, Recovering
        <3>2. QED
            BY <3>1
    <2>2. QED
        BY <1>1, <2>1 DEF Won
<1>6. Agreed'
    <2>1. ASSUME NEW n \in Usernames, NEW a \in Vouched(n)' PROVE a.code \in 1 .. codes'
        <3>1. a.code \in 1 .. codes
            BY <1>4, <2>1 DEF PasswordInv, Agreed
        <3>2. QED
            BY <1>1, <3>1
    <2>2. ASSUME NEW n \in Usernames, NEW a \in Vouched(n)', NEW g \in Forms,
                 forms'[g].at = "update", forms'[g].name = n
          PROVE  a.code # forms'[g].new
        <3>1. a \in Vouched(n) /\ a.code \in 1 .. codes
            BY <1>4, <2>2 DEF PasswordInv, Agreed
        <3>2. CASE g = f
            BY <1>1, <2>2, <3>1, <3>2
        <3>3. CASE g # f
            BY <1>1, <2>2, <3>1, <3>3 DEF PasswordInv, Agreed
        <3>4. QED
            BY <3>2, <3>3
    <2>3. \A g \in Forms : Won(g)' => users'[forms'[g].name].password = forms'[g].typed
        BY <1>1, <1>5 DEF PasswordInv, Agreed
    <2>4. \A n \in Usernames : \A a, b \in Vouched(n)' : a.code = b.code => a.typed = b.typed
        BY <1>4 DEF PasswordInv, Agreed
    <2>5. \A n \in Usernames : \A a \in Vouched(n)' :
              HasAccount(n)' /\ a.code = users'[n].code => a.typed = users'[n].password
        BY <1>2, <1>4 DEF PasswordInv, Agreed
    <2>6. QED
        BY <2>1, <2>2, <2>3, <2>4, <2>5 DEF Agreed
<1>7. KeysFit'
    BY <1>1, <1>2 DEF PasswordInv, KeysFit
<1>8. QED
    BY <1>3, <1>6, <1>7 DEF PasswordInv

\* The key is stored, and the login is accepted.
LEMMA KeyVouches ==
    ASSUME PasswordInv, RecoveryInv', NEW f \in Forms, SetKageLoginKey(f)
    PROVE  PasswordInv'
<1> DEFINE name == forms[f].name
           typed == forms[f].typed
           entry == [code |-> forms[f].account.code, typed |-> typed]
<1>1. /\ forms[f].at = "key" /\ name \in Usernames /\ typed \in Passwords /\ HasAccount(name)
      /\ forms' = [forms EXCEPT ![f] = Idle] /\ UNCHANGED <<codes, overtaken>>
      /\ users' = [users EXCEPT ![name].key = typed]
      /\ accepted' = [accepted EXCEPT ![name] = @ \cup {entry}]
    BY DEF SetKageLoginKey, Ready, Go, PasswordInv, RecoveryInv, Types, FormOK
<1>2. \A g \in Forms : forms'[g] = IF g = f THEN Idle ELSE forms[g]
    BY <1>1 DEF PasswordInv, RecoveryInv, Types
<1>3. Idle.at = "idle"
    BY DEF Idle
<1>4. /\ users[name] \in Account /\ users'[name] = [users[name] EXCEPT !.key = typed]
      /\ \A n \in Usernames \ {name} : users'[n] = users[n]
    BY <1>1 DEF PasswordInv, RecoveryInv, Types, HasAccount
<1>5. /\ users'[name].code = users[name].code /\ users'[name].password = users[name].password
      /\ users'[name].key = typed
    BY <1>4 DEF Account
<1>6. \A n \in Usernames : /\ HasAccount(n)' => HasAccount(n)
                           /\ users'[n].code = users[n].code /\ users'[n].password = users[n].password
    BY <1>1, <1>4, <1>5 DEF HasAccount
<1>7. f \in Storing(name) /\ entry = Verified(f) /\ entry \in Vouched(name) /\ entry.typed = typed
    BY <1>1 DEF Vouched, Storing, Verified
<1>8. entry \in [code : Codes, typed : Passwords]
    <2>1. codes \in Nat /\ MaxCodes \in Nat /\ codes <= MaxCodes
        BY AccountsAssumption DEF PasswordInv, RecoveryInv, Types
    <2>2. entry.code \in 1 .. codes
        BY <1>1, <1>7 DEF PasswordInv, Agreed
    <2>3. QED
        BY <1>1, <2>1, <2>2 DEF Codes
<1> HIDE DEF entry
<1>9. \A n \in Usernames : accepted'[n] = IF n = name THEN accepted[n] \cup {entry} ELSE accepted[n]
    BY <1>1 DEF PasswordInv, Requests
<1>10. Requests'
    BY <1>1, <1>2, <1>3, <1>8 DEF PasswordInv, Requests, Stages
<1>11. \A n \in Usernames : Vouched(n)' \subseteq Vouched(n)
    <2> SUFFICES ASSUME NEW n \in Usernames PROVE Vouched(n)' \subseteq Vouched(n)
        OBVIOUS
    <2>1. \A g \in Storing(n)' : g \in Storing(n) /\ Verified(g)' = Verified(g)
        BY <1>2, <1>3 DEF Storing, Verified
    <2>2. accepted'[n] \subseteq Vouched(n)
        BY <1>7, <1>9 DEF Vouched
    <2>3. QED
        BY <2>1, <2>2 DEF Vouched
<1>12. \A g \in Forms : forms'[g].at # "idle" => g # f /\ forms'[g] = forms[g] /\ forms[g].name \in Usernames
    BY <1>2, <1>3 DEF PasswordInv, RecoveryInv, Types, FormOK
<1>13. \A g \in Forms : Won(g)' => Won(g) /\ forms'[g] = forms[g] /\ forms[g].name \in Usernames
    BY <1>6, <1>12 DEF Won
<1>14. Agreed'
    <2>1. \A n \in Usernames : \A a \in Vouched(n)' : a.code \in 1 .. codes'
        BY <1>1, <1>11 DEF PasswordInv, Agreed
    <2>2. \A n \in Usernames : \A a, b \in Vouched(n)' : a.code = b.code => a.typed = b.typed
        BY <1>11 DEF PasswordInv, Agreed
    <2>3. \A n \in Usernames : \A a \in Vouched(n)' :
              HasAccount(n)' /\ a.code = users'[n].code => a.typed = users'[n].password
        BY <1>6, <1>11 DEF PasswordInv, Agreed
    <2>4. \A g \in Forms : Won(g)' => users'[forms'[g].name].password = forms'[g].typed
        BY <1>6, <1>13 DEF PasswordInv, Agreed
    <2>5. \A n \in Usernames : \A a \in Vouched(n)', g \in Forms :
              forms'[g].at = "update" /\ forms'[g].name = n => a.code # forms'[g].new
        BY <1>11, <1>12 DEF PasswordInv, Agreed
    <2>6. QED
        BY <2>1, <2>2, <2>3, <2>4, <2>5 DEF Agreed
<1>15. KeysFit'
    <2>1. ASSUME NEW n \in Usernames \ overtaken, HasAccount(n)'
          PROVE  users'[n].key \in {NoAccount, users'[n].password}
        <3>1. CASE n = name
            BY <1>1, <1>5, <2>1, <3>1 DEF PasswordInv, KeysFit
        <3>2. CASE n # name
            BY <1>4, <1>6, <2>1, <3>2 DEF PasswordInv, KeysFit
        <3>3. QED
            BY <3>1, <3>2
    <2>2. QED
        BY <1>1, <1>6, <1>12, <2>1 DEF PasswordInv, KeysFit
<1>16. QED
    BY <1>10, <1>14, <1>15 DEF PasswordInv

\* A recovery sets another password: the logins that verified the old one are
\* overtaken, and nothing was accepted for the new code yet.
LEMMA UpdateFits ==
    ASSUME PasswordInv, RecoveryInv', NEW f \in Forms, Update(f)
    PROVE  PasswordInv'
<1> DEFINE name == forms[f].name
           x == [forms[f] EXCEPT !.at = "reread"]
           account == [password |-> forms[f].typed, code |-> forms[f].new, key |-> NoAccount]
<1>1. /\ forms[f].at = "update" /\ FormOK(forms[f]) /\ name \in Usernames /\ HasAccount(name)
      /\ "account" \in DOMAIN forms[f]
      /\ forms' = [forms EXCEPT ![f] = x] /\ UNCHANGED <<codes, accepted>>
    BY DEF Update, Go, PasswordInv, Requests, RecoveryInv, Types, FormOK
<1>2. /\ DOMAIN x = DOMAIN forms[f] /\ x.at = "reread" /\ x.name = name /\ x.typed = forms[f].typed
      /\ x.new = forms[f].new
    BY <1>1 DEF FormOK
<1> HIDE DEF x
<1>3. CASE users[name].code # forms[f].code
    <2>1. UNCHANGED <<users, overtaken>> /\ codes \in Nat
        BY <1>3, AccountsAssumption DEF Update, PasswordInv, RecoveryInv, Types
    <2>2. QED
        <3>1. /\ x.at \in Stages \ {"key"} /\ x.at # "idle" /\ x.at # "update" /\ "account" \in DOMAIN x
              /\ codes' \in Nat /\ codes <= codes'
            BY <1>1, <1>2, <2>1 DEF Stages
        <3>2. QED
            BY <1>1, <1>2, <2>1, <3>1, RequestKeeps
<1>4. CASE users[name].code = forms[f].code
    <2>1. /\ users' = [users EXCEPT ![name] = account]
          /\ overtaken' = IF KeysToStore(f) # {} THEN overtaken \cup {name} ELSE overtaken
        BY <1>4 DEF Update
    <2>2. account.password = forms[f].typed /\ account.code = forms[f].new /\ account.key = NoAccount
        OBVIOUS
    <2> HIDE DEF account
    <2>3. /\ \A n \in Usernames : users'[n] = IF n = name THEN account ELSE users[n]
          /\ \A g \in Forms : forms'[g] = IF g = f THEN x ELSE forms[g]
        BY <1>1, <2>1 DEF PasswordInv, RecoveryInv, Types
    <2>4. Requests'
        BY <1>1, <1>2, <2>1, <2>3 DEF PasswordInv, Requests, Stages
    <2>5. \A n \in Usernames : Vouched(n)' \subseteq Vouched(n)
        <3> SUFFICES ASSUME NEW n \in Usernames PROVE Vouched(n)' \subseteq Vouched(n)
            OBVIOUS
        <3>1. \A g \in Storing(n)' : g \in Storing(n) /\ Verified(g)' = Verified(g)
            BY <1>2, <2>3 DEF Storing, Verified
        <3>2. QED
            BY <1>1, <3>1 DEF Vouched
    <2>6. \A a \in Vouched(name) : a.code # forms[f].new
        BY <1>1 DEF PasswordInv, Agreed
    <2>7. ASSUME NEW g \in Forms, Won(g)' PROVE users'[forms'[g].name].password = forms'[g].typed
        <3>1. CASE g = f
            BY <1>1, <1>2, <2>2, <2>3, <3>1
        <3>2. CASE g # f
            <4>1. forms'[g] = forms[g] /\ Recovering(g) /\ forms[g].at = "reread" /\ forms[g].name \in Usernames
                BY <2>3, <2>7, <3>2 DEF Won, Recovering, PasswordInv, RecoveryInv, Types, FormOK
            <4>2. forms[g].new # forms[f].new
                BY <1>1, <3>2, <4>1 DEF PasswordInv, RecoveryInv, Fresh, Recovering
            <4>3. forms[g].name # name
                BY <2>2, <2>3, <2>7, <4>1, <4>2 DEF Won
            <4>4. QED
                BY <2>3, <2>7, <4>1, <4>3 DEF Won, PasswordInv, Agreed
        <3>3. QED
            BY <3>1, <3>2
    <2>8. ASSUME NEW n \in Usernames, NEW a \in Vouched(n)', NEW g \in Forms,
                 forms'[g].at = "update", forms'[g].name = n
          PROVE  a.code # forms'[g].new
        <3>1. forms'[g] = forms[g] /\ a \in Vouched(n)
            BY <1>2, <2>3, <2>5, <2>8
        <3>2. QED
            BY <2>8, <3>1 DEF PasswordInv, Agreed
    <2>9. ASSUME NEW n \in Usernames, NEW a \in Vouched(n)', HasAccount(n)', a.code = users'[n].code
          PROVE  a.typed = users'[n].password
        <3>1. CASE n = name
            BY <2>2, <2>3, <2>5, <2>6, <2>9, <3>1
        <3>2. CASE n # name
            BY <2>3, <2>5, <2>9, <3>2 DEF PasswordInv, Agreed, HasAccount
        <3>3. QED
            BY <3>1, <3>2
    <2>10. Agreed'
        <3>1. \A n \in Usernames : \A a \in Vouched(n)' : a.code \in 1 .. codes'
            BY <1>1, <2>5 DEF PasswordInv, Agreed
        <3>2. \A n \in Usernames : \A a, b \in Vouched(n)' : a.code = b.code => a.typed = b.typed
            BY <2>5 DEF PasswordInv, Agreed
        <3>3. QED
            BY <2>7, <2>8, <2>9, <3>1, <3>2 DEF Agreed
    <2>11. KeysFit'
        <3>1. ASSUME NEW n \in Usernames \ overtaken', HasAccount(n)'
              PROVE  users'[n].key \in {NoAccount, users'[n].password}
            <4>1. CASE n = name
                BY <2>2, <2>3, <4>1
            <4>2. CASE n # name
                BY <2>1, <2>3, <3>1, <4>2 DEF PasswordInv, KeysFit, HasAccount
            <4>3. QED
                BY <4>1, <4>2
        <3>2. ASSUME NEW g \in Forms, forms'[g].at = "key", forms'[g].name \notin overtaken'
              PROVE  users'[forms'[g].name].password = forms'[g].typed
            <4>1. g # f /\ forms'[g] = forms[g] /\ forms[g].name \in Usernames
                BY <1>2, <2>3, <3>2 DEF PasswordInv, RecoveryInv, Types, FormOK
            <4>2. forms[g].name # name
                <5>1. CASE forms[g].name = name
                    <6>1. g \in KeysToStore(f)
                        BY <3>2, <4>1, <5>1 DEF KeysToStore
                    <6>2. QED
                        BY <2>1, <3>2, <4>1, <5>1, <6>1
                <5>2. QED
                    BY <5>1
            <4>3. QED
                BY <2>1, <2>3, <3>2, <4>1, <4>2 DEF PasswordInv, KeysFit
        <3>3. QED
            BY <3>1, <3>2 DEF KeysFit
    <2>12. QED
        BY <2>4, <2>10, <2>11 DEF PasswordInv
<1>5. QED
    BY <1>3, <1>4

\* The web server stops: what was vouched for by its requests is forgotten.
LEMMA StopFits ==
    ASSUME PasswordInv, RecoveryInv', WebStops
    PROVE  PasswordInv'
<1>1. /\ forms' = [f \in Forms |-> Idle] /\ Idle.at = "idle"
      /\ UNCHANGED <<users, codes, accepted, overtaken>>
    BY DEF WebStops, Idle
<1>2. \A f \in Forms : forms'[f].at = "idle" /\ ~Won(f)'
    BY <1>1 DEF Won
<1>3. Requests'
    BY <1>1, <1>2 DEF PasswordInv, Requests, Stages
<1>4. \A n \in Usernames : Vouched(n)' \subseteq Vouched(n)
    BY <1>1, <1>2 DEF Vouched, Storing
<1>5. Agreed'
    <2>1. \A n \in Usernames : \A a \in Vouched(n)' : a.code \in 1 .. codes'
        BY <1>1, <1>4 DEF PasswordInv, Agreed
    <2>2. \A n \in Usernames : \A a, b \in Vouched(n)' : a.code = b.code => a.typed = b.typed
        BY <1>4 DEF PasswordInv, Agreed
    <2>3. \A n \in Usernames : \A a \in Vouched(n)' :
              HasAccount(n)' /\ a.code = users'[n].code => a.typed = users'[n].password
        BY <1>1, <1>4 DEF PasswordInv, Agreed, HasAccount
    <2>4. QED
        BY <1>2, <2>1, <2>2, <2>3 DEF Agreed
<1>6. KeysFit'
    BY <1>1, <1>2 DEF PasswordInv, KeysFit, HasAccount
<1>7. QED
    BY <1>3, <1>5, <1>6 DEF PasswordInv

\* A request is accepted for the account that is there.
LEMMA VerifyFits ==
    ASSUME PasswordInv, RecoveryInv', NEW f \in Forms, forms[f].at \notin {"idle", "key"},
           HasAccount(forms[f].name), users[forms[f].name].password = forms[f].typed,
           Accept(f, users[forms[f].name]), UNCHANGED <<users, codes, overtaken>>
    PROVE  PasswordInv'
<1>1. /\ forms[f].name \in Usernames /\ codes \in Nat
      /\ users \in [Usernames -> Account \cup {NoAccount}]
    BY AccountsAssumption DEF PasswordInv, RecoveryInv, Types, FormOK
<1>2. users[forms[f].name] \in Account
    BY <1>1 DEF HasAccount
<1>3. QED
    BY <1>1, <1>2, AcceptKeeps

\* The account is created with the password that was typed, or it is there.
LEMMA CreateFits ==
    ASSUME PasswordInv, RecoveryInv', NEW f \in Forms, CreateUser(f)
    PROVE  PasswordInv'
<1> DEFINE name == forms[f].name
           account == NewAccount(forms[f].typed)
<1>1. /\ forms[f].at = "create" /\ FormOK(forms[f]) /\ name \in Usernames /\ forms[f].typed \in Passwords
      /\ "account" \in DOMAIN forms[f] /\ codes \in Nat /\ MaxCodes \in Nat /\ UNCHANGED overtaken
    BY AccountsAssumption DEF CreateUser, PasswordInv, Requests, RecoveryInv, Types, FormOK
<1>2. CASE users[name] # NoAccount
    <2> DEFINE x == [forms[f] EXCEPT !.at = "again"]
    <2>1. forms' = [forms EXCEPT ![f] = x] /\ UNCHANGED <<users, codes, accepted>>
        BY <1>2 DEF CreateUser, Go
    <2>2. /\ x.at \in Stages \ {"key"} /\ x.at \notin {"idle", "update", "reread"} /\ "account" \in DOMAIN x
          /\ codes' \in Nat /\ codes <= codes'
        BY <1>1, <2>1 DEF FormOK, Stages
    <2> HIDE DEF x
    <2>3. QED
        BY <1>1, <2>1, <2>2, RequestKeeps
<1>3. CASE users[name] = NoAccount
    <2>1. /\ codes < MaxCodes /\ codes' = codes + 1
          /\ users' = [users EXCEPT ![name] = account]
          /\ Accept(f, account)
        BY <1>3 DEF CreateUser
    <2>2. /\ account \in Account /\ account.code = codes + 1 /\ account.key = NoAccount
          /\ account.password = forms[f].typed
        BY <1>1, <2>1 DEF NewAccount, Account, Codes
    <2> HIDE DEF account
    <2>3. /\ users' \in [Usernames -> Account \cup {NoAccount}]
          /\ users'[name] = account /\ \A n \in Usernames \ {name} : users'[n] = users[n]
        BY <1>1, <2>1, <2>2 DEF PasswordInv, RecoveryInv, Types
    <2>4. codes' \in Nat /\ codes <= codes' /\ forms[f].at \notin {"idle", "key"}
        BY <1>1, <2>1
    <2>5. QED
        BY <1>1, <1>3, <2>1, <2>2, <2>3, <2>4, AcceptKeeps
<1>4. QED
    BY <1>2, <1>3

\* The account is found, and the new code is made: nobody was accepted for it.
LEMMA FindFits ==
    ASSUME PasswordInv, RecoveryInv', NEW f \in Forms, FindAccount(f)
    PROVE  PasswordInv'
<1>1. /\ forms[f].at = "find" /\ FormOK(forms[f]) /\ "account" \in DOMAIN forms[f]
      /\ codes \in Nat /\ UNCHANGED <<users, overtaken>>
    BY AccountsAssumption DEF FindAccount, PasswordInv, Requests, RecoveryInv, Types
<1>2. CASE Refuse(f) /\ codes' = codes
    <2>1. forms' = [forms EXCEPT ![f] = Idle] /\ Idle.at = "idle" /\ accepted' = accepted
        BY <1>2 DEF Refuse, Go, Idle
    <2>2. codes' \in Nat /\ codes <= codes' /\ Idle.at \in Stages \ {"key"}
        BY <1>1, <1>2, <2>1 DEF Stages
    <2>3. QED
        BY <1>1, <2>1, <2>2, RequestKeeps
<1>3. CASE users[forms[f].name] # NoAccount
    <2> DEFINE x == [forms[f] EXCEPT !.at = "update", !.new = codes + 1]
    <2>1. /\ codes' = codes + 1 /\ accepted' = accepted /\ forms' = [forms EXCEPT ![f] = x]
        BY <1>3 DEF FindAccount, Go
    <2>2. /\ x.at \in Stages \ {"key"} /\ x.at = "update" /\ x.new = codes + 1 /\ "account" \in DOMAIN x
          /\ codes' \in Nat /\ codes <= codes'
        BY <1>1, <2>1 DEF FormOK, Stages
    <2> HIDE DEF x
    <2>3. QED
        BY <1>1, <2>1, <2>2, RequestKeeps
<1>4. QED
    BY <1>2, <1>3 DEF FindAccount

\* The account has the new code, so it has the new password.
LEMMA RereadFits ==
    ASSUME PasswordInv, RecoveryInv', NEW f \in Forms, Reread(f)
    PROVE  PasswordInv'
<1>1. /\ forms[f].at = "reread" /\ FormOK(forms[f]) /\ HasAccount(forms[f].name)
      /\ codes \in Nat /\ UNCHANGED <<users, codes, overtaken>>
    BY AccountsAssumption DEF Reread, PasswordInv, RecoveryInv, Types, FormOK
<1>2. CASE users[forms[f].name].code = forms[f].new
    <2>1. Accept(f, users[forms[f].name])
        BY <1>2 DEF Reread
    <2>2. users[forms[f].name].password = forms[f].typed
        BY <1>1, <1>2 DEF PasswordInv, Agreed, Won
    <2>3. forms[f].at \notin {"idle", "key"}
        BY <1>1
    <2>4. QED
        BY <1>1, <2>1, <2>2, <2>3, VerifyFits
<1>3. CASE Refuse(f)
    <2>1. forms' = [forms EXCEPT ![f] = Idle] /\ Idle.at = "idle" /\ accepted' = accepted
        BY <1>3 DEF Refuse, Go, Idle
    <2>2. codes' \in Nat /\ codes <= codes' /\ Idle.at \in Stages \ {"key"}
        BY <1>1, <2>1 DEF Stages
    <2>3. QED
        BY <1>1, <2>1, <2>2, RequestKeeps
<1>4. QED
    BY <1>2, <1>3 DEF Reread

\* A request is looked up: it is to create the account, or is verified.
LEMMA LookupFits ==
    ASSUME PasswordInv, RecoveryInv', NEW f \in Forms, GetByName(f) \/ GetAgain(f)
    PROVE  PasswordInv'
<1>1. /\ forms[f].at \in {"lookup", "again"} /\ FormOK(forms[f]) /\ "account" \in DOMAIN forms[f]
      /\ codes \in Nat /\ UNCHANGED <<users, codes, overtaken>>
    BY AccountsAssumption DEF GetByName, GetAgain, PasswordInv, Requests, RecoveryInv, Types
<1>2. CASE Go(f, [forms[f] EXCEPT !.at = "create"]) /\ accepted' = accepted
    <2> DEFINE x == [forms[f] EXCEPT !.at = "create"]
    <2>1. forms' = [forms EXCEPT ![f] = x]
        BY <1>2 DEF Go
    <2>2. /\ x.at \in Stages \ {"key"} /\ x.at \notin {"idle", "update", "reread"} /\ "account" \in DOMAIN x
          /\ codes' \in Nat /\ codes <= codes'
        BY <1>1 DEF FormOK, Stages
    <2> HIDE DEF x
    <2>3. QED
        BY <1>1, <1>2, <2>1, <2>2, RequestKeeps
<1>3. CASE Refuse(f)
    <2>1. forms' = [forms EXCEPT ![f] = Idle] /\ Idle.at = "idle" /\ accepted' = accepted
        BY <1>3 DEF Refuse, Go, Idle
    <2>2. codes' \in Nat /\ codes <= codes' /\ Idle.at \in Stages \ {"key"}
        BY <1>1, <2>1 DEF Stages
    <2>3. QED
        BY <1>1, <2>1, <2>2, RequestKeeps
<1>4. CASE /\ HasAccount(forms[f].name) /\ users[forms[f].name].password = forms[f].typed
           /\ Accept(f, users[forms[f].name])
    <2>1. forms[f].at \notin {"idle", "key"}
        BY <1>1
    <2>2. QED
        BY <1>1, <1>4, <2>1, VerifyFits
<1>5. QED
    BY <1>2, <1>3, <1>4 DEF GetByName, GetAgain, VerifyPassword, HasAccount

\* A form is sent: nothing is vouched for yet.
LEMMA SentFits ==
    ASSUME PasswordInv, RecoveryInv', NEW f \in Forms, NEW name, NEW typed, NEW kage, NEW code,
           CreateId(f, name, typed, kage) \/ RecoverId(f, name, code, typed, kage)
    PROVE  PasswordInv'
<1>1. codes \in Nat /\ UNCHANGED <<users, codes, accepted, overtaken>>
    BY AccountsAssumption DEF CreateId, RecoverId, PasswordInv, RecoveryInv, Types
<1>2. PICK x : /\ forms' = [forms EXCEPT ![f] = x] /\ x.at \in {"lookup", "find"} /\ "account" \in DOMAIN x
    <2> DEFINE new == [at |-> "lookup", name |-> name, typed |-> typed, kage |-> kage, account |-> NoAccount]
               old == [at |-> "find", name |-> name, typed |-> typed, kage |-> kage,
                       account |-> NoAccount, code |-> code, new |-> 0]
    <2>1. forms' = [forms EXCEPT ![f] = new] \/ forms' = [forms EXCEPT ![f] = old]
        BY DEF CreateId, RecoverId, Go
    <2>2. new.at = "lookup" /\ "account" \in DOMAIN new /\ old.at = "find" /\ "account" \in DOMAIN old
        OBVIOUS
    <2> HIDE DEF new, old
    <2>3. QED
        BY <2>1, <2>2
<1>3. /\ x.at \in Stages \ {"key"} /\ x.at \notin {"idle", "update", "reread"}
      /\ codes' \in Nat /\ codes <= codes'
    BY <1>1, <1>2 DEF Stages
<1>4. QED
    BY <1>1, <1>2, <1>3, RequestKeeps

LEMMA PasswordInit == AccountsInit => PasswordInv
<1> SUFFICES ASSUME AccountsInit PROVE PasswordInv
    OBVIOUS
<1>1. /\ \A f \in Forms : forms[f].at = "idle" /\ ~Won(f)
      /\ \A n \in Usernames : ~HasAccount(n) /\ accepted[n] = {}
    BY DEF AccountsInit, Idle, Won, HasAccount
<1>2. \A n \in Usernames : Vouched(n) = {}
    BY <1>1 DEF Vouched, Storing
<1>3. Requests
    BY <1>1 DEF AccountsInit, Requests, Stages
<1>4. QED
    BY <1>1, <1>2, <1>3, RecoveryInit DEF PasswordInv, Agreed, KeysFit

LEMMA PasswordStep == PasswordInv /\ [AccountsNext]_accountVars => PasswordInv'
<1> SUFFICES ASSUME PasswordInv, [AccountsNext]_accountVars PROVE PasswordInv'
    OBVIOUS
<1>1. RecoveryInv'
    BY RecoveryStep DEF PasswordInv
<1>2. CASE UNCHANGED accountVars
    <2>1. UNCHANGED <<users, codes, forms, accepted, overtaken>>
        BY <1>2 DEF accountVars
    <2>2. \A n \in Usernames : Vouched(n)' = Vouched(n)
        BY <2>1 DEF Vouched, Storing, Verified
    <2>3. Requests' /\ KeysFit'
        BY <2>1 DEF PasswordInv, Requests, KeysFit, HasAccount
    <2>4. Agreed'
        BY <2>1, <2>2 DEF PasswordInv, Agreed, HasAccount, Won
    <2>5. QED
        BY <1>1, <2>3, <2>4 DEF PasswordInv
<1>3. CASE WebStops
    BY <1>1, <1>3, StopFits
<1>4. ASSUME NEW f \in Forms,
             \/ \E name \in Usernames, typed \in Passwords, kage \in BOOLEAN :
                 \/ CreateId(f, name, typed, kage)
                 \/ \E code \in 1 .. codes : RecoverId(f, name, code, typed, kage)
             \/ GetByName(f) \/ CreateUser(f) \/ GetAgain(f) \/ SetKageLoginKey(f)
             \/ FindAccount(f) \/ Update(f) \/ Reread(f)
      PROVE  PasswordInv'
    BY <1>1, <1>4, SentFits, LookupFits, CreateFits, KeyVouches, FindFits, UpdateFits, RereadFits
<1>5. QED
    BY <1>2, <1>3, <1>4 DEF AccountsNext

\* Accounts stay usable while requests for the same name interleave statement by
\* statement (signup.py, SqlAccountStore): codes are used once, requests that
\* were accepted agree on the password, and the login key is that password.
THEOREM AccountsAreSound == AccountsSpec => []AccountsSound
<1>1. PasswordInv => AccountsSound
    <2> SUFFICES ASSUME PasswordInv PROVE AccountsSound
        OBVIOUS
    <2>1. spent \in [Codes -> 0 .. 2]
        BY DEF PasswordInv, RecoveryInv, Types, OneRecoveryPerCode
    <2>2. AccountsTypeOK
        BY <2>1 DEF PasswordInv, RecoveryInv, Types, Requests, Stages, AccountsTypeOK
    <2>3. AgreeOnPassword
        BY DEF PasswordInv, Agreed, Vouched, AgreeOnPassword
    <2>4. KeyIsPassword
        BY DEF PasswordInv, KeysFit, KeyIsPassword, HasAccount
    <2>5. QED
        BY <2>2, <2>3, <2>4 DEF PasswordInv, RecoveryInv, AccountsSound
<1>2. QED
    BY <1>1, PasswordInit, PasswordStep, PTL DEF AccountsSpec

-----------------------------------------------------------------------------
\* Announcements.  What is taken in is in order because what waits is the end
\* of what was sent, and what is being posted came just before it; it is not
\* taken in twice because no event is sent twice: a day's events are of a day
\* that the timer had not seen, and every other one has a number of its own.
Events == [kind : {"market", "event", "news"}, of : Nat]

\* How many of the events the worker has taken so far.
Begun == Len(sent) - Len(queue)

Days == day \in 0 .. MaxDay /\ seen \in 0 .. day

SentOnce ==
    /\ sent \in Seq(Events)
    /\ \A i, j \in 1 .. Len(sent) : sent[i] = sent[j] => i = j
    /\ \A i \in 1 .. Len(sent) : IF sent[i].kind = "news" THEN sent[i].of < News ELSE sent[i].of <= seen

Waiting ==
    /\ queue \in Seq(Events) /\ Len(queue) <= Len(sent)
    /\ \A i \in 1 .. Len(queue) : queue[i] = sent[Begun + i]

InHand ==
    posting # NoEvent =>
        /\ posting = [event |-> posting.event, attempt |-> posting.attempt] /\ posting.attempt \in 0 .. 1
        /\ \E p \in 1 .. Begun :
             sent[p] = posting.event /\ \A i \in 1 .. Len(taken) : \E k \in 1 .. p - 1 : sent[k] = taken[i]

TakenIn ==
    /\ taken \in Seq(Events)
    /\ Len(taken) + Len(queue) + (IF posting = NoEvent THEN 0 ELSE 1) <= Len(sent)
    /\ \A i \in 1 .. Len(taken) : \E k \in 1 .. Begun : sent[k] = taken[i]
    /\ \A i, j \in 1 .. Len(taken) : i < j =>
          \E k, l \in 1 .. Len(sent) : k < l /\ sent[k] = taken[i] /\ sent[l] = taken[j]

HookInv == Days /\ SentOnce /\ Waiting /\ InHand /\ TakenIn

LEMMA Lengths ==
    ASSUME HookInv
    PROVE  /\ Len(sent) \in Nat /\ Len(queue) \in Nat /\ Len(taken) \in Nat /\ Begun \in Nat
           /\ DOMAIN sent = 1 .. Len(sent) /\ DOMAIN taken = 1 .. Len(taken)
           /\ Begun + Len(queue) = Len(sent)
           /\ \A i \in 1 .. Len(sent) : sent[i] \in Events /\ sent[i].of \in Nat
<1>1. sent \in Seq(Events) /\ \A i \in 1 .. Len(sent) : sent[i] \in Events
    <2>1. sent \in Seq(Events)
        BY DEF HookInv, SentOnce
    <2>2. QED
        BY <2>1
<1>2. \A i \in 1 .. Len(sent) : sent[i].of \in Nat
    BY <1>1 DEF Events
<1>3. QED
    BY <1>1, <1>2 DEF HookInv, Waiting, TakenIn, Begun

LEMMA Joined ==
    ASSUME NEW s \in Seq(Events), NEW t \in Seq(Events)
    PROVE  /\ s \o t \in Seq(Events) /\ Len(s \o t) = Len(s) + Len(t)
           /\ \A i \in 1 .. Len(s) : (s \o t)[i] = s[i]
           /\ \A i \in 1 .. Len(t) : (s \o t)[Len(s) + i] = t[i]
<1>1. /\ s \o t \in Seq(Events) /\ Len(s \o t) = Len(s) + Len(t) /\ Len(s) \in Nat /\ Len(t) \in Nat
      /\ \A i \in 1 .. Len(s) + Len(t) : (s \o t)[i] = IF i <= Len(s) THEN s[i] ELSE t[i - Len(s)]
    BY ConcatProperties
<1>2. ASSUME NEW i \in 1 .. Len(s) PROVE (s \o t)[i] = s[i]
    BY <1>1
<1>3. ASSUME NEW i \in 1 .. Len(t) PROVE (s \o t)[Len(s) + i] = t[i]
    <2>1. Len(s) + i \in 1 .. Len(s) + Len(t) /\ ~(Len(s) + i <= Len(s)) /\ (Len(s) + i) - Len(s) = i
        BY <1>1
    <2>2. QED
        BY <1>1, <2>1
<1>4. QED
    BY <1>1, <1>2, <1>3

\* Events that are sent go to the end of what was sent and of what waits.
LEMMA SendExtends ==
    ASSUME HookInv, NEW events \in Seq(Events), Send(events), UNCHANGED <<posting, taken>>
    PROVE  /\ sent' \in Seq(Events) /\ Len(sent') = Len(sent) + Len(events)
           /\ \A i \in 1 .. Len(sent) : sent'[i] = sent[i]
           /\ \A i \in 1 .. Len(events) : sent'[Len(sent) + i] = events[i]
           /\ Waiting' /\ InHand' /\ TakenIn'
<1>1. /\ sent \in Seq(Events) /\ queue \in Seq(Events) /\ Len(events) \in Nat
      /\ sent' = sent \o events /\ queue' = queue \o events
    BY DEF Send, HookInv, SentOnce, Waiting
<1>2. /\ sent' \in Seq(Events) /\ Len(sent') = Len(sent) + Len(events)
      /\ \A i \in 1 .. Len(sent) : sent'[i] = sent[i]
      /\ \A i \in 1 .. Len(events) : sent'[Len(sent) + i] = events[i]
    BY <1>1, Joined
<1>3. /\ queue' \in Seq(Events) /\ Len(queue') = Len(queue) + Len(events)
      /\ \A i \in 1 .. Len(queue) : queue'[i] = queue[i]
      /\ \A i \in 1 .. Len(events) : queue'[Len(queue) + i] = events[i]
    BY <1>1, Joined
<1>4. /\ Len(sent) \in Nat /\ Len(queue) \in Nat /\ Len(taken) \in Nat /\ Begun \in Nat
      /\ Begun + Len(queue) = Len(sent)
    BY Lengths
<1>5. Begun' = Begun /\ \A k \in 1 .. Begun : k \in 1 .. Len(sent) /\ k \in 1 .. Len(sent')
    BY <1>1, <1>2, <1>3, <1>4 DEF Begun
<1> HIDE DEF Begun
<1>6. Waiting'
    <2>1. ASSUME NEW i \in 1 .. Len(queue') PROVE queue'[i] = sent'[Begun + i]
        <3>1. CASE i \in 1 .. Len(queue)
            <4>1. Begun + i \in 1 .. Len(sent)
                BY <1>4, <3>1
            <4>2. QED
                BY <1>2, <1>3, <3>1, <4>1 DEF HookInv, Waiting
        <3>2. CASE i \notin 1 .. Len(queue)
            <4>1. PICK j \in 1 .. Len(events) : i = Len(queue) + j
                <5>1. i - Len(queue) \in 1 .. Len(events) /\ i = Len(queue) + (i - Len(queue))
                    BY <1>1, <1>3, <1>4, <3>2
                <5>2. QED
                    BY <5>1
            <4>2. Begun + i = Len(sent) + j
                BY <1>4, <4>1
            <4>3. QED
                BY <1>2, <1>3, <4>1, <4>2
        <3>3. QED
            BY <3>1, <3>2
    <2>2. QED
        BY <1>1, <1>2, <1>3, <1>4, <1>5, <2>1, SMTT(30) DEF HookInv, Waiting
<1>7. InHand'
    BY <1>2, <1>4, <1>5 DEF HookInv, InHand
<1>8. TakenIn'
    <2>1. ASSUME NEW i \in 1 .. Len(taken) PROVE \E k \in 1 .. Begun : sent'[k] = taken[i]
        <3>1. PICK k \in 1 .. Begun : sent[k] = taken[i]
            BY DEF HookInv, TakenIn
        <3>2. QED
            BY <1>2, <1>5, <3>1
    <2>2. ASSUME NEW i \in 1 .. Len(taken), NEW j \in 1 .. Len(taken), i < j
          PROVE  \E k, l \in 1 .. Len(sent') : k < l /\ sent'[k] = taken[i] /\ sent'[l] = taken[j]
        <3>1. \A k \in 1 .. Len(sent) : k \in 1 .. Len(sent')
            BY <1>1, <1>2, <1>4
        <3>2. PICK k \in 1 .. Len(sent), l \in 1 .. Len(sent) : k < l /\ sent[k] = taken[i] /\ sent[l] = taken[j]
            BY <2>2 DEF HookInv, TakenIn
        <3>3. QED
            BY <1>2, <3>1, <3>2
    <2>3. Len(taken) + Len(queue') + (IF posting = NoEvent THEN 0 ELSE 1) <= Len(sent')
        BY <1>1, <1>2, <1>3, <1>4 DEF HookInv, TakenIn
    <2>4. QED
        BY <1>5, <2>1, <2>2, <2>3 DEF HookInv, TakenIn
<1>9. QED
    BY <1>2, <1>6, <1>7, <1>8

NewsAt(s) == {i \in DOMAIN s : s[i].kind = "news"}

LEMMA CheckKeeps == ASSUME HookInv, Check PROVE HookInv'
<1> DEFINE a == [kind |-> "market", of |-> day]
           b == [kind |-> "event", of |-> day]
<1>1. /\ day # seen /\ seen' = day /\ day' = day /\ day \in Nat /\ seen \in Nat /\ seen <= day
      /\ Send(<<a, b>>) /\ UNCHANGED <<posting, taken>>
    BY WebhooksAssumption DEF Check, DayEvents, HookInv, Days
<1>2. <<a, b>> \in Seq(Events) /\ Len(<<a, b>>) = 2 /\ <<a, b>>[1] = a /\ <<a, b>>[2] = b
    BY <1>1 DEF Events
<1>3. /\ a.kind = "market" /\ b.kind = "event" /\ a.of = day /\ b.of = day
    OBVIOUS
<1> HIDE DEF a, b
<1>4. /\ sent' \in Seq(Events) /\ Len(sent') = Len(sent) + 2
      /\ \A i \in 1 .. Len(sent) : sent'[i] = sent[i]
      /\ sent'[Len(sent) + 1] = a /\ sent'[Len(sent) + 2] = b
      /\ Waiting' /\ InHand' /\ TakenIn'
    <2> DEFINE events == <<a, b>>
    <2>1. events \in Seq(Events) /\ Len(events) = 2 /\ events[1] = a /\ events[2] = b /\ Send(events)
        BY <1>1, <1>2
    <2> HIDE DEF events
    <2>2. /\ sent' \in Seq(Events) /\ Len(sent') = Len(sent) + Len(events)
          /\ \A i \in 1 .. Len(sent) : sent'[i] = sent[i]
          /\ \A i \in 1 .. Len(events) : sent'[Len(sent) + i] = events[i]
          /\ Waiting' /\ InHand' /\ TakenIn'
        BY <1>1, <2>1, SendExtends
    <2>3. 1 \in 1 .. Len(events) /\ 2 \in 1 .. Len(events)
        BY <2>1
    <2>4. QED
        BY <2>1, <2>2, <2>3
<1>5. Len(sent) \in Nat /\ DOMAIN sent = 1 .. Len(sent) /\ DOMAIN sent' = 1 .. Len(sent) + 2
    BY <1>4, Lengths
<1>6. \A i \in 1 .. Len(sent) + 2 : i \in 1 .. Len(sent) \/ i = Len(sent) + 1 \/ i = Len(sent) + 2
    BY <1>5
<1>7. News' = News
    <2>1. NewsAt(sent') = NewsAt(sent)
        BY <1>3, <1>4, <1>5, <1>6 DEF NewsAt
    <2>2. QED
        BY <2>1 DEF News, NewsAt
<1>8. \A i \in 1 .. Len(sent) : sent[i] # a /\ sent[i] # b
    BY <1>1, <1>3 DEF HookInv, SentOnce, Events
<1>9. SentOnce'
    <2>1. \A i, j \in 1 .. Len(sent') : sent'[i] = sent'[j] => i = j
        BY <1>3, <1>4, <1>5, <1>6, <1>8 DEF HookInv, SentOnce
    <2>2. \A i \in 1 .. Len(sent') : IF sent'[i].kind = "news" THEN sent'[i].of < News' ELSE sent'[i].of <= seen'
        <3>1. ASSUME NEW i \in 1 .. Len(sent), sent[i].kind # "news" PROVE sent[i].of <= day
            <4>1. sent[i].of \in Nat /\ sent[i].of <= seen
                BY <3>1, Lengths DEF HookInv, SentOnce
            <4>2. QED
                BY <1>1, <4>1
        <3>2. \A i \in 1 .. Len(sent) : sent[i].kind = "news" => sent[i].of < News
            BY DEF HookInv, SentOnce
        <3>3. QED
            BY <1>1, <1>3, <1>4, <1>5, <1>6, <1>7, <3>1, <3>2
    <2>3. QED
        BY <1>4, <2>1, <2>2 DEF SentOnce
<1>10. Days'
    BY <1>1 DEF HookInv, Days
<1>11. QED
    BY <1>4, <1>9, <1>10 DEF HookInv

LEMMA AnnounceKeeps == ASSUME HookInv, Announce PROVE HookInv'
<1> DEFINE a == [kind |-> "news", of |-> News]
<1>1. Len(sent) \in Nat /\ DOMAIN sent = 1 .. Len(sent)
    BY Lengths
<1>2. News \in Nat /\ IsFiniteSet(NewsAt(sent)) /\ News = Cardinality(NewsAt(sent))
    <2>1. IsFiniteSet(1 .. Len(sent)) /\ NewsAt(sent) \in SUBSET (1 .. Len(sent))
        BY <1>1, FS_Interval DEF NewsAt
    <2>2. QED
        BY <2>1, FS_Subset, FS_CardinalityType DEF News, NewsAt
<1>3. Send(<<a>>) /\ UNCHANGED <<posting, taken, day, seen>>
    BY DEF Announce
<1>4. <<a>> \in Seq(Events) /\ Len(<<a>>) = 1 /\ <<a>>[1] = a
    BY <1>2 DEF Events
<1>5. a.kind = "news" /\ a.of = News
    OBVIOUS
<1> HIDE DEF a
<1>6. /\ sent' \in Seq(Events) /\ Len(sent') = Len(sent) + 1
      /\ \A i \in 1 .. Len(sent) : sent'[i] = sent[i]
      /\ sent'[Len(sent) + 1] = a /\ Waiting' /\ InHand' /\ TakenIn'
    <2> DEFINE events == <<a>>
    <2>1. events \in Seq(Events) /\ Len(events) = 1 /\ events[1] = a /\ Send(events)
        BY <1>3, <1>4
    <2> HIDE DEF events
    <2>2. /\ sent' \in Seq(Events) /\ Len(sent') = Len(sent) + Len(events)
          /\ \A i \in 1 .. Len(sent) : sent'[i] = sent[i]
          /\ \A i \in 1 .. Len(events) : sent'[Len(sent) + i] = events[i]
          /\ Waiting' /\ InHand' /\ TakenIn'
        BY <1>3, <2>1, SendExtends
    <2>3. 1 \in 1 .. Len(events)
        BY <2>1
    <2>4. QED
        BY <2>1, <2>2, <2>3
<1>7. DOMAIN sent' = 1 .. Len(sent) + 1 /\ \A i \in 1 .. Len(sent) + 1 : i \in 1 .. Len(sent) \/ i = Len(sent) + 1
    BY <1>1, <1>6
<1>8. News' = News + 1
    <2>1. NewsAt(sent') = NewsAt(sent) \cup {Len(sent) + 1} /\ Len(sent) + 1 \notin NewsAt(sent)
        BY <1>1, <1>5, <1>6, <1>7 DEF NewsAt
    <2>2. Cardinality(NewsAt(sent')) = News + 1
        BY <1>2, <2>1, FS_AddElement
    <2>3. QED
        BY <2>2 DEF News, NewsAt
<1>9. \A i \in 1 .. Len(sent) : sent[i] # a
    BY <1>2, <1>5 DEF HookInv, SentOnce, Events
<1>10. SentOnce'
    <2>1. \A i, j \in 1 .. Len(sent') : sent'[i] = sent'[j] => i = j
        BY <1>6, <1>7, <1>9 DEF HookInv, SentOnce
    <2>2. \A i \in 1 .. Len(sent') : IF sent'[i].kind = "news" THEN sent'[i].of < News' ELSE sent'[i].of <= seen'
        <3>1. ASSUME NEW i \in 1 .. Len(sent), sent[i].kind = "news" PROVE sent[i].of < News + 1
            <4>1. sent[i].of \in Nat /\ sent[i].of < News
                BY <3>1, Lengths DEF HookInv, SentOnce
            <4>2. QED
                BY <1>2, <4>1
        <3>2. News < News + 1
            BY <1>2
        <3>3. QED
            BY <1>3, <1>5, <1>6, <1>7, <1>8, <3>1, <3>2 DEF HookInv, SentOnce
    <2>3. QED
        BY <1>6, <2>1, <2>2 DEF SentOnce
<1>11. Days'
    BY <1>3 DEF HookInv, Days
<1>12. QED
    BY <1>6, <1>10, <1>11 DEF HookInv

LEMMA TakeEventKeeps == ASSUME HookInv, TakeEvent PROVE HookInv'
<1>1. /\ queue \in Seq(Events) /\ queue # <<>> /\ queue' = Tail(queue) /\ posting = NoEvent
      /\ posting' = [event |-> Head(queue), attempt |-> 0] /\ UNCHANGED <<day, seen, sent, taken>>
    BY DEF TakeEvent, HookInv, Waiting
<1>2. /\ Len(sent) \in Nat /\ Len(queue) \in Nat /\ Len(taken) \in Nat /\ Begun \in Nat
      /\ Begun + Len(queue) = Len(sent)
    BY Lengths
<1>3. /\ queue' \in Seq(Events) /\ Len(queue') = Len(queue) - 1 /\ Head(queue) = queue[1] /\ Len(queue) >= 1
      /\ \A i \in 1 .. Len(queue') : queue'[i] = queue[i + 1]
    BY <1>1
<1>4. Begun' = Begun + 1
    BY <1>1, <1>2, <1>3 DEF Begun
<1>5. Days' /\ SentOnce'
    <2>1. News' = News
        BY <1>1 DEF News
    <2>2. QED
        BY <1>1, <2>1 DEF HookInv, Days, SentOnce
<1>6. sent[Begun + 1] = Head(queue)
    BY <1>2, <1>3 DEF HookInv, Waiting
<1> HIDE DEF Begun
<1>7. Waiting'
    <2>1. \A i \in 1 .. Len(queue) - 1 : i + 1 \in 1 .. Len(queue) /\ Begun + (i + 1) = (Begun + 1) + i
        BY <1>2
    <2>2. \A i \in 1 .. Len(queue) - 1 : queue'[i] = sent[(Begun + 1) + i]
        BY <1>3, <2>1 DEF HookInv, Waiting
    <2>3. QED
        BY <1>1, <1>2, <1>3, <1>4, <2>2 DEF Waiting
<1>8. InHand'
    <2>1. posting'.event = Head(queue) /\ posting'.attempt = 0
        BY <1>1
    <2>2. Begun + 1 \in 1 .. Begun' /\ (Begun + 1) - 1 = Begun
        BY <1>2, <1>4
    <2>3. \A i \in 1 .. Len(taken') : \E k \in 1 .. (Begun + 1) - 1 : sent'[k] = taken'[i]
        BY <1>1, <2>2 DEF HookInv, TakenIn
    <2>4. QED
        BY <1>1, <1>6, <2>1, <2>2, <2>3 DEF InHand
<1>9. TakenIn'
    <2>1. Len(taken') + Len(queue') + (IF posting' = NoEvent THEN 0 ELSE 1) <= Len(sent')
        BY <1>1, <1>2, <1>3 DEF HookInv, TakenIn
    <2>2. \A i \in 1 .. Len(taken') : \E k \in 1 .. Begun' : sent'[k] = taken'[i]
        BY <1>1, <1>2, <1>4 DEF HookInv, TakenIn
    <2>3. QED
        BY <1>1, <2>1, <2>2 DEF HookInv, TakenIn
<1>10. QED
    BY <1>5, <1>7, <1>8, <1>9 DEF HookInv

\* The receiver has the event, and the worker is done with it.
LEMMA PostedKeeps ==
    ASSUME HookInv, posting # NoEvent, posting' = NoEvent, taken' = Append(taken, posting.event),
           UNCHANGED <<day, seen, queue, sent>>
    PROVE  HookInv'
<1>1. /\ Len(sent) \in Nat /\ Len(queue) \in Nat /\ Len(taken) \in Nat /\ Begun \in Nat
      /\ Begun + Len(queue) = Len(sent)
    BY Lengths
<1>2. PICK p \in 1 .. Begun :
         sent[p] = posting.event /\ \A i \in 1 .. Len(taken) : \E k \in 1 .. p - 1 : sent[k] = taken[i]
    BY DEF HookInv, InHand
<1>3. p \in 1 .. Len(sent) /\ posting.event \in Events /\ taken \in Seq(Events)
    BY <1>1, <1>2 DEF HookInv, SentOnce, TakenIn
<1>4. /\ taken' \in Seq(Events) /\ Len(taken') = Len(taken) + 1 /\ taken'[Len(taken) + 1] = posting.event
      /\ \A i \in 1 .. Len(taken) : taken'[i] = taken[i]
    BY <1>3
<1>5. \A i \in 1 .. Len(taken') : i \in 1 .. Len(taken) \/ i = Len(taken) + 1
    BY <1>1, <1>4
<1>6. Begun' = Begun /\ News' = News
    BY DEF Begun, News
<1> HIDE DEF Begun
<1>7. Days' /\ SentOnce' /\ Waiting' /\ InHand'
    BY <1>6 DEF HookInv, Days, SentOnce, Waiting, InHand
<1>8. \A i \in 1 .. Len(taken') : \E k \in 1 .. Begun' : sent'[k] = taken'[i]
    <2>1. SUFFICES ASSUME NEW i \in 1 .. Len(taken') PROVE \E k \in 1 .. Begun : sent[k] = taken'[i]
        BY <1>6
    <2>2. CASE i \in 1 .. Len(taken)
        <3>1. PICK k \in 1 .. Begun : sent[k] = taken[i]
            BY <2>2 DEF HookInv, TakenIn
        <3>2. QED
            BY <1>4, <2>2, <3>1
    <2>3. CASE i = Len(taken) + 1
        BY <1>2, <1>4, <2>3
    <2>4. QED
        BY <1>5, <2>1, <2>2, <2>3
<1>9. ASSUME NEW i \in 1 .. Len(taken'), NEW j \in 1 .. Len(taken'), i < j
      PROVE  \E k, l \in 1 .. Len(sent') : k < l /\ sent'[k] = taken'[i] /\ sent'[l] = taken'[j]
    <2>1. i \in 1 .. Len(taken)
        BY <1>1, <1>4, <1>9
    <2>2. CASE j \in 1 .. Len(taken)
        <3>1. \E k, l \in 1 .. Len(sent) : k < l /\ sent[k] = taken[i] /\ sent[l] = taken[j]
            BY <1>9, <2>1, <2>2 DEF HookInv, TakenIn
        <3>2. taken'[i] = taken[i] /\ taken'[j] = taken[j] /\ sent' = sent
            BY <1>4, <2>1, <2>2
        <3>3. QED
            BY <3>1, <3>2
    <2>3. CASE j = Len(taken) + 1
        <3>1. PICK k \in 1 .. p - 1 : sent[k] = taken[i]
            BY <1>2, <2>1
        <3>2. k \in 1 .. Len(sent) /\ k < p
            BY <1>1, <1>3
        <3>3. QED
            BY <1>2, <1>3, <1>4, <2>1, <2>3, <3>1, <3>2
    <2>4. QED
        BY <1>5, <2>2, <2>3
<1>10. Len(taken') + Len(queue') + (IF posting' = NoEvent THEN 0 ELSE 1) <= Len(sent')
    BY <1>1, <1>4 DEF HookInv, TakenIn
<1>11. TakenIn'
    BY <1>4, <1>8, <1>9, <1>10 DEF TakenIn
<1>12. QED
    BY <1>7, <1>11 DEF HookInv

\* The worker drops the event, or the process stops with it.
LEMMA DroppedKeeps ==
    ASSUME HookInv, posting' = NoEvent, queue' \in {queue, <<>>}, seen' \in {seen, day},
           UNCHANGED <<day, sent, taken>>
    PROVE  HookInv'
<1>1. /\ Len(sent) \in Nat /\ Len(queue) \in Nat /\ Len(taken) \in Nat /\ Begun \in Nat
      /\ Begun + Len(queue) = Len(sent)
    BY Lengths
<1>2. queue' \in Seq(Events) /\ Len(queue') \in Nat /\ Len(queue') <= Len(queue)
    <2>1. <<>> \in Seq(Events) /\ Len(<<>>) = 0
        OBVIOUS
    <2>2. queue \in Seq(Events)
        BY DEF HookInv, Waiting
    <2>3. CASE queue' = queue
        BY <1>1, <2>2, <2>3
    <2>4. CASE queue' = <<>>
        BY <1>1, <2>1, <2>4
    <2>5. QED
        BY <2>3, <2>4
<1>3. Begun' \in Nat /\ Begun <= Begun' /\ (queue' = queue => Begun' = Begun) /\ (queue' = <<>> => Len(queue') = 0)
    BY <1>1, <1>2 DEF Begun
<1>4. News' = News /\ day \in Nat /\ seen \in Nat /\ seen' \in Nat /\ seen <= seen' /\ seen' <= day
    BY WebhooksAssumption DEF News, HookInv, Days
<1> HIDE DEF Begun
<1>5. Days' /\ InHand'
    BY <1>4 DEF HookInv, Days, InHand
<1>6. SentOnce'
    <2>1. ASSUME NEW i \in 1 .. Len(sent), sent[i].kind # "news" PROVE sent[i].of <= seen'
        <3>1. sent[i].of \in Nat /\ sent[i].of <= seen
            BY <2>1, Lengths DEF HookInv, SentOnce
        <3>2. QED
            BY <1>4, <3>1
    <2>2. QED
        BY <1>4, <2>1 DEF HookInv, SentOnce
<1>7. Waiting'
    <2>1. CASE queue' = queue
        BY <1>3, <2>1 DEF HookInv, Waiting
    <2>2. CASE queue' = <<>>
        BY <1>1, <1>2, <1>3, <2>2 DEF Waiting
    <2>3. QED
        BY <2>1, <2>2
<1>8. TakenIn'
    <2>1. ASSUME NEW i \in 1 .. Len(taken) PROVE \E k \in 1 .. Begun' : sent[k] = taken[i]
        <3>1. PICK k \in 1 .. Begun : sent[k] = taken[i]
            BY DEF HookInv, TakenIn
        <3>2. k \in 1 .. Begun'
            BY <1>1, <1>3
        <3>3. QED
            BY <3>1, <3>2
    <2>2. Len(taken') + Len(queue') + (IF posting' = NoEvent THEN 0 ELSE 1) <= Len(sent')
        BY <1>1, <1>2 DEF HookInv, TakenIn
    <2>3. QED
        BY <2>1, <2>2 DEF HookInv, TakenIn
<1>9. QED
    BY <1>5, <1>6, <1>7, <1>8 DEF HookInv

LEMMA AgainKeeps == ASSUME HookInv, Again PROVE HookInv'
<1>1. /\ posting # NoEvent /\ posting' = [posting EXCEPT !.attempt = 1]
      /\ posting = [event |-> posting.event, attempt |-> posting.attempt]
      /\ UNCHANGED <<day, seen, queue, sent, taken>>
    BY DEF Again, HookInv, InHand
<1>2. posting' = [event |-> posting.event, attempt |-> 1]
    BY <1>1
<1>3. Begun' = Begun /\ News' = News
    BY <1>1 DEF Begun, News
<1>4. InHand'
    BY <1>1, <1>2, <1>3 DEF HookInv, InHand
<1>5. TakenIn'
    BY <1>1, <1>3, Lengths DEF HookInv, TakenIn
<1>6. QED
    BY <1>1, <1>3, <1>4, <1>5 DEF HookInv, Days, SentOnce, Waiting

LEMMA HookInvInit == WebhooksInit => HookInv
<1> SUFFICES ASSUME WebhooksInit PROVE HookInv
    OBVIOUS
<1>1. /\ sent = <<>> /\ queue = <<>> /\ taken = <<>> /\ Len(<<>>) = 0 /\ <<>> \in Seq(Events)
      /\ posting = NoEvent /\ day = 0 /\ seen = 0
    BY DEF WebhooksInit
<1>2. QED
    BY <1>1, WebhooksAssumption DEF HookInv, Days, SentOnce, Waiting, InHand, TakenIn

LEMMA HookInvStep == HookInv /\ [WebhooksNext]_webhookVars => HookInv'
<1> SUFFICES ASSUME HookInv, [WebhooksNext]_webhookVars PROVE HookInv'
    OBVIOUS
<1>1. CASE Midnight
    <2>1. day' = day + 1 /\ day < MaxDay /\ UNCHANGED <<seen, queue, posting, sent, taken>>
        BY <1>1 DEF Midnight
    <2>2. Begun' = Begun /\ News' = News
        BY <2>1 DEF Begun, News
    <2>3. Days'
        BY <2>1, WebhooksAssumption DEF HookInv, Days
    <2>4. QED
        BY <2>1, <2>2, <2>3 DEF HookInv, SentOnce, Waiting, InHand, TakenIn
<1>2. CASE Unanswered
    <2>1. taken' = taken \/ taken' = Append(taken, posting.event)
        BY <1>2 DEF Unanswered
    <2>2. QED
        BY <1>2, <2>1, PostedKeeps, DroppedKeeps DEF Unanswered
<1>3. CASE Posted
    BY <1>3, PostedKeeps DEF Posted
<1>4. CASE Refused \/ Restart
    BY <1>4, DroppedKeeps DEF Refused, Restart
<1>5. CASE UNCHANGED webhookVars
    <2>1. UNCHANGED <<day, seen, queue, posting, sent, taken>>
        BY <1>5 DEF webhookVars
    <2>2. Begun' = Begun /\ News' = News
        BY <2>1 DEF Begun, News
    <2>3. QED
        BY <2>1, <2>2 DEF HookInv, Days, SentOnce, Waiting, InHand, TakenIn
<1>6. QED
    BY <1>1, <1>2, <1>3, <1>4, <1>5, CheckKeeps, AnnounceKeeps, TakeEventKeeps, AgainKeeps DEF WebhooksNext

LEMMA HooksAreSound == HookInv => WebhooksSound
<1> SUFFICES ASSUME HookInv PROVE WebhooksSound
    OBVIOUS
<1>1. /\ Len(sent) \in Nat /\ Len(queue) \in Nat /\ Len(taken) \in Nat
      /\ DOMAIN sent = 1 .. Len(sent) /\ DOMAIN taken = 1 .. Len(taken)
    BY Lengths
<1>2. WebhooksTypeOK
    BY <1>1 DEF HookInv, Days, Waiting, InHand, TakenIn, WebhooksTypeOK
<1>3. TakenInOrder
    <2> SUFFICES ASSUME NEW i \in 1 .. Len(taken), NEW j \in 1 .. Len(taken), i < j
        PROVE \E k, l \in DOMAIN sent : /\ k < l /\ sent[k] = taken[i] /\ sent[l] = taken[j]
                                       /\ \A n \in DOMAIN sent : sent[n] = taken[i] => n = k
        BY <1>1 DEF TakenInOrder
    <2>1. PICK k \in 1 .. Len(sent), l \in 1 .. Len(sent) : k < l /\ sent[k] = taken[i] /\ sent[l] = taken[j]
        BY DEF HookInv, TakenIn
    <2>2. \A n \in 1 .. Len(sent) : sent[n] = taken[i] => n = k
        BY <2>1 DEF HookInv, SentOnce
    <2>3. QED
        BY <1>1, <2>1, <2>2
<1>4. DayAnnouncedOnce
    BY <1>1 DEF HookInv, SentOnce, DayAnnouncedOnce
<1>5. QED
    BY <1>2, <1>3, <1>4 DEF WebhooksSound

\* The receiver takes in what was sent in that order and nothing twice, and each
\* day is announced once, with refusals, lost answers, restarts and other
\* threads' announcements in between (webhooks/dispatcher.py).
THEOREM AnnouncementsAreSound == WebhooksSpec => []WebhooksSound
BY HookInvInit, HookInvStep, HooksAreSound, PTL DEF WebhooksSpec

-----------------------------------------------------------------------------
(* Lists: what the operators of Listings return. *)

\* Induction up to n, over the set of the numbers that have the property.
LEMMA Climbs ==
    ASSUME NEW n \in Nat, NEW P, 0 \in P, \A i \in 1 .. n : i - 1 \in P => i \in P
    PROVE  \A i \in 0 .. n : i \in P
<1> DEFINE Bad == {i \in 0 .. n : i \notin P}
<1>1. SUFFICES ASSUME Bad # {} PROVE FALSE
    OBVIOUS
<1>2. Bad \subseteq Nat
    OBVIOUS
<1>3. PICK e \in Bad : \A d \in Bad : ~(<<d, e>> \in OpToRel(<, Nat))
    BY <1>1, <1>2, NatLessThanWellFounded, WFMin
<1>4. \A d \in Bad : ~(d < e)
    BY <1>2, <1>3 DEF OpToRel
<1>5. e # 0 /\ e \in 0 .. n
    BY <1>3
<1> HIDE DEF Bad
<1>6. e \in 1 .. n /\ e - 1 \in 0 .. n /\ e - 1 < e
    BY <1>5
<1>7. e - 1 \in P
    BY <1>4, <1>6 DEF Bad
<1>8. QED
    BY <1>3, <1>6, <1>7 DEF Bad

\* A fold: from a value of T, by steps that stay in T.
Steps(n, T) == [1 .. n -> [T -> T]]
Folded(n, T, base, step) == \E f \in [0 .. n -> T] : f[0] = base /\ \A i \in 1 .. n : f[i] = step[i][f[i - 1]]

LEMMA Iterates ==
    ASSUME NEW n \in Nat, NEW T, NEW base \in T, NEW step \in Steps(n, T)
    PROVE  Folded(n, T, base, step)
<1> DEFINE Folds(m, f) == f \in [0 .. m -> T] /\ f[0] = base /\ \A i \in 1 .. m : f[i] = step[i][f[i - 1]]
           P == {m \in 0 .. n : \E f : Folds(m, f)}
<1>1. 0 \in P
    <2>1. Folds(0, [i \in 0 .. 0 |-> base])
        OBVIOUS
    <2> HIDE DEF Folds
    <2>2. QED
        BY <2>1
<1>2. ASSUME NEW m \in 1 .. n, m - 1 \in P PROVE m \in P
    <2>1. PICK f : Folds(m - 1, f)
        BY <1>2
    <2> DEFINE g == [i \in 0 .. m |-> IF i = m THEN step[m][f[m - 1]] ELSE f[i]]
    <2>2. m - 1 \in 0 .. m - 1 /\ 0 \in 0 .. m - 1 /\ \A i \in 0 .. m : i # m => i \in 0 .. m - 1
        OBVIOUS
    <2>3. f[m - 1] \in T /\ step[m] \in [T -> T]
        BY <2>1, <2>2 DEF Steps
    <2>4. g \in [0 .. m -> T]
        BY <2>1, <2>2, <2>3
    <2>5. g[0] = base
        BY <2>1, <2>2
    <2>6. ASSUME NEW i \in 1 .. m PROVE g[i] = step[i][g[i - 1]]
        <3>1. i \in 0 .. m /\ i - 1 \in 0 .. m /\ i - 1 # m
            OBVIOUS
        <3>2. g[i - 1] = f[i - 1]
            BY <3>1
        <3>3. CASE i = m
            BY <3>1, <3>2, <3>3
        <3>4. CASE i # m
            <4>1. i \in 1 .. m - 1
                BY <3>4
            <4>2. QED
                BY <2>1, <3>1, <3>2, <4>1
        <3>5. QED
            BY <3>3, <3>4
    <2>7. Folds(m, g)
        BY <2>4, <2>5, <2>6
    <2> HIDE DEF Folds, g
    <2>8. QED
        BY <2>7
<1> HIDE DEF P
<1>3. n \in P
    <2>1. \A i \in 0 .. n : i \in P
        BY <1>1, <1>2, Climbs
    <2>2. QED
        BY <2>1
<1>4. PICK f : Folds(n, f)
    BY <1>3 DEF P
<1>5. QED
    BY <1>4 DEF Folded

-----------------------------------------------------------------------------
\* What Kept collects, one element after another.
KeptThrough(S, s, K) ==
    \E f \in [0 .. Len(s) -> Seq(S)] :
        /\ Kept(s, K) = f[Len(s)] /\ f[0] = <<>>
        /\ \A i \in 1 .. Len(s) : f[i] = IF s[i] \in K THEN Append(f[i - 1], s[i]) ELSE f[i - 1]

LEMMA KeptSteps ==
    ASSUME NEW S, NEW s \in Seq(S), NEW K
    PROVE  KeptThrough(S, s, K)
<1> DEFINE n == Len(s)
           step == [i \in 1 .. n |-> [t \in Seq(S) |-> IF s[i] \in K THEN Append(t, s[i]) ELSE t]]
<1>1. n \in Nat /\ <<>> \in Seq(S) /\ \A i \in 1 .. n : s[i] \in S
    BY LenProperties, EmptySeq
<1>2. step \in Steps(n, Seq(S))
    BY <1>1, AppendProperties DEF Steps
<1> HIDE DEF n, step
<1>3. PICK f \in [0 .. n -> Seq(S)] : f[0] = <<>> /\ \A i \in 1 .. n : f[i] = step[i][f[i - 1]]
    <2>1. Folded(n, Seq(S), <<>>, step)
        BY <1>1, <1>2, Iterates
    <2>2. QED
        BY <2>1 DEF Folded
<1>4. ASSUME NEW i \in 1 .. n
      PROVE  /\ f[i] = IF s[i] \in K THEN Append(f[i - 1], s[i]) ELSE f[i - 1]
             /\ f[i - 1] \in Seq(S)
    <2>1. i \in 0 .. n /\ i # 0 /\ i - 1 \in 0 .. n
        BY <1>1
    <2>2. f[i - 1] \in Seq(S)
        BY <2>1
    <2>3. f[i] = step[i][f[i - 1]]
        BY <1>3, <2>1
    <2>4. QED
        BY <2>2, <2>3 DEF step
<1> DEFINE F(g) == [i \in 0 .. n |-> IF i = 0 THEN <<>> ELSE IF s[i] \in K THEN Append(g[i - 1], s[i]) ELSE g[i - 1]]
           kept == CHOOSE g : g = F(g)
<1>6. f = F(f)
    <2>1. ASSUME NEW i \in 0 .. n PROVE f[i] = F(f)[i]
        <3>1. CASE i = 0
            BY <1>3, <3>1
        <3>2. CASE i # 0
            <4>1. i \in 1 .. n
                BY <1>1, <3>2
            <4>2. QED
                BY <1>4, <3>2, <4>1
        <3>3. QED
            BY <3>1, <3>2
    <2>2. QED
        BY <2>1
<1>7. kept = F(kept)
    BY <1>6
<1>8. Kept(s, K) = kept[n]
    BY DEF Kept, n
<1> HIDE DEF kept
<1>9. kept[0] = <<>> /\ \A i \in 1 .. n : kept[i] = IF s[i] \in K THEN Append(kept[i - 1], s[i]) ELSE kept[i - 1]
    <2>1. \A i \in 0 .. n : kept[i] = F(kept)[i]
        BY <1>7
    <2>2. 0 \in 0 .. n /\ \A i \in 1 .. n : i \in 0 .. n /\ i # 0
        BY <1>1
    <2>3. QED
        BY <2>1, <2>2
<1> DEFINE P == {i \in 0 .. n : kept[i] = f[i]}
<1>10. 0 \in P
    BY <1>1, <1>3, <1>9
<1>11. \A i \in 1 .. n : i - 1 \in P => i \in P
    BY <1>4, <1>9
<1>12. n \in P
    <2> HIDE DEF P
    <2>1. \A i \in 0 .. n : i \in P
        BY <1>1, <1>10, <1>11, Climbs
    <2>2. QED
        BY <1>1, <2>1
<1>13. Kept(s, K) = f[n]
    BY <1>8, <1>12
<1>14. QED
    BY <1>3, <1>4, <1>13 DEF n, KeptThrough

\* What Kept returns: the elements in K, no more of them than before and none
\* twice when none was there twice.
LEMMA KeptIs ==
    ASSUME NEW S, NEW s \in Seq(S), NEW K
    PROVE  /\ Kept(s, K) \in Seq(S) /\ Len(Kept(s, K)) <= Len(s)
           /\ \A i \in 1 .. Len(Kept(s, K)) : Kept(s, K)[i] \in K /\ \E j \in 1 .. Len(s) : Kept(s, K)[i] = s[j]
           /\ \A j \in 1 .. Len(s) : s[j] \in K => \E i \in 1 .. Len(Kept(s, K)) : Kept(s, K)[i] = s[j]
           /\ IsInjective(s) => IsInjective(Kept(s, K))
<1> DEFINE n == Len(s)
<1>1. PICK f \in [0 .. n -> Seq(S)] :
          /\ Kept(s, K) = f[n] /\ f[0] = <<>>
          /\ \A i \in 1 .. n : f[i] = IF s[i] \in K THEN Append(f[i - 1], s[i]) ELSE f[i - 1]
    <2>1. KeptThrough(S, s, K)
        BY KeptSteps
    <2>2. QED
        BY <2>1 DEF KeptThrough
<1>2. n \in Nat /\ DOMAIN s = 1 .. n /\ \A i \in 1 .. n : s[i] \in S
    BY LenProperties
<1> HIDE DEF n
<1> DEFINE Small(m) == Len(f[m]) <= m
           From(m) == \A i \in 1 .. Len(f[m]) : f[m][i] \in K /\ \E j \in 1 .. m : f[m][i] = s[j]
           To(m) == \A j \in 1 .. m : s[j] \in K => \E i \in 1 .. Len(f[m]) : f[m][i] = s[j]
           Once(m) == \A i, j \in 1 .. Len(f[m]) : IsInjective(s) /\ f[m][i] = f[m][j] => i = j
           P == {m \in 0 .. n : Small(m) /\ From(m) /\ To(m) /\ Once(m)}
<1>3. 0 \in P
    <2>1. Len(f[0]) = 0
        BY <1>1, EmptySeq
    <2>2. Small(0) /\ From(0) /\ To(0) /\ Once(0)
        BY <2>1
    <2> HIDE DEF Small, From, To, Once
    <2>3. QED
        BY <1>2, <2>2
<1>4. ASSUME NEW m \in 1 .. n, m - 1 \in P PROVE m \in P
    <2> DEFINE old == f[m - 1]
               now == f[m]
    <2>1. m \in 0 .. n /\ m - 1 \in 0 .. n /\ old \in Seq(S) /\ now \in Seq(S) /\ Len(old) \in Nat /\ s[m] \in S
        BY <1>2, LenProperties
    <2>2. Small(m - 1) /\ From(m - 1) /\ To(m - 1) /\ Once(m - 1)
        BY <1>4
    <2>3. now = IF s[m] \in K THEN Append(old, s[m]) ELSE old
        BY <1>1
    <2>4. CASE s[m] \notin K
        <3>1. now = old
            BY <2>3, <2>4
        <3>2. Small(m)
            BY <2>1, <2>2, <3>1
        <3>3. From(m)
            <4>1. \A j \in 1 .. m - 1 : j \in 1 .. m
                BY <2>1
            <4>2. QED
                BY <2>2, <3>1, <4>1
        <3>4. To(m)
            <4>1. \A j \in 1 .. m : s[j] \in K => j \in 1 .. m - 1
                BY <2>1, <2>4
            <4>2. QED
                BY <2>2, <3>1, <4>1
        <3>5. Once(m)
            BY <2>2, <3>1
        <3> HIDE DEF Small, From, To, Once
        <3>6. QED
            BY <2>1, <3>2, <3>3, <3>4, <3>5
    <2>5. CASE s[m] \in K
        <3>1. now = Append(old, s[m])
            BY <2>3, <2>5
        <3>2. Len(now) = Len(old) + 1 /\ now[Len(now)] = s[m] /\ \A i \in 1 .. Len(old) : now[i] = old[i]
            BY <2>1, <3>1, AppendProperties
        <3> HIDE DEF old, now
        <3>3. Small(m)
            BY <2>1, <2>2, <3>2 DEF old, now
        <3>4. From(m)
            <4> SUFFICES ASSUME NEW i \in 1 .. Len(now) PROVE now[i] \in K /\ \E j \in 1 .. m : now[i] = s[j]
                BY DEF now
            <4>1. CASE i = Len(now)
                BY <2>1, <2>5, <3>2, <4>1
            <4>2. CASE i # Len(now)
                <5>1. i \in 1 .. Len(old)
                    BY <2>1, <3>2, <4>2
                <5>2. old[i] \in K /\ \E j \in 1 .. m - 1 : old[i] = s[j]
                    BY <2>2, <5>1 DEF old
                <5>3. QED
                    BY <2>1, <3>2, <5>1, <5>2
            <4>3. QED
                BY <4>1, <4>2
        <3>5. To(m)
            <4> SUFFICES ASSUME NEW j \in 1 .. m, s[j] \in K PROVE \E i \in 1 .. Len(now) : now[i] = s[j]
                BY DEF now
            <4>1. CASE j = m
                BY <2>1, <3>2, <4>1
            <4>2. CASE j # m
                <5>1. j \in 1 .. m - 1
                    BY <2>1, <4>2
                <5>2. PICK i \in 1 .. Len(old) : old[i] = s[j]
                    BY <2>2, <5>1 DEF old
                <5>3. i \in 1 .. Len(now) /\ now[i] = s[j]
                    BY <2>1, <3>2, <5>2
                <5>4. QED
                    BY <5>3
            <4>3. QED
                BY <4>1, <4>2
        <3>6. Once(m)
            <4> SUFFICES ASSUME NEW i \in 1 .. Len(now), NEW j \in 1 .. Len(now), IsInjective(s), now[i] = now[j]
                         PROVE  i = j
                BY DEF now
            <4>1. \A k \in 1 .. Len(old) : old[k] # s[m]
                <5> SUFFICES ASSUME NEW k \in 1 .. Len(old) PROVE old[k] # s[m]
                    OBVIOUS
                <5>1. PICK l \in 1 .. m - 1 : old[k] = s[l]
                    BY <2>2 DEF old
                <5>2. l \in 1 .. n /\ l # m /\ m \in 1 .. n
                    BY <1>2
                <5>3. QED
                    BY <1>2, <5>1, <5>2 DEF IsInjective
            <4>2. i = Len(now) \/ i \in 1 .. Len(old)
                BY <2>1, <3>2
            <4>3. j = Len(now) \/ j \in 1 .. Len(old)
                BY <2>1, <3>2
            <4>4. \A k, l \in 1 .. Len(old) : old[k] = old[l] => k = l
                BY <2>2 DEF old
            <4>5. QED
                BY <3>2, <4>1, <4>2, <4>3, <4>4
        <3> HIDE DEF Small, From, To, Once
        <3>7. QED
            BY <2>1, <3>3, <3>4, <3>5, <3>6
    <2>6. QED
        BY <2>4, <2>5
<1>5. n \in P
    <2> HIDE DEF P
    <2>1. \A m \in 0 .. n : m \in P
        BY <1>2, <1>3, <1>4, Climbs
    <2>2. QED
        BY <1>2, <2>1
<1>6. f[n] \in Seq(S) /\ DOMAIN f[n] = 1 .. Len(f[n])
    BY <1>2, LenProperties
<1>7. Small(n) /\ From(n) /\ To(n) /\ Once(n)
    BY <1>5
<1> HIDE DEF Small, From, To, Once
<1>8. IsInjective(s) => IsInjective(f[n])
    BY <1>6, <1>7 DEF Once, IsInjective
<1>9. QED
    BY <1>1, <1>6, <1>7, <1>8 DEF Small, From, To, n

-----------------------------------------------------------------------------
LEMMA SumSteps ==
    ASSUME NEW s \in Seq(Nat)
    PROVE  \E f \in [0 .. Len(s) -> Nat] :
              SumOf(s) = f[Len(s)] /\ f[0] = 0 /\ \A i \in 1 .. Len(s) : f[i] = f[i - 1] + s[i]
<1> DEFINE n == Len(s)
           step == [i \in 1 .. n |-> [t \in Nat |-> t + s[i]]]
<1>1. n \in Nat /\ 0 \in Nat /\ \A i \in 1 .. n : s[i] \in Nat
    BY LenProperties
<1>2. step \in Steps(n, Nat)
    BY <1>1 DEF Steps
<1> HIDE DEF n, step
<1>3. PICK f \in [0 .. n -> Nat] : f[0] = 0 /\ \A i \in 1 .. n : f[i] = step[i][f[i - 1]]
    <2>1. Folded(n, Nat, 0, step)
        BY <1>1, <1>2, Iterates
    <2>2. QED
        BY <2>1 DEF Folded
<1>4. ASSUME NEW i \in 1 .. n PROVE i \in 0 .. n /\ i # 0 /\ f[i] = f[i - 1] + s[i]
    <2>1. i \in 0 .. n /\ i # 0 /\ i - 1 \in 0 .. n
        BY <1>1
    <2>2. f[i - 1] \in Nat /\ f[i] = step[i][f[i - 1]]
        BY <1>3, <2>1
    <2>3. QED
        BY <2>1, <2>2 DEF step
<1> DEFINE F(g) == [i \in 0 .. n |-> IF i = 0 THEN 0 ELSE g[i - 1] + s[i]]
           sum == CHOOSE g : g = F(g)
<1>5. f = F(f)
    <2>1. ASSUME NEW i \in 0 .. n PROVE f[i] = F(f)[i]
        <3>1. i = 0 \/ i \in 1 .. n
            BY <1>1
        <3>2. QED
            BY <1>3, <1>4, <3>1
    <2>2. QED
        BY <2>1
<1>6. sum = F(sum)
    BY <1>5
<1>7. SumOf(s) = sum[n]
    BY DEF SumOf, n
<1> HIDE DEF sum
<1>8. sum[0] = 0 /\ \A i \in 1 .. n : sum[i] = sum[i - 1] + s[i]
    <2>1. \A i \in 0 .. n : sum[i] = F(sum)[i]
        BY <1>6
    <2>2. QED
        BY <1>1, <1>4, <2>1
<1> DEFINE P == {i \in 0 .. n : sum[i] = f[i]}
<1>9. 0 \in P /\ \A i \in 1 .. n : i - 1 \in P => i \in P
    BY <1>1, <1>3, <1>4, <1>8
<1>10. sum[n] = f[n]
    <2> HIDE DEF P
    <2>1. \A i \in 0 .. n : i \in P
        BY <1>1, <1>9, Climbs
    <2>2. QED
        BY <1>1, <2>1 DEF P
<1>11. QED
    BY <1>3, <1>4, <1>7, <1>10 DEF n

\* A sum grows by what is appended.
LEMMA SumOfAppend ==
    ASSUME NEW s \in Seq(Nat), NEW x \in Nat
    PROVE  SumOf(s) \in Nat /\ SumOf(<<>>) = 0 /\ SumOf(Append(s, x)) = SumOf(s) + x
<1> DEFINE n == Len(s)
           t == Append(s, x)
<1>1. n \in Nat
    BY LenProperties
<1>2. t \in Seq(Nat) /\ Len(t) = n + 1 /\ t[n + 1] = x /\ \A i \in 1 .. n : t[i] = s[i]
    BY AppendProperties
<1>3. PICK f \in [0 .. n -> Nat] : SumOf(s) = f[n] /\ f[0] = 0 /\ \A i \in 1 .. n : f[i] = f[i - 1] + s[i]
    BY SumSteps
<1>4. PICK g \in [0 .. n + 1 -> Nat] :
          SumOf(t) = g[n + 1] /\ g[0] = 0 /\ \A i \in 1 .. n + 1 : g[i] = g[i - 1] + t[i]
    BY <1>2, SumSteps
<1> HIDE DEF n, t
<1> DEFINE P == {i \in 0 .. n : f[i] = g[i]}
<1>5. 0 \in P
    BY <1>1, <1>3, <1>4
<1>6. ASSUME NEW i \in 1 .. n, i - 1 \in P PROVE i \in P
    <2>1. i \in 0 .. n /\ i \in 1 .. n + 1
        BY <1>1
    <2>2. f[i] = f[i - 1] + s[i] /\ g[i] = g[i - 1] + t[i]
        BY <1>3, <1>4, <2>1
    <2>3. QED
        BY <1>2, <1>6, <2>1, <2>2
<1>7. f[n] = g[n]
    <2> HIDE DEF P
    <2>1. \A i \in 0 .. n : i \in P
        BY <1>1, <1>5, <1>6, Climbs
    <2>2. QED
        BY <1>1, <2>1 DEF P
<1>8. SumOf(t) = SumOf(s) + x /\ SumOf(s) \in Nat
    <2>1. n + 1 \in 1 .. n + 1 /\ n \in 0 .. n /\ n + 1 - 1 = n
        BY <1>1
    <2>2. g[n + 1] = g[n + 1 - 1] + t[n + 1]
        BY <1>4, <2>1
    <2>3. QED
        BY <1>2, <1>3, <1>4, <1>7, <2>1, <2>2
<1>9. SumOf(<<>>) = 0
    <2>1. <<>> \in Seq(Nat) /\ Len(<<>>) = 0
        BY EmptySeq
    <2>2. QED
        BY <2>1, SumSteps
<1>10. QED
    BY <1>8, <1>9 DEF t

-----------------------------------------------------------------------------
\* What a list of a finite set is.
Lists(f, S) == f \in [1 .. Cardinality(S) -> S] /\ IsInjective(f) /\ \A x \in S : \E i \in DOMAIN f : f[i] = x
InOrderOf(f, before) == \A i, j \in DOMAIN f : i < j => <<f[i], f[j]>> \in before

\* A strict order of S, as a set of pairs.
StrictOn(S, before) ==
    /\ \A x \in S : <<x, x>> \notin before
    /\ \A x, y \in S : x # y => <<x, y>> \in before \/ <<y, x>> \in before
    /\ \A x, y, z \in S : <<x, y>> \in before /\ <<y, z>> \in before => <<x, z>> \in before

LEMMA OrderedExists ==
    ASSUME NEW S, IsFiniteSet(S), NEW before, \E f : Lists(f, S) /\ InOrderOf(f, before)
    PROVE  Cardinality(S) \in Nat /\ Lists(Ordered(S, before), S) /\ InOrderOf(Ordered(S, before), before)
<1>1. PICK f : Lists(f, S) /\ InOrderOf(f, before)
    OBVIOUS
<1>2. f \in Bijection(1 .. Cardinality(S), S)
    BY <1>1 DEF Bijection, Injection, Surjection, Lists
<1>3. Ordered(S, before) \in Bijection(1 .. Cardinality(S), S) /\ InOrderOf(Ordered(S, before), before)
    BY <1>1, <1>2 DEF Ordered, InOrderOf
<1>4. Cardinality(S) \in Nat
    BY FS_CardinalityType
<1>5. Lists(Ordered(S, before), S)
    BY <1>3 DEF Bijection, Injection, Surjection, Lists
<1>6. QED
    BY <1>3, <1>4, <1>5

\* In any order.
LEMMA AnyOrder ==
    ASSUME NEW U, NEW S \in SUBSET U, IsFiniteSet(S)
    PROVE  Cardinality(S) \in Nat /\ Lists(Ordered(S, U \X U), S)
<1>1. PICK f : f \in Bijection(1 .. Cardinality(S), S)
    BY FS_CardinalityType DEF ExistsBijection
<1>2. Lists(f, S)
    BY <1>1 DEF Bijection, Injection, Surjection, Lists
<1>3. InOrderOf(f, U \X U)
    BY <1>2 DEF InOrderOf, Lists
<1>4. QED
    BY <1>2, <1>3, OrderedExists

LEMMA StrictOrder ==
    ASSUME NEW S, IsFiniteSet(S), NEW before, StrictOn(S, before)
    PROVE  /\ Cardinality(S) \in Nat /\ Lists(Ordered(S, before), S) /\ InOrderOf(Ordered(S, before), before)
           /\ \A i \in 1 .. Cardinality(S) : Cardinality({y \in S : <<y, Ordered(S, before)[i]>> \in before}) = i - 1
<1> DEFINE n == Cardinality(S)
           Below(x) == {y \in S : <<y, x>> \in before}
           place == [x \in S |-> Cardinality(Below(x)) + 1]
<1>1. n \in Nat
    BY FS_CardinalityType
<1>2. ASSUME NEW x \in S
      PROVE  /\ IsFiniteSet(Below(x)) /\ Cardinality(Below(x)) \in Nat /\ Cardinality(Below(x)) + 1 <= n
    <2>1. IsFiniteSet(Below(x)) /\ x \notin Below(x)
        BY FS_Subset DEF StrictOn
    <2>2. Below(x) \cup {x} \in SUBSET S
        OBVIOUS
    <2>3. Cardinality(Below(x) \cup {x}) <= n /\ Cardinality(Below(x) \cup {x}) = Cardinality(Below(x)) + 1
        BY <2>1, <2>2, FS_Subset, FS_AddElement
    <2>4. QED
        BY <2>1, <2>3, FS_CardinalityType
<1>3. ASSUME NEW x \in S, NEW y \in S, <<x, y>> \in before PROVE place[x] < place[y]
    <2>1. Below(x) \cup {x} \in SUBSET Below(y) /\ x \notin Below(x)
        BY <1>3 DEF StrictOn
    <2>2. Cardinality(Below(x) \cup {x}) <= Cardinality(Below(y))
        BY <1>2, <2>1, FS_Subset
    <2>3. Cardinality(Below(x) \cup {x}) = Cardinality(Below(x)) + 1
        BY <1>2, <2>1, FS_AddElement
    <2>4. place[x] = Cardinality(Below(x)) + 1 /\ place[y] = Cardinality(Below(y)) + 1
        OBVIOUS
    <2>5. Cardinality(Below(x)) \in Nat /\ Cardinality(Below(y)) \in Nat
        BY <1>2
    <2> HIDE DEF place, Below
    <2>6. QED
        BY <2>2, <2>3, <2>4, <2>5
<1>4. place \in [S -> 1 .. n] /\ \A x \in S : place[x] = Cardinality(Below(x)) + 1
    <2> HIDE DEF Below, n
    <2>1. \A x \in S : Cardinality(Below(x)) \in Nat /\ Cardinality(Below(x)) + 1 <= n
        BY <1>2
    <2>2. QED
        BY <1>1, <2>1
<1> HIDE DEF place
<1>5. \A x, y \in S : place[x] = place[y] => x = y
    <2> SUFFICES ASSUME NEW x \in S, NEW y \in S, x # y PROVE place[x] # place[y]
        OBVIOUS
    <2>1. place[x] \in 1 .. n /\ place[y] \in 1 .. n
        BY <1>4
    <2>2. <<x, y>> \in before \/ <<y, x>> \in before
        BY DEF StrictOn
    <2>3. QED
        BY <1>3, <2>1, <2>2
<1>6. place \in Injection(S, 1 .. n)
    BY <1>4, <1>5 DEF Injection, IsInjective
<1>7. IsFiniteSet(1 .. n) /\ Cardinality(1 .. n) = n
    BY <1>1, FS_Interval
<1>8. place \in Surjection(S, 1 .. n)
    BY <1>6, <1>7, FS_Injection
<1>9. \A i \in 1 .. n : \E x \in S : place[x] = i
    BY <1>8 DEF Surjection
<1> DEFINE f == [i \in 1 .. n |-> CHOOSE x \in S : place[x] = i]
<1>10. f \in [1 .. n -> S] /\ \A i \in 1 .. n : place[f[i]] = i
    BY <1>9
<1> HIDE DEF f
<1>11. \A x \in S : place[x] \in DOMAIN f /\ f[place[x]] = x
    BY <1>4, <1>5, <1>10
<1>12. Lists(f, S)
    BY <1>10, <1>11 DEF Lists, IsInjective
<1>13. InOrderOf(f, before)
    <2> SUFFICES ASSUME NEW i \in 1 .. n, NEW j \in 1 .. n, i < j PROVE <<f[i], f[j]>> \in before
        BY <1>10 DEF InOrderOf
    <2>1. f[i] \in S /\ f[j] \in S /\ place[f[i]] = i /\ place[f[j]] = j
        BY <1>10
    <2>2. f[i] # f[j] /\ ~(<<f[j], f[i]>> \in before)
        BY <1>3, <2>1
    <2>3. QED
        BY <2>1, <2>2 DEF StrictOn
<1> DEFINE o == Ordered(S, before)
<1>14. Lists(o, S) /\ InOrderOf(o, before)
    BY <1>12, <1>13, OrderedExists
<1> HIDE DEF o
<1>15. ASSUME NEW i \in 1 .. n PROVE Cardinality(Below(o[i])) = i - 1
    <2>1. /\ o \in [1 .. n -> S] /\ \A j \in 1 .. n : o[j] \in S /\ (i < j => <<o[i], o[j]>> \in before)
          /\ \A j \in 1 .. n : j < i => <<o[j], o[i]>> \in before
        BY <1>14 DEF Lists, InOrderOf
    <2> DEFINE g == [j \in 1 .. i - 1 |-> o[j]]
    <2>2. \A j \in 1 .. i - 1 : j \in 1 .. n /\ j < i /\ g[j] = o[j] /\ o[j] \in Below(o[i])
        BY <1>1, <2>1
    <2>3. \A y \in Below(o[i]) : \E j \in 1 .. i - 1 : g[j] = y
        <3> SUFFICES ASSUME NEW y \in Below(o[i]) PROVE \E j \in 1 .. i - 1 : g[j] = y
            OBVIOUS
        <3>1. PICK j \in 1 .. n : o[j] = y
            BY <1>14 DEF Lists
        <3>2. <<o[j], o[i]>> \in before
            BY <3>1
        <3>3. j # i /\ ~(i < j)
            BY <2>1, <3>1, <3>2 DEF StrictOn
        <3>4. j \in 1 .. i - 1
            BY <1>1, <3>3
        <3>5. QED
            BY <3>1, <3>4
    <2>4. g \in Bijection(1 .. i - 1, Below(o[i]))
        <3>1. g \in [1 .. i - 1 -> Below(o[i])]
            BY <2>2
        <3>2. \A j, k \in 1 .. i - 1 : g[j] = g[k] => j = k
            BY <1>14, <2>2 DEF Lists, IsInjective
        <3> HIDE DEF g
        <3>3. QED
            BY <2>3, <3>1, <3>2 DEF Bijection, Injection, Surjection, IsInjective
    <2>5. ExistsBijection(1 .. i - 1, Below(o[i]))
        BY <2>4 DEF ExistsBijection
    <2>6. i - 1 \in Nat
        BY <1>1
    <2> HIDE DEF Below, g
    <2>7. QED
        BY <2>5, <2>6, FS_CountingElements
<1>16. QED
    BY <1>1, <1>14, <1>15 DEF o

-----------------------------------------------------------------------------
LEMMA AppendIs ==
    ASSUME NEW T, NEW s \in Seq(T), NEW e \in T
    PROVE  /\ Append(s, e) \in Seq(T) /\ Len(Append(s, e)) = Len(s) + 1 /\ Len(s) \in Nat
           /\ Append(s, e) \in [1 .. Len(s) + 1 -> T]
           /\ \A i \in 1 .. Len(s) + 1 : Append(s, e)[i] = IF i = Len(s) + 1 THEN e ELSE s[i]
<1>1. /\ Append(s, e) \in Seq(T) /\ Len(Append(s, e)) = Len(s) + 1 /\ Append(s, e)[Len(s) + 1] = e
      /\ \A i \in 1 .. Len(s) : Append(s, e)[i] = s[i]
    BY AppendProperties
<1>2. Len(s) \in Nat /\ Append(s, e) \in [1 .. Len(s) + 1 -> T]
    BY <1>1, LenProperties
<1>3. QED
    BY <1>1, <1>2

-----------------------------------------------------------------------------
(* The record store. *)

Rankings == {"LOWEST", "TOTAL", "LATEST", "HIGHEST"}

LEMMA RankingIs ==
    /\ Ranking \in [Boards -> Rankings]
    /\ Ranking["course"] = "LOWEST" /\ "course" \in Boards
    /\ \A b \in Boards : Ranking[b] = "LOWEST" <=> b \in {"clear", "course"}
BY DEF Ranking, Boards, Rankings

LEMMA SortKeyIs ==
    ASSUME NEW b \in Boards, NEW x \in Nat
    PROVE  SortKey(b, x) \in Int /\ (SortKey(b, x) = x \/ SortKey(b, x) = -x)
           /\ (Ranking[b] = "LOWEST" => SortKey(b, x) = x)
BY DEF SortKey

\* The four columns of a row after an upsert whose assignments see the old row.
LEMMA SimultaneousIs ==
    ASSUME NEW b \in Boards, NEW row \in Row, NEW new \in Row
    PROVE  LET r == Ranking[b]
               now == Simultaneous(r, row, new)
           IN now = [score |-> Assigned(r, "score", row, new), key |-> Assigned(r, "key", row, new),
                     at |-> Assigned(r, "at", row, new), details |-> Assigned(r, "details", row, new)]
<1>1. DOMAIN row = {"score", "key", "at", "details"}
    BY DEF Row
<1>2. QED
    BY <1>1 DEF Simultaneous

LEMMA AssignedIs ==
    ASSUME NEW row \in Row, NEW new \in Row, NEW b \in Boards
    PROVE  LET r == Ranking[b]
               better == r \in {"LOWEST", "HIGHEST"}
           IN /\ Assigned(r, "details", row, new) =
                    IF better /\ ~(new.key < row.key) THEN row.details ELSE new.details
              /\ Assigned(r, "score", row, new) =
                    IF better THEN IF new.key < row.key THEN new.score ELSE row.score
                    ELSE IF r = "LATEST" THEN new.score ELSE row.score + new.score
              /\ Assigned(r, "key", row, new) =
                    IF better THEN IF new.key < row.key THEN new.key ELSE row.key
                    ELSE IF r = "LATEST" THEN new.key ELSE row.key + new.key
              /\ Assigned(r, "at", row, new) =
                    IF better THEN IF new.key < row.key THEN new.at ELSE row.at
                    ELSE IF r = "LATEST" THEN IF new.score = row.score THEN row.at ELSE new.at
                    ELSE IF new.score = 0 THEN row.at ELSE new.at
<1>1. Ranking[b] \in Rankings
    BY RankingIs
<1>2. QED
    BY <1>1 DEF Assigned, Best, Improves, Row, Rankings

Four == {"score", "key", "at", "details"}

LEMMA SetColumn ==
    ASSUME NEW r, NEW c \in Four, NEW x, r = [d \in Four |-> r[d]]
    PROVE  LET q == [r EXCEPT ![c] = x]
           IN q = [d \in Four |-> q[d]] /\ q[c] = x /\ \A d \in Four : d # c => q[d] = r[d]
OBVIOUS

\* MariaDB's assignments give the same row.
LEMMA SameRow ==
    ASSUME NEW b \in Boards, NEW row \in Row, NEW new \in Row
    PROVE  LeftToRight(Ranking[b], row, new) = Simultaneous(Ranking[b], row, new)
<1> DEFINE rk == Ranking[b]
           Set(r, c) == [r EXCEPT ![c] = Assigned(rk, c, r, new)]
           now == Simultaneous(rk, row, new)
           Whole(r) == r = [d \in Four |-> r[d]]
<1>1. rk \in Rankings
    BY RankingIs
<1>2. Whole(row) /\ Whole(now) /\ \A c \in Four : now[c] = Assigned(rk, c, row, new)
    BY DEF Row, Simultaneous, Four
<1>3. "score" \in Four /\ "key" \in Four /\ "at" \in Four /\ "details" \in Four
    BY DEF Four
<1> HIDE DEF rk, now
<1>4. CASE rk \in {"LOWEST", "HIGHEST"}
    <2>1. LeftToRight(rk, row, new) = Set(Set(Set(Set(row, "score"), "at"), "details"), "key")
        BY <1>4 DEF LeftToRight, Columns
    <2> DEFINE r1 == Set(row, "score")
               r2 == Set(r1, "at")
               r3 == Set(r2, "details")
               r4 == Set(r3, "key")
    <2>2. \A c, r : Assigned(rk, c, r, new) = IF new.key < r["key"] THEN new[c] ELSE r[c]
        BY <1>4 DEF Assigned, Best, Improves
    <2>3. /\ Whole(r1) /\ r1["score"] = now["score"]
          /\ r1["key"] = row["key"] /\ r1["at"] = row["at"] /\ r1["details"] = row["details"]
        BY <1>2, <1>3, SetColumn
    <2> HIDE DEF r1
    <2>4. /\ Whole(r2) /\ r2["score"] = now["score"] /\ r2["at"] = now["at"]
          /\ r2["key"] = row["key"] /\ r2["details"] = row["details"]
        BY <1>2, <1>3, <2>2, <2>3, SetColumn
    <2> HIDE DEF r2
    <2>5. /\ Whole(r3) /\ r3["score"] = now["score"] /\ r3["at"] = now["at"] /\ r3["details"] = now["details"]
          /\ r3["key"] = row["key"]
        BY <1>2, <1>3, <2>2, <2>4, SetColumn
    <2> HIDE DEF r3
    <2>6. /\ Whole(r4) /\ r4["score"] = now["score"] /\ r4["at"] = now["at"] /\ r4["details"] = now["details"]
          /\ r4["key"] = now["key"]
        BY <1>2, <1>3, <2>2, <2>5, SetColumn
    <2> HIDE DEF r4
    <2>7. \A d \in Four : r4[d] = now[d]
        BY <2>6 DEF Four
    <2>8. r4 = now
        BY <1>2, <2>6, <2>7
    <2>9. QED
        BY <2>1, <2>8 DEF r4, r3, r2, r1, now, rk
<1>5. CASE rk \in {"LATEST", "TOTAL"}
    <2>1. LeftToRight(rk, row, new) = Set(Set(Set(Set(row, "details"), "at"), "score"), "key")
        BY <1>5 DEF LeftToRight, Columns
    <2> DEFINE r1 == Set(row, "details")
               r2 == Set(r1, "at")
               r3 == Set(r2, "score")
               r4 == Set(r3, "key")
    <2>2. /\ \A r : Assigned(rk, "details", r, new) = new.details
          /\ \A r, q : r["at"] = q["at"] /\ r["score"] = q["score"]
                => Assigned(rk, "at", r, new) = Assigned(rk, "at", q, new)
          /\ \A r, q : r["score"] = q["score"] => Assigned(rk, "score", r, new) = Assigned(rk, "score", q, new)
          /\ \A r, q : r["key"] = q["key"] => Assigned(rk, "key", r, new) = Assigned(rk, "key", q, new)
        BY <1>5 DEF Assigned
    <2>3. /\ Whole(r1) /\ r1["details"] = now["details"]
          /\ r1["key"] = row["key"] /\ r1["at"] = row["at"] /\ r1["score"] = row["score"]
        BY <1>2, <1>3, SetColumn
    <2> HIDE DEF r1
    <2>4. /\ Whole(r2) /\ r2["details"] = now["details"] /\ r2["at"] = now["at"]
          /\ r2["key"] = row["key"] /\ r2["score"] = row["score"]
        BY <1>2, <1>3, <2>2, <2>3, SetColumn
    <2> HIDE DEF r2
    <2>5. /\ Whole(r3) /\ r3["score"] = now["score"] /\ r3["at"] = now["at"] /\ r3["details"] = now["details"]
          /\ r3["key"] = row["key"]
        BY <1>2, <1>3, <2>2, <2>4, SetColumn
    <2> HIDE DEF r3
    <2>6. /\ Whole(r4) /\ r4["score"] = now["score"] /\ r4["at"] = now["at"] /\ r4["details"] = now["details"]
          /\ r4["key"] = now["key"]
        BY <1>2, <1>3, <2>2, <2>5, SetColumn
    <2> HIDE DEF r4
    <2>7. \A d \in Four : r4[d] = now[d]
        BY <2>6 DEF Four
    <2>8. r4 = now
        BY <1>2, <2>6, <2>7
    <2>9. QED
        BY <2>1, <2>8 DEF r4, r3, r2, r1, now, rk
<1>6. QED
    BY <1>1, <1>4, <1>5 DEF Rankings, rk, now

-----------------------------------------------------------------------------
\* There is one submission since which a player has had a score.
LEMMA HadSinceOnce ==
    ASSUME NEW b \in Boards, NEW subs \in Seq(Logged), NEW i \in 1 .. Len(subs), NEW j \in 1 .. Len(subs),
           HadSince(b, subs, i), HadSince(b, subs, j)
    PROVE  i = j
<1> DEFINE n == Len(subs)
           score(k) == subs[k].score
<1>1. n \in Nat /\ Ranking[b] \in Rankings /\ \A k \in 1 .. n : score(k) \in Nat
    <2>1. n \in Nat /\ \A k \in 1 .. n : subs[k] \in Logged
        BY LenProperties
    <2>2. \A e \in Logged : e.score \in Nat
        BY DEF Logged
    <2>3. QED
        BY <2>1, <2>2, RankingIs
<1> HIDE DEF n
<1>2. CASE Ranking[b] = "LATEST"
    <2>1. ASSUME NEW k \in 1 .. n, NEW l \in 1 .. n, k < l, HadSince(b, subs, k), HadSince(b, subs, l) PROVE FALSE
        <3>1. /\ \A m \in k .. n : score(m) = score(n)
              /\ l = 1 \/ score(l - 1) # score(n)
            BY <1>2, <2>1 DEF HadSince, n
        <3>2. l # 1 /\ l - 1 \in k .. n
            BY <1>1, <2>1
        <3>3. QED
            BY <3>1, <3>2
    <2>2. QED
        BY <1>1, <2>1 DEF n
<1>3. CASE Ranking[b] = "TOTAL"
    <2>1. ASSUME NEW k \in 1 .. n, NEW l \in 1 .. n, k < l, HadSince(b, subs, k), HadSince(b, subs, l) PROVE FALSE
        <3>1. /\ \A m \in k + 1 .. n : score(m) = 0
              /\ l = 1 \/ score(l) # 0
            BY <1>3, <2>1 DEF HadSince, n
        <3>2. l # 1 /\ l \in k + 1 .. n
            BY <1>1, <2>1
        <3>3. QED
            BY <3>1, <3>2
    <2>2. QED
        BY <1>1, <2>1 DEF n
<1>4. CASE Ranking[b] \in {"LOWEST", "HIGHEST"}
    <2>1. /\ SortKey(b, score(i)) < SortKey(b, score(j)) \/ (SortKey(b, score(i)) = SortKey(b, score(j)) /\ i <= j)
          /\ SortKey(b, score(j)) < SortKey(b, score(i)) \/ (SortKey(b, score(j)) = SortKey(b, score(i)) /\ j <= i)
        BY <1>4 DEF HadSince
    <2>2. SortKey(b, score(i)) \in Int /\ SortKey(b, score(j)) \in Int
        BY <1>1, SortKeyIs DEF n
    <2>3. QED
        BY <2>1, <2>2
<1>5. QED
    BY <1>1, <1>2, <1>3, <1>4 DEF Rankings

\* What a row says of the submissions that were committed to it.
RowTold(b, row, subs) ==
    \E i \in 1 .. Len(subs) :
        /\ HadSince(b, subs, i)
        /\ row.score = IF Ranking[b] = "TOTAL" THEN SumOf(Scores(subs)) ELSE subs[i].score
        /\ row.key = SortKey(b, row.score)
        /\ row.at = subs[i].at
        /\ row.details = subs[IF Ranking[b] \in {"LATEST", "TOTAL"} THEN Len(subs) ELSE i].details

LEMMA ToldSince ==
    ASSUME NEW b \in Boards, NEW row, NEW subs \in Seq(Logged), RowTold(b, row, subs)
    PROVE  LET since == Since(b, subs) IN
           /\ row.score = IF Ranking[b] = "TOTAL" THEN SumOf(Scores(subs)) ELSE subs[since].score
           /\ row.key = SortKey(b, row.score)
           /\ row.at = subs[since].at
           /\ row.details = subs[IF Ranking[b] \in {"LATEST", "TOTAL"} THEN Len(subs) ELSE since].details
<1>1. PICK i \in 1 .. Len(subs) :
        /\ HadSince(b, subs, i)
        /\ row.score = IF Ranking[b] = "TOTAL" THEN SumOf(Scores(subs)) ELSE subs[i].score
        /\ row.key = SortKey(b, row.score)
        /\ row.at = subs[i].at
        /\ row.details = subs[IF Ranking[b] \in {"LATEST", "TOTAL"} THEN Len(subs) ELSE i].details
    BY DEF RowTold
<1>2. Since(b, subs) \in 1 .. Len(subs) /\ HadSince(b, subs, Since(b, subs))
    BY <1>1 DEF Since
<1>3. Since(b, subs) = i
    BY <1>1, <1>2, HadSinceOnce
<1>4. QED
    BY <1>1, <1>3

LEMMA ScoresAppend ==
    ASSUME NEW subs \in Seq(Logged), NEW e \in Logged
    PROVE  Scores(subs) \in Seq(Nat) /\ Scores(Append(subs, e)) = Append(Scores(subs), e.score)
           /\ Scores(<<>>) = <<>>
<1>1. subs \in [1 .. Len(subs) -> Logged] /\ Len(subs) \in Nat /\ e.score \in Nat
    BY LenProperties DEF Logged
<1>2. Scores(subs) \in [1 .. Len(subs) -> Nat]
    BY <1>1 DEF Scores, Logged
<1>3. Scores(subs) \in Seq(Nat) /\ Len(Scores(subs)) = Len(subs)
    BY <1>1, <1>2
<1>4. /\ Append(subs, e) \in [1 .. Len(subs) + 1 -> Logged]
      /\ \A i \in 1 .. Len(subs) + 1 : Append(subs, e)[i] = IF i = Len(subs) + 1 THEN e ELSE subs[i]
    BY AppendIs
<1>5. /\ Append(Scores(subs), e.score) \in [1 .. Len(subs) + 1 -> Nat]
      /\ \A i \in 1 .. Len(subs) + 1 : Append(Scores(subs), e.score)[i] = IF i = Len(subs) + 1 THEN e.score ELSE subs[i].score
    <2> DEFINE q == Scores(subs)
               x == e.score
               N == Nat
    <2>1. q \in Seq(N) /\ x \in N /\ Len(q) = Len(subs)
        BY <1>1, <1>3
    <2> HIDE DEF q, x, N
    <2>3. /\ Append(q, x) \in [1 .. Len(q) + 1 -> N]
          /\ \A i \in 1 .. Len(q) + 1 : Append(q, x)[i] = IF i = Len(q) + 1 THEN x ELSE q[i]
        BY <2>1, AppendIs
    <2>4. /\ Append(q, x) \in [1 .. Len(subs) + 1 -> Nat]
          /\ \A i \in 1 .. Len(subs) + 1 : Append(q, x)[i] = IF i = Len(subs) + 1 THEN x ELSE q[i]
        BY <2>1, <2>3 DEF N
    <2>2. \A i \in 1 .. Len(subs) : Scores(subs)[i] = subs[i].score
        BY <1>1 DEF Scores
    <2>5. QED
        BY <1>1, <2>2, <2>4 DEF q, x
<1>6. Scores(Append(subs, e)) = Append(Scores(subs), e.score)
    BY <1>4, <1>5 DEF Scores
<1>7. Scores(<<>>) = <<>>
    BY DEF Scores
<1>8. QED
    BY <1>3, <1>6, <1>7

\* A submission's row, and its entry in the history.
LoggedRow(b, e) == [score |-> e.score, key |-> SortKey(b, e.score), at |-> e.at, details |-> e.details]

LEMMA LoggedRowIs ==
    ASSUME NEW b \in Boards, NEW e \in Logged
    PROVE  LoggedRow(b, e) \in Row
BY SortKeyIs DEF LoggedRow, Logged, Row

LEMMA FirstTells ==
    ASSUME NEW b \in Boards, NEW e \in Logged
    PROVE  RowTold(b, LoggedRow(b, e), Append(<<>>, e))
<1> DEFINE subs == Append(<<>>, e)
<1>1. subs \in Seq(Logged) /\ Len(subs) = 1 /\ subs[1] = e
    BY AppendIs, EmptySeq
<1>2. e.score \in Nat /\ SortKey(b, e.score) \in Int
    BY SortKeyIs DEF Logged
<1>3. SumOf(Scores(subs)) = e.score
    <2>1. <<>> \in Seq(Logged) /\ <<>> \in Seq(Nat)
        BY EmptySeq
    <2>2. Scores(subs) = Append(<<>>, e.score)
        BY <2>1, ScoresAppend
    <2>3. SumOf(Append(<<>>, e.score)) = 0 + e.score
        BY <1>2, <2>1, SumOfAppend
    <2>4. QED
        BY <1>2, <2>2, <2>3
<1> HIDE DEF subs
<1>4. HadSince(b, subs, 1)
    BY <1>1, <1>2, RankingIs DEF HadSince, Rankings
<1>5. RowTold(b, LoggedRow(b, e), subs)
    BY <1>1, <1>3, <1>4 DEF RowTold, LoggedRow
<1>6. QED
    BY <1>5 DEF subs

LEMMA UpsertTells ==
    ASSUME NEW b \in Boards, NEW row \in Row, NEW subs \in Seq(Logged), NEW e \in Logged, RowTold(b, row, subs)
    PROVE  /\ RowTold(b, Simultaneous(Ranking[b], row, LoggedRow(b, e)), Append(subs, e))
           /\ Simultaneous(Ranking[b], row, LoggedRow(b, e)) \in Row
<1> DEFINE rk == Ranking[b]
           new == LoggedRow(b, e)
           now == Simultaneous(rk, row, new)
           n == Len(subs)
           all == Append(subs, e)
<1>1. /\ n \in Nat /\ all \in Seq(Logged) /\ Len(all) = n + 1 /\ all[n + 1] = e
      /\ \A i \in 1 .. n : all[i] = subs[i] /\ subs[i] \in Logged
    BY AppendIs, LenProperties
<1>2. PICK i \in 1 .. n :
        /\ HadSince(b, subs, i)
        /\ row.score = IF rk = "TOTAL" THEN SumOf(Scores(subs)) ELSE subs[i].score
        /\ row.key = SortKey(b, row.score)
        /\ row.at = subs[i].at
        /\ row.details = subs[IF rk \in {"LATEST", "TOTAL"} THEN n ELSE i].details
    BY DEF RowTold
<1>3. new \in Row /\ new.score = e.score /\ new.key = SortKey(b, e.score) /\ new.at = e.at /\ new.details = e.details
    BY LoggedRowIs DEF LoggedRow
<1>4. /\ e.score \in Nat /\ e.at \in 1 .. MaxTime /\ \A j \in 1 .. n : subs[j].score \in Nat
      /\ row.score \in Nat /\ row.key \in Int /\ row.at \in 1 .. MaxTime /\ new.at \in 1 .. MaxTime
    BY <1>1, <1>3 DEF Logged, Row
<1>5. /\ rk \in Rankings /\ SortKey(b, e.score) \in Int /\ \A j \in 1 .. n : SortKey(b, subs[j].score) \in Int
      /\ SortKey(b, row.score) \in Int
    BY <1>4, RankingIs, SortKeyIs
<1> DEFINE better == rk \in {"LOWEST", "HIGHEST"}
<1>6. /\ now.details = IF better /\ ~(new.key < row.key) THEN row.details ELSE new.details
      /\ now.score = IF better THEN IF new.key < row.key THEN new.score ELSE row.score
                     ELSE IF rk = "LATEST" THEN new.score ELSE row.score + new.score
      /\ now.key = IF better THEN IF new.key < row.key THEN new.key ELSE row.key
                   ELSE IF rk = "LATEST" THEN new.key ELSE row.key + new.key
      /\ now.at = IF better THEN IF new.key < row.key THEN new.at ELSE row.at
                  ELSE IF rk = "LATEST" THEN IF new.score = row.score THEN row.at ELSE new.at
                  ELSE IF new.score = 0 THEN row.at ELSE new.at
      /\ now = [score |-> now.score, key |-> now.key, at |-> now.at, details |-> now.details]
    <2>1. now = [score |-> Assigned(rk, "score", row, new), key |-> Assigned(rk, "key", row, new),
                 at |-> Assigned(rk, "at", row, new), details |-> Assigned(rk, "details", row, new)]
        BY <1>3, SimultaneousIs
    <2> HIDE DEF now, new
    <2>2. /\ now.score = Assigned(rk, "score", row, new) /\ now.key = Assigned(rk, "key", row, new)
          /\ now.at = Assigned(rk, "at", row, new) /\ now.details = Assigned(rk, "details", row, new)
        BY <2>1
    <2>3. new \in Row
        BY <1>3
    <2>4. QED
        BY <2>1, <2>2, <2>3, AssignedIs
<1> HIDE DEF rk, new, now, n, all
<1>7. now \in Row
    <2>1. now.score \in Nat /\ now.key \in Int /\ now.at \in 1 .. MaxTime
        BY <1>3, <1>4, <1>5, <1>6
    <2>2. row.details \in Details /\ new.details \in Details
        BY <1>3 DEF Row
    <2>3. now.details \in Details
        BY <1>6, <2>2
    <2>4. QED
        BY <1>6, <2>1, <2>3 DEF Row
<1>8. CASE rk = "LATEST"
    <2> DEFINE k == IF e.score = row.score THEN i ELSE n + 1
    <2>1. /\ \A j \in i .. n : subs[j].score = subs[n].score
          /\ i = 1 \/ subs[i - 1].score # subs[n].score
        BY <1>2, <1>8 DEF HadSince, n, rk
    <2>2. row.score = subs[i].score /\ row.score = subs[n].score
        BY <1>1, <1>2, <1>8, <2>1
    <2>3. k \in 1 .. n + 1 /\ all[k].at = now.at /\ all[k].score = now.score
        <3>1. now.score = e.score /\ now.at = IF e.score = row.score THEN row.at ELSE e.at
            BY <1>3, <1>6, <1>8
        <3>2. all[i] = subs[i] /\ i \in 1 .. n + 1 /\ n + 1 \in 1 .. n + 1
            BY <1>1
        <3>3. QED
            BY <1>1, <1>2, <2>2, <3>1, <3>2
    <2>4. HadSince(b, all, k)
        <3>1. \A j \in k .. n + 1 : all[j].score = all[n + 1].score
            <4> SUFFICES ASSUME NEW j \in k .. n + 1 PROVE all[j].score = e.score
                BY <1>1
            <4>1. CASE j = n + 1
                BY <1>1, <4>1
            <4>2. CASE j # n + 1
                <5>1. e.score = row.score /\ j \in i .. n /\ j \in 1 .. n
                    BY <1>1, <4>2
                <5>2. QED
                    BY <1>1, <2>1, <2>2, <5>1
            <4>3. QED
                BY <4>1, <4>2
        <3>2. k = 1 \/ all[k - 1].score # all[n + 1].score
            <4>1. CASE e.score = row.score
                <5>1. CASE i # 1
                    <6>1. i - 1 \in 1 .. n /\ all[i - 1] = subs[i - 1]
                        BY <1>1, <5>1
                    <6>2. QED
                        BY <1>1, <2>1, <2>2, <4>1, <5>1, <6>1
                <5>2. QED
                    BY <4>1, <5>1
            <4>2. CASE e.score # row.score
                <5>1. n \in 1 .. n /\ all[n] = subs[n] /\ n + 1 - 1 = n
                    BY <1>1
                <5>2. QED
                    BY <1>1, <2>2, <4>2, <5>1
            <4>3. QED
                BY <4>1, <4>2
        <3>3. QED
            BY <1>1, <1>8, <3>1, <3>2 DEF HadSince, rk
    <2>5. /\ now.key = SortKey(b, now.score) /\ now.details = all[n + 1].details
        BY <1>1, <1>3, <1>6, <1>8
    <2> HIDE DEF k
    <2>6. RowTold(b, now, all)
        BY <1>1, <1>8, <2>3, <2>4, <2>5 DEF RowTold, rk
    <2>7. QED
        BY <1>7, <2>6 DEF now, rk, new, all
<1>9. CASE rk = "TOTAL"
    <2> DEFINE k == IF e.score = 0 THEN i ELSE n + 1
    <2>1. /\ \A j \in i + 1 .. n : subs[j].score = 0
          /\ i = 1 \/ subs[i].score # 0
        BY <1>2, <1>9 DEF HadSince, n, rk
    <2>2. k \in 1 .. n + 1 /\ all[k].at = now.at
        BY <1>1, <1>2, <1>3, <1>4, <1>6, <1>9
    <2>3. HadSince(b, all, k)
        <3>1. \A j \in k + 1 .. n + 1 : all[j].score = 0
            <4> SUFFICES ASSUME NEW j \in k + 1 .. n + 1 PROVE all[j].score = 0
                OBVIOUS
            <4>1. CASE j = n + 1
                BY <1>1, <4>1
            <4>2. CASE j # n + 1
                <5>1. e.score = 0 /\ j \in i + 1 .. n /\ j \in 1 .. n
                    BY <1>1, <4>2
                <5>2. QED
                    BY <1>1, <2>1, <5>1
            <4>3. QED
                BY <4>1, <4>2
        <3>2. k = 1 \/ all[k].score # 0
            BY <1>1, <2>1
        <3>3. QED
            BY <1>1, <1>9, <3>1, <3>2 DEF HadSince, rk
    <2>4. now.score = SumOf(Scores(all))
        <3>1. Scores(all) = Append(Scores(subs), e.score) /\ Scores(subs) \in Seq(Nat)
            BY ScoresAppend DEF all
        <3>2. SumOf(Scores(all)) = SumOf(Scores(subs)) + e.score
            BY <1>4, <3>1, SumOfAppend
        <3>3. QED
            BY <1>2, <1>3, <1>6, <1>9, <3>2
    <2>5. now.key = SortKey(b, now.score)
        <3>1. Ranking[b] # "LOWEST"
            BY <1>9 DEF rk
        <3>2. SortKey(b, row.score) = -row.score /\ SortKey(b, e.score) = -e.score /\ SortKey(b, now.score) = -now.score
            BY <3>1 DEF SortKey
        <3>3. now.score = row.score + e.score
            BY <1>3, <1>6, <1>9
        <3>4. now.key = row.key + new.key
            BY <1>6, <1>9
        <3>5. QED
            BY <1>2, <1>3, <1>4, <3>2, <3>3, <3>4
    <2>6. now.details = all[n + 1].details
        BY <1>1, <1>3, <1>6, <1>9
    <2> HIDE DEF k
    <2>7. RowTold(b, now, all)
        BY <1>1, <1>9, <2>2, <2>3, <2>4, <2>5, <2>6 DEF RowTold, rk
    <2>8. QED
        BY <1>7, <2>7 DEF now, rk, new, all
<1>10. CASE better
    <2> DEFINE k == IF new.key < row.key THEN n + 1 ELSE i
               K(j) == SortKey(b, all[j].score)
    <2>1. \A j \in 1 .. n : K(i) < K(j) \/ (K(i) = K(j) /\ i <= j)
        BY <1>1, <1>2, <1>10 DEF HadSince, n, rk
    <2>2. row.score = subs[i].score /\ row.key = K(i) /\ new.key = K(n + 1) /\ row.details = subs[i].details
        BY <1>1, <1>2, <1>3, <1>10
    <2>3. /\ k \in 1 .. n + 1 /\ all[k].at = now.at /\ all[k].score = now.score /\ now.details = all[k].details
          /\ now.key = K(k)
        BY <1>1, <1>2, <1>3, <1>4, <1>6, <1>10, <2>2
    <2>4. HadSince(b, all, k)
        <3>1. \A j \in 1 .. n + 1 : K(j) \in Int
            BY <1>1, <1>5, SMTT(30)
        <3>2. \A j \in 1 .. n + 1 : K(k) < K(j) \/ (K(k) = K(j) /\ k <= j)
            <4> SUFFICES ASSUME NEW j \in 1 .. n + 1 PROVE K(k) < K(j) \/ (K(k) = K(j) /\ k <= j)
                OBVIOUS
            <4> HIDE DEF K
            <4>1. K(i) \in Int /\ K(j) \in Int /\ K(n + 1) \in Int
                BY <1>1, <3>1
            <4>2. j = n + 1 \/ j \in 1 .. n
                BY <1>1
            <4>3. CASE new.key < row.key
                <5>1. k = n + 1 /\ K(n + 1) < K(i)
                    BY <2>2, <4>3
                <5>2. QED
                    BY <1>1, <2>1, <4>1, <4>2, <5>1
            <4>4. CASE ~(new.key < row.key)
                <5>1. k = i /\ ~(K(n + 1) < K(i))
                    BY <2>2, <4>4
                <5>2. QED
                    BY <1>1, <2>1, <4>1, <4>2, <5>1
            <4>5. QED
                BY <4>3, <4>4
        <3> HIDE DEF k
        <3>3. QED
            BY <1>1, <1>10, <3>2 DEF HadSince, rk
    <2> HIDE DEF k
    <2>5. RowTold(b, now, all)
        BY <1>1, <1>10, <2>3, <2>4 DEF RowTold, rk
    <2>6. QED
        BY <1>7, <2>5 DEF now, rk, new, all
<1>11. QED
    BY <1>5, <1>8, <1>9, <1>10 DEF Rankings

-----------------------------------------------------------------------------
\* The order of a board.
OrderOf(b) == {p \in Holders(b) \X Holders(b) : Before(b, p[1], p[2])}

LEMMA HoldersAre ==
    ASSUME RecordsTypeOK, NEW b \in Boards
    PROVE  /\ IsFiniteSet(Holders(b)) /\ Holders(b) \subseteq Users /\ Cardinality(Holders(b)) <= Cardinality(Users)
           /\ Cardinality(Users) \in Nat
           /\ \A u \in Holders(b) :
                u \in Nat /\ rows[b][u] \in Row /\ rows[b][u].key \in Int /\ rows[b][u].at \in Nat /\ rows[b][u].score \in Nat
<1>1. IsFiniteSet(Users) /\ Users \subseteq Nat /\ Holders(b) \in SUBSET Users
    BY RecordsAssumption DEF Holders
<1>2. IsFiniteSet(Holders(b)) /\ Cardinality(Holders(b)) <= Cardinality(Users) /\ Cardinality(Users) \in Nat
    BY <1>1, FS_Subset, FS_CardinalityType
<1>3. ASSUME NEW u \in Holders(b)
      PROVE  rows[b][u] \in Row /\ rows[b][u].key \in Int /\ rows[b][u].at \in Nat /\ rows[b][u].score \in Nat
    <2>1. rows[b][u] \in Row
        BY DEF RecordsTypeOK, Holders
    <2>2. QED
        BY <2>1 DEF Row
<1>4. QED
    BY <1>1, <1>2, <1>3

LEMMA BoardOrdered ==
    ASSUME RecordsTypeOK, NEW b \in Boards
    PROVE  StrictOn(Holders(b), OrderOf(b))
<1> DEFINE key(u) == rows[b][u].key
           at(u) == rows[b][u].at
           Pre(u, v) == key(u) < key(v) \/ (key(u) = key(v) /\ (at(u) < at(v) \/ (at(u) = at(v) /\ u < v)))
<1>1. \A u \in Holders(b) : u \in Nat /\ key(u) \in Int /\ at(u) \in Nat
    BY HoldersAre
<1>2. \A u, v \in Holders(b) : <<u, v>> \in OrderOf(b) <=> Pre(u, v)
    BY DEF OrderOf, Before
<1> HIDE DEF key, at
<1>3. \A u \in Holders(b) : ~Pre(u, u)
    BY <1>1
<1>4. \A u, v \in Holders(b) : u # v => Pre(u, v) \/ Pre(v, u)
    BY <1>1
<1>5. \A u, v, w \in Holders(b) : Pre(u, v) /\ Pre(v, w) => Pre(u, w)
    BY <1>1
<1> HIDE DEF Pre
<1>6. QED
    BY <1>2, <1>3, <1>4, <1>5 DEF StrictOn

\* What `top` returns.
LEMMA TopIs ==
    ASSUME RecordsTypeOK, NEW b \in Boards, NEW limit \in Nat
    PROVE  LET top == Top(b, limit)
               n == Cardinality(Holders(b)) IN
           /\ n \in Nat /\ top \in Seq(Holders(b)) /\ IsInjective(top) /\ Len(top) = (IF n < limit THEN n ELSE limit)
           /\ \A i \in 1 .. Len(top) : Cardinality(Ahead(b, top[i])) = i - 1
           /\ \A v \in Holders(b) : Len(top) # 0 => v = top[1] \/ Before(b, top[1], v)
<1> DEFINE S == Holders(b)
           n == Cardinality(S)
           all == Ordered(S, OrderOf(b))
           m == IF n < limit THEN n ELSE limit
           top == Top(b, limit)
<1>1. n \in Nat /\ Lists(all, S) /\ InOrderOf(all, OrderOf(b))
    BY HoldersAre, BoardOrdered, StrictOrder
<1>2. \A i \in 1 .. n : Cardinality({v \in S : <<v, all[i]>> \in OrderOf(b)}) = i - 1
    BY HoldersAre, BoardOrdered, StrictOrder
<1>3. top = SubSeq(all, 1, IF Len(all) < limit THEN Len(all) ELSE limit)
    BY DEF Top, OrderOf
<1> HIDE DEF all
<1>4. all \in Seq(S) /\ Len(all) = n
    BY <1>1 DEF Lists
<1>5. top = SubSeq(all, 1, m) /\ m \in 0 .. n
    BY <1>1, <1>3, <1>4
<1> HIDE DEF top
<1>6. top \in Seq(S) /\ Len(top) = m /\ \A i \in 1 .. m : top[i] = all[i]
    <2>1. \A i \in 1 .. m : all[i] \in S
        BY <1>1, <1>5 DEF Lists
    <2> HIDE DEF m, S
    <2>2. SubSeq(all, 1, m) \in Seq(S) /\ Len(SubSeq(all, 1, m)) = IF 1 <= m THEN m - 1 + 1 ELSE 0
        BY <1>5, <2>1, SubSeqProperties
    <2>3. \A i \in 1 .. m - 1 + 1 : SubSeq(all, 1, m)[i] = all[1 + i - 1]
        BY <1>5, <2>1, SubSeqProperties
    <2>4. QED
        BY <1>1, <1>5, <2>2, <2>3
<1>7. IsInjective(top)
    <2>1. DOMAIN top = 1 .. m
        BY <1>6, LenProperties
    <2>2. DOMAIN all = 1 .. n /\ \A i \in 1 .. m : i \in 1 .. n
        BY <1>1, <1>5 DEF Lists
    <2>3. IsInjective(all)
        BY <1>1 DEF Lists
    <2> HIDE DEF m
    <2>4. QED
        BY <1>6, <2>1, <2>2, <2>3 DEF IsInjective
<1>8. ASSUME NEW i \in 1 .. m PROVE Cardinality(Ahead(b, top[i])) = i - 1
    <2>1. i \in 1 .. n /\ top[i] = all[i] /\ all[i] \in S
        BY <1>1, <1>5, <1>6 DEF Lists
    <2>2. Ahead(b, all[i]) = {v \in S : <<v, all[i]>> \in OrderOf(b)}
        <3> DEFINE x == all[i]
        <3>1. x \in S
            BY <2>1
        <3> HIDE DEF x
        <3>2. ASSUME NEW v \in S
              PROVE  (rows[b][v].key <= rows[b][x].key
                        /\ (rows[b][v].key < rows[b][x].key \/ rows[b][v].at < rows[b][x].at
                                \/ (rows[b][v].at = rows[b][x].at /\ v < x)))
                     <=> <<v, x>> \in OrderOf(b)
            <4>1. rows[b][v].key \in Int /\ rows[b][x].key \in Int /\ rows[b][v].at \in Nat /\ rows[b][x].at \in Nat
                BY <3>1, HoldersAre
            <4>2. <<v, x>> \in OrderOf(b) <=> Before(b, v, x)
                BY <3>1 DEF OrderOf
            <4>3. QED
                BY <4>1, <4>2 DEF Before
        <3>3. QED
            BY <3>2 DEF Ahead, x
    <2>3. QED
        BY <1>2, <2>1, <2>2
<1>9. ASSUME NEW v \in S, m # 0 PROVE v = top[1] \/ Before(b, top[1], v)
    <2>1. 1 \in 1 .. m /\ 1 \in 1 .. n /\ top[1] = all[1] /\ all[1] \in S
        BY <1>1, <1>5, <1>6, <1>9 DEF Lists
    <2>2. PICK j \in 1 .. n : all[j] = v
        BY <1>1 DEF Lists
    <2>3. j = 1 \/ <<all[1], all[j]>> \in OrderOf(b)
        BY <1>1, <2>1 DEF Lists, InOrderOf
    <2>4. QED
        BY <2>1, <2>2, <2>3 DEF OrderOf
<1>10. QED
    BY <1>1, <1>6, <1>7, <1>8, <1>9 DEF top

\* The rank `entry` counts is the place in `top`.
LEMMA RanksAgree == ASSUME RecordsTypeOK PROVE RankAgrees
<1> SUFFICES ASSUME NEW b \in Boards, NEW i \in DOMAIN Top(b, Cardinality(Users))
             PROVE  Entry(b, Top(b, Cardinality(Users))[i]).rank = i
    BY DEF RankAgrees
<1> DEFINE top == Top(b, Cardinality(Users))
<1>1. Cardinality(Users) \in Nat
    BY HoldersAre
<1>2. top \in Seq(Holders(b)) /\ \A j \in 1 .. Len(top) : Cardinality(Ahead(b, top[j])) = j - 1
    BY <1>1, TopIs
<1>3. i \in 1 .. Len(top) /\ Len(top) \in Nat /\ top[i] \in Holders(b)
    BY <1>2, LenProperties
<1> HIDE DEF top
<1>4. rows[b][top[i]] # NoRecord
    BY <1>3 DEF Holders
<1>5. Entry(b, top[i]).rank = Cardinality(Ahead(b, top[i])) + 1
    BY <1>4 DEF Entry
<1>6. QED
    BY <1>2, <1>3, <1>5 DEF top

\* The best lap: no record of the board has a smaller one.
LEMMA BestIs ==
    ASSUME RecordsTypeOK
    PROVE  LET best == BestScore("course") IN
           /\ best \in Nat /\ (Holders("course") = {} => best = 0)
           /\ Holders("course") # {} => \E u \in Holders("course") : best = rows["course"][u].score
           /\ (\A u \in Holders("course") : rows["course"][u].key = rows["course"][u].score)
                => \A u \in Holders("course") : best <= rows["course"][u].score
<1> DEFINE S == Holders("course")
           top == Top("course", 1)
<1>1. "course" \in Boards
    BY RankingIs
<1>2. CASE S = {}
    BY <1>2 DEF BestScore
<1>3. CASE S # {}
    <2>1. IsFiniteSet(S) /\ Cardinality(S) \in Nat /\ Cardinality(S) # 0
        BY <1>1, <1>3, HoldersAre, FS_EmptySet, FS_CardinalityType
    <2>2. /\ top \in Seq(S) /\ Len(top) = (IF Cardinality(S) < 1 THEN Cardinality(S) ELSE 1)
          /\ \A v \in S : Len(top) # 0 => v = top[1] \/ Before("course", top[1], v)
        BY <1>1, TopIs
    <2>3. Len(top) = 1 /\ top[1] \in S
        <3>1. Len(top) = 1
            BY <2>1, <2>2
        <3>2. QED
            BY <2>2, <3>1, LenProperties
    <2>4. BestScore("course") = rows["course"][top[1]].score
        BY <1>3 DEF BestScore
    <2> HIDE DEF S, top
    <2>5. rows["course"][top[1]].score \in Nat
        BY <1>1, <2>3, HoldersAre DEF S
    <2>6. ASSUME \A u \in S : rows["course"][u].key = rows["course"][u].score, NEW u \in S
          PROVE  rows["course"][top[1]].score <= rows["course"][u].score
        <3>1. u = top[1] \/ Before("course", top[1], u)
            BY <2>2, <2>3
        <3>2. rows["course"][u].score \in Nat
            BY <1>1, HoldersAre DEF S
        <3>3. QED
            BY <2>3, <2>5, <2>6, <3>1, <3>2 DEF Before
    <2>7. QED
        BY <1>3, <2>3, <2>4, <2>5, <2>6 DEF S
<1>4. QED
    BY <1>2, <1>3

-----------------------------------------------------------------------------
\* A thread's submissions: only the first may have begun.
Queue == {q \in Seq(Job) : \A i \in DOMAIN q : IF i = 1 THEN q[i].step # "new" => q[i].at # 0 ELSE q[i].step = "new"}

LEMMA QueueIs ==
    ASSUME NEW q \in Queue
    PROVE  /\ q \in Seq(Job) /\ Len(q) \in Nat /\ DOMAIN q = 1 .. Len(q)
           /\ q # <<>> => /\ Head(q) \in Job /\ Head(q) = q[1] /\ 1 \in DOMAIN q
                          /\ Head(q).step # "new" => Head(q).at \in 1 .. MaxTime
<1>1. q \in Seq(Job) /\ Len(q) \in Nat /\ DOMAIN q = 1 .. Len(q)
    BY LenProperties DEF Queue
<1>2. CASE q # <<>>
    <2>1. Len(q) # 0 /\ 1 \in 1 .. Len(q) /\ Head(q) = q[1]
        BY <1>1, <1>2, EmptySeq
    <2>2. q[1] \in Job
        BY <1>1, <2>1
    <2>3. q[1].step # "new" => q[1].at # 0
        BY <1>1, <2>1 DEF Queue
    <2>4. q[1].at \in 0 .. MaxTime
        BY <2>2 DEF Job
    <2>5. MaxTime \in Nat
        BY RecordsAssumption
    <2>6. QED
        BY <1>1, <2>1, <2>2, <2>3, <2>4, <2>5
<1>3. QED
    BY <1>1, <1>2

LEMMA HeadChanges ==
    ASSUME NEW q \in Queue, q # <<>>, NEW h \in Job, h.step # "new" => h.at # 0
    PROVE  [q EXCEPT ![1] = h] \in Queue /\ [q EXCEPT ![1] = h] # <<>> /\ Head([q EXCEPT ![1] = h]) = h
<1> DEFINE r == [q EXCEPT ![1] = h]
<1>1. q \in Seq(Job) /\ 1 \in 1 .. Len(q) /\ DOMAIN q = 1 .. Len(q)
    BY QueueIs
<1>2. r \in Seq(Job) /\ Len(r) = Len(q) /\ \A j \in 1 .. Len(q) : r[j] = IF j = 1 THEN h ELSE q[j]
    BY <1>1, ExceptSeq
<1> HIDE DEF r
<1>3. DOMAIN r = 1 .. Len(q) /\ Len(q) \in Nat
    BY <1>1, <1>2, LenProperties
<1>4. r \in Queue
    BY <1>1, <1>2, <1>3 DEF Queue
<1>5. r # <<>> /\ Head(r) = h
    <2>1. Len(r) # 0
        BY <1>1, <1>2, <1>3
    <2>2. r # <<>>
        BY <2>1, EmptySeq
    <2>3. QED
        BY <1>1, <1>2, <2>2
<1>6. QED
    BY <1>4, <1>5 DEF r

LEMMA TailWaits ==
    ASSUME NEW q \in Queue, q # <<>>
    PROVE  Tail(q) \in Queue /\ (Tail(q) # <<>> => Head(Tail(q)).step = "new")
<1>1. q \in Seq(Job) /\ Len(q) \in Nat /\ DOMAIN q = 1 .. Len(q)
    BY QueueIs
<1>2. Tail(q) \in Seq(Job) /\ Len(Tail(q)) = Len(q) - 1 /\ \A i \in 1 .. Len(Tail(q)) : Tail(q)[i] = q[i + 1]
    BY <1>1, HeadTailProperties
<1>3. DOMAIN Tail(q) = 1 .. Len(Tail(q)) /\ Len(Tail(q)) \in Nat
    BY <1>2, LenProperties
<1>4. \A i \in 1 .. Len(Tail(q)) : Tail(q)[i].step = "new"
    <2> SUFFICES ASSUME NEW i \in 1 .. Len(Tail(q)) PROVE Tail(q)[i].step = "new"
        OBVIOUS
    <2>1. i + 1 \in 1 .. Len(q) /\ i + 1 # 1
        BY <1>1, <1>2, <1>3
    <2>2. q[i + 1].step = "new"
        BY <1>1, <2>1 DEF Queue
    <2>3. QED
        BY <1>2, <2>2
<1>5. Tail(q) \in Queue
    BY <1>2, <1>3, <1>4 DEF Queue
<1>6. QED
    BY <1>4, <1>5, QueueIs

LEMMA JobsAre == RecordsTypeOK => jobs \in [Writers -> Queue]
BY DEF RecordsTypeOK, Queue

LEMMA TypeFromJobs ==
    ASSUME /\ rows \in [Boards -> [Users -> Row \cup {NoRecord}]]
           /\ log \in [Boards -> [Users -> Seq(Logged)]]
           /\ boards \subseteq Boards /\ completed \subseteq Boards /\ announced \subseteq Users \X Nat
           /\ clock \in 0 .. MaxTime
           /\ jobs \in [Writers -> Queue]
    PROVE  RecordsTypeOK
<1>1. jobs \in [Writers -> Seq(Job)]
    BY DEF Queue
<1>2. \A w \in Writers : jobs[w] \in Queue
    OBVIOUS
<1>3. QED
    BY <1>1, <1>2 DEF RecordsTypeOK, Queue

\* Every row tells what was committed to it.
RowsTold ==
    \A b \in Boards, u \in Users :
        IF rows[b][u] = NoRecord THEN log[b][u] = <<>> ELSE RowTold(b, rows[b][u], log[b][u])

\* What a thread has stored, its board still to be listed, is in the history.
StoredBy(w, s) == \E i \in DOMAIN log[s.board][s.user] : log[s.board][s.user][i].by = w /\ log[s.board][s.user][i].score = s.score

JobsStored == \A w \in Writers : jobs[w] # <<>> /\ Head(jobs[w]).step = "board" => StoredBy(w, Head(jobs[w]))

RecordsInv == RecordsTypeOK /\ CompletedIsListed /\ AnnouncedWasStored /\ RowsTold /\ JobsStored

LEMMA RecordsInvInit == RecordsInit => RecordsInv
<1> SUFFICES ASSUME RecordsInit PROVE RecordsInv
    OBVIOUS
<1>1. RecordsTypeOK
    <2>1. <<>> \in Queue /\ <<>> \in Seq(Logged)
        BY EmptySeq DEF Queue
    <2>2. MaxTime \in Nat
        BY RecordsAssumption
    <2>3. QED
        BY <2>1, <2>2, TypeFromJobs DEF RecordsInit
<1>2. CompletedIsListed /\ AnnouncedWasStored /\ RowsTold /\ JobsStored
    BY DEF RecordsInit, CompletedIsListed, AnnouncedWasStored, RowsTold, JobsStored
<1>3. QED
    BY <1>1, <1>2 DEF RecordsInv

LEMMA RecordsInvSound == RecordsInv => RecordsSound
<1> SUFFICES ASSUME RecordsInv PROVE RecordsSound
    OBVIOUS
<1>1. RecordsTypeOK
    BY DEF RecordsInv
<1>2. BackendsAgree
    <2> SUFFICES ASSUME NEW b \in Boards, NEW u \in Users, NEW w \in Writers,
                        rows[b][u] # NoRecord, jobs[w] # <<>>, Head(jobs[w]).step = "row", Head(jobs[w]).board = b
                 PROVE  LET new == RowOf(Head(jobs[w]), Head(jobs[w]).at)
                        IN LeftToRight(Ranking[b], rows[b][u], new) = Simultaneous(Ranking[b], rows[b][u], new)
        BY DEF BackendsAgree
    <2> DEFINE s == Head(jobs[w])
    <2>1. s \in Job /\ s.at \in 1 .. MaxTime
        BY <1>1, JobsAre, QueueIs
    <2> HIDE DEF s
    <2>2. SortKey(s.board, s.score) \in Int
        BY <2>1, SortKeyIs DEF Job
    <2>3. RowOf(s, s.at) \in Row
        BY <2>1, <2>2 DEF RowOf, Row, Job
    <2>4. rows[b][u] \in Row
        BY <1>1 DEF RecordsTypeOK
    <2>5. QED
        BY <2>3, <2>4, SameRow DEF s
<1>3. RowTellsHistory
    <2> SUFFICES ASSUME NEW b \in Boards, NEW u \in Holders(b)
                 PROVE  LET subs == log[b][u]
                            since == Since(b, subs)
                        IN /\ rows[b][u].score = IF Ranking[b] = "TOTAL" THEN SumOf(Scores(subs)) ELSE subs[since].score
                           /\ rows[b][u].key = SortKey(b, rows[b][u].score)
                           /\ rows[b][u].at = subs[since].at
                           /\ rows[b][u].details = subs[IF Ranking[b] \in {"LATEST", "TOTAL"} THEN Len(subs) ELSE since].details
        BY DEF RowTellsHistory
    <2>1. u \in Users /\ RowTold(b, rows[b][u], log[b][u]) /\ log[b][u] \in Seq(Logged)
        BY DEF RecordsInv, RecordsTypeOK, RowsTold, Holders
    <2>2. QED
        BY <2>1, ToldSince
<1>4. QED
    BY <1>1, <1>2, <1>3, RanksAgree DEF RecordsSound, RecordsInv

\* A new queue for one thread: what it still has to store has not begun.
LEMMA QueueReplaced ==
    ASSUME RecordsInv, NEW w \in Writers, NEW q \in Queue, q # <<>> => Head(q).step = "new",
           jobs' = [jobs EXCEPT ![w] = q], UNCHANGED <<rows, boards, clock, announced, log, completed>>
    PROVE  RecordsInv'
<1>1. jobs \in [Writers -> Queue]
    BY JobsAre DEF RecordsInv
<1>2. jobs' \in [Writers -> Queue]
    BY <1>1
<1>3. RecordsTypeOK'
    <2>1. jobs' \in [Writers -> Seq(Job)]
        BY <1>2 DEF Queue
    <2>2. \A v \in Writers : jobs'[v] \in Queue
        BY <1>2
    <2>3. QED
        BY <2>1, <2>2 DEF RecordsInv, RecordsTypeOK, Queue
<1>4. JobsStored'
    <2> SUFFICES ASSUME NEW v \in Writers, jobs'[v] # <<>>, Head(jobs'[v]).step = "board"
                 PROVE  StoredBy(v, Head(jobs[v]))'
        BY DEF JobsStored
    <2>1. v # w /\ jobs'[v] = jobs[v]
        BY <1>1
    <2>2. StoredBy(v, Head(jobs[v]))
        BY <2>1 DEF RecordsInv, JobsStored
    <2>3. QED
        BY <2>1, <2>2 DEF StoredBy
<1>5. CompletedIsListed' /\ AnnouncedWasStored' /\ RowsTold'
    BY DEF RecordsInv, CompletedIsListed, AnnouncedWasStored, RowsTold
<1>6. QED
    BY <1>3, <1>4, <1>5 DEF RecordsInv

\* Taking the time changes the head of one thread's queue, and the clock.
LEMMA StampIs ==
    ASSUME RecordsTypeOK, NEW w \in Writers, Stamp(w)
    PROVE  \E now \in 1 .. MaxTime :
              LET h == [Head(jobs[w]) EXCEPT !.step = "row", !.at = now, !.best = BestScore(Head(jobs[w]).board)]
              IN /\ clock' = now /\ h \in Job /\ h.step = "row" /\ h.at = now /\ h.board = Head(jobs[w]).board
                 /\ h.score = Head(jobs[w]).score /\ h.user = Head(jobs[w]).user /\ h.best = BestScore(Head(jobs[w]).board)
                 /\ jobs' = [jobs EXCEPT ![w] = [jobs[w] EXCEPT ![1] = h]]
                 /\ jobs[w] \in Queue /\ jobs[w] # <<>>
<1> DEFINE s == Head(jobs[w])
           b == BestScore(s.board)
<1>1. PICK now \in {clock, clock + 1} \cap 1 .. MaxTime :
          clock' = now /\ jobs' = [jobs EXCEPT ![w][1].step = "row", ![w][1].at = now, ![w][1].best = b]
    BY DEF Stamp
<1>2. jobs \in [Writers -> Queue] /\ jobs[w] \in Queue /\ jobs[w] # <<>>
    BY JobsAre DEF Stamp
<1>3. s \in Job /\ s = jobs[w][1] /\ 1 \in DOMAIN jobs[w]
    BY <1>2, QueueIs
<1>4. b \in Nat
    <2>1. CASE s.board = "course"
        BY <2>1, BestIs
    <2>2. CASE s.board # "course"
        BY <2>2 DEF BestScore
    <2>3. QED
        BY <2>1, <2>2
<1> HIDE DEF b
<1> DEFINE h == [s EXCEPT !.step = "row", !.at = now, !.best = b]
<1>5. /\ h \in Job /\ h.step = "row" /\ h.at = now /\ h.board = s.board /\ h.user = s.user
          /\ h.score = s.score /\ h.best = b
    <2>1. now \in 0 .. MaxTime /\ MaxTime \in Nat
        BY RecordsAssumption
    <2> HIDE DEF s
    <2>2. s \in [board : Boards, user : Users, score : Nat, details : Details,
                 step : {"new", "row", "board"}, at : 0 .. MaxTime, best : Nat, beats : BOOLEAN]
        BY <1>3 DEF Job
    <2>3. h \in [board : Boards, user : Users, score : Nat, details : Details,
                 step : {"new", "row", "board"}, at : 0 .. MaxTime, best : Nat, beats : BOOLEAN]
        BY <1>4, <2>1, <2>2
    <2>4. /\ h.step = "row" /\ h.at = now /\ h.board = s.board /\ h.user = s.user
          /\ h.score = s.score /\ h.best = b
        BY <2>2
    <2>5. QED
        BY <2>3, <2>4 DEF Job
<1>6. jobs' = [jobs EXCEPT ![w] = [jobs[w] EXCEPT ![1] = h]]
    BY <1>1, <1>2, <1>3
<1>7. QED
    BY <1>1, <1>2, <1>5, <1>6 DEF b

LEMMA StampKeeps ==
    ASSUME RecordsInv, NEW w \in Writers, Stamp(w)
    PROVE  RecordsInv'
<1> DEFINE Stamped(now) == [Head(jobs[w]) EXCEPT !.step = "row", !.at = now, !.best = BestScore(Head(jobs[w]).board)]
<1>0. PICK now \in 1 .. MaxTime :
          LET h == Stamped(now)
          IN /\ clock' = now /\ h \in Job /\ h.step = "row" /\ h.at = now /\ h.board = Head(jobs[w]).board
             /\ h.score = Head(jobs[w]).score /\ h.user = Head(jobs[w]).user /\ h.best = BestScore(Head(jobs[w]).board)
             /\ jobs' = [jobs EXCEPT ![w] = [jobs[w] EXCEPT ![1] = h]]
             /\ jobs[w] \in Queue /\ jobs[w] # <<>>
    BY StampIs DEF RecordsInv
<1> DEFINE h == Stamped(now)
<1>1. /\ h \in Job /\ clock' = now /\ h.step = "row" /\ h.at = now
      /\ jobs' = [jobs EXCEPT ![w] = [jobs[w] EXCEPT ![1] = h]] /\ jobs[w] \in Queue /\ jobs[w] # <<>>
    BY <1>0
<1> HIDE DEF h
<1>2. MaxTime \in Nat /\ now # 0 /\ now \in 0 .. MaxTime
    BY RecordsAssumption
<1> DEFINE q == [jobs[w] EXCEPT ![1] = h]
<1>3. q \in Queue /\ q # <<>> /\ Head(q) = h
    BY <1>1, <1>2, HeadChanges
<1>4. jobs \in [Writers -> Queue]
    BY JobsAre DEF RecordsInv
<1> HIDE DEF q
<1>5. jobs' = [jobs EXCEPT ![w] = q] /\ jobs' \in [Writers -> Queue]
    BY <1>1, <1>3, <1>4 DEF q
<1>6. UNCHANGED <<rows, boards, announced, log, completed>>
    BY DEF Stamp
<1>7. RecordsTypeOK'
    <2>1. jobs' \in [Writers -> Seq(Job)]
        BY <1>5 DEF Queue
    <2>2. \A v \in Writers : jobs'[v] \in Queue
        BY <1>5
    <2>3. QED
        BY <1>1, <1>2, <1>6, <2>1, <2>2 DEF RecordsInv, RecordsTypeOK, Queue
<1>8. JobsStored'
    <2> SUFFICES ASSUME NEW v \in Writers, jobs'[v] # <<>>, Head(jobs'[v]).step = "board"
                 PROVE  StoredBy(v, Head(jobs[v]))'
        BY DEF JobsStored
    <2>1. v # w /\ jobs'[v] = jobs[v]
        BY <1>1, <1>3, <1>4, <1>5
    <2>2. StoredBy(v, Head(jobs[v]))
        BY <2>1 DEF RecordsInv, JobsStored
    <2>3. QED
        BY <1>6, <2>1, <2>2 DEF StoredBy
<1>9. CompletedIsListed' /\ AnnouncedWasStored' /\ RowsTold'
    BY <1>6 DEF RecordsInv, CompletedIsListed, AnnouncedWasStored, RowsTold
<1>10. QED
    BY <1>7, <1>8, <1>9 DEF RecordsInv

\* Writing the row: the row, its history and the head of the queue.
Stored(w) == [Head(jobs[w]) EXCEPT !.step = "board",
                !.beats = Head(jobs[w]).board = "course"
                            /\ (BestScore(Head(jobs[w]).board) = 0 \/ Head(jobs[w]).score < BestScore(Head(jobs[w]).board))]

EntryOf(w) == [by |-> w, score |-> Head(jobs[w]).score, at |-> Head(jobs[w]).at, details |-> Head(jobs[w]).details]

RowAfter(w) ==
    LET s == Head(jobs[w])
    IN Upserted(rows[s.board][s.user], LoggedRow(s.board, EntryOf(w)), Ranking[s.board])

LEMMA UpsertIs ==
    ASSUME RecordsInv, NEW w \in Writers, Upsert(w)
    PROVE  LET s == Head(jobs[w]) IN
           /\ s \in Job /\ s.step = "row" /\ s.board \in Boards /\ s.user \in Users /\ EntryOf(w) \in Logged
           /\ jobs[w] \in Queue /\ jobs[w] # <<>>
           /\ Stored(w) \in Job /\ Stored(w).step = "board" /\ Stored(w).at # 0 /\ Stored(w).board = s.board
           /\ Stored(w).user = s.user /\ Stored(w).score = s.score /\ Stored(w).best = s.best
           /\ Stored(w).beats = (s.board = "course" /\ (BestScore(s.board) = 0 \/ s.score < BestScore(s.board)))
           /\ jobs' = [jobs EXCEPT ![w] = [jobs[w] EXCEPT ![1] = Stored(w)]]
           /\ rows' = [rows EXCEPT ![s.board][s.user] = RowAfter(w)]
           /\ log' = [log EXCEPT ![s.board][s.user] = Append(log[s.board][s.user], EntryOf(w))]
<1> DEFINE s == Head(jobs[w])
<1>1. jobs \in [Writers -> Queue] /\ jobs[w] \in Queue /\ jobs[w] # <<>> /\ s.step = "row"
    BY JobsAre DEF Upsert, RecordsInv
<1>2. s \in Job /\ s = jobs[w][1] /\ 1 \in DOMAIN jobs[w] /\ s.at \in 1 .. MaxTime
    BY <1>1, QueueIs
<1> DEFINE beats == s.board = "course" /\ (BestScore(s.board) = 0 \/ s.score < BestScore(s.board))
<1>3. /\ rows' = [rows EXCEPT ![s.board][s.user] = Upserted(@, RowOf(s, s.at), Ranking[s.board])]
      /\ log' = [log EXCEPT ![s.board][s.user] = Append(@, [by |-> w, score |-> s.score, at |-> s.at, details |-> s.details])]
      /\ jobs' = [jobs EXCEPT ![w][1].step = "board", ![w][1].beats = beats]
    BY DEF Upsert
<1>4. beats \in BOOLEAN /\ (beats <=> s.board = "course" /\ (BestScore(s.board) = 0 \/ s.score < BestScore(s.board)))
    OBVIOUS
<1> HIDE DEF s, beats
<1>5. s \in [board : Boards, user : Users, score : Nat, details : Details,
             step : {"new", "row", "board"}, at : 0 .. MaxTime, best : Nat, beats : BOOLEAN]
    BY <1>2 DEF Job
<1>6. s.board \in Boards /\ s.user \in Users /\ s.score \in Nat /\ s.details \in Details
    BY <1>5
<1>7. EntryOf(w) \in Logged
    BY <1>2, <1>6 DEF EntryOf, Logged, s
<1> DEFINE h == [s EXCEPT !.step = "board", !.beats = beats]
<1>8. h \in [board : Boards, user : Users, score : Nat, details : Details,
             step : {"new", "row", "board"}, at : 0 .. MaxTime, best : Nat, beats : BOOLEAN]
    BY <1>4, <1>5
<1>9. /\ h.step = "board" /\ h.at = s.at /\ h.board = s.board /\ h.user = s.user /\ h.score = s.score /\ h.best = s.best
      /\ h.beats = beats
    BY <1>5
<1>10. h = Stored(w)
    BY DEF Stored, s, beats
<1>11. jobs' = [jobs EXCEPT ![w] = [jobs[w] EXCEPT ![1] = h]]
    BY <1>1, <1>2, <1>3
<1>12. RowOf(s, s.at) = LoggedRow(s.board, EntryOf(w))
    BY DEF RowOf, LoggedRow, EntryOf, s
<1>13. rows' = [rows EXCEPT ![s.board][s.user] = RowAfter(w)]
    BY <1>3, <1>12 DEF RowAfter, s
<1>14. log' = [log EXCEPT ![s.board][s.user] = Append(log[s.board][s.user], EntryOf(w))]
    BY <1>3 DEF EntryOf, s
<1> HIDE DEF h
<1>15. Stored(w) \in Job /\ Stored(w).at # 0
    <2>1. s.at # 0
        BY <1>2, RecordsAssumption
    <2>2. QED
        BY <1>8, <1>9, <1>10, <2>1 DEF Job
<1>16. Stored(w).beats = (s.board = "course" /\ (BestScore(s.board) = 0 \/ s.score < BestScore(s.board)))
    BY <1>9, <1>10 DEF beats
<1>17. /\ Stored(w).step = "board" /\ Stored(w).board = s.board /\ Stored(w).user = s.user
       /\ Stored(w).score = s.score /\ Stored(w).best = s.best
       /\ jobs' = [jobs EXCEPT ![w] = [jobs[w] EXCEPT ![1] = Stored(w)]]
    BY <1>9, <1>10, <1>11
<1>18. QED
    BY <1>1, <1>2, <1>6, <1>7, <1>13, <1>14, <1>15, <1>16, <1>17 DEF s

\* The row that is written, and the histories after it.
LEMMA UpsertRows ==
    ASSUME RecordsInv, NEW w \in Writers, Upsert(w)
    PROVE  LET s == Head(jobs[w]) IN
           /\ RowAfter(w) \in Row /\ RowAfter(w) # NoRecord
           /\ RowTold(s.board, RowAfter(w), Append(log[s.board][s.user], EntryOf(w)))
           /\ \A b \in Boards, u \in Users :
                /\ rows'[b][u] = IF b = s.board /\ u = s.user THEN RowAfter(w) ELSE rows[b][u]
                /\ log'[b][u] = IF b = s.board /\ u = s.user THEN Append(log[b][u], EntryOf(w)) ELSE log[b][u]
           /\ rows' \in [Boards -> [Users -> Row \cup {NoRecord}]]
           /\ log' \in [Boards -> [Users -> Seq(Logged)]]
<1> DEFINE s == Head(jobs[w])
           b == s.board
           u == s.user
           e == EntryOf(w)
           row == RowAfter(w)
           kept == log[b][u]
<1>1. /\ b \in Boards /\ u \in Users /\ e \in Logged
      /\ rows' = [rows EXCEPT ![b][u] = row]
      /\ log' = [log EXCEPT ![b][u] = Append(kept, e)]
    BY UpsertIs
<1>2. /\ rows \in [Boards -> [Users -> Row \cup {NoRecord}]] /\ log \in [Boards -> [Users -> Seq(Logged)]]
      /\ IF rows[b][u] = NoRecord THEN kept = <<>> ELSE RowTold(b, rows[b][u], kept)
    BY <1>1 DEF RecordsInv, RecordsTypeOK, RowsTold
<1>3. row = IF rows[b][u] = NoRecord THEN LoggedRow(b, e) ELSE Simultaneous(Ranking[b], rows[b][u], LoggedRow(b, e))
    BY DEF RowAfter, Upserted
<1> HIDE DEF s, b, u, e, row, kept
<1>4. kept \in Seq(Logged)
    BY <1>1, <1>2 DEF kept
<1>5. row \in Row /\ RowTold(b, row, Append(kept, e))
    <2>1. CASE rows[b][u] = NoRecord
        <3>1. kept = <<>> /\ row = LoggedRow(b, e)
            BY <1>2, <1>3, <2>1
        <3>2. QED
            BY <1>1, <3>1, LoggedRowIs, FirstTells
    <2>2. CASE rows[b][u] # NoRecord
        <3>1. rows[b][u] \in Row /\ RowTold(b, rows[b][u], kept)
              /\ row = Simultaneous(Ranking[b], rows[b][u], LoggedRow(b, e))
            BY <1>1, <1>2, <1>3, <2>2
        <3>2. QED
            BY <1>1, <1>4, <3>1, UpsertTells
    <2>3. QED
        BY <2>1, <2>2
<1>6. row # NoRecord
    BY <1>5, NoRecordIsNoRow
<1>7. \A c \in Boards, v \in Users :
        /\ rows'[c][v] = IF c = b /\ v = u THEN row ELSE rows[c][v]
        /\ log'[c][v] = IF c = b /\ v = u THEN Append(log[c][v], e) ELSE log[c][v]
    BY <1>1, <1>2 DEF kept
<1>8. rows' \in [Boards -> [Users -> Row \cup {NoRecord}]]
    BY <1>1, <1>2, <1>5
<1>9. log' \in [Boards -> [Users -> Seq(Logged)]]
    <2>1. Append(kept, e) \in Seq(Logged)
        BY <1>1, <1>4, AppendIs
    <2>2. QED
        BY <1>1, <1>2, <2>1
<1>10. QED
    BY <1>5, <1>6, <1>7, <1>8, <1>9, SMTT(30) DEF s, b, u, e, row, kept

\* A history only grows.
LEMMA StoredStays ==
    ASSUME RecordsInv, NEW w \in Writers, Upsert(w)
    PROVE  \A b \in Boards, u \in Users :
              /\ DOMAIN log[b][u] \subseteq DOMAIN log'[b][u]
              /\ \A i \in DOMAIN log[b][u] : log'[b][u][i] = log[b][u][i]
<1> SUFFICES ASSUME NEW b \in Boards, NEW u \in Users
             PROVE  /\ DOMAIN log[b][u] \subseteq DOMAIN log'[b][u]
                    /\ \A i \in DOMAIN log[b][u] : log'[b][u][i] = log[b][u][i]
    OBVIOUS
<1> DEFINE kept == log[b][u]
           e == EntryOf(w)
<1>1. log'[b][u] = Append(kept, e) \/ log'[b][u] = kept
    BY UpsertRows, ZenonT(40)
<1>2. kept \in Seq(Logged) /\ e \in Logged
    <2>1. EntryOf(w) \in Logged
        BY UpsertIs
    <2>2. QED
        BY <2>1 DEF RecordsInv, RecordsTypeOK
<1> HIDE DEF kept, e
<1>3. DOMAIN kept = 1 .. Len(kept) /\ Len(kept) \in Nat
    BY <1>2, LenProperties
<1>4. /\ Append(kept, e) \in [1 .. Len(kept) + 1 -> Logged]
      /\ \A i \in 1 .. Len(kept) + 1 : Append(kept, e)[i] = IF i = Len(kept) + 1 THEN e ELSE kept[i]
    BY <1>2, AppendIs
<1>5. DOMAIN Append(kept, e) = 1 .. Len(kept) + 1 /\ \A i \in 1 .. Len(kept) : i \in 1 .. Len(kept) + 1 /\ i # Len(kept) + 1
    BY <1>3, <1>4
<1>6. QED
    BY <1>1, <1>3, <1>4, <1>5 DEF kept

LEMMA UpsertKeeps ==
    ASSUME RecordsInv, NEW w \in Writers, Upsert(w)
    PROVE  RecordsInv' /\ StoredBy(w, Head(jobs[w]))'
<1> DEFINE s == Head(jobs[w])
           q == [jobs[w] EXCEPT ![1] = Stored(w)]
<1>1. /\ s.board \in Boards /\ s.user \in Users /\ EntryOf(w) \in Logged
      /\ Stored(w).board = s.board /\ Stored(w).user = s.user /\ Stored(w).score = s.score
      /\ jobs' = [jobs EXCEPT ![w] = q]
    BY UpsertIs
<1>2. q \in Queue /\ q # <<>> /\ Head(q) = Stored(w)
    <2>1. jobs[w] \in Queue /\ jobs[w] # <<>> /\ Stored(w) \in Job /\ Stored(w).at # 0
        BY UpsertIs
    <2>2. QED
        BY <2>1, HeadChanges
<1>3. jobs \in [Writers -> Queue]
    BY JobsAre DEF RecordsInv
<1> HIDE DEF q
<1>4. jobs' \in [Writers -> Queue] /\ jobs'[w] = q
    BY <1>1, <1>2, <1>3
<1>5. UNCHANGED <<boards, clock, announced, completed>>
    BY DEF Upsert
<1>6. RecordsTypeOK'
    <2>1. jobs' \in [Writers -> Seq(Job)]
        BY <1>4 DEF Queue
    <2>2. \A v \in Writers : jobs'[v] \in Queue
        BY <1>4
    <2>3. rows' \in [Boards -> [Users -> Row \cup {NoRecord}]] /\ log' \in [Boards -> [Users -> Seq(Logged)]]
        BY UpsertRows
    <2>4. QED
        BY <1>5, <2>1, <2>2, <2>3 DEF RecordsInv, RecordsTypeOK, Queue
<1>7. RowsTold'
    <2> SUFFICES ASSUME NEW b \in Boards, NEW u \in Users
                 PROVE  IF rows'[b][u] = NoRecord THEN log'[b][u] = <<>> ELSE RowTold(b, rows'[b][u], log'[b][u])
        BY DEF RowsTold, RowTold
    <2>1. CASE b = s.board /\ u = s.user
        <3>1. rows'[b][u] = RowAfter(w) /\ log'[b][u] = Append(log[b][u], EntryOf(w))
            BY <2>1, UpsertRows
        <3>2. RowAfter(w) # NoRecord /\ RowTold(b, RowAfter(w), Append(log[b][u], EntryOf(w)))
            BY <2>1, UpsertRows
        <3>3. QED
            BY <3>1, <3>2
    <2>2. CASE ~(b = s.board /\ u = s.user)
        <3>1. rows'[b][u] = rows[b][u] /\ log'[b][u] = log[b][u]
            BY <2>2, UpsertRows
        <3>2. QED
            BY <3>1 DEF RecordsInv, RowsTold
    <2>3. QED
        BY <2>1, <2>2
<1>8. \E i \in DOMAIN log'[s.board][s.user] : log'[s.board][s.user][i].by = w /\ log'[s.board][s.user][i].score = s.score
    <2> DEFINE kept == log[s.board][s.user]
               e == EntryOf(w)
    <2>1. log'[s.board][s.user] = Append(kept, e)
        BY <1>1, UpsertRows
    <2>2. kept \in Seq(Logged) /\ e \in Logged
        BY <1>1 DEF RecordsInv, RecordsTypeOK
    <2>3. e.by = w /\ e.score = s.score
        BY DEF EntryOf
    <2> HIDE DEF kept, e
    <2>4. /\ Append(kept, e) \in [1 .. Len(kept) + 1 -> Logged] /\ Len(kept) \in Nat
          /\ \A i \in 1 .. Len(kept) + 1 : Append(kept, e)[i] = IF i = Len(kept) + 1 THEN e ELSE kept[i]
        BY <2>2, AppendIs
    <2>5. Len(kept) + 1 \in DOMAIN Append(kept, e) /\ Append(kept, e)[Len(kept) + 1] = e
        BY <2>4
    <2>6. QED
        BY <2>1, <2>3, <2>5, SMTT(30)
<1>9. ASSUME NEW v \in Writers, NEW t \in Job, StoredBy(v, t)
      PROVE  \E i \in DOMAIN log'[t.board][t.user] : log'[t.board][t.user][i].by = v /\ log'[t.board][t.user][i].score = t.score
    <2>1. t.board \in Boards /\ t.user \in Users
        BY DEF Job
    <2>2. QED
        BY <1>9, <2>1, StoredStays DEF StoredBy
<1>10. StoredBy(w, Head(jobs[w]))'
    BY <1>1, <1>2, <1>4, <1>8, ZenonT(40) DEF StoredBy
<1>11. JobsStored'
    <2> SUFFICES ASSUME NEW v \in Writers, jobs'[v] # <<>>, Head(jobs'[v]).step = "board"
                 PROVE  StoredBy(v, Head(jobs[v]))'
        BY DEF JobsStored
    <2>1. CASE v = w
        BY <1>10, <2>1
    <2>2. CASE v # w
        <3>1. jobs'[v] = jobs[v]
            BY <1>1, <1>3, <2>2
        <3>2. StoredBy(v, Head(jobs[v])) /\ Head(jobs[v]) \in Job
            BY <1>3, <3>1, QueueIs DEF RecordsInv, JobsStored
        <3> DEFINE t == Head(jobs[v])
        <3>3. t = Head(jobs'[v]) /\ t \in Job /\ StoredBy(v, t)
            BY <3>1, <3>2
        <3> HIDE DEF t
        <3>4. \E i \in DOMAIN log'[t.board][t.user] : log'[t.board][t.user][i].by = v /\ log'[t.board][t.user][i].score = t.score
            BY <1>9, <3>3
        <3>5. QED
            BY <3>3, <3>4 DEF StoredBy
    <2>3. QED
        BY <2>1, <2>2
<1>12. AnnouncedWasStored'
    <2> SUFFICES ASSUME NEW a \in announced'
                 PROVE  \E i \in DOMAIN log'["course"][a[1]] : log'["course"][a[1]][i].score = a[2]
        BY DEF AnnouncedWasStored
    <2>1. a \in announced /\ a[1] \in Users /\ "course" \in Boards
        BY <1>5, RankingIs DEF RecordsInv, RecordsTypeOK
    <2>2. \E i \in DOMAIN log["course"][a[1]] : log["course"][a[1]][i].score = a[2]
        BY <2>1 DEF RecordsInv, AnnouncedWasStored
    <2>3. QED
        BY <2>1, <2>2, StoredStays
<1>13. CompletedIsListed'
    BY <1>5 DEF RecordsInv, CompletedIsListed
<1>14. QED
    BY <1>6, <1>7, <1>10, <1>11, <1>12, <1>13 DEF RecordsInv

LEMMA ListBoardKeeps ==
    ASSUME RecordsInv, NEW w \in Writers, ListBoard(w)
    PROVE  RecordsInv'
<1> DEFINE s == Head(jobs[w])
           q == Tail(jobs[w])
<1>1. jobs[w] # <<>> /\ s.step = "board" /\ jobs \in [Writers -> Queue] /\ jobs[w] \in Queue
    BY JobsAre DEF RecordsInv, ListBoard
<1>2. s \in Job /\ q \in Queue /\ (q # <<>> => Head(q).step = "new")
    BY <1>1, QueueIs, TailWaits
<1>3. /\ boards' = boards \cup {s.board} /\ completed' = completed \cup {s.board}
      /\ announced' = IF Announces(s) THEN announced \cup {<<s.user, s.score>>} ELSE announced
      /\ jobs' = [jobs EXCEPT ![w] = q] /\ UNCHANGED <<rows, clock, log>>
    BY DEF ListBoard
<1>4. StoredBy(w, s)
    BY <1>1 DEF RecordsInv, JobsStored
<1> HIDE DEF s, q
<1>5. s.board \in Boards /\ s.user \in Users /\ s.score \in Nat
    BY <1>2 DEF Job
<1>6. jobs' \in [Writers -> Queue]
    BY <1>1, <1>2, <1>3
<1>7. RecordsTypeOK'
    <2>1. jobs' \in [Writers -> Seq(Job)]
        BY <1>6 DEF Queue
    <2>2. \A v \in Writers : jobs'[v] \in Queue
        BY <1>6
    <2>3. announced' \subseteq Users \X Nat
        BY <1>3, <1>5 DEF RecordsInv, RecordsTypeOK
    <2>4. QED
        BY <1>3, <1>5, <2>1, <2>2, <2>3 DEF RecordsInv, RecordsTypeOK, Queue
<1>8. JobsStored'
    <2> SUFFICES ASSUME NEW v \in Writers, jobs'[v] # <<>>, Head(jobs'[v]).step = "board"
                 PROVE  StoredBy(v, Head(jobs[v]))'
        BY DEF JobsStored
    <2>1. v # w /\ jobs'[v] = jobs[v]
        BY <1>1, <1>2, <1>3
    <2>2. StoredBy(v, Head(jobs[v]))
        BY <2>1 DEF RecordsInv, JobsStored
    <2>3. QED
        BY <1>3, <2>1, <2>2 DEF StoredBy
<1>9. AnnouncedWasStored'
    <2> SUFFICES ASSUME NEW a \in announced'
                 PROVE  \E i \in DOMAIN log["course"][a[1]] : log["course"][a[1]][i].score = a[2]
        BY <1>3 DEF AnnouncedWasStored
    <2>1. CASE a \in announced
        BY <2>1 DEF RecordsInv, AnnouncedWasStored
    <2>2. CASE a \notin announced
        <3>1. a = <<s.user, s.score>> /\ s.board = "course"
            BY <1>3, <2>2 DEF Announces
        <3>2. a[1] = s.user /\ a[2] = s.score
            BY <3>1
        <3>3. QED
            BY <1>4, <3>1, <3>2 DEF StoredBy
    <2>3. QED
        BY <2>1, <2>2
<1>10. CompletedIsListed' /\ RowsTold'
    BY <1>3 DEF RecordsInv, CompletedIsListed, RowsTold
<1>11. QED
    BY <1>7, <1>8, <1>9, <1>10 DEF RecordsInv

LEMMA SubmitKeeps == ASSUME RecordsInv, NEW w \in Writers, Submit(w) PROVE RecordsInv'
BY StampKeeps, UpsertKeeps, ListBoardKeeps DEF Submit

-----------------------------------------------------------------------------
(* The lap times. *)

\* What the best lap is.
BestTold ==
    LET best == BestScore("course") IN
    /\ best \in Nat /\ (Holders("course") = {} => best = 0)
    /\ Holders("course") # {} => \E u \in Holders("course") : best = rows["course"][u].score
    /\ (\A u \in Holders("course") : rows["course"][u].key = rows["course"][u].score)
         => \A u \in Holders("course") : best <= rows["course"][u].score

LEMMA BestIsTold == RecordsTypeOK => BestTold
BY BestIs DEF BestTold

LEMMA BestIsToldNext == RecordsTypeOK' => BestTold'
BY BestIsTold, PTL

\* A report's submissions, before any of them has begun.
Sent == [board : Boards, user : Users, score : Nat, details : Details]

LEMMA PlanIs ==
    ASSUME NEW subs \in Seq(Sent)
    PROVE  /\ Plan(subs) \in Queue /\ Len(Plan(subs)) = Len(subs) /\ Len(subs) \in Nat
           /\ Plan(subs) # <<>> => Head(Plan(subs)).step = "new"
           /\ \A i \in 1 .. Len(subs) :
                /\ Plan(subs)[i].board = subs[i].board /\ Plan(subs)[i].user = subs[i].user
                /\ Plan(subs)[i].score = subs[i].score /\ Plan(subs)[i].step = "new"
<1> DEFINE n == Len(subs)
           Started(s) == [board |-> s.board, user |-> s.user, score |-> s.score, details |-> s.details,
                        step |-> "new", at |-> 0, best |-> 0, beats |-> FALSE]
           plan == Plan(subs)
<1>1. n \in Nat /\ DOMAIN subs = 1 .. n /\ \A i \in 1 .. n : subs[i] \in Sent
    BY LenProperties
<1>2. plan = [i \in 1 .. n |-> Started(subs[i])]
    BY <1>1 DEF Plan
<1>3. \A s \in Sent : Started(s) \in Job
    <2> SUFFICES ASSUME NEW s \in Sent PROVE Started(s) \in Job
        OBVIOUS
    <2>1. s.board \in Boards /\ s.user \in Users /\ s.score \in Nat /\ s.details \in Details /\ 0 \in 0 .. MaxTime
        BY RecordsAssumption DEF Sent
    <2>2. QED
        BY <2>1 DEF Job
<1>4. \A s : Started(s).board = s.board /\ Started(s).user = s.user /\ Started(s).score = s.score /\ Started(s).step = "new"
    OBVIOUS
<1> HIDE DEF Started, plan
<1>5. \A i \in 1 .. n : plan[i] = Started(subs[i])
    BY <1>2
<1>6. plan \in [1 .. n -> Job] /\ DOMAIN plan = 1 .. n
    BY <1>1, <1>2, <1>3
<1>7. plan \in Seq(Job) /\ Len(plan) = n
    BY <1>1, <1>6
<1>8. \A i \in DOMAIN plan : plan[i].step = "new"
    BY <1>4, <1>5, <1>6
<1>9. plan \in Queue
    BY <1>7, <1>8 DEF Queue
<1>10. plan # <<>> => Head(plan).step = "new"
    BY <1>8, <1>9, QueueIs
<1>11. QED
    BY <1>1, <1>4, <1>5, <1>7, <1>9, <1>10 DEF plan

\* Laps are for the course; a lap of 0 is none.
LapQueued == \A w \in Writers : \A i \in DOMAIN jobs[w] : jobs[w][i].board = "course" /\ jobs[w][i].score # 0

LapsTimed == \A u \in Holders("course") : rows["course"][u].score # 0

\* What a thread read as the best lap is still no better than the best one; a
\* lap that beat it when it was stored beats what the thread had read.
BestKnown ==
    \A w \in Writers : jobs[w] # <<>> =>
        LET s == Head(jobs[w]) IN
        /\ s.step = "row" => s.best = 0 \/ (BestScore("course") # 0 /\ BestScore("course") <= s.best)
        /\ s.step = "board" /\ s.beats => s.best = 0 \/ s.score < s.best
        /\ s.best \in Nat

LapsInv == RecordsInv /\ LapQueued /\ LapsTimed /\ BestKnown

LEMMA LapKeys ==
    ASSUME RecordsInv
    PROVE  \A u \in Holders("course") : rows["course"][u].key = rows["course"][u].score
<1> SUFFICES ASSUME NEW u \in Holders("course") PROVE rows["course"][u].key = rows["course"][u].score
    OBVIOUS
<1>1. u \in Users /\ "course" \in Boards /\ rows["course"][u] # NoRecord
    BY RankingIs DEF Holders
<1>2. RowTold("course", rows["course"][u], log["course"][u])
    BY <1>1 DEF RecordsInv, RowsTold
<1>3. rows["course"][u].score \in Nat
    BY <1>1, HoldersAre DEF RecordsInv
<1>4. QED
    BY <1>1, <1>2, <1>3, RankingIs DEF RowTold, SortKey

LEMMA LapKeysTold == RecordsInv => \A u \in Holders("course") : rows["course"][u].key = rows["course"][u].score
BY LapKeys

LEMMA LapKeysNext == RecordsInv' => (\A u \in Holders("course") : rows["course"][u].key = rows["course"][u].score)'
BY LapKeysTold, PTL

LEMMA LapsInvInit == RecordsInit => LapsInv
<1> SUFFICES ASSUME RecordsInit PROVE LapsInv
    OBVIOUS
<1>1. RecordsInv
    BY RecordsInvInit
<1>2. Holders("course") = {}
    BY RankingIs DEF RecordsInit, Holders
<1>3. QED
    BY <1>1, <1>2 DEF RecordsInit, LapsInv, LapQueued, LapsTimed, BestKnown

\* A thread's queue is replaced: the best lap is what it was.
LEMMA LapsReplaced ==
    ASSUME LapsInv, NEW w \in Writers, NEW q \in Queue, q # <<>> => Head(q).step = "new",
           \A i \in DOMAIN q : q[i].board = "course" /\ q[i].score # 0,
           jobs' = [jobs EXCEPT ![w] = q], UNCHANGED <<rows, boards, clock, announced, log, completed>>
    PROVE  LapsInv'
<1>1. RecordsInv'
    BY QueueReplaced DEF LapsInv
<1>2. jobs \in [Writers -> Queue]
    BY JobsAre DEF LapsInv, RecordsInv
<1>3. \A v \in Writers : jobs'[v] = IF v = w THEN q ELSE jobs[v]
    BY <1>2
<1>4. LapQueued' /\ LapsTimed'
    BY <1>3 DEF LapsInv, LapQueued, LapsTimed, Holders
<1>5. BestScore("course")' = BestScore("course")
    BY DEF BestScore, Top, Holders, Before
<1>6. BestKnown'
    <2> SUFFICES ASSUME NEW v \in Writers, jobs'[v] # <<>>
                 PROVE  LET s == Head(jobs'[v]) IN
                        /\ s.step = "row" => s.best = 0 \/ (BestScore("course") # 0 /\ BestScore("course") <= s.best)
                        /\ s.step = "board" /\ s.beats => s.best = 0 \/ s.score < s.best
                        /\ s.best \in Nat
        BY <1>5 DEF BestKnown
    <2>1. CASE v = w
        <3>1. jobs'[v] = q /\ Head(q).step = "new" /\ Head(q) \in Job
            BY <1>3, <2>1, QueueIs
        <3>2. Head(q).best \in Nat
            BY <3>1 DEF Job
        <3>3. QED
            BY <3>1, <3>2
    <2>2. CASE v # w
        BY <1>3, <2>2 DEF LapsInv, BestKnown
    <2>3. QED
        BY <2>1, <2>2
<1>7. QED
    BY <1>1, <1>4, <1>6 DEF LapsInv

\* One thread's head changes, and the rows do not: the best lap is what it was.
LEMMA LapsStamped ==
    ASSUME LapsInv, NEW w \in Writers, Stamp(w)
    PROVE  LapsInv'
<1>1. PICK now \in 1 .. MaxTime :
          LET h == [Head(jobs[w]) EXCEPT !.step = "row", !.at = now, !.best = BestScore(Head(jobs[w]).board)]
          IN /\ clock' = now /\ h \in Job /\ h.step = "row" /\ h.at = now /\ h.board = Head(jobs[w]).board
             /\ h.score = Head(jobs[w]).score /\ h.user = Head(jobs[w]).user /\ h.best = BestScore(Head(jobs[w]).board)
             /\ jobs' = [jobs EXCEPT ![w] = [jobs[w] EXCEPT ![1] = h]]
             /\ jobs[w] \in Queue /\ jobs[w] # <<>>
    BY StampIs DEF LapsInv, RecordsInv
<1> DEFINE h == [Head(jobs[w]) EXCEPT !.step = "row", !.at = now, !.best = BestScore(Head(jobs[w]).board)]
           q == [jobs[w] EXCEPT ![1] = h]
<1>2. /\ h \in Job /\ h.step = "row" /\ h.at # 0 /\ h.board = Head(jobs[w]).board /\ h.score = Head(jobs[w]).score
      /\ h.best = BestScore(Head(jobs[w]).board) /\ jobs' = [jobs EXCEPT ![w] = q] /\ jobs[w] \in Queue /\ jobs[w] # <<>>
    BY <1>1
<1>3. q = [jobs[w] EXCEPT ![1] = h]
    OBVIOUS
<1> HIDE DEF h, q
<1>4. /\ q \in Queue /\ q # <<>> /\ Head(q) = h /\ Head(jobs[w]) = jobs[w][1] /\ 1 \in DOMAIN jobs[w]
      /\ DOMAIN q = DOMAIN jobs[w] /\ \A i \in DOMAIN q : q[i] = IF i = 1 THEN h ELSE jobs[w][i]
    BY <1>2, <1>3, HeadChanges, QueueIs
<1>5. jobs \in [Writers -> Queue] /\ \A v \in Writers : jobs'[v] = IF v = w THEN q ELSE jobs[v]
    <2>1. jobs \in [Writers -> Queue]
        BY JobsAre DEF LapsInv, RecordsInv
    <2>2. QED
        BY <1>2, <2>1
<1>6. h.board = "course" /\ h.score # 0
    BY <1>2, <1>4 DEF LapsInv, LapQueued
<1>7. rows' = rows
    BY DEF Stamp
<1>8. BestScore("course")' = BestScore("course") /\ Holders("course")' = Holders("course")
    BY <1>7 DEF BestScore, Top, Holders, Before
<1>9. RecordsInv'
    BY StampKeeps DEF LapsInv
<1>10. LapQueued'
    BY <1>4, <1>5, <1>6 DEF LapsInv, LapQueued
<1>11. LapsTimed'
    BY <1>7, <1>8 DEF LapsInv, LapsTimed
<1>12. BestScore("course") \in Nat
    BY BestIsTold DEF BestTold, LapsInv, RecordsInv
<1>13. BestKnown'
    <2> SUFFICES ASSUME NEW v \in Writers, jobs'[v] # <<>>
                 PROVE  LET s == Head(jobs'[v]) IN
                        /\ s.step = "row" => s.best = 0 \/ (BestScore("course") # 0 /\ BestScore("course") <= s.best)
                        /\ s.step = "board" /\ s.beats => s.best = 0 \/ s.score < s.best
                        /\ s.best \in Nat
        BY <1>8 DEF BestKnown
    <2>1. CASE v = w
        <3>1. Head(jobs'[v]) = h /\ h.best = BestScore("course")
            BY <1>2, <1>4, <1>5, <1>6, <2>1
        <3>2. QED
            BY <1>2, <1>12, <3>1
    <2>2. CASE v # w
        BY <1>5, <2>2 DEF LapsInv, BestKnown
    <2>3. QED
        BY <2>1, <2>2
<1>14. QED
    BY <1>9, <1>10, <1>11, <1>13 DEF LapsInv

\* The row of a lap that is stored.
LEMMA LapStored ==
    ASSUME LapsInv, NEW w \in Writers, Upsert(w)
    PROVE  LET s == Head(jobs[w])
               row == rows["course"][s.user]
           IN /\ s.board = "course" /\ s.user \in Users /\ s.score \in Nat /\ s.score # 0 /\ s.best \in Nat
              /\ rows'["course"][s.user] # NoRecord /\ rows'["course"][s.user].score \in Nat
              /\ rows'["course"][s.user].score # 0 /\ rows'["course"][s.user].score <= s.score
              /\ row # NoRecord => rows'["course"][s.user].score <= row.score /\ row.score \in Nat
              /\ \A u \in Users \ {s.user} : rows'["course"][u] = rows["course"][u]
<1> DEFINE s == Head(jobs[w])
           new == LoggedRow("course", EntryOf(w))
           row == rows["course"][s.user]
           now == RowAfter(w)
<1>1. s \in Job /\ s.user \in Users /\ EntryOf(w) \in Logged /\ jobs[w] \in Queue /\ jobs[w] # <<>>
    BY UpsertIs DEF LapsInv
<1>2. s.board = "course" /\ s.score # 0 /\ "course" \in Boards /\ Ranking["course"] = "LOWEST"
    BY <1>1, QueueIs, RankingIs DEF LapsInv, LapQueued
<1>3. s.score \in Nat /\ s.best \in Nat
    BY <1>1 DEF Job
<1>4. new \in Row /\ new.score = s.score /\ new.key = s.score
    BY <1>1, <1>2, LoggedRowIs DEF LoggedRow, EntryOf, SortKey
<1>5. now # NoRecord /\ now \in Row
    BY UpsertRows DEF LapsInv
<1>6. \A u \in Users : rows'["course"][u] = IF u = s.user THEN now ELSE rows["course"][u]
    BY <1>2, UpsertRows DEF LapsInv
<1>7. now = IF row = NoRecord THEN new ELSE Simultaneous(Ranking["course"], row, new)
    BY <1>2 DEF RowAfter, Upserted
<1> HIDE DEF s, new, row, now
<1>8. ASSUME row # NoRecord
      PROVE  row \in Row /\ row.key = row.score /\ row.score \in Nat /\ row.score # 0
             /\ now.score = IF new.key < row.key THEN new.score ELSE row.score
    <2>1. s.user \in Holders("course")
        BY <1>1, <1>8 DEF Holders, row
    <2>2. row.key = row.score /\ row.score # 0 /\ row \in Row /\ row.score \in Nat
        BY <1>2, <2>1, LapKeys, HoldersAre DEF LapsInv, LapsTimed, row, RecordsInv
    <2>3. now.score = Assigned(Ranking["course"], "score", row, new)
        <3>1. now = [score |-> Assigned(Ranking["course"], "score", row, new), key |-> Assigned(Ranking["course"], "key", row, new),
                     at |-> Assigned(Ranking["course"], "at", row, new), details |-> Assigned(Ranking["course"], "details", row, new)]
            BY <1>2, <1>4, <1>7, <1>8, <2>2, SimultaneousIs
        <3>2. QED
            BY <3>1
    <2>4. Assigned(Ranking["course"], "score", row, new) = IF new.key < row.key THEN new.score ELSE row.score
        BY <1>2, <1>4, <2>2, AssignedIs
    <2>5. QED
        BY <2>2, <2>3, <2>4
<1>9. now.score \in Nat /\ now.score # 0 /\ now.score <= s.score /\ (row # NoRecord => now.score <= row.score)
    <2>1. CASE row = NoRecord
        <3>1. now = new
            BY <1>7, <2>1
        <3>2. QED
            BY <1>2, <1>3, <1>4, <2>1, <3>1
    <2>2. CASE row # NoRecord
        BY <1>2, <1>3, <1>4, <1>8, <2>2
    <2>3. QED
        BY <2>1, <2>2
<1>10. rows'["course"][s.user] = now
    BY <1>1, <1>6
<1>11. QED
    BY <1>1, <1>2, <1>3, <1>5, <1>6, <1>8, <1>9, <1>10 DEF s, row

\* The best lap after one was stored: no worse than it was, nor than the new one.
LEMMA BestFalls ==
    ASSUME LapsInv, NEW w \in Writers, Upsert(w)
    PROVE  LET best == BestScore("course")
               next == BestScore("course")'
           IN /\ best \in Nat /\ next \in Nat /\ next # 0 /\ (best # 0 => next <= best) /\ LapsTimed'
<1> DEFINE s == Head(jobs[w])
           best == BestScore("course")
           next == BestScore("course")'
           was(u) == rows["course"][u]
           now(u) == rows'["course"][u]
           H == Holders("course")
           H1 == Holders("course")'
<1>1. RecordsInv'
    BY UpsertKeeps DEF LapsInv
<1>2. /\ best \in Nat /\ (H = {} => best = 0) /\ (H # {} => \E u \in H : best = was(u).score)
    BY BestIsTold DEF BestTold, LapsInv, RecordsInv
<1>3. /\ next \in Nat /\ (H1 # {} => \E u \in H1 : next = now(u).score)
      /\ (\A u \in H1 : now(u).key = now(u).score) => \A u \in H1 : next <= now(u).score
    <2>1. BestTold'
        BY <1>1, BestIsToldNext DEF RecordsInv
    <2>2. QED
        BY <2>1 DEF BestTold
<1>4. \A u \in H1 : now(u).key = now(u).score
    BY <1>1, LapKeysNext
<1>5. H = {u \in Users : was(u) # NoRecord} /\ H1 = {u \in Users : now(u) # NoRecord}
    BY DEF Holders
<1>6. /\ s.user \in Users /\ now(s.user) # NoRecord /\ now(s.user).score # 0
      /\ now(s.user).score \in Nat
      /\ was(s.user) # NoRecord => now(s.user).score <= was(s.user).score /\ was(s.user).score \in Nat
      /\ \A u \in Users \ {s.user} : now(u) = was(u)
    BY LapStored
<1>7. \A u \in H : was(u).score # 0
    BY DEF LapsInv, LapsTimed
<1> HIDE DEF s, best, next, was, now, H, H1
<1>8. \A u \in H1 : now(u).score # 0
    BY <1>5, <1>6, <1>7
<1>9. LapsTimed'
    BY <1>8 DEF LapsTimed, H1, now
<1>10. next # 0
    BY <1>3, <1>5, <1>6, <1>8
<1>11. ASSUME best # 0 PROVE next <= best
    <2>1. PICK u \in H : best = was(u).score
        BY <1>2, <1>11
    <2>2. u \in H1 /\ now(u).score <= best /\ now(u).score \in Nat
        BY <1>2, <1>5, <1>6, <2>1
    <2>3. next <= now(u).score
        BY <1>3, <1>4, <2>2
    <2>4. QED
        BY <1>2, <1>3, <2>2, <2>3
<1>12. QED
    BY <1>2, <1>3, <1>9, <1>10, <1>11 DEF best, next

LEMMA LapsUpserted ==
    ASSUME LapsInv, NEW w \in Writers, Upsert(w)
    PROVE  LapsInv'
<1> DEFINE s == Head(jobs[w])
           q == [jobs[w] EXCEPT ![1] = Stored(w)]
           best == BestScore("course")
           next == BestScore("course")'
<1>1. /\ s.step = "row" /\ jobs[w] \in Queue /\ jobs[w] # <<>>
      /\ Stored(w) \in Job /\ Stored(w).step = "board" /\ Stored(w).at # 0 /\ Stored(w).board = s.board
      /\ Stored(w).score = s.score /\ Stored(w).best = s.best
      /\ Stored(w).beats = (s.board = "course" /\ (BestScore(s.board) = 0 \/ s.score < BestScore(s.board)))
      /\ jobs' = [jobs EXCEPT ![w] = q]
    BY UpsertIs DEF LapsInv
<1>2. s.board = "course" /\ s.score \in Nat /\ s.score # 0 /\ s.best \in Nat
    BY LapStored
<1>3. best \in Nat /\ next \in Nat /\ next # 0 /\ (best # 0 => next <= best) /\ LapsTimed'
    BY BestFalls
<1>4. Stored(w).beats => best = 0 \/ s.score < best
    BY <1>1, <1>2
<1>5. s.best = 0 \/ (best # 0 /\ best <= s.best)
    BY <1>1 DEF LapsInv, BestKnown
<1>6. q = [jobs[w] EXCEPT ![1] = Stored(w)]
    OBVIOUS
<1> HIDE DEF q, best
<1>7. /\ q \in Queue /\ q # <<>> /\ Head(q) = Stored(w) /\ DOMAIN q = DOMAIN jobs[w]
      /\ \A i \in DOMAIN q : q[i] = IF i = 1 THEN Stored(w) ELSE jobs[w][i]
    BY <1>1, <1>6, HeadChanges, QueueIs
<1>8. jobs \in [Writers -> Queue] /\ \A v \in Writers : jobs'[v] = IF v = w THEN q ELSE jobs[v]
    <2>1. jobs \in [Writers -> Queue]
        BY JobsAre DEF LapsInv, RecordsInv
    <2>2. QED
        BY <1>1, <2>1
<1>9. RecordsInv'
    BY UpsertKeeps DEF LapsInv
<1>10. LapQueued'
    BY <1>1, <1>2, <1>7, <1>8 DEF LapsInv, LapQueued
<1>11. BestKnown'
    <2> SUFFICES ASSUME NEW v \in Writers, jobs'[v] # <<>>
                 PROVE  LET t == Head(jobs'[v]) IN
                        /\ t.step = "row" => t.best = 0 \/ (next # 0 /\ next <= t.best)
                        /\ t.step = "board" /\ t.beats => t.best = 0 \/ t.score < t.best
                        /\ t.best \in Nat
        BY DEF BestKnown
    <2>1. CASE v = w
        <3>1. Head(jobs'[v]) = Stored(w)
            BY <1>7, <1>8, <2>1
        <3>2. Stored(w).beats => s.best = 0 \/ s.score < s.best
            BY <1>2, <1>3, <1>4, <1>5
        <3>3. QED
            BY <1>1, <1>2, <3>1, <3>2
    <2>2. CASE v # w
        <3> DEFINE t == Head(jobs'[v])
        <3>1. /\ t.step = "row" => t.best = 0 \/ (best # 0 /\ best <= t.best)
              /\ t.step = "board" /\ t.beats => t.best = 0 \/ t.score < t.best
              /\ t.best \in Nat
            BY <1>8, <2>2 DEF LapsInv, BestKnown, best
        <3> HIDE DEF t, next
        <3>2. t.step = "row" => t.best = 0 \/ (next # 0 /\ next <= t.best)
            BY <1>3, <3>1
        <3>3. QED
            BY <3>1, <3>2 DEF t, next
    <2>3. QED
        BY <2>1, <2>2
<1>12. QED
    BY <1>3, <1>9, <1>10, <1>11 DEF LapsInv

LEMMA LapsListed ==
    ASSUME LapsInv, NEW w \in Writers, ListBoard(w)
    PROVE  LapsInv'
<1> DEFINE q == Tail(jobs[w])
<1>1. jobs \in [Writers -> Queue] /\ jobs[w] # <<>> /\ jobs[w] \in Queue /\ jobs' = [jobs EXCEPT ![w] = q] /\ rows' = rows
    BY JobsAre DEF LapsInv, RecordsInv, ListBoard
<1>2. q \in Queue /\ (q # <<>> => Head(q).step = "new") /\ \A i \in DOMAIN q : \E j \in DOMAIN jobs[w] : q[i] = jobs[w][j]
    <2>1. jobs[w] \in Seq(Job) /\ DOMAIN jobs[w] = 1 .. Len(jobs[w]) /\ Len(jobs[w]) \in Nat
        BY <1>1, QueueIs
    <2>2. q \in Seq(Job) /\ Len(q) = Len(jobs[w]) - 1 /\ \A i \in 1 .. Len(q) : q[i] = jobs[w][i + 1]
        BY <1>1, <2>1, HeadTailProperties
    <2> HIDE DEF q
    <2>3. DOMAIN q = 1 .. Len(q) /\ \A i \in 1 .. Len(q) : i + 1 \in DOMAIN jobs[w]
        BY <2>1, <2>2, LenProperties
    <2>4. QED
        BY <1>1, <2>2, <2>3, TailWaits DEF q
<1> HIDE DEF q
<1>3. \A v \in Writers : jobs'[v] = IF v = w THEN q ELSE jobs[v]
    BY <1>1
<1>4. RecordsInv'
    BY ListBoardKeeps DEF LapsInv
<1>5. BestScore("course")' = BestScore("course") /\ Holders("course")' = Holders("course")
    BY <1>1 DEF BestScore, Top, Holders, Before
<1>6. LapQueued' /\ LapsTimed'
    BY <1>1, <1>2, <1>3, <1>5 DEF LapsInv, LapQueued, LapsTimed
<1>7. BestKnown'
    <2> SUFFICES ASSUME NEW v \in Writers, jobs'[v] # <<>>
                 PROVE  LET t == Head(jobs'[v]) IN
                        /\ t.step = "row" => t.best = 0 \/ (BestScore("course") # 0 /\ BestScore("course") <= t.best)
                        /\ t.step = "board" /\ t.beats => t.best = 0 \/ t.score < t.best
                        /\ t.best \in Nat
        BY <1>5 DEF BestKnown
    <2>1. CASE v = w
        <3>1. Head(jobs'[v]) = Head(q) /\ Head(q).step = "new" /\ Head(q) \in Job
            BY <1>2, <1>3, <2>1, QueueIs
        <3>2. Head(q).best \in Nat
            BY <3>1 DEF Job
        <3>3. QED
            BY <3>1, <3>2
    <2>2. CASE v # w
        BY <1>3, <2>2 DEF LapsInv, BestKnown
    <2>3. QED
        BY <2>1, <2>2
<1>8. QED
    BY <1>4, <1>6, <1>7 DEF LapsInv

LEMMA LapsUploaded ==
    ASSUME LapsInv, NEW w \in Writers, NEW user \in Users \cup {NoAccountName}, NEW lap \in Laps, UploadLap(w, user, lap)
    PROVE  LapsInv'
<1> DEFINE subs == <<Submission("course", user, lap, NoRecord)>>
<1>1. /\ user \in Users /\ lap \in Nat /\ lap # 0 /\ jobs' = [jobs EXCEPT ![w] = Plan(subs)]
      /\ UNCHANGED <<rows, boards, clock, announced, log, completed>>
    BY LapsAssumption DEF UploadLap
<1>2. Submission("course", user, lap, NoRecord) \in Sent
    BY <1>1, RankingIs DEF Submission, Sent, Details
<1>3. subs \in Seq(Sent) /\ Len(subs) = 1 /\ subs[1].board = "course" /\ subs[1].score # 0
    BY <1>1, <1>2 DEF Submission
<1> HIDE DEF subs
<1>4. /\ Plan(subs) \in Queue /\ Len(Plan(subs)) = 1
      /\ Plan(subs) # <<>> => Head(Plan(subs)).step = "new"
      /\ Plan(subs)[1].board = "course" /\ Plan(subs)[1].score # 0
    BY <1>3, PlanIs
<1>5. DOMAIN Plan(subs) = {1}
    BY <1>4, QueueIs
<1>6. QED
    BY <1>1, <1>4, <1>5, LapsReplaced

LEMMA LapsLost == ASSUME LapsInv, NEW w \in Writers, LoseUpload(w) PROVE LapsInv'
<1>1. <<>> \in Queue /\ DOMAIN <<>> = {}
    BY EmptySeq DEF Queue
<1>2. QED
    BY <1>1, LapsReplaced DEF LoseUpload

LEMMA LapsStep == LapsInv /\ [LapsNext]_recordVars => LapsInv'
<1> SUFFICES ASSUME LapsInv, [LapsNext]_recordVars PROVE LapsInv'
    OBVIOUS
<1>1. ASSUME NEW w \in Writers, Submit(w) PROVE LapsInv'
    BY <1>1, LapsStamped, LapsUpserted, LapsListed DEF Submit
<1>2. ASSUME NEW w \in Writers, LoseUpload(w) PROVE LapsInv'
    BY <1>2, LapsLost
<1>3. ASSUME NEW w \in Writers, NEW user \in Users \cup {NoAccountName}, NEW lap \in Laps, UploadLap(w, user, lap)
      PROVE  LapsInv'
    BY <1>3, LapsUploaded
<1>4. CASE UNCHANGED recordVars
    <2>1. RecordsInv'
        BY <1>4 DEF LapsInv, RecordsInv, recordVars, RecordsTypeOK, CompletedIsListed, AnnouncedWasStored, RowsTold, JobsStored,
                    StoredBy
    <2>2. BestScore("course")' = BestScore("course") /\ Holders("course")' = Holders("course")
        BY <1>4 DEF BestScore, Top, Holders, Before, recordVars
    <2>3. LapQueued' /\ LapsTimed' /\ BestKnown'
        BY <1>4, <2>2 DEF LapsInv, LapQueued, LapsTimed, BestKnown, recordVars
    <2>4. QED
        BY <2>1, <2>3 DEF LapsInv
<1>5. QED
    BY <1>1, <1>2, <1>3, <1>4 DEF LapsNext

LEMMA LapsInvariant == LapsSpec => []LapsInv
<1>1. RecordsInit => LapsInv
    BY LapsInvInit
<1>2. LapsInv /\ [LapsNext]_recordVars => LapsInv'
    BY LapsStep
<1>3. QED
    BY <1>1, <1>2, PTL DEF LapsSpec

\* Rows, boards, ranks and announcements agree with the laps that were
\* uploaded, in either backend, while the web server's threads interleave
\* statement by statement and uploads are lost.
THEOREM LapRecordsAreSound == LapsSpec => []RecordsSound
<1>1. LapsInv => RecordsSound
    BY RecordsInvSound DEF LapsInv
<1>2. QED
    BY <1>1, LapsInvariant, PTL

\* A lap that was the best when it was stored is announced, however many
\* uploads overlap.
THEOREM CourseRecordsAreAnnounced == LapsSpec => CourseRecordAnnounced
<1> DEFINE Announced ==
        \A w \in Writers : ListBoard(w) =>
            LET s == Head(jobs[w]) IN s.board = "course" /\ s.beats => <<s.user, s.score>> \in announced'
<1>1. LapsInv => Announced
    <2> SUFFICES ASSUME LapsInv, NEW w \in Writers, ListBoard(w), Head(jobs[w]).board = "course", Head(jobs[w]).beats
                 PROVE  <<Head(jobs[w]).user, Head(jobs[w]).score>> \in announced'
        OBVIOUS
    <2>1. Announces(Head(jobs[w]))
        BY DEF ListBoard, LapsInv, BestKnown, Announces
    <2>2. QED
        BY <2>1 DEF ListBoard
<1>2. LapsSpec => [][Announced]_recordVars
    BY <1>1, LapsInvariant, PTL
<1>3. QED
    BY <1>2 DEF CourseRecordAnnounced

-----------------------------------------------------------------------------
(* The reports of the APP service. *)

ReportStages == {"closed", "opened", "ready", "storing", "boards", "top", "own", "publish"}
Place == [rank : Nat, user : Users]
Draft == [viewer : Users \cup {NoRecord}, top : Seq(Place), own : Place \cup {NoRecord}]
ReportThread == [stage : ReportStages, user : Users \cup {NoRecord}, plan : Seq(Sent), draft : Draft \cup {NoPage},
           page : Seq(Place) \cup {NoPage}, chunks : SUBSET (Seq(Place) \cup {NoPage})]

OneEach(places) == \A i, j \in DOMAIN places : places[i].user = places[j].user => i = j

\* What a thread has, beside the submissions it still has to make.
Fits(t, waiting) ==
    /\ t \in ReportThread
    /\ t.stage \in {"closed", "opened"} <=> t.user = NoRecord
    /\ t.stage # "storing" => waiting = <<>>
    /\ t.chunks \subseteq {t.page}
    /\ t.stage \in {"boards", "top", "own", "publish"} => t.draft \in Draft /\ OneEach(t.draft.top)
    /\ t.stage = "own" => t.draft.viewer \in Users

\* Of a report that is being stored, the submissions that do not wait any more
\* have their row and their board.
InHistory(history, w, s) ==
    \E i \in DOMAIN history[s.board][s.user] :
        history[s.board][s.user][i].by = w /\ history[s.board][s.user][i].score = s.score

SameSubmission(s, t) == s.board = t.board /\ s.user = t.user /\ s.score = t.score

StoredSoFar(plan, q, history, listed, w) ==
    /\ Len(plan) - Len(q) \in Nat
    /\ \A i \in 1 .. Len(q) : SameSubmission(q[i], plan[Len(plan) - Len(q) + i])
    /\ \A i \in 1 .. Len(plan) - Len(q) : plan[i].board \in listed /\ InHistory(history, w, plan[i])

Reported(w) == StoredSoFar(apps[w].plan, jobs[w], log, boards, w)

CapcomInv ==
    /\ RecordsInv
    /\ title \in Titles
    /\ apps \in [Writers -> ReportThread]
    /\ \A w \in Writers : Fits(apps[w], jobs[w])
    /\ \A w \in Writers : apps[w].stage = "storing" => Reported(w)

LEMMA UsersAreNumbers == \A u \in Users : u # NoRecord
BY RecordsAssumption

LEMMA NoThreadIs == Fits(NoThread, <<>>) /\ NoThread.stage = "closed"
<1>1. NoThread \in ReportThread
    <2>1. <<>> \in Seq(Sent)
        BY EmptySeq
    <2>2. QED
        BY <2>1 DEF NoThread, ReportThread, ReportStages
<1>2. QED
    BY <1>1 DEF NoThread, Fits

LEMMA CapcomInvInit == CapcomInit => CapcomInv
<1> SUFFICES ASSUME CapcomInit PROVE CapcomInv
    OBVIOUS
<1>1. RecordsInv
    BY RecordsInvInit DEF CapcomInit
<1>2. \A w \in Writers : apps[w] = NoThread /\ jobs[w] = <<>>
    BY DEF CapcomInit, RecordsInit
<1>3. apps \in [Writers -> ReportThread]
    BY NoThreadIs DEF CapcomInit, Fits
<1>4. QED
    BY <1>1, <1>2, <1>3, NoThreadIs DEF CapcomInv, CapcomInit

\* The own record is added below the others.
LEMMA RowsOfIs ==
    ASSUME NEW top \in Seq(Place), OneEach(top), NEW own \in Place \cup {NoRecord}
    PROVE  LET shown == RowsOf(top, own) IN
           /\ shown \in Seq(Place) /\ OneEach(shown)
           /\ own # NoRecord => \E i \in DOMAIN shown : shown[i].user = own.user
<1> DEFINE shown == RowsOf(top, own)
<1>1. DOMAIN top = 1 .. Len(top) /\ Len(top) \in Nat
    BY LenProperties
<1>2. CASE own # NoRecord /\ \A i \in DOMAIN top : top[i].user # own.user
    <2>1. shown = Append(top, own) /\ own \in Place
        BY <1>2 DEF RowsOf
    <2> HIDE DEF shown
    <2>2. /\ shown \in Seq(Place) /\ shown \in [1 .. Len(top) + 1 -> Place]
          /\ \A i \in 1 .. Len(top) + 1 : shown[i] = IF i = Len(top) + 1 THEN own ELSE top[i]
        BY <2>1, AppendIs
    <2>3. DOMAIN shown = 1 .. Len(top) + 1 /\ Len(top) + 1 \in DOMAIN shown
        BY <1>1, <2>2
    <2>4. OneEach(shown)
        <3> SUFFICES ASSUME NEW i \in 1 .. Len(top) + 1, NEW j \in 1 .. Len(top) + 1, shown[i].user = shown[j].user
                     PROVE  i = j
            BY <2>3 DEF OneEach
        <3>1. i = Len(top) + 1 \/ i \in DOMAIN top
            BY <1>1
        <3>2. j = Len(top) + 1 \/ j \in DOMAIN top
            BY <1>1
        <3>3. \A k \in DOMAIN top : shown[k] = top[k] /\ k # Len(top) + 1
            BY <1>1, <2>2
        <3>4. QED
            BY <1>2, <2>2, <3>1, <3>2, <3>3 DEF OneEach
    <2>5. QED
        BY <2>2, <2>3, <2>4 DEF shown
<1>3. CASE ~(own # NoRecord /\ \A i \in DOMAIN top : top[i].user # own.user)
    BY <1>3 DEF RowsOf
<1>4. QED
    BY <1>2, <1>3

\* The invariant says what a run checks.
LEMMA CapcomInvSound == CapcomInv => RecordsSound /\ ReportsSound
<1> SUFFICES ASSUME CapcomInv PROVE RecordsSound /\ ReportsSound
    OBVIOUS
<1>1. RecordsSound
    BY RecordsInvSound DEF CapcomInv
<1>2. CapcomTypeOK
    BY DEF CapcomInv, CapcomTypeOK, Fits, ReportThread, ReportStages
<1>3. PageWhole
    BY DEF CapcomInv, PageWhole, Fits
<1>4. OwnRowOnce
    <2> SUFFICES ASSUME NEW w \in Writers, apps[w].stage = "publish"
                 PROVE  LET shown == RowsOf(apps[w].draft.top, apps[w].draft.own)
                        IN /\ \A i, j \in DOMAIN shown : shown[i].user = shown[j].user => i = j
                           /\ apps[w].draft.own # NoRecord => \E i \in DOMAIN shown : shown[i].user = apps[w].draft.own.user
        BY DEF OwnRowOnce
    <2> DEFINE d == apps[w].draft
    <2>1. d \in Draft /\ OneEach(d.top)
        BY DEF CapcomInv, Fits
    <2> HIDE DEF d
    <2>2. d.top \in Seq(Place) /\ d.own \in Place \cup {NoRecord}
        BY <2>1 DEF Draft
    <2>3. QED
        BY <2>1, <2>2, RowsOfIs DEF OneEach, d
<1>5. QED
    BY <1>1, <1>2, <1>3, <1>4 DEF ReportsSound

\* A step of a thread that stores nothing.
LEMMA ThreadChanges ==
    ASSUME CapcomInv, NEW w \in Writers, NEW t, Fits(t, jobs[w]), t.stage # "storing",
           apps' = [apps EXCEPT ![w] = t], UNCHANGED <<recordVars, title>>
    PROVE  CapcomInv'
<1>1. RecordsInv'
    <2>1. UNCHANGED <<rows, boards, clock, jobs, announced, log, completed>>
        BY DEF recordVars
    <2>2. QED
        BY <2>1 DEF CapcomInv, RecordsInv, RecordsTypeOK, CompletedIsListed, AnnouncedWasStored, RowsTold, JobsStored, StoredBy
<1>2. apps' \in [Writers -> ReportThread] /\ \A v \in Writers : apps'[v] = IF v = w THEN t ELSE apps[v]
    BY DEF CapcomInv, Fits
<1>3. \A v \in Writers : Fits(apps'[v], jobs'[v])
    BY <1>2 DEF CapcomInv, recordVars
<1>4. ASSUME NEW v \in Writers, apps'[v].stage = "storing" PROVE Reported(v)'
    <2>1. v # w /\ apps'[v] = apps[v] /\ Reported(v)
        BY <1>2, <1>4 DEF CapcomInv
    <2>2. QED
        BY <2>1 DEF Reported, recordVars
<1>5. QED
    BY <1>1, <1>2, <1>3, <1>4, SMTT(30) DEF CapcomInv

\* The pages of each title are of a board.
LEMMA PageBoardIs == PageBoard \in Boards
BY DEF PageBoard, Boards

LEMMA RankedIs ==
    ASSUME RecordsTypeOK
    PROVE  Ranked(PageBoard, PageRows) \in Seq(Place) /\ OneEach(Ranked(PageBoard, PageRows))
<1> DEFINE top == Top(PageBoard, PageRows)
           S == Holders(PageBoard)
<1>1. top \in Seq(S) /\ IsInjective(top) /\ S \subseteq Users
    BY PageBoardIs, TopIs, HoldersAre, CapcomAssumption
<1> HIDE DEF top, S
<1>2. DOMAIN top = 1 .. Len(top) /\ Len(top) \in Nat /\ \A i \in 1 .. Len(top) : top[i] \in Users
    BY <1>1, LenProperties
<1>3. Ranked(PageBoard, PageRows) = [i \in 1 .. Len(top) |-> [rank |-> i, user |-> top[i]]]
    BY <1>2 DEF Ranked, top
<1>4. \A i \in 1 .. Len(top) : [rank |-> i, user |-> top[i]] \in Place
    BY <1>2 DEF Place
<1>5. Ranked(PageBoard, PageRows) \in Seq(Place)
    BY <1>2, <1>3, <1>4
<1>6. QED
    BY <1>1, <1>2, <1>3, <1>5 DEF OneEach, IsInjective

LEMMA EntryIsPlace ==
    ASSUME RecordsTypeOK, NEW u \in Users
    PROVE  Entry(PageBoard, u) \in Place \cup {NoRecord}
<1>1. IsFiniteSet(Holders(PageBoard)) /\ Ahead(PageBoard, u) \subseteq Holders(PageBoard)
    BY PageBoardIs, HoldersAre DEF Ahead
<1>2. Cardinality(Ahead(PageBoard, u)) \in Nat
    BY <1>1, FS_Subset, FS_CardinalityType
<1>3. QED
    BY <1>2 DEF Entry, Place

\* The steps that open a connection, answer, and read a page.
LEMMA CapcomReads ==
    ASSUME CapcomInv, NEW w \in Writers,
           Open(w) \/ (\E u \in Users : Answer(w, u)) \/ Acknowledge(w) \/ AskPage(w) \/ ReadBoards(w) \/ ReadTop(w)
              \/ ReadOwn(w) \/ Publish(w) \/ AskChunk(w)
    PROVE  CapcomInv'
<1> DEFINE a == apps[w]
<1>1. a \in ReportThread /\ Fits(a, jobs[w]) /\ RecordsTypeOK /\ apps \in [Writers -> ReportThread]
    BY DEF CapcomInv, RecordsInv
<1>2. a = apps[w]
    OBVIOUS
<1> HIDE DEF a
<1>3. a \in [stage : ReportStages, user : Users \cup {NoRecord}, plan : Seq(Sent), draft : Draft \cup {NoPage},
             page : Seq(Place) \cup {NoPage}, chunks : SUBSET (Seq(Place) \cup {NoPage})]
    BY <1>1 DEF ReportThread
<1>4. /\ a.stage \in {"closed", "opened"} <=> a.user = NoRecord
      /\ a.stage # "storing" => jobs[w] = <<>>
      /\ a.chunks \subseteq {a.page}
      /\ a.stage \in {"boards", "top", "own", "publish"} => a.draft \in Draft /\ OneEach(a.draft.top)
      /\ a.stage = "own" => a.draft.viewer \in Users
    BY <1>1 DEF Fits
<1>5. CASE Open(w)
    <2> DEFINE t == [a EXCEPT !.stage = "opened"]
    <2>1. a.stage = "closed" /\ apps' = [apps EXCEPT ![w] = t]
        BY <1>1, <1>2, <1>5 DEF Open
    <2>2. t \in ReportThread /\ t.stage = "opened" /\ t.user = a.user /\ t.chunks = a.chunks /\ t.page = a.page
        BY <1>3 DEF ReportThread, ReportStages
    <2> HIDE DEF t
    <2>3. Fits(t, jobs[w])
        BY <1>4, <2>1, <2>2 DEF Fits
    <2>4. QED
        BY <1>5, <2>1, <2>2, <2>3, ThreadChanges DEF Open
<1>6. ASSUME NEW u \in Users, Answer(w, u) PROVE CapcomInv'
    <2> DEFINE t == [a EXCEPT !.stage = "ready", !.user = u]
    <2>1. a.stage = "opened" /\ apps' = [apps EXCEPT ![w] = t]
        BY <1>1, <1>2, <1>6 DEF Answer
    <2>2. t \in ReportThread /\ t.stage = "ready" /\ t.user = u /\ t.chunks = a.chunks /\ t.page = a.page
        BY <1>3 DEF ReportThread, ReportStages
    <2> HIDE DEF t
    <2>3. Fits(t, jobs[w])
        BY <1>4, <2>1, <2>2, UsersAreNumbers DEF Fits
    <2>4. QED
        BY <1>6, <2>1, <2>2, <2>3, ThreadChanges DEF Answer
<1>7. CASE Acknowledge(w)
    <2> DEFINE t == [a EXCEPT !.stage = "ready", !.plan = <<>>]
    <2>1. a.stage = "storing" /\ jobs[w] = <<>> /\ apps' = [apps EXCEPT ![w] = t]
        BY <1>1, <1>2, <1>7 DEF Acknowledge
    <2>0. <<>> \in Seq(Sent)
        BY EmptySeq
    <2>2. t \in ReportThread /\ t.stage = "ready" /\ t.user = a.user /\ t.chunks = a.chunks /\ t.page = a.page
        BY <1>3, <2>0 DEF ReportThread, ReportStages
    <2> HIDE DEF t
    <2>3. Fits(t, jobs[w])
        BY <1>4, <2>1, <2>2 DEF Fits
    <2>4. QED
        BY <1>7, <2>1, <2>2, <2>3, ThreadChanges DEF Acknowledge
<1>8. CASE AskPage(w)
    <2> DEFINE d == [viewer |-> Viewer(w), top |-> <<>>, own |-> NoRecord]
               next == IF title = "outbreak" THEN "top" ELSE "boards"
               t == [a EXCEPT !.stage = next, !.draft = d]
    <2>1. a.stage = "ready" /\ apps' = [apps EXCEPT ![w] = t]
        BY <1>1, <1>2, <1>8 DEF AskPage
    <2>2. Viewer(w) \in Users \cup {NoRecord}
        BY <1>2, <1>3 DEF Viewer
    <2>3. d \in Draft /\ OneEach(d.top)
        <3>1. <<>> \in Seq(Place) /\ OneEach(<<>>)
            BY EmptySeq DEF OneEach
        <3>2. QED
            BY <2>2, <3>1 DEF Draft
    <2>4. next \in {"top", "boards"}
        OBVIOUS
    <2> HIDE DEF d, next
    <2>5. t \in ReportThread /\ t.stage = next /\ t.user = a.user /\ t.chunks = a.chunks /\ t.page = a.page /\ t.draft = d
        BY <1>3, <2>3, <2>4 DEF ReportThread, ReportStages
    <2> HIDE DEF t
    <2>6. Fits(t, jobs[w])
        BY <1>4, <2>1, <2>3, <2>4, <2>5 DEF Fits
    <2>7. QED
        BY <1>8, <2>1, <2>4, <2>5, <2>6, ThreadChanges DEF AskPage
<1>9. CASE ReadBoards(w)
    <2> DEFINE next == IF PageBoard \in boards THEN "top" ELSE "publish"
               t == [a EXCEPT !.stage = next]
    <2>1. a.stage = "boards" /\ apps' = [apps EXCEPT ![w] = t]
        BY <1>1, <1>2, <1>9 DEF ReadBoards
    <2>2. next \in {"top", "publish"}
        OBVIOUS
    <2> HIDE DEF next
    <2>3. t \in ReportThread /\ t.stage = next /\ t.user = a.user /\ t.chunks = a.chunks /\ t.page = a.page /\ t.draft = a.draft
        BY <1>3, <2>2 DEF ReportThread, ReportStages
    <2> HIDE DEF t
    <2>4. Fits(t, jobs[w])
        BY <1>4, <2>1, <2>2, <2>3 DEF Fits
    <2>5. QED
        BY <1>9, <2>1, <2>2, <2>3, <2>4, ThreadChanges DEF ReadBoards
<1>10. CASE ReadTop(w)
    <2> DEFINE d == [a.draft EXCEPT !.top = Ranked(PageBoard, PageRows)]
               next == IF a.draft.viewer = NoRecord THEN "publish" ELSE "own"
               t == [a EXCEPT !.draft = d, !.stage = next]
    <2>1. a.stage = "top" /\ apps' = [apps EXCEPT ![w] = t]
        BY <1>1, <1>2, <1>10 DEF ReadTop
    <2>2. a.draft \in [viewer : Users \cup {NoRecord}, top : Seq(Place), own : Place \cup {NoRecord}]
        BY <1>4, <2>1 DEF Draft
    <2>3. Ranked(PageBoard, PageRows) \in Seq(Place) /\ OneEach(Ranked(PageBoard, PageRows))
        BY <1>1, RankedIs
    <2>4. d \in Draft /\ d.top = Ranked(PageBoard, PageRows) /\ d.viewer = a.draft.viewer
        BY <2>2, <2>3 DEF Draft
    <2>5. next \in {"own", "publish"} /\ (next = "own" => d.viewer \in Users)
        BY <2>2, <2>4
    <2> HIDE DEF d, next
    <2>6. t \in ReportThread /\ t.stage = next /\ t.user = a.user /\ t.chunks = a.chunks /\ t.page = a.page /\ t.draft = d
        BY <1>3, <2>4, <2>5 DEF ReportThread, ReportStages
    <2> HIDE DEF t
    <2>7. Fits(t, jobs[w])
        BY <1>4, <2>1, <2>3, <2>4, <2>5, <2>6 DEF Fits
    <2>8. QED
        BY <1>10, <2>1, <2>5, <2>6, <2>7, ThreadChanges DEF ReadTop
<1>11. CASE ReadOwn(w)
    <2> DEFINE own == Entry(PageBoard, a.draft.viewer)
               d == [a.draft EXCEPT !.own = own]
               t == [a EXCEPT !.draft = d, !.stage = "publish"]
    <2>1. a.stage = "own" /\ apps' = [apps EXCEPT ![w] = t]
        BY <1>1, <1>2, <1>11 DEF ReadOwn
    <2>2. a.draft \in [viewer : Users \cup {NoRecord}, top : Seq(Place), own : Place \cup {NoRecord}]
          /\ OneEach(a.draft.top) /\ a.draft.viewer \in Users
        BY <1>4, <2>1 DEF Draft
    <2>3. own \in Place \cup {NoRecord}
        BY <1>1, <2>2, EntryIsPlace
    <2> HIDE DEF own
    <2>4. d \in Draft /\ d.top = a.draft.top
        BY <2>2, <2>3 DEF Draft
    <2> HIDE DEF d
    <2>5. t \in ReportThread /\ t.stage = "publish" /\ t.user = a.user /\ t.chunks = a.chunks /\ t.page = a.page /\ t.draft = d
        BY <1>3, <2>4 DEF ReportThread, ReportStages
    <2> HIDE DEF t
    <2>6. Fits(t, jobs[w])
        BY <1>4, <2>1, <2>2, <2>4, <2>5 DEF Fits
    <2>7. QED
        BY <1>11, <2>1, <2>5, <2>6, ThreadChanges DEF ReadOwn
<1>12. CASE Publish(w)
    <2> DEFINE page == RowsOf(a.draft.top, a.draft.own)
               t == [a EXCEPT !.stage = "ready", !.draft = NoPage, !.chunks = {}, !.page = page]
    <2>1. a.stage = "publish" /\ apps' = [apps EXCEPT ![w] = t]
        BY <1>1, <1>2, <1>12 DEF Publish
    <2>2. a.draft.top \in Seq(Place) /\ a.draft.own \in Place \cup {NoRecord} /\ OneEach(a.draft.top)
        BY <1>4, <2>1 DEF Draft
    <2>3. page \in Seq(Place)
        BY <2>2, RowsOfIs
    <2> HIDE DEF page
    <2>4. t \in ReportThread /\ t.stage = "ready" /\ t.user = a.user /\ t.chunks = {}
        BY <1>3, <2>3 DEF ReportThread, ReportStages
    <2> HIDE DEF t
    <2>5. Fits(t, jobs[w])
        BY <1>4, <2>1, <2>4 DEF Fits
    <2>6. QED
        BY <1>12, <2>1, <2>4, <2>5, ThreadChanges DEF Publish
<1>13. CASE AskChunk(w)
    <2> DEFINE t == [a EXCEPT !.chunks = @ \cup {a.page}]
    <2>1. a.stage = "ready" /\ apps' = [apps EXCEPT ![w] = t]
        BY <1>1, <1>2, <1>13 DEF AskChunk, ChunkOf
    <2>2. t \in ReportThread /\ t.stage = "ready" /\ t.user = a.user /\ t.chunks = a.chunks \cup {a.page} /\ t.page = a.page
        BY <1>3, <2>1 DEF ReportThread, ReportStages
    <2> HIDE DEF t
    <2>3. Fits(t, jobs[w])
        BY <1>4, <2>1, <2>2 DEF Fits
    <2>4. QED
        BY <1>13, <2>1, <2>2, <2>3, ThreadChanges DEF AskChunk
<1>14. QED
    BY <1>5, <1>6, <1>7, <1>8, <1>9, <1>10, <1>11, <1>12, <1>13

-----------------------------------------------------------------------------
\* What is stored and listed stays so.
LEMMA StoredSoFarStays ==
    ASSUME NEW plan \in Seq(Sent), NEW q \in Seq(Job), NEW w, NEW history, NEW later, NEW listed, NEW listedLater,
           StoredSoFar(plan, q, history, listed, w), listed \subseteq listedLater,
           \A b \in Boards, u \in Users :
              /\ DOMAIN history[b][u] \subseteq DOMAIN later[b][u]
              /\ \A i \in DOMAIN history[b][u] : later[b][u][i] = history[b][u][i]
    PROVE  StoredSoFar(plan, q, later, listedLater, w)
<1> DEFINE k == Len(plan) - Len(q)
<1>1. ASSUME NEW i \in 1 .. k PROVE plan[i].board \in listedLater /\ InHistory(later, w, plan[i])
    <2>1. plan[i].board \in listed /\ InHistory(history, w, plan[i])
        BY DEF StoredSoFar
    <2>2. i \in 1 .. Len(plan)
        BY LenProperties
    <2>3. plan[i] \in Sent
        BY <2>2, LenProperties
    <2>5. plan[i].board \in Boards /\ plan[i].user \in Users
        BY <2>3 DEF Sent
    <2>4. QED
        BY <2>1, <2>5 DEF InHistory
<1>2. QED
    BY <1>1 DEF StoredSoFar

\* A step of one thread's queue: every other thread's report is as far as it was.
LEMMA OthersReported ==
    ASSUME CapcomInv, NEW w \in Writers, apps' = apps, boards \subseteq boards',
           \A v \in Writers \ {w} : jobs'[v] = jobs[v],
           \A b \in Boards, u \in Users :
              /\ DOMAIN log[b][u] \subseteq DOMAIN log'[b][u]
              /\ \A i \in DOMAIN log[b][u] : log'[b][u][i] = log[b][u][i]
    PROVE  \A v \in Writers \ {w} : apps'[v].stage = "storing" => Reported(v)'
<1> SUFFICES ASSUME NEW v \in Writers \ {w}, apps'[v].stage = "storing" PROVE Reported(v)'
    OBVIOUS
<1> DEFINE plan == apps[v].plan
           q == jobs[v]
<1>1. StoredSoFar(plan, q, log, boards, v)
    BY DEF CapcomInv, Reported
<1>2. plan \in Seq(Sent)
    BY DEF CapcomInv, ReportThread
<1>3. q \in Seq(Job)
    BY DEF CapcomInv, RecordsInv, RecordsTypeOK
<1> HIDE DEF plan, q
<1>4. StoredSoFar(plan, q, log', boards', v)
    BY <1>1, <1>2, <1>3, StoredSoFarStays
<1>5. QED
    BY <1>4 DEF Reported, plan, q

LEMMA CapcomStores ==
    ASSUME CapcomInv, NEW w \in Writers, Store(w)
    PROVE  CapcomInv'
<1> DEFINE plan == apps[w].plan
           q == jobs[w]
           s == Head(jobs[w])
<1>1. apps' = apps /\ title' = title /\ apps[w].stage = "storing" /\ Submit(w)
    BY DEF Store
<1>2. RecordsInv /\ RecordsInv'
    BY <1>1, SubmitKeeps, SMTT(30) DEF CapcomInv
<1>3. jobs \in [Writers -> Queue] /\ jobs' \in [Writers -> Queue] /\ q \in Queue /\ q # <<>>
    <2>1. jobs \in [Writers -> Queue] /\ jobs' \in [Writers -> Queue]
        BY <1>2, JobsAre DEF RecordsInv, RecordsTypeOK, Queue
    <2>2. QED
        BY <1>1, <2>1 DEF Submit, Stamp, Upsert, ListBoard
<1>4. StoredSoFar(plan, q, log, boards, w) /\ plan \in Seq(Sent)
    BY <1>1 DEF CapcomInv, Reported, ReportThread
<1>5. q \in Seq(Job) /\ Len(q) \in Nat /\ DOMAIN q = 1 .. Len(q) /\ s \in Job /\ s = q[1] /\ 1 \in 1 .. Len(q)
    BY <1>3, QueueIs
<1>6. ASSUME NEW h \in Job, h.step # "new" => h.at # 0, SameSubmission(h, s),
             jobs' = [jobs EXCEPT ![w] = [jobs[w] EXCEPT ![1] = h]], boards \subseteq boards',
             \A b \in Boards, u \in Users :
              /\ DOMAIN log[b][u] \subseteq DOMAIN log'[b][u]
              /\ \A i \in DOMAIN log[b][u] : log'[b][u][i] = log[b][u][i]
      PROVE  Reported(w)' /\ \A v \in Writers \ {w} : jobs'[v] = jobs[v]
    <2> DEFINE r == [q EXCEPT ![1] = h]
    <2>1. jobs'[w] = r /\ \A v \in Writers \ {w} : jobs'[v] = jobs[v]
        BY <1>3, <1>6
    <2> HIDE DEF q, plan, s
    <2>2. r \in Queue
        BY <1>3, <1>6, HeadChanges
    <2>3. r \in Seq(Job) /\ Len(r) = Len(q) /\ \A i \in 1 .. Len(q) : r[i] = IF i = 1 THEN h ELSE q[i]
        BY <1>5, <2>2, QueueIs, ExceptSeq
    <2> HIDE DEF r
    <2>4. StoredSoFar(plan, r, log, boards, w)
        BY <1>4, <1>5, <1>6, <2>3 DEF StoredSoFar, SameSubmission
    <2>5. StoredSoFar(plan, r, log', boards', w)
        BY <1>4, <1>6, <2>3, <2>4, StoredSoFarStays
    <2>6. QED
        BY <1>1, <2>1, <2>5 DEF Reported, plan
<1>7. CASE Stamp(w)
    <2>1. PICK now \in 1 .. MaxTime :
          LET h == [Head(jobs[w]) EXCEPT !.step = "row", !.at = now, !.best = BestScore(Head(jobs[w]).board)]
          IN /\ clock' = now /\ h \in Job /\ h.step = "row" /\ h.at = now /\ h.board = Head(jobs[w]).board
             /\ h.score = Head(jobs[w]).score /\ h.user = Head(jobs[w]).user /\ h.best = BestScore(Head(jobs[w]).board)
             /\ jobs' = [jobs EXCEPT ![w] = [jobs[w] EXCEPT ![1] = h]]
             /\ jobs[w] \in Queue /\ jobs[w] # <<>>
        BY <1>2, <1>7, StampIs DEF RecordsInv
    <2> DEFINE h == [Head(jobs[w]) EXCEPT !.step = "row", !.at = now, !.best = BestScore(Head(jobs[w]).board)]
    <2>2. h \in Job /\ h.at # 0 /\ SameSubmission(h, s) /\ jobs' = [jobs EXCEPT ![w] = [jobs[w] EXCEPT ![1] = h]]
        BY <2>1 DEF SameSubmission
    <2> HIDE DEF h, s, q, plan
    <2>3. boards' = boards /\ log' = log
        BY <1>7 DEF Stamp
    <2>4. Reported(w)' /\ \A v \in Writers \ {w} : jobs'[v] = jobs[v]
        BY <1>6, <2>2, <2>3
    <2>5. \A v \in Writers \ {w} : apps'[v].stage = "storing" => Reported(v)'
        BY <1>1, <2>3, <2>4, OthersReported
    <2>6. QED
        BY <1>1, <1>2, <2>4, <2>5 DEF CapcomInv, Fits
<1>8. CASE Upsert(w)
    <2>1. /\ Stored(w) \in Job /\ Stored(w).at # 0 /\ Stored(w).board = s.board
          /\ Stored(w).user = s.user /\ Stored(w).score = s.score
          /\ jobs' = [jobs EXCEPT ![w] = [jobs[w] EXCEPT ![1] = Stored(w)]]
        BY <1>2, <1>8, UpsertIs
    <2>2. SameSubmission(Stored(w), s)
        BY <2>1 DEF SameSubmission
    <2> HIDE DEF s, q, plan
    <2>3. boards' = boards
        BY <1>8 DEF Upsert
    <2>4. \A b \in Boards, u \in Users :
              /\ DOMAIN log[b][u] \subseteq DOMAIN log'[b][u]
              /\ \A i \in DOMAIN log[b][u] : log'[b][u][i] = log[b][u][i]
        BY <1>2, <1>8, StoredStays
    <2>5. Reported(w)' /\ \A v \in Writers \ {w} : jobs'[v] = jobs[v]
        BY <1>6, <2>1, <2>2, <2>3, <2>4
    <2>6. \A v \in Writers \ {w} : apps'[v].stage = "storing" => Reported(v)'
        BY <1>1, <2>3, <2>4, <2>5, OthersReported
    <2>7. QED
        BY <1>1, <1>2, <2>5, <2>6 DEF CapcomInv, Fits
<1>9. CASE ListBoard(w)
    <2> DEFINE r == Tail(q)
               k == Len(plan) - Len(q)
    <2>1. /\ s.step = "board" /\ boards' = boards \cup {s.board} /\ log' = log /\ jobs' = [jobs EXCEPT ![w] = r]
        BY <1>9 DEF ListBoard
    <2>2. InHistory(log, w, s)
        BY <1>2, <1>3, <2>1 DEF RecordsInv, JobsStored, StoredBy, InHistory
    <2>3. r \in Seq(Job) /\ Len(r) = Len(q) - 1 /\ \A i \in 1 .. Len(r) : r[i] = q[i + 1]
        BY <1>3, <1>5, HeadTailProperties
    <2>4. jobs'[w] = r /\ \A v \in Writers \ {w} : jobs'[v] = jobs[v]
        BY <1>3, <2>1
    <2>5. Len(plan) \in Nat
        BY <1>4, LenProperties
    <2> HIDE DEF r, q, s, plan
    <2>6. k \in Nat /\ Len(plan) - Len(r) = k + 1 /\ SameSubmission(s, plan[k + 1])
        BY <1>4, <1>5, <2>3, <2>5 DEF StoredSoFar
    <2>7. InHistory(log, w, plan[k + 1]) /\ plan[k + 1].board \in boards'
        BY <2>1, <2>2, <2>6 DEF InHistory, SameSubmission
    <2>8. \A i \in 1 .. Len(r) : SameSubmission(r[i], plan[k + 1 + i])
        <3> SUFFICES ASSUME NEW i \in 1 .. Len(r) PROVE SameSubmission(r[i], plan[k + 1 + i])
            OBVIOUS
        <3>1. i + 1 \in 1 .. Len(q) /\ k + 1 + i = k + (i + 1)
            <4> HIDE DEF k
            <4>1. i \in Nat /\ k + 1 + i = k + (i + 1)
                BY <2>6
            <4>2. i + 1 \in 1 .. Len(q)
                BY <1>5, <2>3
            <4>3. QED
                BY <4>1, <4>2
        <3>2. SameSubmission(q[i + 1], plan[k + (i + 1)])
            BY <1>4, <3>1 DEF StoredSoFar
        <3>3. QED
            BY <2>3, <3>1, <3>2
    <2>9. \A i \in 1 .. k + 1 : plan[i].board \in boards' /\ InHistory(log, w, plan[i])
        <3> SUFFICES ASSUME NEW i \in 1 .. k + 1 PROVE plan[i].board \in boards' /\ InHistory(log, w, plan[i])
            OBVIOUS
        <3>1. i = k + 1 \/ i \in 1 .. k
            BY <2>6
        <3>2. QED
            BY <1>4, <2>1, <2>7, <3>1 DEF StoredSoFar
    <2>10. StoredSoFar(plan, r, log', boards', w)
        <3> DEFINE m == Len(plan) - Len(r)
        <3>1. m = k + 1 /\ m \in Nat
            BY <2>6
        <3> HIDE DEF k, m
        <3>2. \A i \in 1 .. Len(r) : SameSubmission(r[i], plan[m + i])
            BY <2>8, <3>1
        <3>3. \A i \in 1 .. m : plan[i].board \in boards' /\ InHistory(log', w, plan[i])
            BY <2>1, <2>9, <3>1
        <3>4. QED
            BY <3>1, <3>2, <3>3 DEF StoredSoFar, m
    <2>11. Reported(w)'
        BY <1>1, <2>4, <2>10 DEF Reported, plan
    <2>12. \A v \in Writers \ {w} : apps'[v].stage = "storing" => Reported(v)'
        BY <1>1, <2>1, <2>4, OthersReported
    <2>13. QED
        BY <1>1, <1>2, <2>4, <2>11, <2>12 DEF CapcomInv, Fits
<1>10. QED
    BY <1>1, <1>7, <1>8, <1>9 DEF Submit

-----------------------------------------------------------------------------
\* Every report is stored as submissions of the player's.
LEMMA SentIs ==
    ASSUME NEW u \in Users, NEW b \in Boards, NEW x \in Nat, NEW d \in Details
    PROVE  Submission(b, u, x, d) \in Sent /\ <<Submission(b, u, x, d)>> \in Seq(Sent) /\ <<>> \in Seq(Sent)
<1>1. Submission(b, u, x, d) \in Sent
    BY DEF Submission, Sent
<1>2. QED
    BY <1>1, EmptySeq

LEMMA ReportsAre ==
    ASSUME title \in Titles, NEW u \in Users, NEW subs \in Reports(u)
    PROVE  subs \in Seq(Sent)
<1>1. /\ {"kills", "clear", "tles", "hrp", "points"} \subseteq Boards /\ NoRecord \in Details /\ Nat \subseteq Details
    BY DEF Boards, Details
<1>2. ASSUME NEW counts \in {<<1, 0>>, <<1, 1>>, <<0, 1>>} PROVE HuntPlan(u, counts) \in Seq(Sent)
    <2> DEFINE keep == {i \in {1, 2} : counts[i] > 0 /\ Monsters[i] \notin Untracked}
               hunted == Kept(<<1, 2>>, keep)
    <2>1. <<1, 2>> \in Seq({1, 2})
        OBVIOUS
    <2>2. hunted \in Seq({1, 2})
        BY <2>1, KeptIs
    <2> HIDE DEF hunted
    <2>3. DOMAIN hunted = 1 .. Len(hunted) /\ Len(hunted) \in Nat /\ \A j \in 1 .. Len(hunted) : hunted[j] \in {1, 2}
        BY <2>2, LenProperties
    <2>4. \A i \in {1, 2} : counts[i] \in Nat
        OBVIOUS
    <2>5. HuntPlan(u, counts) = [j \in 1 .. Len(hunted) |-> Submission("kills", u, counts[hunted[j]], NoRecord)]
        BY <2>3 DEF HuntPlan, hunted
    <2>6. \A j \in 1 .. Len(hunted) : Submission("kills", u, counts[hunted[j]], NoRecord) \in Sent
        BY <1>1, <2>3, <2>4, SentIs
    <2>7. HuntPlan(u, counts) \in [1 .. Len(hunted) -> Sent]
        BY <2>5, <2>6
    <2>8. QED
        BY <2>3, <2>7
<1>3. \A t \in {1, 2} : ClearPlan(u, t, 9 - t) \in Seq(Sent)
    <2> SUFFICES ASSUME NEW t \in {1, 2} PROVE ClearPlan(u, t, 9 - t) \in Seq(Sent)
        OBVIOUS
    <2>1. t \in Nat /\ 9 - t \in Details
        BY <1>1
    <2>2. QED
        BY <1>1, <2>1, SentIs DEF ClearPlan
<1>4. \A p \in Nat : SummaryPlan(u, p) \in Seq(Sent)
    BY <1>1, SentIs DEF SummaryPlan
<1>5. \A t \in {NoRecord, 1, 2} : TestBuildPlan(u, t) \in Seq(Sent)
    <2> SUFFICES ASSUME NEW t \in {NoRecord, 1, 2} PROVE TestBuildPlan(u, t) \in Seq(Sent)
        OBVIOUS
    <2>1. CASE t = NoRecord
        BY <2>1, EmptySeq DEF TestBuildPlan
    <2>2. CASE t # NoRecord
        <3>1. t \in Nat
            BY <2>2
        <3>2. QED
            BY <1>1, <2>2, <3>1, SentIs DEF TestBuildPlan
    <2>3. QED
        BY <2>1, <2>2
<1>6. \A p \in {0, 1}, c \in BOOLEAN : ScenarioPlan(u, p, c, 1) \in Seq(Sent)
    <2> SUFFICES ASSUME NEW p \in {0, 1}, NEW c \in BOOLEAN PROVE ScenarioPlan(u, p, c, 1) \in Seq(Sent)
        OBVIOUS
    <2> DEFINE first == <<Submission("points", u, p, NoRecord)>>
               second == IF c THEN <<Submission("clear", u, 1, NoRecord)>> ELSE <<>>
    <2>1. first \in Seq(Sent) /\ second \in Seq(Sent)
        BY <1>1, SentIs
    <2>2. ScenarioPlan(u, p, c, 1) = first \o second
        BY DEF ScenarioPlan
    <2> HIDE DEF first, second
    <2>3. QED
        BY <2>1, <2>2, ConcatProperties
<1>7. CASE title = "hunter"
    <2>1. \/ \E counts \in {<<1, 0>>, <<1, 1>>, <<0, 1>>} : subs = HuntPlan(u, counts)
          \/ \E t \in {1, 2} : subs = ClearPlan(u, t, 9 - t)
          \/ \E p \in {1, 2} : subs = SummaryPlan(u, p)
        BY <1>7 DEF Reports
    <2>2. {1, 2} \subseteq Nat
        OBVIOUS
    <2>3. QED
        BY <1>2, <1>3, <1>4, <2>1, <2>2
<1>8. CASE title = "test"
    BY <1>5, <1>8 DEF Reports
<1>9. CASE title = "outbreak"
    BY <1>6, <1>9 DEF Reports
<1>10. QED
    BY <1>7, <1>8, <1>9 DEF Titles

\* A step that replaces one thread's queue: the others' reports are as far as they were.
LEMMA CapcomQueues ==
    ASSUME CapcomInv, NEW w \in Writers, NEW q \in Queue, q # <<>> => Head(q).step = "new",
           NEW t, Fits(t, q), t.stage = "storing" => StoredSoFar(t.plan, q, log, boards, w),
           apps' = [apps EXCEPT ![w] = t], jobs' = [jobs EXCEPT ![w] = q], title' = title,
           UNCHANGED <<rows, boards, clock, announced, log, completed>>
    PROVE  CapcomInv'
<1>1. RecordsInv'
    BY QueueReplaced DEF CapcomInv
<1>2. jobs \in [Writers -> Queue]
    BY JobsAre DEF CapcomInv, RecordsInv
<1>3. /\ apps' \in [Writers -> ReportThread]
      /\ \A v \in Writers : apps'[v] = (IF v = w THEN t ELSE apps[v]) /\ jobs'[v] = IF v = w THEN q ELSE jobs[v]
    BY <1>2 DEF CapcomInv, Fits
<1>4. \A v \in Writers : Fits(apps'[v], jobs'[v])
    BY <1>3 DEF CapcomInv
<1>5. \A v \in Writers : apps'[v].stage = "storing" => Reported(v)'
    BY <1>3 DEF CapcomInv, Reported
<1>6. QED
    BY <1>1, <1>3, <1>4, <1>5 DEF CapcomInv

LEMMA CapcomReports ==
    ASSUME CapcomInv, NEW w \in Writers, NEW subs \in Reports(apps[w].user), Report(w, subs)
    PROVE  CapcomInv'
<1> DEFINE a == apps[w]
           q == Plan(subs)
           t == [a EXCEPT !.stage = "storing", !.plan = subs]
<1>1. /\ a.stage = "ready" /\ Fits(a, jobs[w]) /\ a.user \in Users
      /\ apps' = [apps EXCEPT ![w] = t] /\ jobs' = [jobs EXCEPT ![w] = q] /\ title' = title
      /\ UNCHANGED <<rows, boards, clock, announced, log, completed>>
    BY DEF Report, CapcomInv, Fits, ReportThread
<1>2. subs \in Seq(Sent)
    BY <1>1, ReportsAre DEF CapcomInv
<1>3. /\ q \in Queue /\ Len(q) = Len(subs) /\ Len(subs) \in Nat /\ (q # <<>> => Head(q).step = "new")
      /\ \A i \in 1 .. Len(subs) : q[i].board = subs[i].board /\ q[i].user = subs[i].user /\ q[i].score = subs[i].score
    BY <1>2, PlanIs
<1> HIDE DEF a, q
<1>4. a \in [stage : ReportStages, user : Users \cup {NoRecord}, plan : Seq(Sent), draft : Draft \cup {NoPage},
             page : Seq(Place) \cup {NoPage}, chunks : SUBSET (Seq(Place) \cup {NoPage})]
      /\ a.chunks \subseteq {a.page} /\ a.user # NoRecord
    BY <1>1, UsersAreNumbers DEF Fits, ReportThread
<1>5. t \in ReportThread /\ t.stage = "storing" /\ t.user = a.user /\ t.chunks = a.chunks /\ t.page = a.page /\ t.plan = subs
    BY <1>2, <1>4 DEF ReportThread, ReportStages
<1> HIDE DEF t
<1>6. Fits(t, q)
    BY <1>4, <1>5 DEF Fits
<1>7. StoredSoFar(t.plan, q, log, boards, w)
    <2> DEFINE m == Len(subs) - Len(q)
    <2>1. m = 0
        BY <1>3
    <2> HIDE DEF m
    <2>2. \A i \in 1 .. Len(q) : SameSubmission(q[i], subs[m + i])
        BY <1>3, <2>1 DEF SameSubmission
    <2>3. QED
        BY <1>5, <2>1, <2>2 DEF StoredSoFar, m
<1>8. QED
    BY <1>1, <1>3, <1>6, <1>7, CapcomQueues

LEMMA CapcomEnds ==
    ASSUME CapcomInv, NEW w \in Writers, End(w)
    PROVE  CapcomInv'
<1>1. <<>> \in Queue
    BY EmptySeq DEF Queue
<1>2. Fits(NoThread, <<>>) /\ NoThread.stage # "storing"
    BY NoThreadIs
<1>3. QED
    BY <1>1, <1>2, CapcomQueues DEF End

LEMMA CapcomStep == CapcomInv /\ [CapcomNext]_appVars => CapcomInv'
<1> SUFFICES ASSUME CapcomInv, [CapcomNext]_appVars PROVE CapcomInv'
    OBVIOUS
<1>1. CASE UNCHANGED <<recordVars, title, apps>>
    <2>1. UNCHANGED <<rows, boards, clock, jobs, announced, log, completed, title, apps>>
        BY <1>1, SMTT(30) DEF recordVars
    <2>2. RecordsInv'
        BY <2>1 DEF CapcomInv, RecordsInv, RecordsTypeOK, CompletedIsListed, AnnouncedWasStored, RowsTold, JobsStored, StoredBy
    <2>3. \A w \in Writers : apps'[w].stage = "storing" => Reported(w)'
        BY <2>1 DEF CapcomInv, Reported
    <2>4. QED
        BY <2>1, <2>2, <2>3 DEF CapcomInv
<1>2. ASSUME NEW w \in Writers,
             Open(w) \/ (\E u \in Users : Answer(w, u)) \/ Acknowledge(w) \/ AskPage(w) \/ ReadBoards(w) \/ ReadTop(w)
                \/ ReadOwn(w) \/ Publish(w) \/ AskChunk(w)
      PROVE  CapcomInv'
    BY <1>2, CapcomReads
<1>3. ASSUME NEW w \in Writers, End(w) PROVE CapcomInv'
    BY <1>3, CapcomEnds
<1>4. ASSUME NEW w \in Writers, Store(w) PROVE CapcomInv'
    BY <1>4, CapcomStores
<1>5. ASSUME NEW w \in Writers, NEW subs \in Reports(apps[w].user), Report(w, subs) PROVE CapcomInv'
    BY <1>5, CapcomReports
<1>6. CASE Lobby
    BY <1>1, <1>6 DEF Lobby
<1>7. CASE UNCHANGED appVars
    BY <1>1, <1>7 DEF appVars
<1>8. QED
    BY <1>2, <1>3, <1>4, <1>5, <1>6, <1>7 DEF CapcomNext

LEMMA CapcomInvariant == CapcomSpec => []CapcomInv
<1>1. CapcomInit => CapcomInv
    BY CapcomInvInit
<1>2. CapcomInv /\ [CapcomNext]_appVars => CapcomInv'
    BY CapcomStep
<1>3. QED
    BY <1>1, <1>2, PTL DEF CapcomSpec

\* Rows, boards and ranks agree with what the Capcom services' connections
\* reported, in either backend, while their threads interleave statement by
\* statement, fail and end.
THEOREM ReportRecordsAreSound == CapcomSpec => []RecordsSound
BY CapcomInvSound, CapcomInvariant, PTL

\* A page of rankings is read whole and lists its viewer once, though records
\* change while it is read.
THEOREM ReportsAreSound == CapcomSpec => []ReportsSound
BY CapcomInvSound, CapcomInvariant, PTL

\* A report that is acknowledged is stored: every board it goes on has its row
\* and is listed, though other threads come between the statements and fail.
THEOREM AckedReportsAreStored == CapcomSpec => AckedIsStored
<1> DEFINE AllStored ==
        \A w \in Writers : Acknowledge(w) =>
            \A i \in DOMAIN apps[w].plan :
                LET s == apps[w].plan[i]
                    kept == log[s.board][s.user]
                IN s.board \in boards /\ \E j \in DOMAIN kept : kept[j].by = w /\ kept[j].score = s.score
<1>1. CapcomInv => AllStored
    <2> SUFFICES ASSUME CapcomInv, NEW w \in Writers, Acknowledge(w), NEW i \in DOMAIN apps[w].plan
                 PROVE  LET s == apps[w].plan[i]
                            kept == log[s.board][s.user]
                        IN s.board \in boards /\ \E j \in DOMAIN kept : kept[j].by = w /\ kept[j].score = s.score
        OBVIOUS
    <2> DEFINE plan == apps[w].plan
    <2>1. plan \in Seq(Sent) /\ StoredSoFar(plan, <<>>, log, boards, w)
        BY DEF CapcomInv, ReportThread, Reported, Acknowledge
    <2> HIDE DEF plan
    <2>2. DOMAIN plan = 1 .. Len(plan) /\ Len(plan) \in Nat /\ Len(<<>>) = 0
        BY <2>1, LenProperties
    <2>3. Len(plan) - Len(<<>>) = Len(plan)
        BY <2>2
    <2>4. \A k \in 1 .. Len(plan) : plan[k].board \in boards /\ InHistory(log, w, plan[k])
        BY <2>1, <2>3 DEF StoredSoFar
    <2>5. QED
        BY <2>2, <2>4, ZenonT(40) DEF InHistory, plan
<1>2. CapcomSpec => [][AllStored]_appVars
    BY <1>1, CapcomInvariant, PTL
<1>3. QED
    BY <1>2 DEF AckedIsStored

-----------------------------------------------------------------------------
(* The menus of the APP service. *)

\* Lands with no number in common, and all their numbers.
Apart(lands) == \A i, j \in DOMAIN lands : i # j => lands[i] \cap lands[j] = {}
NumbersOf(lands) == UNION {lands[l] : l \in DOMAIN lands}

\* What a World's Lands may have used of the numbers from `start` on.
Numbering(spec, start) ==
    {r \in [next : Nat, lands : Seq(SUBSET Nat)] :
        IF Counted(spec) THEN r.next >= start /\ Apart(r.lands) /\ NumbersOf(r.lands) = start .. r.next - 1
        ELSE r.next = start}

LEMMA ReadLandIs ==
    ASSUME NEW spec, NEW start \in Nat, NEW count \in Nat \ {0}, NEW r \in Numbering(spec, start)
    PROVE  ReadLand(spec, r, count) \in Numbering(spec, start)
<1> DEFINE new == r.next .. r.next + count - 1
           lands == Append(r.lands, new)
           n == Len(r.lands)
           next == IF Counted(spec) THEN r.next + count ELSE r.next
           Sets == SUBSET Nat
<1>1. r.next \in Nat /\ r.lands \in Seq(Sets) /\ new \in Sets
    BY DEF Numbering
<1>2. ReadLand(spec, r, count) = [next |-> next, lands |-> lands]
    BY DEF ReadLand
<1> HIDE DEF Sets
<1>3. /\ lands \in Seq(Sets) /\ n \in Nat /\ lands \in [1 .. n + 1 -> Sets]
      /\ \A i \in 1 .. n + 1 : lands[i] = IF i = n + 1 THEN new ELSE r.lands[i]
    BY <1>1, AppendIs
<1>4. DOMAIN lands = 1 .. n + 1 /\ DOMAIN r.lands = 1 .. n
    BY <1>1, <1>3, LenProperties
<1> HIDE DEF lands, n
<1>5. ASSUME Counted(spec) PROVE Apart(lands) /\ NumbersOf(lands) = start .. next - 1 /\ next >= start
    <2>1. r.next >= start /\ Apart(r.lands) /\ NumbersOf(r.lands) = start .. r.next - 1
        BY <1>5 DEF Numbering
    <2>2. next = r.next + count
        BY <1>5
    <2>3. NumbersOf(lands) = NumbersOf(r.lands) \cup new
        <3> HIDE DEF new
        <3>1. n + 1 \in DOMAIN lands /\ lands[n + 1] = new /\ \A i \in DOMAIN r.lands : i \in DOMAIN lands /\ lands[i] = r.lands[i]
            BY <1>3, <1>4
        <3>2. \A i \in DOMAIN lands : i = n + 1 \/ i \in DOMAIN r.lands
            BY <1>3, <1>4
        <3>3. QED
            BY <3>1, <3>2 DEF NumbersOf
    <2>4. NumbersOf(lands) = start .. next - 1
        BY <1>1, <2>1, <2>2, <2>3
    <2>5. \A i \in 1 .. n : r.lands[i] \cap new = {}
        <3>1. \A i \in 1 .. n : r.lands[i] \subseteq start .. r.next - 1
            BY <1>4, <2>1 DEF NumbersOf
        <3>2. QED
            BY <1>1, <3>1
    <2>6. Apart(lands)
        <3> HIDE DEF new
        <3> SUFFICES ASSUME NEW i \in 1 .. n + 1, NEW j \in 1 .. n + 1, i # j PROVE lands[i] \cap lands[j] = {}
            BY <1>4 DEF Apart
        <3>1. (i = n + 1 \/ i \in 1 .. n) /\ (j = n + 1 \/ j \in 1 .. n)
            BY <1>3
        <3>2. \A k \in 1 .. n : lands[k] = r.lands[k]
            BY <1>3
        <3>3. lands[n + 1] = new
            BY <1>3
        <3>4. QED
            BY <1>4, <2>1, <2>5, <3>1, <3>2, <3>3 DEF Apart
    <2>7. QED
        BY <1>1, <2>1, <2>2, <2>4, <2>6
<1>6. ~Counted(spec) => next = start
    BY DEF Numbering
<1>7. next \in Nat
    BY <1>1
<1> HIDE DEF next
<1>8. QED
    BY <1>2, <1>3, <1>5, <1>6, <1>7 DEF Numbering, Sets

\* Every World's Lands are numbered from where the Worlds before it stopped.
LEMMA ReadLandsIs ==
    ASSUME NEW spec \in Setting, NEW start \in Nat
    PROVE  ReadLands(spec, start) \in Numbering(spec, start)
<1> DEFINE T == Numbering(spec, start)
           counts == spec.lands
           n == Len(counts)
           base == [next |-> start, lands |-> <<>>]
           step == [i \in 1 .. n |-> [t \in T |-> ReadLand(spec, t, counts[i])]]
<1>1. counts \in Seq(Nat \ {0})
    BY DirectoryAssumption DEF Setting
<1>2. n \in Nat /\ \A i \in 1 .. n : counts[i] \in Nat \ {0}
    BY <1>1, LenProperties
<1>3. base \in T
    <2>1. <<>> \in Seq(SUBSET Nat) /\ DOMAIN <<>> = {}
        BY EmptySeq
    <2>2. Apart(<<>>) /\ NumbersOf(<<>>) = start .. start - 1
        BY <2>1 DEF Apart, NumbersOf
    <2>3. QED
        BY <2>1, <2>2 DEF Numbering
<1>4. \A i \in 1 .. n : \A t \in T : ReadLand(spec, t, counts[i]) \in T
    BY <1>2, ReadLandIs
<1>5. ReadLands(spec, start) =
        LET read == CHOOSE g : g = [l \in 0 .. n |-> IF l = 0 THEN base ELSE ReadLand(spec, g[l - 1], counts[l])]
        IN read[n]
    BY DEF ReadLands
<1> HIDE DEF T, counts, n, base
<1>6. step \in Steps(n, T)
    BY <1>4 DEF Steps
<1>7. PICK f \in [0 .. n -> T] : f[0] = base /\ \A i \in 1 .. n : f[i] = step[i][f[i - 1]]
    <2> HIDE DEF step
    <2>1. Folded(n, T, base, step)
        BY <1>2, <1>3, <1>6, Iterates
    <2>2. QED
        BY <2>1 DEF Folded
<1> DEFINE F(g) == [l \in 0 .. n |-> IF l = 0 THEN base ELSE ReadLand(spec, g[l - 1], counts[l])]
           read == CHOOSE g : g = F(g)
<1>8. f = F(f)
    <2>1. ASSUME NEW l \in 0 .. n PROVE f[l] = F(f)[l]
        <3>1. CASE l = 0
            BY <1>7, <3>1
        <3>2. CASE l # 0
            <4>1. l \in 1 .. n /\ l - 1 \in 0 .. n
                BY <1>2, <3>2
            <4>2. f[l - 1] \in T /\ f[l] = step[l][f[l - 1]]
                BY <1>7, <4>1
            <4>3. QED
                BY <3>2, <4>1, <4>2
        <3>3. QED
            BY <3>1, <3>2
    <2>2. QED
        BY <2>1
<1>9. read = F(read)
    BY <1>8
<1> HIDE DEF read, step
<1>10. read[0] = base /\ \A l \in 1 .. n : read[l] = ReadLand(spec, read[l - 1], counts[l])
    <2>1. \A l \in 0 .. n : read[l] = F(read)[l]
        BY <1>9
    <2>2. 0 \in 0 .. n /\ \A l \in 1 .. n : l \in 0 .. n /\ l # 0
        BY <1>2
    <2>3. QED
        BY <2>1, <2>2
<1> DEFINE P == {l \in 0 .. n : read[l] \in T}
<1>11. 0 \in P /\ \A l \in 1 .. n : l - 1 \in P => l \in P
    BY <1>2, <1>3, <1>4, <1>10
<1>12. read[n] \in T
    <2> HIDE DEF P
    <2>1. \A l \in 0 .. n : l \in P
        BY <1>2, <1>11, Climbs
    <2>2. QED
        BY <1>2, <2>1 DEF P
<1>13. QED
    BY <1>5, <1>12 DEF read, T

\* The Worlds read so far: the first one served here has the numbers from 1 on.
World == [host : Hosts, lands : Seq(SUBSET Nat)]
FromOne(lands) == \E m \in Nat : Apart(lands) /\ NumbersOf(lands) = 1 .. m

Menus ==
    {d \in [next : Nat, worlds : Seq(World)] :
        /\ (\A i \in DOMAIN d.worlds : d.worlds[i].host # Local) => d.next = 1
        /\ \A i \in DOMAIN d.worlds :
            d.worlds[i].host = Local /\ (\A j \in 1 .. i - 1 : d.worlds[j].host # Local) => FromOne(d.worlds[i].lands)}

LEMMA ReadWorldIs ==
    ASSUME NEW spec \in Setting, NEW d \in Menus
    PROVE  ReadWorld(d, spec) \in Menus
<1> DEFINE read == ReadLands(spec, d.next)
           world == [host |-> spec.host, lands |-> read.lands]
           all == Append(d.worlds, world)
           n == Len(d.worlds)
           now == ReadWorld(d, spec)
<1>1. d.next \in Nat /\ d.worlds \in Seq(World) /\ DOMAIN d.worlds = 1 .. n /\ n \in Nat
    <2>1. d.next \in Nat /\ d.worlds \in Seq(World)
        BY DEF Menus
    <2>2. QED
        BY <2>1, LenProperties
<1>2. read \in Numbering(spec, d.next)
    BY <1>1, ReadLandsIs
<1>3. read.next \in Nat /\ read.lands \in Seq(SUBSET Nat) /\ (~Counted(spec) => read.next = d.next)
    BY <1>2 DEF Numbering
<1>4. now = [next |-> read.next, worlds |-> IF spec.enabled THEN all ELSE d.worlds]
    BY DEF ReadWorld
<1>5. CASE ~spec.enabled
    <2>1. now.worlds = d.worlds /\ now.next = d.next /\ now \in [next : Nat, worlds : Seq(World)]
        BY <1>1, <1>3, <1>4, <1>5 DEF Counted
    <2> HIDE DEF now
    <2>2. now \in Menus
        BY <2>1 DEF Menus
    <2>3. QED
        BY <2>2 DEF now
<1>6. CASE spec.enabled
    <2>1. spec.host \in Hosts
        BY DEF Setting
    <2>2. world \in World /\ world.host = spec.host /\ world.lands = read.lands
        BY <1>3, <2>1 DEF World
    <2>3. now.worlds = all /\ now.next = read.next
        BY <1>4, <1>6
    <2>4. now = [next |-> read.next, worlds |-> all]
        BY <1>4, <1>6
    <2> HIDE DEF now, world
    <2>5. /\ all \in Seq(World) /\ all \in [1 .. n + 1 -> World]
          /\ \A i \in 1 .. n + 1 : all[i] = IF i = n + 1 THEN world ELSE d.worlds[i]
        BY <1>1, <2>2, AppendIs
    <2>6. DOMAIN all = 1 .. n + 1
        BY <2>5
    <2> HIDE DEF all, n, read
    <2>7. now \in [next : Nat, worlds : Seq(World)]
        BY <1>3, <2>4, <2>5
    <2>8. (\A i \in DOMAIN all : all[i].host # Local) => now.next = 1
        <3> SUFFICES ASSUME \A i \in DOMAIN all : all[i].host # Local PROVE read.next = 1
            BY <2>3
        <3>1. world.host # Local
            BY <1>1, <2>5, <2>6
        <3>2. ~Counted(spec)
            BY <2>2, <3>1 DEF Counted
        <3>3. \A i \in DOMAIN d.worlds : d.worlds[i].host # Local
            BY <1>1, <2>5, <2>6
        <3>4. QED
            BY <1>3, <3>2, <3>3 DEF Menus
    <2>9. ASSUME NEW i \in DOMAIN all, all[i].host = Local, \A j \in 1 .. i - 1 : all[j].host # Local
          PROVE  FromOne(all[i].lands)
        <3>1. CASE i = n + 1
            <4>1. all[i] = world /\ Counted(spec)
                BY <1>1, <1>6, <2>2, <2>5, <2>9, <3>1 DEF Counted
            <4>2. \A j \in DOMAIN d.worlds : d.worlds[j].host # Local
                BY <1>1, <2>5, <2>9, <3>1
            <4>3. d.next = 1
                BY <4>2 DEF Menus
            <4>4. read.next >= 1 /\ Apart(read.lands) /\ NumbersOf(read.lands) = 1 .. read.next - 1
                BY <1>2, <4>1, <4>3 DEF Numbering
            <4>5. FromOne(read.lands)
                <5> DEFINE m == read.next - 1
                <5>1. m \in Nat /\ Apart(read.lands) /\ NumbersOf(read.lands) = 1 .. m
                    BY <1>3, <4>4
                <5> HIDE DEF m
                <5>2. QED
                    BY <5>1 DEF FromOne
            <4>6. QED
                BY <2>2, <4>1, <4>5
        <3>2. CASE i # n + 1
            <4>1. i \in DOMAIN d.worlds /\ all[i] = d.worlds[i] /\ \A j \in 1 .. i - 1 : j \in 1 .. n + 1 /\ j # n + 1
                BY <1>1, <2>5, <2>6, <3>2
            <4>2. \A j \in 1 .. i - 1 : d.worlds[j].host # Local
                BY <2>5, <2>9, <4>1
            <4>3. QED
                BY <2>9, <4>1, <4>2 DEF Menus
        <3>3. QED
            BY <3>1, <3>2
    <2>10. now \in Menus
        BY <2>3, <2>7, <2>8, <2>9 DEF Menus
    <2>11. QED
        BY <2>10 DEF now
<1>7. QED
    BY <1>5, <1>6

LEMMA ReadDirectoryIs ==
    ASSUME NEW n \in Nat, NEW specs \in [1 .. n -> Setting]
    PROVE  \E d \in Menus : d.worlds = ReadDirectory(specs)
<1> DEFINE base == [next |-> 1, worlds |-> <<>>]
           step == [i \in 1 .. n |-> [t \in Menus |-> ReadWorld(t, specs[i])]]
<1>1. Len(specs) = n
    OBVIOUS
<1>2. base \in Menus
    <2>1. <<>> \in Seq(World) /\ DOMAIN <<>> = {}
        BY EmptySeq
    <2>2. QED
        BY <2>1 DEF Menus
<1>3. \A i \in 1 .. n : specs[i] \in Setting
    OBVIOUS
<1>4. \A i \in 1 .. n : \A t \in Menus : ReadWorld(t, specs[i]) \in Menus
    BY <1>3, ReadWorldIs
<1>5. ReadDirectory(specs) =
        LET read == CHOOSE g : g = [l \in 0 .. n |-> IF l = 0 THEN base ELSE ReadWorld(g[l - 1], specs[l])]
        IN read[n].worlds
    BY <1>1 DEF ReadDirectory
<1> HIDE DEF base
<1>6. step \in Steps(n, Menus)
    BY <1>4 DEF Steps
<1>7. PICK f \in [0 .. n -> Menus] : f[0] = base /\ \A i \in 1 .. n : f[i] = step[i][f[i - 1]]
    <2> HIDE DEF step
    <2>1. Folded(n, Menus, base, step)
        BY <1>2, <1>6, Iterates
    <2>2. QED
        BY <2>1 DEF Folded
<1> DEFINE F(g) == [l \in 0 .. n |-> IF l = 0 THEN base ELSE ReadWorld(g[l - 1], specs[l])]
           read == CHOOSE g : g = F(g)
<1>8. f = F(f)
    <2>1. ASSUME NEW l \in 0 .. n PROVE f[l] = F(f)[l]
        <3>1. CASE l = 0
            BY <1>7, <3>1
        <3>2. CASE l # 0
            <4>1. l \in 1 .. n /\ l - 1 \in 0 .. n
                BY <3>2
            <4>2. f[l - 1] \in Menus /\ f[l] = step[l][f[l - 1]]
                BY <1>7, <4>1
            <4>3. QED
                BY <3>2, <4>1, <4>2
        <3>3. QED
            BY <3>1, <3>2
    <2>2. QED
        BY <2>1
<1>9. read = F(read)
    BY <1>8
<1> HIDE DEF read, step
<1>10. read[0] = base /\ \A l \in 1 .. n : read[l] = ReadWorld(read[l - 1], specs[l])
    <2>1. \A l \in 0 .. n : read[l] = F(read)[l]
        BY <1>9
    <2>2. 0 \in 0 .. n /\ \A l \in 1 .. n : l \in 0 .. n /\ l # 0
        OBVIOUS
    <2>3. QED
        BY <2>1, <2>2
<1> DEFINE P == {l \in 0 .. n : read[l] \in Menus}
<1>11. 0 \in P /\ \A l \in 1 .. n : l - 1 \in P => l \in P
    BY <1>2, <1>4, <1>10
<1>12. read[n] \in Menus
    <2> HIDE DEF P
    <2>1. \A l \in 0 .. n : l \in P
        BY <1>11, Climbs
    <2>2. QED
        BY <2>1 DEF P
<1>13. QED
    BY <1>5, <1>12 DEF read

-----------------------------------------------------------------------------
\* An entry of a list is a World's host or a Land's Areas.
Told == Hosts \cup SUBSET Nat
Asking == [list : Nat, got : Seq(Told), total : Nat, asked : BOOLEAN, populations : Seq(Nat) \cup {Unasked}]

\* The published menu.
WorldsInv ==
    /\ worlds \in Seq(World) /\ Valid(worlds)
    /\ LocalWorld \in DOMAIN worlds /\ FromOne(worlds[LocalWorld].lands)

\* A client has the list up to where it has asked for it.
ClientInv ==
    LET list == ListOf(client.list) IN
    /\ client \in Asking /\ client.list \in 0 .. Len(worlds)
    /\ Len(client.got) <= Len(list)
    /\ \A i \in 1 .. Len(client.got) : client.got[i] = list[i]
    /\ client.asked => client.total = Len(list)
    /\ client.populations # Unasked => DOMAIN client.populations = DOMAIN list

PlayersInv == OnlineTypeOK /\ \A s \in Listed : online[s].area \in LocalAreas \cup {0}

DirectoryInv == WorldsInv /\ ClientInv /\ PlayersInv

LEMMA LocalWorldIs ==
    ASSUME NEW d \in Menus, worlds = d.worlds, Valid(worlds)
    PROVE  WorldsInv
<1>1. worlds \in Seq(World) /\ DOMAIN worlds = 1 .. Len(worlds) /\ Len(worlds) \in Nat
    <2>1. worlds \in Seq(World)
        BY DEF Menus
    <2>2. QED
        BY <2>1, LenProperties
<1>2. LocalWorld \in DOMAIN worlds /\ worlds[LocalWorld].host = Local
    BY DEF Valid, LocalWorld
<1>3. \A j \in 1 .. LocalWorld - 1 : worlds[j].host # Local
    <2> DEFINE i == LocalWorld
    <2>1. i \in 1 .. Len(worlds) /\ worlds[i].host = Local
        BY <1>1, <1>2
    <2> HIDE DEF i
    <2>2. \A j \in 1 .. i - 1 : j \in 1 .. Len(worlds) /\ j # i
        BY <1>1, <2>1
    <2>3. \A j \in 1 .. i - 1 : worlds[j].host # Local
        BY <1>1, <2>1, <2>2 DEF Valid
    <2>4. QED
        BY <2>3 DEF i
<1>4. FromOne(worlds[LocalWorld].lands)
    BY <1>2, <1>3 DEF Menus
<1>5. QED
    BY <1>1, <1>2, <1>4 DEF WorldsInv

\* Every list a client may ask for.
LEMMA ListOfIs ==
    ASSUME WorldsInv, NEW i \in 0 .. Len(worlds)
    PROVE  /\ ListOf(i) \in Seq(Told) /\ Len(ListOf(i)) \in Nat /\ DOMAIN ListOf(i) = 1 .. Len(ListOf(i))
           /\ i # 0 => i \in DOMAIN worlds /\ ListOf(i) = worlds[i].lands /\ worlds[i].lands \in Seq(SUBSET Nat)
<1> DEFINE n == Len(worlds)
<1>1. n \in Nat /\ DOMAIN worlds = 1 .. n /\ \A j \in 1 .. n : worlds[j] \in World
    BY LenProperties DEF WorldsInv
<1>2. CASE i = 0
    <2>1. ListOf(i) = [j \in 1 .. n |-> worlds[j].host]
        BY <1>1, <1>2 DEF ListOf
    <2>2. \A j \in 1 .. n : worlds[j].host \in Told
        BY <1>1 DEF World, Told
    <2>3. ListOf(i) \in [1 .. n -> Told]
        BY <2>1, <2>2
    <2>4. ListOf(i) \in Seq(Told)
        BY <1>1, <2>3
    <2>5. QED
        BY <1>2, <2>4, LenProperties
<1>3. CASE i # 0
    <2>1. i \in DOMAIN worlds /\ ListOf(i) = worlds[i].lands /\ worlds[i].lands \in Seq(SUBSET Nat)
        BY <1>1, <1>3 DEF ListOf, World
    <2> DEFINE lands == worlds[i].lands
    <2> HIDE DEF lands
    <2>2. lands \in Seq(SUBSET Nat)
        BY <2>1 DEF lands
    <2>3. DOMAIN lands = 1 .. Len(lands) /\ Len(lands) \in Nat /\ \A j \in 1 .. Len(lands) : lands[j] \in SUBSET Nat
        BY <2>2, LenProperties
    <2>4. lands \in [1 .. Len(lands) -> Told]
        BY <2>2, <2>3 DEF Told
    <2>5. lands \in Seq(Told)
        BY <2>3, <2>4
    <2>6. QED
        BY <2>1, <2>3, <2>5 DEF lands
<1>4. QED
    BY <1>2, <1>3

LEMMA DirectoryInvInit == DirectoryInit => DirectoryInv
<1> SUFFICES ASSUME DirectoryInit PROVE DirectoryInv
    OBVIOUS
<1>1. PICK n \in 1 .. MaxWorlds : \E specs \in [1 .. n -> Setting] : worlds = ReadDirectory(specs) /\ Valid(worlds)
    BY DEF DirectoryInit
<1>2. PICK specs \in [1 .. n -> Setting] : worlds = ReadDirectory(specs) /\ Valid(worlds)
    BY <1>1
<1>3. n \in Nat
    BY DirectoryAssumption
<1>4. PICK d \in Menus : d.worlds = ReadDirectory(specs)
    BY <1>3, ReadDirectoryIs
<1>5. WorldsInv
    BY <1>2, <1>4, LocalWorldIs
<1>6. ClientInv
    <2>1. client = [list |-> 0, got |-> <<>>, total |-> 0, asked |-> FALSE, populations |-> Unasked]
        BY DEF DirectoryInit
    <2>2. <<>> \in Seq(Told) /\ Len(<<>>) = 0
        BY EmptySeq
    <2>3. client \in Asking /\ client.list = 0 /\ client.got = <<>> /\ client.asked = FALSE /\ client.populations = Unasked
        BY <2>1, <2>2 DEF Asking
    <2>4. Len(worlds) \in Nat
        BY <1>5, LenProperties DEF WorldsInv
    <2>5. Len(ListOf(0)) \in Nat
        BY <1>5, <2>4, ListOfIs
    <2>6. QED
        BY <2>2, <2>3, <2>4, <2>5 DEF ClientInv
<1>7. PlayersInv
    BY OnlineAssumption DEF DirectoryInit, PlayersInv, OnlineInit, OnlineTypeOK, Listed
<1>8. QED
    BY <1>5, <1>6, <1>7 DEF DirectoryInv

\* The Areas served here are numbered from 1 on, each one once.
LEMMA AreasNumbered ==
    ASSUME WorldsInv
    PROVE  /\ AreaIdsUnique /\ 0 \notin LocalAreas /\ NumbersOf(worlds[LocalWorld].lands) = LocalAreas
           /\ Apart(worlds[LocalWorld].lands)
<1> DEFINE lands == worlds[LocalWorld].lands
<1>1. NumbersOf(lands) = LocalAreas
    BY DEF NumbersOf, LocalAreas
<1>2. PICK m \in Nat : Apart(lands) /\ NumbersOf(lands) = 1 .. m
    BY DEF WorldsInv, FromOne
<1>3. Cardinality(1 .. m) = m
    BY FS_Interval
<1>4. LocalAreas = 1 .. Cardinality(LocalAreas) /\ 0 \notin LocalAreas
    BY <1>1, <1>2, <1>3
<1>5. QED
    BY <1>1, <1>2, <1>4 DEF AreaIdsUnique, Apart

LEMMA DirectoryInvSound == DirectoryInv => DirectorySound
<1> SUFFICES ASSUME DirectoryInv PROVE DirectorySound
    OBVIOUS
<1>1. AreaIdsUnique
    BY AreasNumbered DEF DirectoryInv
<1> DEFINE list == ListOf(client.list)
<1>2. list \in Seq(Told) /\ Len(list) \in Nat
    BY ListOfIs DEF DirectoryInv, ClientInv
<1>3. /\ client.got \in Seq(Told) /\ Len(client.got) <= Len(list)
      /\ \A i \in 1 .. Len(client.got) : client.got[i] = list[i]
      /\ client.asked => client.total = Len(list)
    BY DEF DirectoryInv, ClientInv, Asking
<1> HIDE DEF list
<1>4. WholeList => client.got = list
    <2> SUFFICES ASSUME WholeList PROVE client.got = list
        OBVIOUS
    <2> DEFINE got == client.got
    <2>1. got \in Seq(Told) /\ Len(got) \in Nat
        BY <1>3, LenProperties
    <2>2. Len(got) = Len(list)
        BY <1>2, <1>3, <2>1 DEF WholeList
    <2> HIDE DEF got
    <2>3. \A i \in 1 .. Len(got) : got[i] = list[i]
        BY <1>3 DEF got
    <2>4. got = list
        BY <1>2, <2>1, <2>2, <2>3, SeqEqual
    <2>5. QED
        BY <2>4 DEF got
<1>5. DirectoryTypeOK
    BY DEF DirectoryInv, ClientInv, WorldsInv, PlayersInv, DirectoryTypeOK
<1>6. QED
    BY <1>1, <1>4, <1>5 DEF DirectorySound, ListsComplete, list

-----------------------------------------------------------------------------
\* A page continues what the client has.
LEMMA PagesContinue == ASSUME DirectoryInv, ListPage PROVE ClientInv'
<1> DEFINE list == ListOf(client.list)
           got == client.got
           start == Len(got)
           end == IF start + PageSize < Len(list) THEN start + PageSize ELSE Len(list)
           more == SubSeq(list, start + 1, end)
           now == got \o more
<1>1. list \in Seq(Told) /\ Len(list) \in Nat /\ DOMAIN list = 1 .. Len(list)
    BY ListOfIs DEF DirectoryInv, ClientInv
<1>2. /\ client \in Asking /\ client.list \in 0 .. Len(worlds) /\ got \in Seq(Told) /\ start \in Nat /\ start <= Len(list)
      /\ \A i \in 1 .. start : got[i] = list[i]
      /\ client.populations # Unasked => DOMAIN client.populations = DOMAIN list
    <2>1. client \in Asking /\ got \in Seq(Told)
        BY DEF DirectoryInv, ClientInv, Asking
    <2>2. start \in Nat
        BY <2>1, LenProperties
    <2>3. QED
        BY <2>1, <2>2 DEF DirectoryInv, ClientInv
<1>3. client' = [client EXCEPT !.got = now, !.total = Len(list), !.asked = TRUE] /\ worlds' = worlds
    BY DEF ListPage, Page
<1>4. end \in Nat /\ start <= end /\ end <= Len(list)
    BY <1>1, <1>2, DirectoryAssumption
<1> HIDE DEF list, got, end
<1>5. more \in Seq(Told) /\ Len(more) = end - start /\ \A i \in 1 .. end - start : more[i] = list[start + i]
    <2>1. \A i \in start + 1 .. end : list[i] \in Told
        BY <1>1, <1>2, <1>4, LenProperties
    <2> DEFINE m == start + 1
    <2>2. m \in Int /\ end \in Int /\ m = start + 1
        BY <1>2, <1>4
    <2> HIDE DEF m
    <2>3. \A i \in m .. end : list[i] \in Told
        BY <2>1, <2>2
    <2>4. /\ SubSeq(list, m, end) \in Seq(Told)
          /\ Len(SubSeq(list, m, end)) = IF m <= end THEN end - m + 1 ELSE 0
          /\ \A i \in 1 .. end - m + 1 : SubSeq(list, m, end)[i] = list[m + i - 1]
        BY <2>2, <2>3, SubSeqProperties
    <2>5. QED
        BY <1>2, <1>4, <2>2, <2>4
<1> HIDE DEF more
<1>6. now \in Seq(Told) /\ Len(now) = end /\ \A i \in 1 .. end : now[i] = list[i]
    <2>1. now \in Seq(Told) /\ Len(now) = start + Len(more)
        BY <1>2, <1>5, ConcatProperties
    <2>2. \A i \in 1 .. start + Len(more) : now[i] = IF i <= start THEN got[i] ELSE more[i - start]
        BY <1>2, <1>5, ConcatProperties
    <2> HIDE DEF now
    <2>3. ASSUME NEW i \in 1 .. end PROVE now[i] = list[i]
        <3>1. now[i] = IF i <= start THEN got[i] ELSE more[i - start]
            BY <1>2, <1>4, <1>5, <2>2
        <3>2. CASE i <= start
            BY <1>2, <3>1, <3>2
        <3>3. CASE ~(i <= start)
            <4>1. i - start \in 1 .. end - start /\ start + (i - start) = i
                BY <1>2, <1>4, <3>3
            <4>2. QED
                BY <1>5, <3>1, <3>3, <4>1
        <3>4. QED
            BY <3>2, <3>3
    <2>4. QED
        BY <1>2, <1>4, <1>5, <2>1, <2>3
<1> HIDE DEF now
<1>7. /\ client' \in Asking /\ client'.list = client.list /\ client'.got = now /\ client'.total = Len(list)
      /\ client'.populations = client.populations
    BY <1>1, <1>2, <1>3, <1>6 DEF Asking
<1>8. ListOf(client.list)' = list
    BY <1>3, <1>7 DEF ListOf, list
<1>9. QED
    BY <1>2, <1>3, <1>4, <1>6, <1>7, <1>8 DEF ClientInv

LEMMA ChoosesWorld == ASSUME DirectoryInv, NEW i \in DOMAIN worlds, ChooseWorld(i) PROVE ClientInv'
<1>1. client' = [list |-> i, got |-> <<>>, total |-> 0, asked |-> FALSE, populations |-> Unasked] /\ worlds' = worlds
    BY DEF ChooseWorld
<1>2. i \in 0 .. Len(worlds) /\ i \in Nat
    BY LenProperties DEF DirectoryInv, WorldsInv
<1>3. Len(ListOf(i)) \in Nat
    BY <1>2, ListOfIs DEF DirectoryInv
<1>4. <<>> \in Seq(Told) /\ Len(<<>>) = 0
    BY EmptySeq
<1>5. client' \in Asking /\ client'.list = i /\ client'.got = <<>> /\ client'.asked = FALSE /\ client'.populations = Unasked
    BY <1>1, <1>2, <1>4 DEF Asking
<1>6. ListOf(client.list)' = ListOf(i)
    BY <1>1, <1>5 DEF ListOf
<1>7. QED
    BY <1>1, <1>2, <1>3, <1>4, <1>5, <1>6 DEF ClientInv

\* What the Lands report of themselves.
LEMMA ListedFinite == \A S \in SUBSET Sessions : IsFiniteSet(S) /\ Cardinality(S) \in Nat
BY OnlineAssumption, FS_Subset, FS_CardinalityType

LEMMA PopulationsAre ==
    ASSUME DirectoryInv, LandPopulations
    PROVE  LET list == ListOf(client.list) IN
           /\ client'.populations = [l \in 1 .. Len(list) |-> Population(client.list, l)]
           /\ client'.populations \in Seq(Nat) /\ Len(client'.populations) = Len(list) /\ Len(list) \in Nat
           /\ ClientInv'
<1> DEFINE list == ListOf(client.list)
           pops == [l \in DOMAIN list |-> Population(client.list, l)]
<1>1. list \in Seq(Told) /\ Len(list) \in Nat /\ DOMAIN list = 1 .. Len(list)
    BY ListOfIs DEF DirectoryInv, ClientInv
<1>2. client' = [client EXCEPT !.populations = pops] /\ worlds' = worlds
    BY DEF LandPopulations
<1>3. client \in Asking
    BY DEF DirectoryInv, ClientInv
<1>4. \A l \in DOMAIN list : Population(client.list, l) \in Nat
    <2> SUFFICES ASSUME NEW l \in DOMAIN list PROVE Population(client.list, l) \in Nat
        OBVIOUS
    <2> DEFINE S == {s \in Listed : online[s].area \in worlds[client.list].lands[l]}
    <2>1. S \in SUBSET Sessions
        BY DEF Listed
    <2> HIDE DEF S
    <2>2. Cardinality(S) \in Nat
        BY <2>1, ListedFinite
    <2>3. QED
        BY <2>2 DEF Population, S
<1>5. ListOf(client.list)' = ListOf(client'.list)
    BY <1>2 DEF ListOf
<1> HIDE DEF list
<1>6. pops \in [1 .. Len(list) -> Nat] /\ DOMAIN pops = 1 .. Len(list)
    BY <1>1, <1>4
<1> HIDE DEF pops
<1>7. pops \in Seq(Nat) /\ Len(pops) = Len(list)
    BY <1>1, <1>6
<1>8. /\ client' \in Asking /\ client'.list = client.list /\ client'.got = client.got /\ client'.total = client.total
      /\ client'.asked = client.asked /\ client'.populations = pops
    BY <1>2, <1>3, <1>7 DEF Asking
<1>9. ClientInv'
    BY <1>1, <1>2, <1>5, <1>6, <1>8 DEF ClientInv, DirectoryInv, list
<1>10. pops = [l \in 1 .. Len(list) |-> Population(client.list, l)]
    BY <1>1 DEF pops
<1>11. QED
    BY <1>1, <1>7, <1>8, <1>9, <1>10 DEF list

LEMMA PlayersStay == ASSUME DirectoryInv, Players PROVE PlayersInv'
<1>1. worlds' = worlds /\ GameServer /\ \A s \in Sessions : online'[s] # Away => online'[s].area \in LocalAreas \cup {0}
    BY DEF Players
<1>2. LocalAreas' = LocalAreas
    BY <1>1 DEF LocalAreas, LocalWorld
<1>3. \A s \in Listed' : online'[s].area \in LocalAreas' \cup {0}
    BY <1>1, <1>2 DEF Listed
<1>4. OnlineTypeOK
    BY DEF DirectoryInv, PlayersInv
<1>5. OnlineTypeOK'
    <2>1. ASSUME NEW s \in Sessions, LoginOnline(s) PROVE OnlineTypeOK'
        BY <1>4, <2>1, OnlineAssumption DEF LoginOnline, OnlineTypeOK, Player
    <2>2. ASSUME NEW s \in Sessions, LogoutOnline(s) PROVE OnlineTypeOK'
        BY <1>4, <2>2 DEF LogoutOnline, OnlineTypeOK
    <2>3. ASSUME NEW s \in Sessions, NEW a \in Areas, SetArea(s, a) PROVE OnlineTypeOK'
        BY <1>4, <2>3 DEF SetArea, OnlineTypeOK, Player
    <2>4. ASSUME ClearOnline PROVE OnlineTypeOK'
        BY <1>4, <2>4 DEF ClearOnline, OnlineTypeOK
    <2>5. QED
        BY <1>1, <2>1, <2>2, <2>3, <2>4 DEF GameServer
<1>6. QED
    BY <1>3, <1>5 DEF PlayersInv

LEMMA DirectoryStep == DirectoryInv /\ [DirectoryNext]_directoryVars => DirectoryInv'
<1> SUFFICES ASSUME DirectoryInv, [DirectoryNext]_directoryVars PROVE DirectoryInv'
    OBVIOUS
<1>1. worlds' = worlds
    BY DEF DirectoryNext, ListPage, ChooseWorld, LandPopulations, Players, directoryVars
<1>2. WorldsInv'
    BY <1>1 DEF DirectoryInv, WorldsInv, LocalWorld, Valid
<1>3. ASSUME UNCHANGED onlineVars PROVE PlayersInv'
    <2>1. online' = online /\ logins' = logins /\ LocalAreas' = LocalAreas
        BY <1>1, <1>3 DEF onlineVars, LocalAreas, LocalWorld
    <2>2. QED
        BY <2>1 DEF DirectoryInv, PlayersInv, OnlineTypeOK, Listed
<1>4. client' = client => ClientInv'
    BY <1>1 DEF DirectoryInv, ClientInv, ListOf
<1>5. CASE ListPage
    BY <1>2, <1>3, <1>5, PagesContinue DEF DirectoryInv, ListPage
<1>6. ASSUME NEW i \in DOMAIN worlds, ChooseWorld(i) PROVE DirectoryInv'
    BY <1>2, <1>3, <1>6, ChoosesWorld DEF DirectoryInv, ChooseWorld
<1>7. CASE LandPopulations
    BY <1>2, <1>3, <1>7, PopulationsAre DEF DirectoryInv, LandPopulations
<1>8. CASE Players
    BY <1>2, <1>4, <1>8, PlayersStay DEF DirectoryInv, Players
<1>9. CASE UNCHANGED directoryVars
    BY <1>2, <1>3, <1>4, <1>9 DEF DirectoryInv, directoryVars
<1>10. QED
    BY <1>5, <1>6, <1>7, <1>8, <1>9 DEF DirectoryNext

LEMMA DirectoryInvariant == DirectorySpec => []DirectoryInv
<1>1. DirectoryInit => DirectoryInv
    BY DirectoryInvInit
<1>2. DirectoryInv /\ [DirectoryNext]_directoryVars => DirectoryInv'
    BY DirectoryStep
<1>3. QED
    BY <1>1, <1>2, PTL DEF DirectorySpec

\* However the Worlds are configured, the Areas served here have numbers of
\* their own, and the lists a client reads page by page are the configured ones.
THEOREM DirectoriesAreSound == DirectorySpec => []DirectorySound
BY DirectoryInvSound, DirectoryInvariant, PTL

-----------------------------------------------------------------------------
\* The players in the Areas of the first Lands.
InFirst(i) == {s \in Listed : \E l \in 1 .. i : online[s].area \in worlds[LocalWorld].lands[l]}

\* Sets that have nothing in common are counted one by one.
LEMMA ApartAdd ==
    ASSUME NEW A, NEW B, NEW U, IsFiniteSet(A), IsFiniteSet(B), U = A \cup B, A \cap B = {}
    PROVE  Cardinality(U) = Cardinality(A) + Cardinality(B)
<1>1. Cardinality(A \cup B) = Cardinality(A) + Cardinality(B) - Cardinality(A \cap B)
    BY FS_Union
<1>2. Cardinality(U) = Cardinality(A \cup B)
    OBVIOUS
<1>3. Cardinality(A \cap B) = 0
    BY FS_EmptySet
<1>4. Cardinality(A) \in Nat /\ Cardinality(B) \in Nat
    BY FS_CardinalityType
<1>5. QED
    BY ONLY <1>1, <1>2, <1>3, <1>4

\* Lands that share no number count every player of the World once.
LEMMA CountedOnce ==
    ASSUME DirectoryInv, NEW p \in Seq(Nat), Len(p) = Len(worlds[LocalWorld].lands),
           \A l \in 1 .. Len(p) : p[l] = Cardinality({s \in Listed : online[s].area \in worlds[LocalWorld].lands[l]})
    PROVE  SumOf(p) = Cardinality({s \in Listed : online[s].area # 0})
<1> DEFINE n == Len(p)
           lands == worlds[LocalWorld].lands
           Here(l) == {s \in Listed : online[s].area \in lands[l]}
<1>1. n \in Nat
    BY LenProperties
<1>2. DOMAIN lands = 1 .. n /\ Apart(lands) /\ NumbersOf(lands) = LocalAreas /\ 0 \notin LocalAreas
    <2>1. LocalWorld \in DOMAIN worlds /\ worlds \in Seq(World)
        BY DEF DirectoryInv, WorldsInv
    <2>2. worlds[LocalWorld] \in World
        BY <2>1, LenProperties
    <2>3. lands \in Seq(SUBSET Nat)
        BY <2>2 DEF World
    <2>4. DOMAIN lands = 1 .. Len(lands)
        BY <2>3, LenProperties
    <2>5. QED
        BY <2>4, AreasNumbered DEF DirectoryInv
<1>3. PICK f \in [0 .. n -> Nat] : SumOf(p) = f[n] /\ f[0] = 0 /\ \A i \in 1 .. n : f[i] = f[i - 1] + p[i]
    BY SumSteps
<1>4. \A l : IsFiniteSet(Here(l)) /\ IsFiniteSet(InFirst(l)) /\ Cardinality(Here(l)) \in Nat /\ Cardinality(InFirst(l)) \in Nat
    <2>1. \A l : Here(l) \in SUBSET Sessions /\ InFirst(l) \in SUBSET Sessions
        BY DEF Listed, InFirst
    <2>2. QED
        BY <2>1, ListedFinite
<1> DEFINE P == {i \in 0 .. n : f[i] = Cardinality(InFirst(i))}
<1>5. 0 \in P
    <2>1. InFirst(0) = {}
        BY DEF InFirst
    <2>2. Cardinality(InFirst(0)) = 0
        BY <2>1, FS_EmptySet
    <2>3. QED
        BY <1>1, <1>3, <2>2
<1>6. ASSUME NEW i \in 1 .. n, i - 1 \in P PROVE i \in P
    <2>1. InFirst(i) = InFirst(i - 1) \cup Here(i)
        <3>1. \A l \in 1 .. i : l = i \/ l \in 1 .. i - 1
            OBVIOUS
        <3>2. i \in 1 .. i /\ \A l \in 1 .. i - 1 : l \in 1 .. i
            OBVIOUS
        <3>3. QED
            BY <3>1, <3>2 DEF InFirst
    <2>2. InFirst(i - 1) \cap Here(i) = {}
        <3>1. \A l \in 1 .. i - 1 : l \in 1 .. n /\ l # i
            BY <1>1
        <3>2. \A l \in 1 .. i - 1 : lands[l] \cap lands[i] = {}
            BY <1>2, <3>1 DEF Apart
        <3>3. QED
            BY <3>2 DEF InFirst
    <2>3. p[i] = Cardinality(Here(i)) /\ f[i] = f[i - 1] + p[i] /\ f[i - 1] = Cardinality(InFirst(i - 1))
        BY <1>3, <1>6
    <2>4. Cardinality(InFirst(i)) = Cardinality(InFirst(i - 1)) + Cardinality(Here(i))
        BY ONLY <1>4, <2>1, <2>2, ApartAdd
    <2>5. QED
        BY ONLY <2>3, <2>4, <1>3, i \in 1 .. n, <1>1
<1>7. f[n] = Cardinality(InFirst(n))
    <2> HIDE DEF P
    <2>1. \A i \in 0 .. n : i \in P
        BY <1>1, <1>5, <1>6, Climbs
    <2>2. QED
        BY <1>1, <2>1 DEF P
<1>8. InFirst(n) = {s \in Listed : online[s].area # 0}
    <2>1. \A s \in Listed : online[s].area \in LocalAreas \cup {0}
        BY DEF DirectoryInv, PlayersInv
    <2>2. \A x : x \in LocalAreas <=> \E l \in 1 .. n : x \in lands[l]
        BY <1>2 DEF NumbersOf
    <2>3. QED
        BY <1>2, <2>1, <2>2 DEF InFirst
<1>9. QED
    BY <1>3, <1>7, <1>8

LEMMA CountedNowhere ==
    ASSUME NEW p \in Seq(Nat), \A l \in 1 .. Len(p) : p[l] = 0
    PROVE  SumOf(p) = 0
<1> DEFINE n == Len(p)
<1>1. n \in Nat
    BY LenProperties
<1>2. PICK f \in [0 .. n -> Nat] : SumOf(p) = f[n] /\ f[0] = 0 /\ \A i \in 1 .. n : f[i] = f[i - 1] + p[i]
    BY SumSteps
<1> DEFINE P == {i \in 0 .. n : f[i] = 0}
<1>3. 0 \in P /\ \A i \in 1 .. n : i - 1 \in P => i \in P
    BY <1>1, <1>2
<1>4. f[n] = 0
    <2> HIDE DEF P
    <2>1. \A i \in 0 .. n : i \in P
        BY <1>1, <1>3, Climbs
    <2>2. QED
        BY <1>1, <2>1 DEF P
<1>5. QED
    BY <1>2, <1>4

\* The Lands' populations add up to the players in the Areas of the World at
\* that moment, and are those of no other World though the numbers overlap.
THEOREM PopulationsAreCounted == DirectorySpec => PopulationsAddUp
<1> DEFINE AddUp ==
        LandPopulations =>
            SumOf(client'.populations) =
                IF client.list = LocalWorld THEN Cardinality({s \in Listed : online[s].area # 0}) ELSE 0
<1>1. DirectoryInv => AddUp
    <2> SUFFICES ASSUME DirectoryInv, LandPopulations
                 PROVE  SumOf(client'.populations) =
                            IF client.list = LocalWorld THEN Cardinality({s \in Listed : online[s].area # 0}) ELSE 0
        OBVIOUS
    <2> DEFINE p == client'.populations
               list == ListOf(client.list)
    <2>1. p = [l \in 1 .. Len(list) |-> Population(client.list, l)] /\ p \in Seq(Nat) /\ Len(p) = Len(list)
        BY PopulationsAre
    <2> HIDE DEF p
    <2>2. CASE client.list = LocalWorld
        <3>1. list = worlds[LocalWorld].lands
            BY <2>2, ListOfIs DEF DirectoryInv, ClientInv, LandPopulations
        <3>2. \A l \in 1 .. Len(p) : p[l] = Cardinality({s \in Listed : online[s].area \in worlds[LocalWorld].lands[l]})
            BY <2>1, <2>2 DEF Population
        <3>3. QED
            BY <2>1, <2>2, <3>1, <3>2, CountedOnce DEF p
    <2>3. CASE client.list # LocalWorld
        <3>1. \A l \in 1 .. Len(p) : p[l] = 0
            BY <2>1, <2>3 DEF Population
        <3>2. QED
            BY <2>1, <2>3, <3>1, CountedNowhere DEF p
    <2>4. QED
        BY <2>2, <2>3
<1>2. DirectorySpec => [][AddUp]_directoryVars
    BY <1>1, DirectoryInvariant, PTL
<1>3. QED
    BY <1>2, PTL DEF PopulationsAddUp

-----------------------------------------------------------------------------
(* The connection kinds of the APP service. *)

LEMMA MinIs ==
    ASSUME NEW S \in SUBSET Nat, S # {}
    PROVE  Min(S) \in S /\ \A y \in S : Min(S) <= y
<1>1. PICK e \in S : \A d \in S : ~(<<d, e>> \in OpToRel(<, Nat))
    BY NatLessThanWellFounded, WFMin
<1>2. \A d \in S : ~(d < e)
    BY <1>1 DEF OpToRel
<1>3. \A d \in S : e <= d
    BY <1>2
<1>4. QED
    BY <1>3 DEF Min

\* What is kept of a sequence.
Keeps(S, s, K, r) ==
    /\ r \in Seq(S) /\ Len(r) <= Len(s)
    /\ \A i \in 1 .. Len(r) : r[i] \in K /\ \E j \in 1 .. Len(s) : r[i] = s[j]
    /\ \A j \in 1 .. Len(s) : s[j] \in K => \E i \in 1 .. Len(r) : r[i] = s[j]
    /\ IsInjective(s) => IsInjective(r)

LEMMA KeptKeeps ==
    ASSUME NEW S, NEW s \in Seq(S), NEW K
    PROVE  Keeps(S, s, K, Kept(s, K))
BY KeptIs DEF Keeps

Kinds == {"WORLD", "POSTWORLD", "LAND"}
Remembered == [client : Clients, phase : Kinds]
Table == [serial : [Sessions -> 0 .. MaxLogins], phase : [Sessions -> Kinds \cup {NoFlow}],
          pending : [Clients -> Seq(Sessions)], active : [Clients -> Sessions \cup {NoFlow}], fallback : Seq(Remembered)]

In(q, s) == \E i \in DOMAIN q : q[i] = s
Recalls(f, k) == \E i \in DOMAIN f : f[i].client = k

\* The logins of a client that wait or are active, each one once.
QueueOK(q, a, serials, k) ==
    /\ q \in Seq(Sessions) /\ IsInjective(q)
    /\ \A i \in DOMAIN q : ClientOf[q[i]] = k /\ serials[q[i]] # 0 /\ q[i] # a
    /\ a # NoFlow => a \in Sessions /\ ClientOf[a] = k /\ serials[a] # 0

\* The released phases: one of each client, and no more than are kept.
FallbackOK(f) ==
    /\ f \in Seq(Remembered) /\ Len(f) <= MaxFallback
    /\ \A i, j \in DOMAIN f : f[i].client = f[j].client => i = j

\* A login that is tracked is active, waits, or its client's phase is kept.
Covered(serials, pending, active, fallback) ==
    \A s \in Sessions : serials[s] # 0 =>
        active[ClientOf[s]] = s \/ In(pending[ClientOf[s]], s) \/ Recalls(fallback, ClientOf[s])

Sound(t) ==
    /\ t \in Table
    /\ \A s \in Sessions : t.serial[s] # 0 <=> t.phase[s] # NoFlow
    /\ \A k \in Clients : QueueOK(t.pending[k], t.active[k], t.serial, k)
    /\ FallbackOK(t.fallback)
    /\ Cardinality(Clients) <= MaxFallback => Covered(t.serial, t.pending, t.active, t.fallback)

LEMMA TableIs ==
    ASSUME NEW t \in Table
    PROVE  /\ t = [serial |-> t.serial, phase |-> t.phase, pending |-> t.pending, active |-> t.active, fallback |-> t.fallback]
           /\ t.serial \in [Sessions -> 0 .. MaxLogins] /\ t.phase \in [Sessions -> Kinds \cup {NoFlow}]
           /\ t.pending \in [Clients -> Seq(Sessions)] /\ t.active \in [Clients -> Sessions \cup {NoFlow}]
           /\ t.fallback \in Seq(Remembered)
BY DEF Table

LEMMA ClientsAre == ClientOf \in [Sessions -> Clients] /\ IsFiniteSet(Clients) /\ MaxFallback \in Nat \ {0}
BY FlowsAssumption

\* The phases kept for the other clients.
Others(f, k) == Kept(f, [client : Clients \ {k}, phase : Phases])

LEMMA OthersAre ==
    ASSUME NEW f, FallbackOK(f), NEW k \in Clients
    PROVE  /\ FallbackOK(Others(f, k)) /\ ~Recalls(Others(f, k), k)
           /\ \A c \in Clients \ {k} : Recalls(f, c) => Recalls(Others(f, k), c)
<1> DEFINE K == [client : Clients \ {k}, phase : Phases]
           g == Others(f, k)
<1>1. f \in Seq(Remembered) /\ DOMAIN f = 1 .. Len(f) /\ Len(f) \in Nat /\ \A i \in DOMAIN f : f[i] \in Remembered
    BY LenProperties DEF FallbackOK
<1>2. IsInjective(f)
    BY DEF FallbackOK, IsInjective
<1>3. /\ g \in Seq(Remembered) /\ Len(g) <= Len(f) /\ IsInjective(g)
      /\ \A i \in 1 .. Len(g) : g[i] \in K /\ \E j \in 1 .. Len(f) : g[i] = f[j]
      /\ \A j \in 1 .. Len(f) : f[j] \in K => \E i \in 1 .. Len(g) : g[i] = f[j]
    <2>1. Keeps(Remembered, f, K, g)
        BY <1>1, KeptKeeps DEF Others
    <2> HIDE DEF K, g
    <2>2. QED
        BY <1>2, <2>1 DEF Keeps
<1> HIDE DEF g
<1>4. DOMAIN g = 1 .. Len(g) /\ Len(g) \in Nat
    BY <1>3, LenProperties
<1>5. \A i, j \in DOMAIN g : g[i].client = g[j].client => i = j
    <2> SUFFICES ASSUME NEW i \in DOMAIN g, NEW j \in DOMAIN g, g[i].client = g[j].client PROVE i = j
        OBVIOUS
    <2>1. PICK a \in 1 .. Len(f) : g[i] = f[a]
        BY <1>3, <1>4
    <2>2. PICK b \in 1 .. Len(f) : g[j] = f[b]
        BY <1>3, <1>4
    <2>3. a = b
        BY <1>1, <2>1, <2>2 DEF FallbackOK
    <2>4. QED
        BY <1>3, <2>1, <2>2, <2>3 DEF IsInjective
<1>6. FallbackOK(g)
    BY <1>1, <1>3, <1>4, <1>5, ClientsAre DEF FallbackOK
<1>7. ~Recalls(g, k)
    BY <1>3, <1>4 DEF Recalls
<1>8. ASSUME NEW c \in Clients \ {k}, Recalls(f, c) PROVE Recalls(g, c)
    <2>1. PICK j \in DOMAIN f : f[j].client = c
        BY <1>8 DEF Recalls
    <2>2. f[j] \in K
        <3>1. f[j] \in Remembered
            BY <1>1, <2>1
        <3>2. QED
            BY <2>1, <3>1 DEF Remembered, Kinds, Phases
    <2>3. PICK i \in 1 .. Len(g) : g[i] = f[j]
        BY <1>1, <1>3, <2>1, <2>2
    <2>4. QED
        BY <1>4, <2>1, <2>3 DEF Recalls
<1>9. QED
    BY <1>6, <1>7, <1>8 DEF g

\* The phases after one was released.
Added(f, k, phase) ==
    LET kept == Append(Others(f, k), [client |-> k, phase |-> phase])
    IN IF Len(kept) > MaxFallback THEN Tail(kept) ELSE kept

LEMMA AddedIs ==
    ASSUME NEW f, FallbackOK(f), NEW k \in Clients, NEW phase \in Kinds
    PROVE  /\ FallbackOK(Added(f, k, phase)) /\ Recalls(Added(f, k, phase), k)
           /\ Cardinality(Clients) <= MaxFallback => \A c \in Clients : Recalls(f, c) => Recalls(Added(f, k, phase), c)
<1> DEFINE g == Others(f, k)
           e == [client |-> k, phase |-> phase]
           kept == Append(g, e)
           n == Len(g)
           now == Added(f, k, phase)
<1>1. /\ g \in Seq(Remembered) /\ Len(g) <= MaxFallback /\ ~Recalls(g, k) /\ e \in Remembered /\ e.client = k
      /\ \A i, j \in DOMAIN g : g[i].client = g[j].client => i = j
      /\ \A c \in Clients \ {k} : Recalls(f, c) => Recalls(g, c)
    BY OthersAre DEF FallbackOK, Remembered
<1>2. now = IF Len(kept) > MaxFallback THEN Tail(kept) ELSE kept
    BY DEF Added
<1> HIDE DEF g, e, now
<1>3. /\ kept \in Seq(Remembered) /\ Len(kept) = n + 1 /\ n \in Nat /\ kept \in [1 .. n + 1 -> Remembered]
      /\ \A i \in 1 .. n + 1 : kept[i] = IF i = n + 1 THEN e ELSE g[i]
    BY <1>1, AppendIs
<1>4. DOMAIN kept = 1 .. n + 1 /\ DOMAIN g = 1 .. n
    BY <1>1, <1>3, LenProperties
<1> HIDE DEF kept, n
<1>5. \A i, j \in DOMAIN kept : kept[i].client = kept[j].client => i = j
    <2> SUFFICES ASSUME NEW i \in DOMAIN kept, NEW j \in DOMAIN kept, kept[i].client = kept[j].client PROVE i = j
        OBVIOUS
    <2>1. (i = n + 1 \/ i \in DOMAIN g) /\ (j = n + 1 \/ j \in DOMAIN g)
        BY <1>3, <1>4
    <2>2. \A a \in DOMAIN g : kept[a] = g[a] /\ g[a].client # k
        BY <1>1, <1>3, <1>4 DEF Recalls
    <2>3. kept[n + 1].client = k
        BY <1>1, <1>3
    <2>4. QED
        BY <1>1, <2>1, <2>2, <2>3
<1>6. Recalls(kept, k) /\ \A c \in Clients : Recalls(f, c) => Recalls(kept, c)
    <2>1. n + 1 \in DOMAIN kept /\ kept[n + 1].client = k
        BY <1>1, <1>3, <1>4
    <2>2. \A a \in DOMAIN g : a \in DOMAIN kept /\ kept[a] = g[a]
        BY <1>3, <1>4
    <2>3. \A c \in Clients \ {k} : Recalls(f, c) => Recalls(kept, c)
        BY <1>1, <2>2 DEF Recalls
    <2>4. Recalls(kept, k)
        BY <2>1 DEF Recalls
    <2>5. QED
        BY <2>3, <2>4
<1>7. n + 1 <= Cardinality(Clients)
    <2> DEFINE who == [i \in 1 .. n + 1 |-> kept[i].client]
    <2>1. \A i \in 1 .. n + 1 : kept[i].client \in Clients
        BY <1>3 DEF Remembered
    <2>2. who \in [1 .. n + 1 -> Clients] /\ IsInjective(who)
        BY <1>4, <1>5, <2>1 DEF IsInjective
    <2>3. who \in Injection(1 .. n + 1, Clients)
        BY <2>2 DEF Injection, IsInjective
    <2> HIDE DEF who
    <2>4. Cardinality(1 .. n + 1) <= Cardinality(Clients)
        BY <2>3, ClientsAre, FS_Injection
    <2>5. Cardinality(1 .. n + 1) = n + 1
        BY <1>3, FS_Interval
    <2>6. QED
        BY <2>4, <2>5
<1>8. CASE Len(kept) > MaxFallback
    <2> DEFINE rest == Tail(kept)
    <2>1. now = rest /\ n = MaxFallback /\ n # 0
        BY <1>1, <1>2, <1>3, <1>8, ClientsAre DEF n
    <2>2. rest \in Seq(Remembered) /\ Len(rest) = n /\ \A i \in 1 .. n : rest[i] = kept[i + 1]
        <3>1. kept # <<>>
            BY <1>3
        <3>2. rest \in Seq(Remembered) /\ Len(rest) = Len(kept) - 1 /\ \A i \in 1 .. Len(rest) : rest[i] = kept[i + 1]
            BY <1>3, <3>1, HeadTailProperties
        <3>3. QED
            BY <1>3, <3>2
    <2> HIDE DEF rest
    <2>3. DOMAIN rest = 1 .. n
        BY <2>2, LenProperties
    <2>4. \A i, j \in DOMAIN rest : rest[i].client = rest[j].client => i = j
        <3> SUFFICES ASSUME NEW i \in 1 .. n, NEW j \in 1 .. n, kept[i + 1].client = kept[j + 1].client PROVE i = j
            BY <2>2, <2>3
        <3>1. i + 1 \in DOMAIN kept /\ j + 1 \in DOMAIN kept
            BY <1>3, <1>4
        <3>2. i + 1 = j + 1
            BY <1>5, <3>1
        <3>3. QED
            BY <3>2
    <2>5. Recalls(rest, k)
        <3>1. n \in DOMAIN rest /\ rest[n] = kept[n + 1] /\ kept[n + 1].client = k
            BY <1>1, <1>3, <2>1, <2>2, <2>3
        <3>2. QED
            BY <3>1 DEF Recalls
    <2>6. ~(Cardinality(Clients) <= MaxFallback)
        BY <1>3, <1>7, <2>1, ClientsAre, FS_CardinalityType
    <2>7. QED
        BY <1>3, <2>1, <2>2, <2>4, <2>5, <2>6 DEF FallbackOK, now
<1>9. CASE ~(Len(kept) > MaxFallback)
    <2>1. now = kept /\ Len(kept) <= MaxFallback
        BY <1>2, <1>3, <1>9, ClientsAre
    <2>2. QED
        BY <1>3, <1>5, <1>6, <2>1 DEF FallbackOK, now
<1>10. QED
    BY <1>8, <1>9

-----------------------------------------------------------------------------
TableOf(serials, phase, pending, active, fallback) ==
    [serial |-> serials, phase |-> phase, pending |-> pending, active |-> active, fallback |-> fallback]

LEMMA SoundIs ==
    ASSUME NEW a \in [Sessions -> 0 .. MaxLogins], NEW b \in [Sessions -> Kinds \cup {NoFlow}],
           NEW c \in [Clients -> Seq(Sessions)], NEW d \in [Clients -> Sessions \cup {NoFlow}], NEW e,
           \A s \in Sessions : a[s] # 0 <=> b[s] # NoFlow,
           \A k \in Clients : QueueOK(c[k], d[k], a, k),
           FallbackOK(e), Cardinality(Clients) <= MaxFallback => Covered(a, c, d, e)
    PROVE  Sound(TableOf(a, b, c, d, e))
BY DEF Sound, Table, TableOf, FallbackOK

LEMMA SoundFields ==
    ASSUME NEW t, Sound(t)
    PROVE  /\ t = TableOf(t.serial, t.phase, t.pending, t.active, t.fallback)
           /\ t.serial \in [Sessions -> 0 .. MaxLogins] /\ t.phase \in [Sessions -> Kinds \cup {NoFlow}]
           /\ t.pending \in [Clients -> Seq(Sessions)] /\ t.active \in [Clients -> Sessions \cup {NoFlow}]
           /\ \A s \in Sessions : t.serial[s] # 0 <=> t.phase[s] # NoFlow
           /\ \A k \in Clients : QueueOK(t.pending[k], t.active[k], t.serial, k)
           /\ FallbackOK(t.fallback)
           /\ Cardinality(Clients) <= MaxFallback => Covered(t.serial, t.pending, t.active, t.fallback)
BY TableIs DEF Sound, TableOf

\* A login is gone: it waits no more, and the others of its client still do.
LEMMA QueueShrinks ==
    ASSUME NEW q, NEW a, NEW serials \in [Sessions -> 0 .. MaxLogins], NEW k \in Clients, NEW s \in Sessions,
           QueueOK(q, a, serials, k)
    PROVE  /\ QueueOK(Kept(q, Sessions \ {s}), IF a = s THEN NoFlow ELSE a, [serials EXCEPT ![s] = 0], k)
           /\ \A x \in Sessions \ {s} : In(q, x) => In(Kept(q, Sessions \ {s}), x)
<1> DEFINE K == Sessions \ {s}
           r == Kept(q, K)
           now == [serials EXCEPT ![s] = 0]
           b == IF a = s THEN NoFlow ELSE a
<1>1. q \in Seq(Sessions) /\ DOMAIN q = 1 .. Len(q) /\ IsInjective(q)
    BY LenProperties DEF QueueOK
<1>2. /\ r \in Seq(Sessions) /\ Len(r) <= Len(q)
      /\ \A i \in 1 .. Len(r) : r[i] \in K /\ \E j \in 1 .. Len(q) : r[i] = q[j]
      /\ \A j \in 1 .. Len(q) : q[j] \in K => \E i \in 1 .. Len(r) : r[i] = q[j]
      /\ IsInjective(q) => IsInjective(r)
    <2>1. Keeps(Sessions, q, K, r)
        BY <1>1, KeptKeeps
    <2> HIDE DEF K, r
    <2>2. QED
        BY <2>1 DEF Keeps
<1> HIDE DEF r
<1>3. DOMAIN r = 1 .. Len(r)
    BY <1>2, LenProperties
<1>4. \A x \in K : now[x] = serials[x]
    OBVIOUS
<1>5. ASSUME NEW i \in DOMAIN r PROVE ClientOf[r[i]] = k /\ now[r[i]] # 0 /\ r[i] # b
    <2>1. PICK j \in DOMAIN q : r[i] = q[j]
        BY <1>1, <1>2, <1>3
    <2>2. r[i] \in K /\ ClientOf[q[j]] = k /\ serials[q[j]] # 0 /\ q[j] # a
        BY <1>2, <1>3 DEF QueueOK
    <2>3. q[j] # NoFlow
        BY <2>1, <2>2, NoFlowIsNothing
    <2>4. QED
        BY <1>4, <2>1, <2>2, <2>3
<1>6. b # NoFlow => b \in Sessions /\ ClientOf[b] = k /\ now[b] # 0
    BY <1>4 DEF QueueOK
<1>7. \A x \in K : In(q, x) => In(r, x)
    BY <1>1, <1>2, <1>3 DEF In
<1>8. QueueOK(r, b, now, k)
    <2> HIDE DEF b, now
    <2>1. QED
        BY <1>1, <1>2, <1>5, <1>6 DEF QueueOK
<1>9. QED
    BY <1>7, <1>8 DEF r

\* Forgetting a login keeps the tracker sound, and the other logins' flows.
LEMMA ForgetIs ==
    ASSUME NEW t, Sound(t), NEW s \in Sessions
    PROVE  /\ Sound(Forget(t, s))
           /\ Forget(t, s).serial = [t.serial EXCEPT ![s] = 0] /\ Forget(t, s).phase = [t.phase EXCEPT ![s] = NoFlow]
<1> DEFINE k == ClientOf[s]
           a == [t.serial EXCEPT ![s] = 0]
           b == [t.phase EXCEPT ![s] = NoFlow]
           q == Kept(t.pending[k], Sessions \ {s})
           c == [t.pending EXCEPT ![k] = q]
           d == [t.active EXCEPT ![k] = IF @ = s THEN NoFlow ELSE @]
           dropped == TableOf(a, b, c, d, t.fallback)
           bare == TableOf(a, b, [t.pending EXCEPT ![k] = <<>>], d, Others(t.fallback, k))
           some == \E o \in Sessions : a[o] # 0 /\ ClientOf[o] = k
<1>1. k \in Clients /\ \A x \in Sessions : ClientOf[x] \in Clients
    BY ClientsAre
<1>2. /\ t = TableOf(t.serial, t.phase, t.pending, t.active, t.fallback)
      /\ t.serial \in [Sessions -> 0 .. MaxLogins] /\ t.phase \in [Sessions -> Kinds \cup {NoFlow}]
      /\ t.pending \in [Clients -> Seq(Sessions)] /\ t.active \in [Clients -> Sessions \cup {NoFlow}]
      /\ \A x \in Sessions : t.serial[x] # 0 <=> t.phase[x] # NoFlow
      /\ \A x \in Clients : QueueOK(t.pending[x], t.active[x], t.serial, x)
      /\ FallbackOK(t.fallback)
      /\ Cardinality(Clients) <= MaxFallback => Covered(t.serial, t.pending, t.active, t.fallback)
    BY SoundFields
<1>3. Forget(t, s) = IF some THEN dropped ELSE bare
    <2> DEFINE e == [t EXCEPT !.serial[s] = 0, !.phase[s] = NoFlow, !.active[k] = IF @ = s THEN NoFlow ELSE @,
                              !.pending[k] = Kept(@, Sessions \ {s})]
               f == WithoutFallback([e EXCEPT !.pending[k] = <<>>], k)
    <2>1. Forget(t, s) = IF \E o \in Tracked(e) : ClientOf[o] = k THEN e ELSE f
        BY DEF Forget
    <2>2. e = dropped
        <3>1. /\ t = TableOf(t.serial, t.phase, t.pending, t.active, t.fallback)
              /\ t.serial \in [Sessions -> 0 .. MaxLogins] /\ t.phase \in [Sessions -> Kinds \cup {NoFlow}]
              /\ t.pending \in [Clients -> Seq(Sessions)] /\ t.active \in [Clients -> Sessions \cup {NoFlow}]
            BY <1>2
        <3>2. e = [t EXCEPT !.serial = a, !.phase = b, !.active = d, !.pending = c]
            OBVIOUS
        <3> HIDE DEF a, b, c, d, e
        <3>3. QED
            BY <3>1, <3>2 DEF TableOf
    <2> HIDE DEF e
    <2>3. f = bare
        <3>1. [e EXCEPT !.pending[k] = <<>>] = TableOf(a, b, [t.pending EXCEPT ![k] = <<>>], d, t.fallback)
            BY <2>2 DEF TableOf
        <3> DEFINE w == [e EXCEPT !.pending[k] = <<>>]
                   none == [t.pending EXCEPT ![k] = <<>>]
        <3>2. f = [w EXCEPT !.fallback = Others(w.fallback, k)]
            BY DEF WithoutFallback, Others
        <3>3. w = TableOf(a, b, none, d, t.fallback) /\ bare = TableOf(a, b, none, d, Others(t.fallback, k))
            BY <3>1
        <3> HIDE DEF w, a, b, none, d, f, bare
        <3>4. QED
            BY <3>2, <3>3 DEF TableOf
    <2>4. (\E o \in Tracked(e) : ClientOf[o] = k) <=> some
        BY <2>2 DEF Tracked, TableOf
    <2> HIDE DEF f, some
    <2>5. QED
        BY <2>1, <2>2, <2>3, <2>4
<1> DEFINE now == d[k]
<1>4. /\ QueueOK(q, now, a, k) /\ now = (IF t.active[k] = s THEN NoFlow ELSE t.active[k])
      /\ \A x \in Sessions \ {s} : In(t.pending[k], x) => In(q, x)
    <2>1. QueueOK(t.pending[k], t.active[k], t.serial, k)
        BY <1>1, <1>2
    <2>2. now = (IF t.active[k] = s THEN NoFlow ELSE t.active[k])
        BY <1>1, <1>2
    <2> DEFINE old == t.active[k]
    <2>3. QueueOK(t.pending[k], old, t.serial, k) /\ t.serial \in [Sessions -> 0 .. MaxLogins] /\ k \in Clients
        BY <1>1, <1>2, <2>1
    <2> HIDE DEF old, k
    <2>4. /\ QueueOK(q, IF old = s THEN NoFlow ELSE old, a, k)
          /\ \A x \in Sessions \ {s} : In(t.pending[k], x) => In(q, x)
        BY <2>3, QueueShrinks
    <2>5. QED
        BY <2>2, <2>4 DEF old, k
<1> HIDE DEF q
<1>5. a \in [Sessions -> 0 .. MaxLogins] /\ b \in [Sessions -> Kinds \cup {NoFlow}] /\ a[s] = 0 /\ b[s] = NoFlow
    BY <1>2, OnlineAssumption
<1>6. /\ d \in [Clients -> Sessions \cup {NoFlow}] /\ c \in [Clients -> Seq(Sessions)]
      /\ [t.pending EXCEPT ![k] = <<>>] \in [Clients -> Seq(Sessions)]
    <2>1. q \in Seq(Sessions) /\ <<>> \in Seq(Sessions)
        BY <1>4, EmptySeq DEF QueueOK
    <2>2. QED
        BY <1>1, <1>2, <2>1
<1>7. \A x \in Sessions : x # s => a[x] = t.serial[x] /\ b[x] = t.phase[x]
    BY <1>2
<1>8. \A x \in Sessions : a[x] # 0 <=> b[x] # NoFlow
    BY <1>2, <1>5, <1>7
<1>9. \A x \in Clients : x # k => c[x] = t.pending[x] /\ d[x] = t.active[x]
    BY <1>1, <1>2
<1>10. c[k] = q
    BY <1>1, <1>2
<1> DEFINE p == [t.pending EXCEPT ![k] = <<>>]
<1>11. p[k] = <<>> /\ \A x \in Clients : x # k => p[x] = t.pending[x]
    BY <1>1, <1>2
<1> HIDE DEF a, b, c, d, p
<1>12. ASSUME NEW x \in Clients, x # k PROVE QueueOK(t.pending[x], t.active[x], a, x)
    <2>1. QueueOK(t.pending[x], t.active[x], t.serial, x)
        BY <1>2
    <2>2. ASSUME NEW i \in DOMAIN t.pending[x] PROVE a[t.pending[x][i]] # 0
        <3>1. t.pending[x][i] \in Sessions /\ ClientOf[t.pending[x][i]] = x /\ t.serial[t.pending[x][i]] # 0
            BY <2>1, LenProperties DEF QueueOK
        <3>2. QED
            BY <1>7, <1>12, <3>1
    <2>3. t.active[x] # NoFlow => a[t.active[x]] # 0
        BY <1>7, <1>12, <2>1 DEF QueueOK
    <2>4. QED
        BY <2>1, <2>2, <2>3 DEF QueueOK
<1>13. CASE some
    <2>1. \A x \in Clients : QueueOK(c[x], d[x], a, x)
        BY <1>4, <1>9, <1>10, <1>12
    <2>2. ASSUME Cardinality(Clients) <= MaxFallback PROVE Covered(a, c, d, t.fallback)
        <3> SUFFICES ASSUME NEW x \in Sessions, a[x] # 0
                     PROVE  d[ClientOf[x]] = x \/ In(c[ClientOf[x]], x) \/ Recalls(t.fallback, ClientOf[x])
            BY DEF Covered
        <3>1. x # s /\ t.serial[x] # 0
            BY <1>5, <1>7
        <3>2. t.active[ClientOf[x]] = x \/ In(t.pending[ClientOf[x]], x) \/ Recalls(t.fallback, ClientOf[x])
            BY <1>2, <2>2, <3>1 DEF Covered
        <3>3. QED
            BY <1>1, <1>4, <1>9, <1>10, <3>1, <3>2
    <2>3. Sound(dropped)
        BY <1>2, <1>5, <1>6, <1>8, <2>1, <2>2, SoundIs
    <2>4. QED
        BY <1>3, <1>13, <2>3 DEF TableOf, a, b
<1>14. CASE ~some
    <2>1. QueueOK(<<>>, d[k], a, k)
        <3>1. <<>> \in Seq(Sessions) /\ DOMAIN <<>> = {} /\ IsInjective(<<>>)
            BY EmptySeq DEF IsInjective
        <3>2. QED
            BY <1>4, <3>1 DEF QueueOK
    <2>2. \A x \in Clients : QueueOK(p[x], d[x], a, x)
        BY <1>9, <1>11, <1>12, <2>1
    <2>3. /\ FallbackOK(Others(t.fallback, k))
          /\ \A x \in Clients \ {k} : Recalls(t.fallback, x) => Recalls(Others(t.fallback, k), x)
        BY <1>1, <1>2, OthersAre
    <2>4. ASSUME Cardinality(Clients) <= MaxFallback PROVE Covered(a, p, d, Others(t.fallback, k))
        <3> SUFFICES ASSUME NEW x \in Sessions, a[x] # 0
                     PROVE  d[ClientOf[x]] = x \/ In(p[ClientOf[x]], x) \/ Recalls(Others(t.fallback, k), ClientOf[x])
            BY DEF Covered
        <3>1. x # s /\ t.serial[x] # 0 /\ ClientOf[x] # k /\ ClientOf[x] \in Clients
            BY <1>1, <1>5, <1>7, <1>14
        <3>2. t.active[ClientOf[x]] = x \/ In(t.pending[ClientOf[x]], x) \/ Recalls(t.fallback, ClientOf[x])
            BY <1>2, <2>4, <3>1 DEF Covered
        <3>3. QED
            BY <1>9, <1>11, <2>3, <3>1, <3>2
    <2>5. p \in [Clients -> Seq(Sessions)]
        BY <1>6 DEF p
    <2>6. Sound(TableOf(a, b, p, d, Others(t.fallback, k)))
        BY <1>5, <1>6, <1>8, <2>2, <2>3, <2>4, <2>5, SoundIs
    <2>7. QED
        BY <1>3, <1>14, <2>6 DEF TableOf, a, b, p
<1>15. QED
    BY <1>13, <1>14

\* A login waits once: it is appended unless it waits already or is active.
Waits(q, a, s) == IF a # s /\ s \notin ToSet(q) THEN Append(q, s) ELSE q
Awaits(q, a, s, r) == (a = s \/ In(r, s)) /\ \A x \in Sessions : In(q, x) => In(r, x)

LEMMA QueueGrows ==
    ASSUME NEW q, NEW a, NEW serials \in [Sessions -> 0 .. MaxLogins], NEW now \in [Sessions -> 0 .. MaxLogins],
           NEW k \in Clients, NEW s \in Sessions, QueueOK(q, a, serials, k),
           \A x \in Sessions : serials[x] # 0 => now[x] # 0, now[s] # 0, ClientOf[s] = k
    PROVE  QueueOK(Waits(q, a, s), a, now, k) /\ Awaits(q, a, s, Waits(q, a, s))
<1> DEFINE n == Len(q)
           r == Waits(q, a, s)
<1>0. r = (IF a # s /\ s \notin ToSet(q) THEN Append(q, s) ELSE q)
    BY DEF Waits
<1> HIDE DEF r
<1>1. q \in Seq(Sessions) /\ DOMAIN q = 1 .. n /\ n \in Nat /\ IsInjective(q) /\ \A i \in 1 .. n : q[i] \in Sessions
    BY LenProperties DEF QueueOK
<1>2. QueueOK(q, a, now, k)
    <2>1. \A i \in DOMAIN q : now[q[i]] # 0
        BY <1>1 DEF QueueOK
    <2>2. a # NoFlow => now[a] # 0
        BY DEF QueueOK
    <2>3. QED
        BY <2>1, <2>2 DEF QueueOK
<1>3. CASE a # s /\ s \notin ToSet(q)
    <2>1. /\ r \in Seq(Sessions) /\ r \in [1 .. n + 1 -> Sessions]
          /\ \A i \in 1 .. n + 1 : r[i] = IF i = n + 1 THEN s ELSE q[i]
        <3> DEFINE R == Sessions
        <3>1. q \in Seq(R) /\ s \in R /\ r = Append(q, s)
            BY <1>0, <1>1, <1>3
        <3> HIDE DEF R
        <3>2. r \in Seq(R) /\ r \in [1 .. n + 1 -> R] /\ \A i \in 1 .. n + 1 : r[i] = IF i = n + 1 THEN s ELSE q[i]
            BY <3>1, AppendIs
        <3>3. QED
            BY <3>2 DEF R
    <2> HIDE DEF n
    <2>2. DOMAIN r = 1 .. n + 1 /\ r[n + 1] = s /\ n + 1 \in DOMAIN r /\ \A i \in 1 .. n : i \in DOMAIN r /\ r[i] = q[i]
        BY <1>1, <2>1
    <2>3. \A i \in DOMAIN r : i = n + 1 \/ i \in 1 .. n
        BY <1>1, <2>2
    <2>4. \A i \in 1 .. n : q[i] # s
        BY <1>1, <1>3 DEF ToSet
    <2>5. IsInjective(r)
        <3> SUFFICES ASSUME NEW i \in DOMAIN r, NEW j \in DOMAIN r, r[i] = r[j] PROVE i = j
            BY DEF IsInjective
        <3>1. QED
            BY <1>1, <2>2, <2>3, <2>4 DEF IsInjective
    <2>6. \A i \in DOMAIN r : ClientOf[r[i]] = k /\ now[r[i]] # 0 /\ r[i] # a
        BY <1>1, <1>2, <1>3, <2>2, <2>3 DEF QueueOK
    <2>7. QueueOK(r, a, now, k)
        BY <1>2, <2>1, <2>5, <2>6 DEF QueueOK
    <2>8. In(r, s) /\ \A x \in Sessions : In(q, x) => In(r, x)
        BY <1>1, <2>2 DEF In
    <2>9. QED
        BY <2>7, <2>8 DEF Awaits, r
<1>4. CASE ~(a # s /\ s \notin ToSet(q))
    <2>1. r = q /\ (a = s \/ In(q, s))
        BY <1>0, <1>4 DEF ToSet, In
    <2>2. QED
        BY <1>2, <2>1 DEF Awaits, r
<1>5. QED
    BY <1>3, <1>4

\* Arming a login starts a flow where there is none, and leaves the others be.
LEMMA ArmIs ==
    ASSUME NEW t, Sound(t), NEW s \in Sessions, NEW given \in 1 .. MaxLogins
    PROVE  LET u == ArmWorld([t EXCEPT !.serial[s] = given], s)
           IN  /\ Sound(u) /\ u.serial = [t.serial EXCEPT ![s] = given]
               /\ u.phase = [t.phase EXCEPT ![s] = IF @ = NoFlow THEN "WORLD" ELSE @]
<1> DEFINE k == ClientOf[s]
           a == [t.serial EXCEPT ![s] = given]
           b == [t.phase EXCEPT ![s] = IF @ = NoFlow THEN "WORLD" ELSE @]
           r == IF t.active[k] # s /\ s \notin ToSet(t.pending[k]) THEN Append(t.pending[k], s) ELSE t.pending[k]
           c == [t.pending EXCEPT ![k] = r]
           u == ArmWorld([t EXCEPT !.serial[s] = given], s)
<1>1. k \in Clients /\ \A x \in Sessions : ClientOf[x] \in Clients
    BY ClientsAre
<1>2. /\ t = TableOf(t.serial, t.phase, t.pending, t.active, t.fallback)
      /\ t.serial \in [Sessions -> 0 .. MaxLogins] /\ t.phase \in [Sessions -> Kinds \cup {NoFlow}]
      /\ t.pending \in [Clients -> Seq(Sessions)] /\ t.active \in [Clients -> Sessions \cup {NoFlow}]
    BY SoundFields
<1>3. /\ \A x \in Sessions : t.serial[x] # 0 <=> t.phase[x] # NoFlow
      /\ \A x \in Clients : QueueOK(t.pending[x], t.active[x], t.serial, x)
      /\ FallbackOK(t.fallback)
      /\ Cardinality(Clients) <= MaxFallback => Covered(t.serial, t.pending, t.active, t.fallback)
    BY SoundFields
<1>4. u = TableOf(a, b, c, t.active, t.fallback)
    <2> DEFINE e == [t EXCEPT !.serial[s] = given]
               ph == [e.phase EXCEPT ![s] = IF @ = NoFlow THEN "WORLD" ELSE @]
               wait(act, pend) == IF act[k] # s /\ s \notin ToSet(pend[k]) THEN Append(pend[k], s) ELSE pend[k]
               pe == [e.pending EXCEPT ![k] = wait(e.active, e.pending)]
    <2>1. e = [t EXCEPT !.serial = a]
        OBVIOUS
    <2>2. u = ArmWorld(e, s)
        OBVIOUS
    <2>3. c = [t.pending EXCEPT ![k] = wait(t.active, t.pending)]
        OBVIOUS
    <2> HIDE DEF e, a, u
    <2>4. u = [e EXCEPT !.phase = ph, !.pending = pe]
        BY <2>2 DEF ArmWorld
    <2> HIDE DEF wait
    <2>5. e = TableOf(a, t.phase, t.pending, t.active, t.fallback)
        BY <1>2, <2>1 DEF TableOf
    <2>6. e.phase = t.phase /\ e.pending = t.pending /\ e.active = t.active
        BY <2>5 DEF TableOf
    <2>7. ph = b /\ pe = c
        BY <2>3, <2>6
    <2> HIDE DEF b, c, ph, pe
    <2>8. QED
        BY <2>4, <2>5, <2>7 DEF TableOf
<1>5. a \in [Sessions -> 0 .. MaxLogins] /\ b \in [Sessions -> Kinds \cup {NoFlow}] /\ a[s] # 0 /\ b[s] # NoFlow
    <2>1. "WORLD" # NoFlow /\ "WORLD" \in Kinds
        BY NoFlowIsNothing DEF Phases, Kinds
    <2>2. given \in 0 .. MaxLogins /\ given # 0
        BY OnlineAssumption
    <2>3. QED
        BY <1>2, <2>1, <2>2
<1>6. \A x \in Sessions : x # s => a[x] = t.serial[x] /\ b[x] = t.phase[x]
    BY <1>2
<1>7. c[k] = r /\ \A x \in Clients : x # k => c[x] = t.pending[x]
    BY <1>1, <1>2
<1> HIDE DEF a, b, u
<1>8. \A x \in Sessions : t.serial[x] # 0 => a[x] # 0
    BY <1>5, <1>6
<1> DEFINE q == t.pending[k]
           act == t.active[k]
<1>9. QueueOK(r, act, a, k) /\ (act = s \/ In(r, s)) /\ \A x \in Sessions : In(q, x) => In(r, x)
    <2> DEFINE ser == t.serial
    <2>1. QueueOK(q, act, ser, k) /\ r = Waits(q, act, s)
        BY <1>1, <1>3 DEF Waits
    <2>2. ClientOf[s] = k /\ ser \in [Sessions -> 0 .. MaxLogins] /\ \A x \in Sessions : ser[x] # 0 => a[x] # 0
        BY <1>2, <1>8
    <2> HIDE DEF q, act, r, k, ser
    <2>3. QueueOK(Waits(q, act, s), act, a, k) /\ Awaits(q, act, s, Waits(q, act, s))
        BY <1>1, <1>5, <2>1, <2>2, QueueGrows
    <2>4. QED
        BY <2>1, <2>3 DEF Awaits
<1>10. r \in Seq(Sessions)
    BY <1>9 DEF QueueOK
<1> HIDE DEF r
<1>11. c \in [Clients -> Seq(Sessions)]
    BY <1>2, <1>10
<1> HIDE DEF c
<1>12. ASSUME NEW x \in Clients PROVE QueueOK(c[x], t.active[x], a, x)
    <2>1. CASE x = k
        BY <1>7, <1>9, <2>1
    <2>2. CASE x # k
        <3>1. QueueOK(t.pending[x], t.active[x], t.serial, x) /\ c[x] = t.pending[x]
            BY <1>3, <1>7, <2>2
        <3>2. \A i \in DOMAIN t.pending[x] : t.pending[x][i] \in Sessions
            BY <3>1, LenProperties DEF QueueOK
        <3>3. QED
            BY <1>8, <3>1, <3>2 DEF QueueOK
    <2>3. QED
        BY <2>1, <2>2
<1>13. ASSUME Cardinality(Clients) <= MaxFallback PROVE Covered(a, c, t.active, t.fallback)
    <2> SUFFICES ASSUME NEW x \in Sessions, a[x] # 0
                 PROVE  t.active[ClientOf[x]] = x \/ In(c[ClientOf[x]], x) \/ Recalls(t.fallback, ClientOf[x])
        BY DEF Covered
    <2>1. CASE x = s
        BY <1>7, <1>9, <2>1
    <2>2. CASE x # s
        <3>1. t.active[ClientOf[x]] = x \/ In(t.pending[ClientOf[x]], x) \/ Recalls(t.fallback, ClientOf[x])
            BY <1>3, <1>6, <1>13, <2>2 DEF Covered
        <3>2. QED
            BY <1>1, <1>7, <1>9, <3>1
    <2>3. QED
        BY <2>1, <2>2
<1>14. \A x \in Sessions : a[x] # 0 <=> b[x] # NoFlow
    BY <1>3, <1>5, <1>6
<1>15. Sound(TableOf(a, b, c, t.active, t.fallback))
    BY <1>2, <1>3, <1>5, <1>11, <1>12, <1>13, <1>14, SoundIs
<1>16. Sound(u) /\ u.serial = a /\ u.phase = b
    BY <1>4, <1>15 DEF TableOf
<1>17. QED
    BY <1>16 DEF a, b, u

LEMMA RememberIs ==
    ASSUME NEW a, NEW b, NEW c, NEW d, NEW e, NEW k, NEW phase
    PROVE  RememberFallback(TableOf(a, b, c, d, e), k, phase) = TableOf(a, b, c, d, Added(e, k, phase))
<1> DEFINE t == TableOf(a, b, c, d, e)
<1>1. t.fallback = e
    BY DEF TableOf
<1>2. WithoutFallback(t, k).fallback = Others(e, k)
    <2>1. WithoutFallback(t, k) = [t EXCEPT !.fallback = Others(t.fallback, k)]
        BY DEF WithoutFallback, Others
    <2>2. QED
        BY <1>1, <2>1 DEF TableOf
<1>3. RememberFallback(t, k, phase) = [t EXCEPT !.fallback = Added(e, k, phase)]
    BY <1>2 DEF RememberFallback, Added
<1>4. QED
    BY <1>3 DEF TableOf

\* What claim reads of the released phases.
LEMMA FallbackIs ==
    ASSUME NEW t, FallbackOK(t.fallback), NEW k
    PROVE  IF Recalls(t.fallback, k) THEN Fallback(t, k) \in Kinds ELSE Fallback(t, k) = NoFlow
<1> DEFINE f == t.fallback
           kept == {i \in DOMAIN f : f[i].client = k}
<1>1. f \in Seq(Remembered) /\ DOMAIN f \in SUBSET Nat /\ \A i \in DOMAIN f : f[i].phase \in Kinds
    <2> DEFINE R == Remembered
    <2>1. f \in Seq(R)
        BY DEF FallbackOK
    <2>2. \A x \in R : x.phase \in Kinds
        BY DEF Remembered
    <2> HIDE DEF R
    <2>3. f \in [1 .. Len(f) -> R] /\ Len(f) \in Nat
        BY <2>1, LenProperties
    <2>4. QED
        BY <2>1, <2>2, <2>3 DEF R
<1>2. Fallback(t, k) = IF kept = {} THEN NoFlow ELSE f[Min(kept)].phase
    BY DEF Fallback
<1>3. kept # {} => Min(kept) \in kept
    <2>1. kept \in SUBSET Nat
        BY <1>1
    <2> HIDE DEF kept
    <2>2. QED
        BY <2>1, MinIs
<1>4. QED
    BY <1>1, <1>2, <1>3 DEF Recalls

\* A kept phase stands in for the flow of its client that is no longer active.
LEMMA FinishedIs ==
    ASSUME NEW t, Sound(t), NEW k \in Clients, NEW phase \in Kinds, NEW ph \in [Sessions -> Kinds \cup {NoFlow}],
           \A s \in Sessions : t.phase[s] # NoFlow <=> ph[s] # NoFlow,
           NEW d \in [Clients -> Sessions \cup {NoFlow}], \A x \in Clients : d[x] = t.active[x] \/ (x = k /\ d[x] = NoFlow)
    PROVE  Sound(TableOf(t.serial, ph, t.pending, d, Added(t.fallback, k, phase)))
<1> DEFINE e == Added(t.fallback, k, phase)
<1>1. /\ t.serial \in [Sessions -> 0 .. MaxLogins] /\ t.pending \in [Clients -> Seq(Sessions)]
      /\ \A x \in Sessions : t.serial[x] # 0 <=> t.phase[x] # NoFlow
      /\ \A x \in Clients : QueueOK(t.pending[x], t.active[x], t.serial, x)
      /\ FallbackOK(t.fallback)
      /\ Cardinality(Clients) <= MaxFallback => Covered(t.serial, t.pending, t.active, t.fallback)
    BY SoundFields
<1>2. /\ FallbackOK(e) /\ Recalls(e, k)
      /\ Cardinality(Clients) <= MaxFallback => \A c \in Clients : Recalls(t.fallback, c) => Recalls(e, c)
    BY <1>1, AddedIs
<1> HIDE DEF e
<1>3. ASSUME NEW x \in Clients PROVE QueueOK(t.pending[x], d[x], t.serial, x)
    <2>1. QueueOK(t.pending[x], t.active[x], t.serial, x) /\ (d[x] = t.active[x] \/ d[x] = NoFlow)
        BY <1>1
    <2>2. \A i \in DOMAIN t.pending[x] : t.pending[x][i] # NoFlow
        BY <2>1, LenProperties, NoFlowIsNothing DEF QueueOK
    <2>3. QED
        BY <2>1, <2>2 DEF QueueOK
<1>4. ASSUME Cardinality(Clients) <= MaxFallback PROVE Covered(t.serial, t.pending, d, e)
    <2> SUFFICES ASSUME NEW x \in Sessions, t.serial[x] # 0
                 PROVE  d[ClientOf[x]] = x \/ In(t.pending[ClientOf[x]], x) \/ Recalls(e, ClientOf[x])
        BY DEF Covered
    <2>1. ClientOf[x] \in Clients
        BY ClientsAre
    <2>2. t.active[ClientOf[x]] = x \/ In(t.pending[ClientOf[x]], x) \/ Recalls(t.fallback, ClientOf[x])
        BY <1>1, <1>4 DEF Covered
    <2>3. QED
        BY <1>2, <1>4, <2>1, <2>2
<1>5. Sound(TableOf(t.serial, ph, t.pending, d, e))
    BY <1>1, <1>2, <1>3, <1>4, SoundIs
<1>6. QED
    BY <1>5 DEF e

LEMMA RemembersIs ==
    ASSUME NEW t, Sound(t), NEW k \in Clients, NEW phase \in Kinds
    PROVE  /\ Sound(RememberFallback(t, k, phase)) /\ RememberFallback(t, k, phase).serial = t.serial
           /\ RememberFallback(t, k, phase).phase = t.phase
<1>1. /\ t = TableOf(t.serial, t.phase, t.pending, t.active, t.fallback)
      /\ t.phase \in [Sessions -> Kinds \cup {NoFlow}] /\ t.active \in [Clients -> Sessions \cup {NoFlow}]
    BY SoundFields
<1>2. RememberFallback(t, k, phase) = TableOf(t.serial, t.phase, t.pending, t.active, Added(t.fallback, k, phase))
    BY <1>1, RememberIs
<1>3. Sound(TableOf(t.serial, t.phase, t.pending, t.active, Added(t.fallback, k, phase)))
    BY <1>1, FinishedIs
<1>4. QED
    BY <1>2, <1>3 DEF TableOf

LEMMA AdvancedIs ==
    ASSUME NEW t, Sound(t), NEW k \in Clients, NEW owner \in Sessions \cup {NoFlow}, NEW phase \in Kinds
    PROVE  Sound(Advanced(t, k, owner, phase))
<1>1. CASE owner = NoFlow
    BY <1>1, RemembersIs DEF Advanced
<1>2. CASE owner # NoFlow /\ t.phase[owner] = NoFlow
    BY <1>2 DEF Advanced
<1>3. CASE owner # NoFlow /\ t.phase[owner] # NoFlow
    <2> DEFINE b == [t.phase EXCEPT ![owner] = phase]
    <2>1. Advanced(t, k, owner, phase) = [t EXCEPT !.phase = b]
        BY <1>3 DEF Advanced
    <2>2. /\ t = TableOf(t.serial, t.phase, t.pending, t.active, t.fallback)
          /\ t.serial \in [Sessions -> 0 .. MaxLogins] /\ t.phase \in [Sessions -> Kinds \cup {NoFlow}]
          /\ t.pending \in [Clients -> Seq(Sessions)] /\ t.active \in [Clients -> Sessions \cup {NoFlow}]
          /\ \A x \in Sessions : t.serial[x] # 0 <=> t.phase[x] # NoFlow
        BY SoundFields
    <2>3. phase # NoFlow
        BY NoFlowIsNothing DEF Kinds, Phases
    <2>4. b \in [Sessions -> Kinds \cup {NoFlow}] /\ \A x \in Sessions : t.serial[x] # 0 <=> b[x] # NoFlow
        BY <1>3, <2>2, <2>3
    <2> HIDE DEF b
    <2>5. Advanced(t, k, owner, phase) = TableOf(t.serial, b, t.pending, t.active, t.fallback)
        BY <2>1, <2>2 DEF TableOf
    <2>6. Sound(TableOf(t.serial, b, t.pending, t.active, t.fallback))
        BY <2>2, <2>4, SoundFields, SoundIs
    <2>7. QED
        BY <2>5, <2>6
<1>4. QED
    BY <1>1, <1>2, <1>3

LEMMA ReleasedIs ==
    ASSUME NEW t, Sound(t), NEW k \in Clients, NEW owner \in Sessions \cup {NoFlow}
    PROVE  Sound(Released(t, k, owner))
<1> DEFINE b == [t.phase EXCEPT ![owner] = IF @ # NoFlow THEN "LAND" ELSE @]
           d == [t.active EXCEPT ![k] = IF @ = owner THEN NoFlow ELSE @]
           ended == [t EXCEPT !.phase = b, !.active = d]
<1>1. "LAND" \in Kinds /\ "LAND" # NoFlow
    BY NoFlowIsNothing DEF Kinds, Phases
<1>2. CASE owner = NoFlow
    BY <1>1, <1>2, RemembersIs DEF Released
<1>3. CASE owner # NoFlow
    <2>1. /\ t = TableOf(t.serial, t.phase, t.pending, t.active, t.fallback)
          /\ t.phase \in [Sessions -> Kinds \cup {NoFlow}] /\ t.active \in [Clients -> Sessions \cup {NoFlow}]
        BY SoundFields
    <2>2. Released(t, k, owner) = RememberFallback(ended, k, "LAND")
        BY <1>3 DEF Released
    <2>3. b \in [Sessions -> Kinds \cup {NoFlow}] /\ \A x \in Sessions : t.phase[x] # NoFlow <=> b[x] # NoFlow
        BY <1>1, <1>3, <2>1
    <2>4. d \in [Clients -> Sessions \cup {NoFlow}] /\ \A x \in Clients : d[x] = t.active[x] \/ (x = k /\ d[x] = NoFlow)
        BY <2>1
    <2> DEFINE mid == [t EXCEPT !.phase = b]
    <2>5. ended = [mid EXCEPT !.active = d]
        OBVIOUS
    <2> HIDE DEF b, d, ended
    <2>6. mid = TableOf(t.serial, b, t.pending, t.active, t.fallback)
        BY <2>1 DEF TableOf
    <2> HIDE DEF mid
    <2>7. ended = TableOf(t.serial, b, t.pending, d, t.fallback)
        BY <2>5, <2>6 DEF TableOf
    <2>8. Sound(TableOf(t.serial, b, t.pending, d, Added(t.fallback, k, "LAND")))
        BY <1>1, <2>3, <2>4, FinishedIs
    <2>9. QED
        BY <2>2, <2>7, <2>8, RememberIs
<1>4. QED
    BY <1>2, <1>3

\* A connection gets the flow of a login of its client, and one that is tracked
\* has a flow.
LEMMA ClaimedIs ==
    ASSUME NEW t, Sound(t), NEW k \in Clients
    PROVE  LET c == Claimed(t, k)
           IN  /\ Sound(c.flows) /\ c.owner \in Sessions \cup {NoFlow} /\ c.phase \in Phases
               /\ Cardinality(Clients) <= MaxFallback /\ (\E s \in Tracked(t) : ClientOf[s] = k) => c.phase # "APP1"
<1> DEFINE q == t.pending[k]
           a == t.active[k]
           alive == {i \in DOMAIN q : t.phase[q[i]] # NoFlow}
           c == Claimed(t, k)
<1>1. /\ t = TableOf(t.serial, t.phase, t.pending, t.active, t.fallback)
      /\ t.serial \in [Sessions -> 0 .. MaxLogins] /\ t.phase \in [Sessions -> Kinds \cup {NoFlow}]
      /\ t.pending \in [Clients -> Seq(Sessions)] /\ t.active \in [Clients -> Sessions \cup {NoFlow}]
    BY SoundFields
<1>2. /\ \A x \in Sessions : t.serial[x] # 0 <=> t.phase[x] # NoFlow
      /\ \A x \in Clients : QueueOK(t.pending[x], t.active[x], t.serial, x)
      /\ FallbackOK(t.fallback)
      /\ Cardinality(Clients) <= MaxFallback => Covered(t.serial, t.pending, t.active, t.fallback)
    BY SoundFields
<1>3. Kinds \subseteq Phases /\ "APP1" \in Phases /\ "APP1" \notin Kinds /\ NoFlow \notin Phases
    BY NoFlowIsNothing DEF Kinds, Phases
<1>4. /\ QueueOK(q, a, t.serial, k) /\ q \in Seq(Sessions) /\ DOMAIN q = 1 .. Len(q) /\ Len(q) \in Nat
      /\ \A i \in DOMAIN q : q[i] \in Sessions
    <2>1. QueueOK(q, a, t.serial, k)
        BY <1>2
    <2> HIDE DEF q, a
    <2>2. q \in Seq(Sessions)
        BY <2>1 DEF QueueOK
    <2>3. QED
        BY <2>1, <2>2, LenProperties
<1>5. alive = DOMAIN q
    <2>1. \A i \in DOMAIN q : t.serial[q[i]] # 0
        BY <1>4 DEF QueueOK
    <2>2. QED
        BY <1>2, <1>4, <2>1
<1>6. a # NoFlow => a \in Sessions /\ ClientOf[a] = k /\ t.phase[a] # NoFlow /\ t.phase[a] \in Kinds
    <2>1. a # NoFlow => a \in Sessions /\ ClientOf[a] = k /\ t.serial[a] # 0
        BY <1>4 DEF QueueOK
    <2>2. QED
        BY <1>1, <1>2, <2>1
<1>7. CASE a # NoFlow
    <2>1. c = [flows |-> t, owner |-> a, phase |-> t.phase[a]]
        BY <1>6, <1>7 DEF Claimed
    <2>2. QED
        BY <1>3, <1>6, <1>7, <2>1
<1>8. CASE a = NoFlow /\ DOMAIN q # {}
    <2> DEFINE m == Min(alive)
               s == q[m]
               r == SubSeq(q, m + 1, Len(q))
               d == [t.active EXCEPT ![k] = s]
               p == [t.pending EXCEPT ![k] = r]
    <2>1. alive # {} /\ alive \in SUBSET Nat
        BY <1>4, <1>5, <1>8
    <2>2. m \in DOMAIN q /\ \A i \in DOMAIN q : m <= i
        <3> HIDE DEF alive
        <3>1. m \in alive /\ \A i \in alive : m <= i
            BY <2>1, MinIs
        <3>2. QED
            BY <1>5, <3>1
    <2>3. c = [flows |-> [t EXCEPT !.active = d, !.pending = p], owner |-> s, phase |-> t.phase[s]]
        BY <1>8, <2>1 DEF Claimed
    <2> HIDE DEF m, alive
    <2>4. m = 1
        BY <1>4, <2>2
    <2>5. s \in Sessions /\ ClientOf[s] = k /\ t.serial[s] # 0 /\ t.phase[s] \in Kinds /\ t.phase[s] # NoFlow
        <3>1. s \in Sessions /\ ClientOf[s] = k /\ t.serial[s] # 0
            BY <1>4, <2>2 DEF QueueOK
        <3>2. QED
            BY <1>1, <1>2, <3>1
    <2>6. /\ r \in Seq(Sessions) /\ DOMAIN r = 1 .. Len(q) - 1
          /\ \A i \in 1 .. Len(q) - 1 : r[i] = q[i + 1] /\ i + 1 \in DOMAIN q
        <3> DEFINE R == Sessions
                   n == Len(q)
        <3>1. q \in Seq(R) /\ n \in Nat /\ n >= 1
            BY <1>4, <2>2
        <3>2. r = SubSeq(q, 2, n)
            BY <2>4
        <3> HIDE DEF R, r, n, q
        <3>3. /\ SubSeq(q, 2, n) \in Seq(R) /\ Len(SubSeq(q, 2, n)) = n - 1
              /\ \A i \in 1 .. n - 1 : SubSeq(q, 2, n)[i] = q[i + 1]
            <4>1. \A i \in 2 .. n : q[i] \in R
                BY <3>1, LenProperties DEF n
            <4>2. QED
                BY <3>1, <4>1, SubSeqProperties
        <3>4. r \in Seq(R) /\ Len(r) = n - 1
            BY <3>2, <3>3
        <3>5. DOMAIN r = 1 .. n - 1
            BY <3>4, LenProperties
        <3>6. QED
            BY <1>4, <3>1, <3>2, <3>3, <3>4, <3>5 DEF R, n
    <2> HIDE DEF s, r, q, a
    <2>7. QueueOK(r, s, t.serial, k)
        <3>1. IsInjective(r)
            BY <1>4, <2>6 DEF QueueOK, IsInjective
        <3>2. \A i \in DOMAIN r : ClientOf[r[i]] = k /\ t.serial[r[i]] # 0
            BY <1>4, <2>6 DEF QueueOK
        <3>3. \A i \in DOMAIN r : r[i] # s
            BY <1>4, <2>2, <2>4, <2>6 DEF s, QueueOK, IsInjective
        <3>4. QED
            BY <2>5, <2>6, <3>1, <3>2, <3>3 DEF QueueOK
    <2>8. p \in [Clients -> Seq(Sessions)] /\ p[k] = r /\ \A x \in Clients : x # k => p[x] = t.pending[x]
        BY <1>1, <2>6
    <2>9. d \in [Clients -> Sessions \cup {NoFlow}] /\ d[k] = s /\ \A x \in Clients : x # k => d[x] = t.active[x]
        BY <1>1, <2>5
    <2> DEFINE mid == [t EXCEPT !.active = d]
               u == [mid EXCEPT !.pending = p]
    <2>10. c = [flows |-> u, owner |-> s, phase |-> t.phase[s]]
        BY <2>3
    <2> HIDE DEF p, d, u, c
    <2>11. mid = TableOf(t.serial, t.phase, t.pending, d, t.fallback)
        <3>1. t = TableOf(t.serial, t.phase, t.pending, t.active, t.fallback)
            BY <1>1
        <3>2. QED
            BY <3>1 DEF TableOf
    <2> HIDE DEF mid
    <2>12. u = TableOf(t.serial, t.phase, p, d, t.fallback)
        BY <2>11 DEF TableOf, u
    <2>13. \A x \in Clients : QueueOK(p[x], d[x], t.serial, x)
        BY <1>2, <2>7, <2>8, <2>9
    <2>14. ASSUME Cardinality(Clients) <= MaxFallback PROVE Covered(t.serial, p, d, t.fallback)
        <3> SUFFICES ASSUME NEW x \in Sessions, t.serial[x] # 0
                     PROVE  d[ClientOf[x]] = x \/ In(p[ClientOf[x]], x) \/ Recalls(t.fallback, ClientOf[x])
            BY DEF Covered
        <3>1. ClientOf[x] \in Clients
            BY ClientsAre
        <3>2. t.active[ClientOf[x]] = x \/ In(t.pending[ClientOf[x]], x) \/ Recalls(t.fallback, ClientOf[x])
            BY <1>2, <2>14 DEF Covered
        <3>3. CASE ClientOf[x] # k
            BY <2>8, <2>9, <3>1, <3>2, <3>3
        <3>4. CASE ClientOf[x] = k
            <4>1. x # NoFlow
                BY NoFlowIsNothing
            <4>2. ASSUME In(q, x) PROVE x = s \/ In(r, x)
                <5>1. PICK i \in DOMAIN q : q[i] = x
                    BY <4>2 DEF In
                <5>2. CASE i = 1
                    BY <2>4, <5>1, <5>2 DEF s
                <5>3. CASE i # 1
                    <6>1. i - 1 \in 1 .. Len(q) - 1 /\ i - 1 + 1 = i
                        BY <1>4, <5>1, <5>3
                    <6>2. r[i - 1] = x /\ i - 1 \in DOMAIN r
                        BY <2>6, <5>1, <6>1
                    <6>3. QED
                        BY <6>2 DEF In
                <5>4. QED
                    BY <5>2, <5>3
            <4>3. QED
                BY <1>8, <2>8, <2>9, <3>2, <3>4, <4>1, <4>2 DEF a, q
        <3>5. QED
            BY <3>3, <3>4
    <2>15. Sound(u)
        BY <1>1, <1>2, <2>8, <2>9, <2>12, <2>13, <2>14, SoundIs
    <2>16. QED
        BY <1>3, <2>5, <2>10, <2>15 DEF c
<1>9. CASE a = NoFlow /\ DOMAIN q = {}
    <2> DEFINE none == [t.pending EXCEPT ![k] = <<>>]
               d == [t.active EXCEPT ![k] = NoFlow]
               mid == [t EXCEPT !.active = d]
               rest == [mid EXCEPT !.pending = none]
               phase == Fallback(rest, k)
    <2>1. q = <<>>
        BY <1>4, <1>9, EmptySeq
    <2>2. none = t.pending /\ d = t.active
        BY <1>1, <1>9, <2>1
    <2>3. c = [flows |-> IF phase = NoFlow THEN rest ELSE RememberFallback(rest, k, phase),
               owner |-> NoFlow, phase |-> IF phase = NoFlow THEN "APP1" ELSE phase]
        BY <1>5, <1>9 DEF Claimed
    <2> HIDE DEF none, d, c, q, a
    <2>4. mid = TableOf(t.serial, t.phase, t.pending, t.active, t.fallback)
        BY <1>1, <2>2 DEF TableOf
    <2> HIDE DEF mid
    <2>5. rest = t
        BY <1>1, <2>2, <2>4 DEF TableOf
    <2> HIDE DEF rest
    <2>6. IF Recalls(t.fallback, k) THEN phase \in Kinds ELSE phase = NoFlow
        BY <1>2, <2>5, FallbackIs
    <2> HIDE DEF phase
    <2>7. phase # NoFlow => Sound(RememberFallback(t, k, phase))
        BY <2>6, RemembersIs
    <2>8. Cardinality(Clients) <= MaxFallback /\ (\E s \in Tracked(t) : ClientOf[s] = k) => Recalls(t.fallback, k)
        <3> SUFFICES ASSUME Cardinality(Clients) <= MaxFallback, NEW s \in Sessions, t.serial[s] # 0, ClientOf[s] = k
                     PROVE  Recalls(t.fallback, k)
            BY DEF Tracked
        <3>1. a = s \/ In(q, s) \/ Recalls(t.fallback, k)
            BY <1>2 DEF Covered, a, q
        <3>2. s # NoFlow
            BY NoFlowIsNothing
        <3>3. QED
            BY <1>9, <3>1, <3>2 DEF In
    <2>9. QED
        BY <1>3, <2>3, <2>5, <2>6, <2>7, <2>8 DEF c
<1>10. QED
    BY <1>7, <1>8, <1>9

-----------------------------------------------------------------------------
\* What is left of a tracker when some of its logins may have been forgotten,
\* and what it is when some may have been armed.
LeftOf(t, gone) ==
    {u \in Table : Sound(u) /\ \A s \in Sessions :
        (u.serial[s] = t.serial[s] /\ u.phase[s] = t.phase[s]) \/ (s \in gone /\ u.serial[s] = 0)}

ArmedFrom(t, new) ==
    {u \in Table : Sound(u) /\ \A s \in Sessions :
        IF s \in new THEN t.phase[s] # NoFlow => u.phase[s] = t.phase[s]
        ELSE u.serial[s] = t.serial[s] /\ u.phase[s] = t.phase[s]}

LEMMA ForgetStays ==
    ASSUME NEW t, Sound(t), NEW gone \in SUBSET Sessions, NEW u \in LeftOf(t, gone), NEW s \in gone
    PROVE  Forget(u, s) \in LeftOf(t, gone)
<1> DEFINE v == Forget(u, s)
<1>1. Sound(u) /\ u.serial \in [Sessions -> 0 .. MaxLogins] /\ u.phase \in [Sessions -> Kinds \cup {NoFlow}]
    BY SoundFields DEF LeftOf
<1>2. Sound(v) /\ v.serial = [u.serial EXCEPT ![s] = 0] /\ v.phase = [u.phase EXCEPT ![s] = NoFlow]
    BY <1>1, ForgetIs
<1> HIDE DEF v
<1>3. ASSUME NEW x \in Sessions
      PROVE  (v.serial[x] = t.serial[x] /\ v.phase[x] = t.phase[x]) \/ (x \in gone /\ v.serial[x] = 0)
    <2>1. CASE x = s
        BY <1>1, <1>2, <2>1
    <2>2. CASE x # s
        <3>1. v.serial[x] = u.serial[x] /\ v.phase[x] = u.phase[x]
            BY <1>1, <1>2, <2>2
        <3>2. QED
            BY <3>1 DEF LeftOf
    <2>3. QED
        BY <2>1, <2>2
<1>4. v \in LeftOf(t, gone)
    BY <1>2, <1>3 DEF LeftOf, Sound
<1>5. QED
    BY <1>4 DEF v

LEMMA ArmStays ==
    ASSUME NEW t, Sound(t), NEW new \in SUBSET Sessions, NEW u \in ArmedFrom(t, new), NEW s \in new,
           NEW given \in 1 .. MaxLogins
    PROVE  ArmWorld([u EXCEPT !.serial[s] = given], s) \in ArmedFrom(t, new)
<1> DEFINE v == ArmWorld([u EXCEPT !.serial[s] = given], s)
<1>1. Sound(u) /\ u.serial \in [Sessions -> 0 .. MaxLogins] /\ u.phase \in [Sessions -> Kinds \cup {NoFlow}]
    BY SoundFields DEF ArmedFrom
<1>2. /\ Sound(v) /\ v.serial = [u.serial EXCEPT ![s] = given]
      /\ v.phase = [u.phase EXCEPT ![s] = IF @ = NoFlow THEN "WORLD" ELSE @]
    BY <1>1, ArmIs
<1> HIDE DEF v
<1>3. ASSUME NEW x \in Sessions
      PROVE  IF x \in new THEN t.phase[x] # NoFlow => v.phase[x] = t.phase[x]
             ELSE v.serial[x] = t.serial[x] /\ v.phase[x] = t.phase[x]
    <2>1. IF x \in new THEN t.phase[x] # NoFlow => u.phase[x] = t.phase[x]
          ELSE u.serial[x] = t.serial[x] /\ u.phase[x] = t.phase[x]
        BY DEF ArmedFrom
    <2>2. v.phase[x] = IF x = s /\ u.phase[x] = NoFlow THEN "WORLD" ELSE u.phase[x]
        BY <1>1, <1>2
    <2>3. x # s => v.serial[x] = u.serial[x]
        BY <1>1, <1>2
    <2>4. QED
        BY <2>1, <2>2, <2>3
<1>4. v \in ArmedFrom(t, new)
    BY <1>2, <1>3 DEF ArmedFrom, Sound
<1>5. QED
    BY <1>4 DEF v

LEMMA ForgottenIs ==
    ASSUME NEW t, Sound(t), NEW gone \in SUBSET Sessions, NEW n \in Nat, NEW list \in [1 .. n -> gone]
    PROVE  Forgotten(t, list) \in LeftOf(t, gone)
<1> DEFINE T == LeftOf(t, gone)
           step == [i \in 1 .. n |-> [u \in T |-> Forget(u, list[i])]]
<1>1. Len(list) = n
    OBVIOUS
<1>2. t \in T
    BY DEF LeftOf, Sound
<1>3. \A i \in 1 .. n : \A u \in T : Forget(u, list[i]) \in T
    <2>1. \A i \in 1 .. n : list[i] \in gone
        OBVIOUS
    <2>2. QED
        BY <2>1, ForgetStays
<1>4. Forgotten(t, list) =
        LET after == CHOOSE g : g = [i \in 0 .. n |-> IF i = 0 THEN t ELSE Forget(g[i - 1], list[i])] IN after[n]
    BY <1>1 DEF Forgotten
<1> HIDE DEF T
<1>5. step \in Steps(n, T)
    BY <1>3 DEF Steps
<1>6. PICK f \in [0 .. n -> T] : f[0] = t /\ \A i \in 1 .. n : f[i] = step[i][f[i - 1]]
    <2> HIDE DEF step
    <2>1. Folded(n, T, t, step)
        BY <1>2, <1>5, Iterates
    <2>2. QED
        BY <2>1 DEF Folded
<1> DEFINE F(g) == [i \in 0 .. n |-> IF i = 0 THEN t ELSE Forget(g[i - 1], list[i])]
           after == CHOOSE g : g = F(g)
<1>7. f = F(f)
    <2>1. ASSUME NEW i \in 0 .. n PROVE f[i] = F(f)[i]
        <3>1. CASE i = 0
            BY <1>6, <3>1
        <3>2. CASE i # 0
            <4>1. i \in 1 .. n /\ i - 1 \in 0 .. n
                BY <3>2
            <4>2. f[i - 1] \in T /\ f[i] = step[i][f[i - 1]]
                BY <1>6, <4>1
            <4>3. QED
                BY <3>2, <4>1, <4>2
        <3>3. QED
            BY <3>1, <3>2
    <2>2. QED
        BY <2>1
<1>8. after = F(after)
    BY <1>7
<1> HIDE DEF after, step
<1>9. after[0] = t /\ \A i \in 1 .. n : after[i] = Forget(after[i - 1], list[i])
    <2>1. \A i \in 0 .. n : after[i] = F(after)[i]
        BY <1>8
    <2>2. 0 \in 0 .. n /\ \A i \in 1 .. n : i \in 0 .. n /\ i # 0
        OBVIOUS
    <2>3. QED
        BY <2>1, <2>2
<1> DEFINE P == {i \in 0 .. n : after[i] \in T}
<1>10. 0 \in P /\ \A i \in 1 .. n : i - 1 \in P => i \in P
    BY <1>2, <1>3, <1>9
<1>11. after[n] \in T
    <2> HIDE DEF P
    <2>1. \A i \in 0 .. n : i \in P
        BY <1>10, Climbs
    <2>2. QED
        BY <2>1 DEF P
<1>12. QED
    BY <1>4, <1>11 DEF after, T

LEMMA ArmedIs ==
    ASSUME NEW t, Sound(t), NEW new \in SUBSET Sessions, NEW n \in Nat, NEW order \in [1 .. n -> new],
           NEW list, \A s \in new : list[s].serial \in 1 .. MaxLogins
    PROVE  Armed(t, list, order) \in ArmedFrom(t, new)
<1> DEFINE T == ArmedFrom(t, new)
           Arm(u, i) == ArmWorld([u EXCEPT !.serial[order[i]] = list[order[i]].serial], order[i])
           step == [i \in 1 .. n |-> [u \in T |-> Arm(u, i)]]
<1>1. Len(order) = n
    OBVIOUS
<1>2. t \in T
    BY DEF ArmedFrom, Sound
<1>3. ASSUME NEW i \in 1 .. n, NEW u \in T PROVE Arm(u, i) \in T
    <2> DEFINE s == order[i]
               given == list[s].serial
    <2>1. s \in new /\ given \in 1 .. MaxLogins
        OBVIOUS
    <2> HIDE DEF s, given
    <2>2. ArmWorld([u EXCEPT !.serial[s] = given], s) \in T
        BY <2>1, ArmStays
    <2>3. QED
        BY <2>2 DEF s, given
<1>4. Armed(t, list, order) =
        LET after == CHOOSE g : g = [i \in 0 .. n |-> IF i = 0 THEN t ELSE Arm(g[i - 1], i)] IN after[n]
    BY <1>1 DEF Armed
<1> HIDE DEF T, Arm
<1>5. step \in Steps(n, T)
    BY <1>3 DEF Steps
<1>6. PICK f \in [0 .. n -> T] : f[0] = t /\ \A i \in 1 .. n : f[i] = step[i][f[i - 1]]
    <2> HIDE DEF step
    <2>1. Folded(n, T, t, step)
        BY <1>2, <1>5, Iterates
    <2>2. QED
        BY <2>1 DEF Folded
<1> DEFINE F(g) == [i \in 0 .. n |-> IF i = 0 THEN t ELSE Arm(g[i - 1], i)]
           after == CHOOSE g : g = F(g)
<1>7. f = F(f)
    <2>1. ASSUME NEW i \in 0 .. n PROVE f[i] = F(f)[i]
        <3>1. CASE i = 0
            BY <1>6, <3>1
        <3>2. CASE i # 0
            <4>1. i \in 1 .. n /\ i - 1 \in 0 .. n
                BY <3>2
            <4>2. f[i - 1] \in T /\ f[i] = step[i][f[i - 1]]
                BY <1>6, <4>1
            <4>3. QED
                BY <3>2, <4>1, <4>2
        <3>3. QED
            BY <3>1, <3>2
    <2>2. QED
        BY <2>1
<1>8. after = F(after)
    BY <1>7
<1> HIDE DEF after, step
<1>9. after[0] = t /\ \A i \in 1 .. n : after[i] = Arm(after[i - 1], i)
    <2>1. \A i \in 0 .. n : after[i] = F(after)[i]
        BY <1>8
    <2>2. 0 \in 0 .. n /\ \A i \in 1 .. n : i \in 0 .. n /\ i # 0
        OBVIOUS
    <2>3. QED
        BY <2>1, <2>2
<1> DEFINE P == {i \in 0 .. n : after[i] \in T}
<1>10. 0 \in P /\ \A i \in 1 .. n : i - 1 \in P => i \in P
    BY <1>2, <1>3, <1>9
<1>11. after[n] \in T
    <2> HIDE DEF P
    <2>1. \A i \in 0 .. n : i \in P
        BY <1>10, Climbs
    <2>2. QED
        BY <2>1 DEF P
<1>12. QED
    BY <1>4, <1>11 DEF after, T

-----------------------------------------------------------------------------
PlayerLists == [Sessions -> Player \cup {Away}]
Numbered(list) == \A s, r \in Sessions : list[s] # Away /\ list[r] # Away /\ list[s].serial = list[r].serial => s = r

\* A thread that catches up keeps the phases of the logins that stay tracked.
LEMMA SyncedIs ==
    ASSUME NEW t, Sound(t), NEW list \in PlayerLists, Numbered(list)
    PROVE  /\ Sound(Synced(t, list))
           /\ \A s \in Tracked(t) \cap Tracked(Synced(t, list)) : Synced(t, list).phase[s] = t.phase[s]
<1> DEFINE listed == {s \in Sessions : list[s] # NoFlow}
           gone == Tracked(t) \ listed
           forgotten == Forgotten(t, Ordered(gone, Sessions \X Sessions))
           new == {s \in listed : forgotten.serial[s] # list[s].serial}
           before == {p \in new \X new : list[p[1]].serial < list[p[2]].serial}
           u == Armed(forgotten, list, Ordered(new, before))
<1>1. Synced(t, list) = u
    BY DEF Synced
<1>2. gone \in SUBSET Sessions /\ gone \cap listed = {} /\ new \in SUBSET Sessions /\ new \subseteq listed
    BY DEF Tracked
<1>3. IsFiniteSet(gone) /\ IsFiniteSet(new)
    <2>1. IsFiniteSet(Sessions)
        BY OnlineAssumption
    <2> HIDE DEF gone, new
    <2>2. QED
        BY <1>2, <2>1, FS_Subset
<1>4. forgotten \in LeftOf(t, gone)
    <2> DEFINE order == Ordered(gone, Sessions \X Sessions)
    <2> HIDE DEF gone
    <2>1. Cardinality(gone) \in Nat /\ Lists(order, gone)
        BY <1>2, <1>3, AnyOrder
    <2>2. order \in [1 .. Cardinality(gone) -> gone]
        BY <2>1 DEF Lists
    <2> HIDE DEF order
    <2>3. Forgotten(t, order) \in LeftOf(t, gone)
        BY <1>2, <2>1, <2>2, ForgottenIs
    <2>4. QED
        BY <2>3 DEF order
<1>5. \A s \in listed : list[s] \in Player /\ list[s].serial \in 1 .. MaxLogins
    <2>1. \A s \in listed : list[s] \in Player
        BY DEF PlayerLists, NoFlow
    <2>2. QED
        BY <2>1 DEF Player
<1> HIDE DEF forgotten
<1>6. u \in ArmedFrom(forgotten, new)
    <2> DEFINE order == Ordered(new, before)
    <2>1. StrictOn(new, before)
        <3>1. \A s \in new : list[s].serial \in Nat
            BY <1>2, <1>5
        <3>2. \A s, r \in new : s # r => list[s].serial # list[r].serial
            BY <1>2 DEF Numbered, NoFlow
        <3>3. \A s, r \in new : <<s, r>> \in before <=> list[s].serial < list[r].serial
            OBVIOUS
        <3> HIDE DEF new, before
        <3>4. QED
            BY <3>1, <3>2, <3>3 DEF StrictOn
    <2>2. \A s \in new : list[s].serial \in 1 .. MaxLogins
        BY <1>2, <1>5
    <2> HIDE DEF new, before
    <2>3. Cardinality(new) \in Nat /\ Lists(order, new)
        BY <1>3, <2>1, StrictOrder
    <2>4. order \in [1 .. Cardinality(new) -> new]
        BY <2>3 DEF Lists
    <2>5. Sound(forgotten)
        BY <1>4 DEF LeftOf
    <2> HIDE DEF order
    <2>6. Armed(forgotten, list, order) \in ArmedFrom(forgotten, new)
        BY <1>2, <2>2, <2>3, <2>4, <2>5, ArmedIs
    <2>7. QED
        BY <2>6 DEF order
<1> HIDE DEF gone, new, listed, u
<1>7. Sound(u)
    BY <1>6 DEF ArmedFrom
<1>8. ASSUME NEW s \in Sessions, t.serial[s] # 0, u.serial[s] # 0 PROVE u.phase[s] = t.phase[s]
    <2>1. (forgotten.serial[s] = t.serial[s] /\ forgotten.phase[s] = t.phase[s]) \/ (s \in gone /\ forgotten.serial[s] = 0)
        BY <1>4 DEF LeftOf
    <2>2. IF s \in new THEN forgotten.phase[s] # NoFlow => u.phase[s] = forgotten.phase[s]
          ELSE u.serial[s] = forgotten.serial[s] /\ u.phase[s] = forgotten.phase[s]
        BY <1>6 DEF ArmedFrom
    <2>3. t.phase[s] # NoFlow
        BY <1>8 DEF Sound
    <2>4. s \in gone => s \notin new
        BY <1>2
    <2>5. QED
        BY <1>8, <2>1, <2>2, <2>3, <2>4
<1>9. QED
    BY <1>1, <1>7, <1>8 DEF Tracked

-----------------------------------------------------------------------------
Thread ==
    {Closed} \cup [at : {"listed"}, client : Clients, list : {l \in PlayerLists : Numbered(l)}]
    \cup [at : {"synced"}, client : Clients]
    \cup [at : {"open"}, client : Clients, owner : Sessions \cup {NoFlow}, phase : Phases]

\* The login serials of the players are those that were given, each once.
OnlineInv == OnlineTypeOK /\ Numbered(online) /\ \A s \in Listed : online[s].serial <= logins

FlowsInv == OnlineInv /\ Sound(flows) /\ conns \in [Connections -> Thread]

LEMMA OnlineStays == ASSUME OnlineInv, GameServer PROVE OnlineInv'
<1>1. online \in PlayerLists /\ logins \in 0 .. MaxLogins /\ MaxLogins \in Nat /\ 0 \in Areas
    BY OnlineAssumption DEF OnlineInv, OnlineTypeOK, PlayerLists
<1>2. \A s \in Sessions : online[s] # Away => online[s] \in Player /\ online[s].serial \in 1 .. MaxLogins
                                              /\ online[s].area \in Areas /\ online[s].serial <= logins
    <2>1. \A s \in Sessions : online[s] # Away => online[s] \in Player /\ online[s].serial <= logins
        BY <1>1 DEF OnlineInv, PlayerLists, Listed
    <2>2. QED
        BY <2>1 DEF Player
<1>3. ASSUME NEW s \in Sessions, LoginOnline(s) PROVE OnlineInv'
    <2> DEFINE row == [area |-> IF online[s] = Away THEN 0 ELSE online[s].area, serial |-> logins + 1]
    <2>1. online' = [online EXCEPT ![s] = row] /\ logins' = logins + 1 /\ logins + 1 \in 1 .. MaxLogins
        BY <1>1, <1>3 DEF LoginOnline
    <2>2. row \in Player /\ row.serial = logins + 1
        BY <1>1, <1>2, <2>1 DEF Player
    <2> HIDE DEF row
    <2>3. online' \in PlayerLists /\ \A r \in Sessions : online'[r] = IF r = s THEN row ELSE online[r]
        BY <1>1, <2>1, <2>2 DEF PlayerLists
    <2>4. \A r \in Sessions : r # s /\ online'[r] # Away => online'[r].serial <= logins /\ online'[r].serial \in Nat
        BY <1>2, <2>3
    <2>5. Numbered(online')
        <3> SUFFICES ASSUME NEW x \in Sessions, NEW y \in Sessions, online'[x] # Away, online'[y] # Away,
                            online'[x].serial = online'[y].serial, x # y
                     PROVE  FALSE
            BY DEF Numbered
        <3>1. CASE x = s \/ y = s
            BY <1>1, <2>2, <2>3, <2>4, <3>1
        <3>2. CASE x # s /\ y # s
            BY <2>3, <3>2 DEF OnlineInv, Numbered
        <3>3. QED
            BY <3>1, <3>2
    <2>6. \A r \in Sessions : online'[r] # Away => online'[r].serial <= logins'
        <3> SUFFICES ASSUME NEW r \in Sessions, online'[r] # Away PROVE online'[r].serial <= logins'
            OBVIOUS
        <3>1. CASE r = s
            BY <1>1, <2>1, <2>2, <2>3, <3>1
        <3>2. CASE r # s
            BY <1>1, <2>1, <2>4, <3>2
        <3>3. QED
            BY <3>1, <3>2
    <2>7. QED
        BY <1>1, <2>1, <2>3, <2>5, <2>6 DEF OnlineInv, OnlineTypeOK, PlayerLists, Listed
<1>4. ASSUME NEW s \in Sessions, LogoutOnline(s) PROVE OnlineInv'
    BY <1>1, <1>4 DEF LogoutOnline, OnlineInv, OnlineTypeOK, Numbered, Listed, PlayerLists
<1>5. ASSUME NEW s \in Sessions, NEW area \in Areas, SetArea(s, area) PROVE OnlineInv'
    <2> DEFINE row == [online[s] EXCEPT !.area = area]
    <2>1. online' = [online EXCEPT ![s] = row] /\ logins' = logins /\ online[s] # Away
        BY <1>5 DEF SetArea
    <2>2. row \in Player /\ row.serial = online[s].serial
        BY <1>2, <2>1 DEF Player
    <2> HIDE DEF row
    <2>3. online' \in PlayerLists /\ \A r \in Sessions : online'[r] = IF r = s THEN row ELSE online[r]
        BY <1>1, <2>1, <2>2 DEF PlayerLists
    <2>4. \A r \in Sessions : online'[r] # Away => online[r] # Away /\ online'[r].serial = online[r].serial
        BY <2>1, <2>2, <2>3
    <2>5. Numbered(online') /\ \A r \in Sessions : online'[r] # Away => online'[r].serial <= logins
        BY <1>2, <2>4 DEF OnlineInv, Numbered
    <2>6. QED
        BY <1>1, <2>1, <2>3, <2>5 DEF OnlineInv, OnlineTypeOK, PlayerLists, Listed
<1>6. ASSUME ClearOnline PROVE OnlineInv'
    BY <1>1, <1>6 DEF ClearOnline, OnlineInv, OnlineTypeOK, Numbered, Listed, PlayerLists
<1>7. QED
    BY <1>3, <1>4, <1>5, <1>6 DEF GameServer

LEMMA FlowsInvInit == FlowsInit => FlowsInv
<1> SUFFICES ASSUME FlowsInit PROVE FlowsInv
    OBVIOUS
<1>1. OnlineInv
    BY OnlineAssumption DEF FlowsInit, OnlineInit, OnlineInv, OnlineTypeOK, Numbered, Listed
<1>2. conns \in [Connections -> Thread]
    BY DEF FlowsInit, Thread
<1> DEFINE a == [s \in Sessions |-> 0]
           b == [s \in Sessions |-> NoFlow]
           c == [k \in Clients |-> <<>>]
           d == [k \in Clients |-> NoFlow]
<1>3. flows = TableOf(a, b, c, d, <<>>)
    BY DEF FlowsInit, TableOf
<1>4. a \in [Sessions -> 0 .. MaxLogins] /\ b \in [Sessions -> Kinds \cup {NoFlow}]
    BY OnlineAssumption
<1>5. c \in [Clients -> Seq(Sessions)] /\ d \in [Clients -> Sessions \cup {NoFlow}]
    BY EmptySeq
<1>6. \A s \in Sessions : a[s] # 0 <=> b[s] # NoFlow
    OBVIOUS
<1>7. \A k \in Clients : QueueOK(c[k], d[k], a, k)
    BY EmptySeq DEF QueueOK, IsInjective
<1>8. FallbackOK(<<>>)
    BY EmptySeq, ClientsAre DEF FallbackOK
<1>9. Covered(a, c, d, <<>>)
    BY DEF Covered
<1> HIDE DEF a, b, c, d
<1>10. Sound(TableOf(a, b, c, d, <<>>))
    BY <1>4, <1>5, <1>6, <1>7, <1>8, <1>9, SoundIs
<1>11. QED
    BY <1>1, <1>2, <1>3, <1>10 DEF FlowsInv

\* What the state of a thread says of it.
LEMMA ThreadIs ==
    ASSUME conns \in [Connections -> Thread], NEW c \in Connections
    PROVE  /\ conns[c].at \in {"closed", "listed", "synced", "open"}
           /\ conns[c].at # "closed" => conns[c].client \in Clients
           /\ conns[c].at = "listed" => conns[c].list \in PlayerLists /\ Numbered(conns[c].list)
           /\ conns[c].at = "open" =>
                 /\ conns[c] = [at |-> "open", client |-> conns[c].client, owner |-> conns[c].owner, phase |-> conns[c].phase]
                 /\ conns[c].owner \in Sessions \cup {NoFlow} /\ conns[c].phase \in Phases
<1>1. conns[c] \in Thread
    OBVIOUS
<1> DEFINE d == conns[c]
<1> HIDE DEF d
<1>2. CASE d = Closed
    BY <1>2 DEF Closed, d
<1>3. CASE d \in [at : {"listed"}, client : Clients, list : {l \in PlayerLists : Numbered(l)}]
    BY <1>3 DEF d
<1>4. CASE d \in [at : {"synced"}, client : Clients]
    BY <1>4 DEF d
<1>5. CASE d \in [at : {"open"}, client : Clients, owner : Sessions \cup {NoFlow}, phase : Phases]
    BY <1>5 DEF d
<1>6. QED
    BY <1>1, <1>2, <1>3, <1>4, <1>5 DEF Thread, d

LEMMA FlowsStep == FlowsInv /\ [FlowsNext]_flowVars => FlowsInv'
<1> SUFFICES ASSUME FlowsInv, [FlowsNext]_flowVars PROVE FlowsInv'
    OBVIOUS
<1>1. OnlineInv /\ Sound(flows) /\ conns \in [Connections -> Thread]
    BY DEF FlowsInv
<1>2. UNCHANGED <<online, logins>> => OnlineInv'
    BY <1>1 DEF OnlineInv, OnlineTypeOK, Numbered, Listed
<1>3. ASSUME NEW c \in Connections, NEW k \in Clients, Connect(c, k) PROVE FlowsInv'
    <2>1. conns' = [conns EXCEPT ![c] = [at |-> "listed", client |-> k, list |-> online]]
        BY <1>3 DEF Connect
    <2>2. online \in {l \in PlayerLists : Numbered(l)}
        BY <1>1 DEF OnlineInv, OnlineTypeOK, PlayerLists
    <2>3. [at |-> "listed", client |-> k, list |-> online] \in Thread
        BY <2>2 DEF Thread
    <2>4. conns' \in [Connections -> Thread]
        BY <1>1, <2>1, <2>3
    <2>5. QED
        BY <1>1, <1>2, <1>3, <2>4 DEF Connect, FlowsInv
<1>4. ASSUME NEW c \in Connections, Sync(c) PROVE FlowsInv'
    <2>1. conns[c].client \in Clients /\ conns[c].list \in PlayerLists /\ Numbered(conns[c].list)
        BY <1>1, <1>4, ThreadIs DEF Sync
    <2>2. Sound(flows')
        BY <1>1, <1>4, <2>1, SyncedIs DEF Sync
    <2>3. [at |-> "synced", client |-> conns[c].client] \in Thread
        BY <2>1 DEF Thread
    <2>4. conns' \in [Connections -> Thread]
        BY <1>1, <1>4, <2>3 DEF Sync
    <2>5. QED
        BY <1>2, <1>4, <2>2, <2>4 DEF Sync, FlowsInv
<1>5. ASSUME NEW c \in Connections, Claim(c) PROVE FlowsInv'
    <2> DEFINE k == conns[c].client
               claimed == Claimed(flows, k)
    <2>1. k \in Clients
        BY <1>1, <1>5, ThreadIs DEF Claim
    <2>2. Sound(claimed.flows) /\ claimed.owner \in Sessions \cup {NoFlow} /\ claimed.phase \in Phases
        <3> HIDE DEF k
        <3>1. QED
            BY <1>1, <2>1, ClaimedIs
    <2>3. flows' = claimed.flows /\ UNCHANGED <<online, logins>>
        BY <1>5 DEF Claim
    <2>4. PICK phase : /\ phase \in {claimed.phase, "APP1", "WORLD", "LAND"}
                       /\ conns' = [conns EXCEPT ![c] = [at |-> "open", client |-> k, owner |-> claimed.owner, phase |-> phase]]
        <3> HIDE DEF claimed, k
        <3>1. PICK opener \in {"world", "online", "waits"} :
                conns' = [conns EXCEPT ![c] =
                    [at |-> "open", client |-> k, owner |-> claimed.owner,
                     phase |-> IF opener = "waits" THEN "APP1"
                               ELSE IF claimed.phase # "APP1" THEN claimed.phase
                               ELSE IF opener = "world" THEN "WORLD" ELSE "LAND"]]
            BY <1>5 DEF Claim, claimed, k
        <3>2. QED
            BY <3>1
    <2> HIDE DEF claimed, k
    <2>5. [at |-> "open", client |-> k, owner |-> claimed.owner, phase |-> phase] \in Thread
        BY <2>1, <2>2, <2>4 DEF Thread, Phases
    <2>6. conns' \in [Connections -> Thread]
        BY <1>1, <2>4, <2>5
    <2>7. QED
        BY <1>2, <2>2, <2>3, <2>6 DEF FlowsInv
<1>6. ASSUME NEW c \in Connections, Complete(c) PROVE FlowsInv'
    <2> DEFINE k == conns[c].client
               owner == conns[c].owner
    <2>1. k \in Clients /\ owner \in Sessions \cup {NoFlow} /\ conns[c].phase \in Phases
        BY <1>1, <1>6, ThreadIs DEF Complete
    <2>2. flows' = flows \/ flows' = Advanced(flows, k, owner, "POSTWORLD") \/ flows' = Advanced(flows, k, owner, "LAND")
          \/ flows' = Released(flows, k, owner)
        BY <1>6, <2>1 DEF Complete, Phases
    <2>3. conns' = [conns EXCEPT ![c] = Closed] /\ UNCHANGED <<online, logins>>
        BY <1>6 DEF Complete
    <2> HIDE DEF k, owner
    <2>4. Sound(flows')
        BY <1>1, <2>1, <2>2, AdvancedIs, ReleasedIs DEF Kinds
    <2>5. conns' \in [Connections -> Thread]
        BY <1>1, <2>3 DEF Thread
    <2>6. QED
        BY <1>2, <2>3, <2>4, <2>5 DEF FlowsInv
<1>7. ASSUME NEW c \in Connections, Drop(c) PROVE FlowsInv'
    <2>1. conns' \in [Connections -> Thread]
        BY <1>1, <1>7 DEF Drop, Thread
    <2>2. QED
        BY <1>1, <1>2, <1>7, <2>1 DEF Drop, FlowsInv
<1>8. ASSUME NEW c \in Connections, NEW phase \in {"WORLD", "LAND"}, Request(c, phase) PROVE FlowsInv'
    <2> DEFINE k == conns[c].client
               owner == conns[c].owner
               open == [at |-> "open", client |-> k, owner |-> owner, phase |-> phase]
    <2>1. /\ k \in Clients /\ owner \in Sessions \cup {NoFlow}
          /\ conns[c] = [at |-> "open", client |-> k, owner |-> owner, phase |-> conns[c].phase]
        BY <1>1, <1>8, ThreadIs DEF Request
    <2>2. Sound(flows')
        <3>1. flows' = Advanced(flows, k, owner, phase) /\ phase \in Kinds
            BY <1>8 DEF Request, Kinds
        <3> HIDE DEF k, owner
        <3>2. QED
            BY <1>1, <2>1, <3>1, AdvancedIs
    <2>3. conns' = [conns EXCEPT ![c] = [conns[c] EXCEPT !.phase = phase]]
        BY <1>8 DEF Request
    <2>4. [conns[c] EXCEPT !.phase = phase] = open
        BY <2>1
    <2>5. open \in Thread
        BY <2>1 DEF Thread, Phases
    <2> HIDE DEF open
    <2>6. conns' \in [Connections -> Thread]
        BY <1>1, <2>3, <2>4, <2>5
    <2>7. QED
        BY <1>2, <1>8, <2>2, <2>6 DEF Request, FlowsInv
<1>9. ASSUME GameServer, UNCHANGED <<flows, conns>> PROVE FlowsInv'
    BY <1>1, <1>9, OnlineStays DEF FlowsInv
<1>10. CASE UNCHANGED flowVars
    BY <1>1, <1>2, <1>10 DEF flowVars, FlowsInv
<1>11. QED
    BY <1>3, <1>4, <1>5, <1>6, <1>7, <1>8, <1>9, <1>10 DEF FlowsNext

LEMMA FlowsInvariant == FlowsSpec => []FlowsInv
<1>1. FlowsInit => FlowsInv
    BY FlowsInvInit
<1>2. FlowsInv /\ [FlowsNext]_flowVars => FlowsInv'
    BY FlowsStep
<1>3. QED
    BY <1>1, <1>2, PTL DEF FlowsSpec

LEMMA FlowsInvSound == FlowsInv => FlowsSound
<1> SUFFICES ASSUME FlowsInv PROVE FlowsSound
    OBVIOUS
<1>1. OnlineInv /\ Sound(flows) /\ conns \in [Connections -> Thread]
    BY DEF FlowsInv
<1>2. /\ flows.serial \in [Sessions -> 0 .. MaxLogins] /\ flows.phase \in [Sessions -> Kinds \cup {NoFlow}]
      /\ flows.pending \in [Clients -> Seq(Sessions)] /\ flows.active \in [Clients -> Sessions \cup {NoFlow}]
      /\ \A k \in Clients : QueueOK(flows.pending[k], flows.active[k], flows.serial, k)
      /\ FallbackOK(flows.fallback)
    BY <1>1, SoundFields
<1>3. FlowsTypeOK
    <2>1. flows.phase \in [Sessions -> Phases \cup {NoFlow}]
        BY <1>2 DEF Kinds, Phases
    <2>2. flows.fallback \in Seq([client : Clients, phase : Phases])
        <3> DEFINE f == flows.fallback
                   All == [client : Clients, phase : Phases]
        <3>1. f \in Seq(Remembered) /\ Remembered \subseteq All
            BY <1>2 DEF FallbackOK, Remembered, Kinds, Phases
        <3> HIDE DEF f, All
        <3>2. f \in [1 .. Len(f) -> Remembered] /\ Len(f) \in Nat
            BY <3>1, LenProperties
        <3>3. f \in [1 .. Len(f) -> All]
            BY <3>1, <3>2
        <3>4. f \in Seq(All)
            BY <3>2, <3>3, SeqDef
        <3>5. QED
            BY <3>4 DEF f, All
    <2>3. \A c \in Connections : conns[c].at \in {"closed", "listed", "synced", "open"}
        BY <1>1, ThreadIs
    <2>4. QED
        BY <1>1, <1>2, <2>1, <2>2, <2>3 DEF FlowsTypeOK, OnlineInv, FallbackOK
<1>4. TrackedHasFlow
    <2> SUFFICES ASSUME Cardinality(Clients) <= MaxFallback, NEW s \in Tracked(flows)
                 PROVE  Claimed(flows, ClientOf[s]).phase # "APP1"
        BY DEF TrackedHasFlow
    <2> DEFINE k == ClientOf[s]
    <2>1. k \in Clients
        BY ClientsAre DEF Tracked
    <2>2. \E r \in Tracked(flows) : ClientOf[r] = k
        OBVIOUS
    <2> HIDE DEF k
    <2>3. Claimed(flows, k).phase # "APP1"
        BY <1>1, <2>1, <2>2, ClaimedIs
    <2>4. QED
        BY <2>3 DEF k
<1>5. FlowsDisjoint
    <2> SUFFICES ASSUME NEW k \in Clients
                 PROVE  /\ IsInjective(flows.pending[k])
                        /\ \A s \in ToSet(flows.pending[k]) \cup ({flows.active[k]} \ {NoFlow}) :
                               ClientOf[s] = k /\ s \in Tracked(flows)
                        /\ flows.active[k] = NoFlow \/ ~Contains(flows.pending[k], flows.active[k])
        BY DEF FlowsDisjoint
    <2> DEFINE q == flows.pending[k]
               a == flows.active[k]
    <2>1. QueueOK(q, a, flows.serial, k)
        BY <1>2
    <2> HIDE DEF q, a
    <2>2. q \in Seq(Sessions) /\ DOMAIN q = 1 .. Len(q) /\ \A i \in DOMAIN q : q[i] \in Sessions
        BY <2>1, LenProperties DEF QueueOK
    <2>3. \A s \in ToSet(q) \cup ({a} \ {NoFlow}) : ClientOf[s] = k /\ s \in Tracked(flows)
        BY <2>1, <2>2 DEF QueueOK, ToSet, Tracked
    <2>4. ~Contains(q, a)
        BY <2>1, <2>2 DEF QueueOK, Contains
    <2>5. QED
        BY <2>1, <2>3, <2>4 DEF QueueOK, q, a
<1>6. QED
    BY <1>3, <1>4, <1>5 DEF FlowsSound

\* While threads catch up with old lists of the players in any order, a login
\* waits once or is active, for its own client only, and a tracked login never
\* finds its next connection taken for APP1.
THEOREM FlowsAreSound == FlowsSpec => []FlowsSound
BY FlowsInvSound, FlowsInvariant, PTL

\* A login that is repeated does not rewind the flow of its session.
THEOREM FlowsAreNotRewound == FlowsSpec => ReloginKeepsPhase
<1> DEFINE NotRewound ==
        (\E c \in Connections : Sync(c)) =>
            \A s \in Tracked(flows) \cap Tracked(flows') : flows'.phase[s] = flows.phase[s]
<1>1. FlowsInv => NotRewound
    <2> SUFFICES ASSUME FlowsInv, NEW c \in Connections, Sync(c)
                 PROVE  \A s \in Tracked(flows) \cap Tracked(flows') : flows'.phase[s] = flows.phase[s]
        OBVIOUS
    <2>1. conns[c].list \in PlayerLists /\ Numbered(conns[c].list) /\ Sound(flows)
        BY ThreadIs DEF Sync, FlowsInv
    <2>2. flows' = Synced(flows, conns[c].list)
        BY DEF Sync
    <2>3. QED
        BY <2>1, <2>2, SyncedIs
<1>2. FlowsSpec => [][NotRewound]_flowVars
    BY <1>1, FlowsInvariant, PTL
<1>3. QED
    BY <1>2, PTL DEF ReloginKeepsPhase

=============================================================================

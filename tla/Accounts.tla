------------------------------ MODULE Accounts ------------------------------
(***************************************************************************)
(* Accounts of the shared store and the signup pages that make them        *)
(* (opensnap_web/signup.py, storage/sql.py SqlAccountStore).               *)
(*                                                                         *)
(* Web requests run side by side, in threads and in processes: a request   *)
(* takes one step per SQL statement, with what it read before in hand.     *)
(* Statements are atomic in every backend.  Hashes and encryption are left *)
(* out: a verifier is as good as its password, and a recovery code or a    *)
(* generated password record is never made twice.                          *)
(***************************************************************************)
EXTENDS Integers, FiniteSets, TLC

CONSTANTS
    Usernames,
    ShortNames,    \* the usernames short enough for the KAGE directory
    Passwords,
    Forms,         \* the requests that can be on their way at once
    NoAccount,
    MaxCodes       \* bound: recovery codes ever made

Codes == 1 .. MaxCodes
Account == [password : Passwords, code : Codes, key : Passwords \cup {NoAccount}]

ASSUME AccountsAssumption ==
    ShortNames \subseteq Usernames /\ MaxCodes \in Nat /\ NoAccount \notin Account

VARIABLES
    users,       \* table users: the account of each name
    codes,       \* recovery codes made so far
    forms,       \* the requests on their way
    accepted,    \* history: passwords accepted, with the recovery code of the time
    spent,       \* history: how many recoveries each code was accepted for
    overtaken    \* history: names recovered while a verified login had its key to store

accountVars == <<users, codes, forms, accepted, spent, overtaken>>

Idle == [at |-> "idle"]

AccountsTypeOK ==
    /\ users \in [Usernames -> Account \cup {NoAccount}]
    /\ codes \in 0 .. MaxCodes
    /\ \A f \in Forms : forms[f].at \in {"idle", "lookup", "create", "again", "find", "update", "reread", "key"}
    /\ accepted \in [Usernames -> SUBSET [code : Codes, typed : Passwords]]
    /\ spent \in [Codes -> 0 .. 2] /\ overtaken \subseteq Usernames

AccountsInit ==
    /\ users = [n \in Usernames |-> NoAccount] /\ codes = 0
    /\ forms = [f \in Forms |-> Idle]
    /\ accepted = [n \in Usernames |-> {}]
    /\ spent = [c \in Codes |-> 0] /\ overtaken = {}

-----------------------------------------------------------------------------
\* The pages check what was typed before anything is read.
ValidUsername(name, kage) == kage => name \in ShortNames

Go(f, form) == forms' = [forms EXCEPT ![f] = form]

\* The page that says the account is ready: the request is over.
Ready(f, account) ==
    /\ Go(f, Idle)
    /\ accepted' = [accepted EXCEPT ![forms[f].name] = @ \cup {[code |-> account.code, typed |-> forms[f].typed]}]

\* A login is accepted; in the KAGE directory its key is stored first.
Accept(f, account) ==
    IF forms[f].kage
    THEN Go(f, [forms[f] EXCEPT !.at = "key", !.account = account]) /\ UNCHANGED accepted
    ELSE Ready(f, account)

Refuse(f) == Go(f, Idle) /\ UNCHANGED accepted

VerifyPassword(f, account) ==
    IF account.password = forms[f].typed THEN Accept(f, account) ELSE Refuse(f)

CreateId(f, name, typed, kage) ==
    /\ forms[f] = Idle /\ ValidUsername(name, kage)
    /\ Go(f, [at |-> "lookup", name |-> name, typed |-> typed, kage |-> kage, account |-> NoAccount])
    /\ UNCHANGED <<users, codes, accepted, spent, overtaken>>

GetByName(f) ==
    /\ forms[f].at = "lookup"
    /\ IF users[forms[f].name] = NoAccount
       THEN Go(f, [forms[f] EXCEPT !.at = "create"]) /\ UNCHANGED accepted
       ELSE VerifyPassword(f, users[forms[f].name])
    /\ UNCHANGED <<users, codes, spent, overtaken>>

\* A fault: a new account is given the code of the last one.
NewAccountOldCode(typed) == [password |-> typed, code |-> codes, key |-> NoAccount]

\* A recovery code of its own, and no KAGE key.
NewAccount(typed) == [password |-> typed, code |-> codes + 1, key |-> NoAccount]

\* A fault: a name that was created meanwhile counts as created by this request.
CreateUserOver(f) ==
    LET name == forms[f].name
        account == NewAccount(forms[f].typed)
    IN /\ forms[f].at = "create"
       /\ IF users[name] = NoAccount
          THEN /\ codes < MaxCodes /\ codes' = codes + 1
               /\ users' = [users EXCEPT ![name] = account]
               /\ Accept(f, account)
          ELSE Accept(f, users[name]) /\ UNCHANGED <<users, codes>>
       /\ UNCHANGED <<spent, overtaken>>

\* The name is unique: the second of two inserts raises DuplicateAccountError.
CreateUser(f) ==
    LET name == forms[f].name
        account == NewAccount(forms[f].typed)
    IN /\ forms[f].at = "create"
       /\ IF users[name] = NoAccount
          THEN /\ codes < MaxCodes /\ codes' = codes + 1
               /\ users' = [users EXCEPT ![name] = account]
               /\ Accept(f, account)
          ELSE Go(f, [forms[f] EXCEPT !.at = "again"]) /\ UNCHANGED <<users, codes, accepted>>
       /\ UNCHANGED <<spent, overtaken>>

GetAgain(f) ==
    /\ forms[f].at = "again"
    /\ IF users[forms[f].name] = NoAccount
       THEN Refuse(f)
       ELSE VerifyPassword(f, users[forms[f].name])
    /\ UNCHANGED <<users, codes, spent, overtaken>>

SetKageLoginKey(f) ==
    /\ forms[f].at = "key"
    /\ users' = [users EXCEPT ![forms[f].name].key = forms[f].typed]
    /\ Ready(f, forms[f].account)
    /\ UNCHANGED <<codes, spent, overtaken>>

-----------------------------------------------------------------------------
RecoverId(f, name, code, typed, kage) ==
    /\ forms[f] = Idle /\ ValidUsername(name, kage)
    /\ Go(f, [at |-> "find", name |-> name, typed |-> typed, kage |-> kage, account |-> NoAccount, code |-> code, new |-> 0])
    /\ UNCHANGED <<users, codes, accepted, spent, overtaken>>

\* The account is looked up, and the new code made.
FindAccount(f) ==
    /\ forms[f].at = "find"
    /\ IF users[forms[f].name] = NoAccount
       THEN Refuse(f) /\ UNCHANGED codes
       ELSE /\ codes < MaxCodes /\ codes' = codes + 1
            /\ Go(f, [forms[f] EXCEPT !.at = "update", !.new = codes + 1])
            /\ UNCHANGED accepted
    /\ UNCHANGED <<users, spent, overtaken>>

\* Logins of the name that verified its password and have a key to store.
KeysToStore(f) == {g \in Forms \ {f} : forms[g].at = "key" /\ forms[g].name = forms[f].name}

\* A fault: the old code is checked when the account is read, not in the update.
UpdateUnmatched(f) ==
    LET name == forms[f].name IN
    /\ forms[f].at = "update"
    /\ Go(f, [forms[f] EXCEPT !.at = "reread"])
    /\ users' = [users EXCEPT ![name] = [password |-> forms[f].typed, code |-> forms[f].new, key |-> NoAccount]]
    /\ overtaken' = IF KeysToStore(f) # {} THEN overtaken \cup {name} ELSE overtaken
    /\ UNCHANGED <<codes, accepted, spent>>

\* A fault: the key of the old password stays.
UpdateKeepsKey(f) ==
    LET name == forms[f].name IN
    /\ forms[f].at = "update"
    /\ Go(f, [forms[f] EXCEPT !.at = "reread"])
    /\ IF users[name].code = forms[f].code
       THEN /\ users' = [users EXCEPT ![name].password = forms[f].typed, ![name].code = forms[f].new]
            /\ overtaken' = IF KeysToStore(f) # {} THEN overtaken \cup {name} ELSE overtaken
       ELSE UNCHANGED <<users, overtaken>>
    /\ UNCHANGED <<codes, accepted, spent>>

\* UPDATE ... WHERE user_id = ? AND recovery_code = ?
Update(f) ==
    LET name == forms[f].name IN
    /\ forms[f].at = "update"
    /\ Go(f, [forms[f] EXCEPT !.at = "reread"])
    /\ IF users[name].code = forms[f].code
       THEN /\ users' = [users EXCEPT ![name] = [password |-> forms[f].typed, code |-> forms[f].new, key |-> NoAccount]]
            /\ overtaken' = IF KeysToStore(f) # {} THEN overtaken \cup {name} ELSE overtaken
       ELSE UNCHANGED <<users, overtaken>>
    /\ UNCHANGED <<codes, accepted, spent>>

\* The account is read again: the update took place when the new code is there.
Reread(f) ==
    LET account == users[forms[f].name] IN
    /\ forms[f].at = "reread"
    /\ IF account.code = forms[f].new
       THEN /\ Accept(f, account)
            /\ spent' = [spent EXCEPT ![forms[f].code] = @ + 1]
       ELSE Refuse(f) /\ UNCHANGED spent
    /\ UNCHANGED <<users, codes, overtaken>>

\* The web server stops: its requests are gone, whatever they have written stays.
WebStops ==
    /\ \E f \in Forms : forms[f] # Idle
    /\ forms' = [f \in Forms |-> Idle]
    /\ UNCHANGED <<users, codes, accepted, spent, overtaken>>

AccountsNext ==
    \/ \E f \in Forms :
        \/ \E name \in Usernames, typed \in Passwords, kage \in BOOLEAN :
            \/ CreateId(f, name, typed, kage)
            \/ \E code \in 1 .. codes : RecoverId(f, name, code, typed, kage)
        \/ GetByName(f) \/ CreateUser(f) \/ GetAgain(f) \/ SetKageLoginKey(f)
        \/ FindAccount(f) \/ Update(f) \/ Reread(f)
    \/ WebStops

AccountsSpec == AccountsInit /\ [][AccountsNext]_accountVars

-----------------------------------------------------------------------------
\* A recovery code sets one new password, however many requests use it at
\* once: the update matches the old code (SqlAccountStore.recover).
OneRecoveryPerCode == \A c \in Codes : spent[c] <= 1

\* Two requests that were both accepted for one name, with no recovery between
\* them, typed the same password: of two that create the account at once, the
\* later one is a login (create_or_login).
AgreeOnPassword ==
    \A n \in Usernames : \A a, b \in accepted[n] : a.code = b.code => a.typed = b.typed

\* The key that the KAGE bootstrap login encrypts with is the account's
\* password, or none.  A login that verified the old password may still store
\* it after a recovery (signup.py:202-206): only then are they different.
KeyIsPassword ==
    \A n \in Usernames \ overtaken :
        users[n] # NoAccount => users[n].key \in {NoAccount, users[n].password}

\* Accounts stay usable while forms for the same name interleave statement by statement.
AccountsSound ==
  /\ AccountsTypeOK
  /\ OneRecoveryPerCode
  /\ AgreeOnPassword
  /\ KeyIsPassword

=============================================================================

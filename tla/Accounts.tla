-------------------------------- MODULE Accounts -------------------------------
(***************************************************************************)
(* Accounts and the sessions opened on them (oxidrop/src/db.rs,             *)
(* oxidrop/src/auth.rs, oxidrop/src/api.rs, oxidrop/src/router.rs).  The    *)
(* accounts are rows of SQLite; the sessions are in Redis and survive a     *)
(* restart.  A session names an account by its row id and is good for the   *)
(* password hash it was opened with.                                        *)
(*                                                                          *)
(* A hash is salted, so hashing makes a new one each time: they are         *)
(* numbered.  A step of a request ends at an await.                         *)
(***************************************************************************)
EXTENDS Naturals

CONSTANTS
    Request,        \* the requests that may be in progress together
    Jar,            \* the clients, each with the cookie of one session
    Name,           \* user names
    DefaultName,    \* "admin"
    Grant,          \* the roles and permissions a request may ask for
    MaxGiven,       \* bounds: how many hashes there are before the last that an
    MaxHashes       \* administrator gives, and before the last that a user chooses

Permission == {"CREATE", "MODIFY", "DELETE"}

Rights == [admin : BOOLEAN, permissions : SUBSET Permission]

ASSUME NameAssumption == DefaultName \in Name
ASSUME GrantAssumption == Grant \subseteq Rights
ASSUME BoundAssumption == MaxGiven \in Nat /\ MaxHashes \in Nat

VARIABLES
    up,         \* the server answers requests
    users,      \* the table of accounts, by id
    session,    \* the session of each client
    req,        \* the requests, in progress or idle
    hashes,     \* how many hashes have been made
    handed      \* history: hashes of passwords that somebody else chose for the
                \* account, to be changed at its first login

vars == <<up, users, session, req, hashes, handed>>

Hash == Nat \ {0}

(* "born" is a history: the account's first hash, which no other account has. *)
Account == [name : Name, hash : Hash, grant : Rights,
            mustChange : BOOLEAN, active : BOOLEAN, born : Hash]

Login == [born : Hash, hash : Hash]

Id == DOMAIN users
LoginOf(id) == [born |-> users[id].born, hash |-> users[id].hash]

(* Two histories: "proved", the account and the hash that the client last gave *)
(* or chose the password of; "stray", whether the session was bound to others. *)
NoSession == [id |-> 0]
Session == [id : Hash, hash : Hash, proved : Login, stray : BOOLEAN]

(* A request holds the account as it read it, or as it believes it wrote it. *)
Idle == [stage |-> "idle"]
Call ==
    [stage : {"open", "change", "reload"}, jar : Jar, id : Hash, user : Login]
    \cup [stage : {"bind"}, jar : Jar, id : Hash, user : Login, found : Login]
    \cup [stage : {"manage"}, jar : Jar, user : Login, caller : Rights]

At(r, stage) == req[r].stage = stage

--------------------------------------------------------------------------------
(* authenticate and the session's login *)

Begin(r, stage, j, id) ==
    req' = [req EXCEPT ![r] = [stage |-> stage, jar |-> j, id |-> id, user |-> LoginOf(id)]]

Finish(r) == req' = [req EXCEPT ![r] = Idle]

(* The row is read and the password verified; verifying takes a while. *)
Authenticate(r, j) ==
    /\ up
    /\ At(r, "idle")
    /\ \E id \in Id :
        /\ users[id].active
        /\ Begin(r, "open", j, id)
    /\ UNCHANGED <<up, users, session, hashes, handed>>

OpenSession(r) ==
    /\ At(r, "open")
    /\ session' = [session EXCEPT ![req[r].jar] =
            [id |-> req[r].id, hash |-> req[r].user.hash,
             proved |-> req[r].user, stray |-> FALSE]]
    /\ Finish(r)
    /\ UNCHANGED <<up, users, hashes, handed>>

(* Logged out, or idle for ten minutes. *)
SessionEnds(j) ==
    /\ session[j] # NoSession
    /\ session' = [session EXCEPT ![j] = NoSession]
    /\ UNCHANGED <<up, users, req, hashes, handed>>

--------------------------------------------------------------------------------
(* The layers a request passes before its handler *)

GetUserFinds(id) == id \in Id /\ users[id].active

SessionUnverified(j) == TRUE

SessionVerified(j) == session[j].hash = users[session[j].id].hash

PasswordChangeCompleted(id) == ~users[id].mustChange

LoggedIn(j) ==
    /\ session[j] # NoSession
    /\ GetUserFinds(session[j].id)
    /\ SessionVerified(j)

AdmitChange(r, j) ==
    /\ up
    /\ At(r, "idle")
    /\ LoggedIn(j)
    /\ Begin(r, "change", j, session[j].id)
    /\ UNCHANGED <<up, users, session, hashes, handed>>

AdmitManage(r, j) ==
    /\ up
    /\ At(r, "idle")
    /\ LoggedIn(j)
    /\ PasswordChangeCompleted(session[j].id)
    /\ req' = [req EXCEPT ![r] =
            [stage |-> "manage", jar |-> j, user |-> LoginOf(session[j].id),
             caller |-> users[session[j].id].grant]]
    /\ UNCHANGED <<up, users, session, hashes, handed>>

(* A session of another hash is discarded, one of an absent account is kept. *)
Flush(j) ==
    /\ up
    /\ session[j] # NoSession
    /\ GetUserFinds(session[j].id)
    /\ ~SessionVerified(j)
    /\ session' = [session EXCEPT ![j] = NoSession]
    /\ UNCHANGED <<up, users, req, hashes, handed>>

--------------------------------------------------------------------------------
(* change_password_endpoint *)

NewHash == hashes + 1

ChangePassword(r) ==
    /\ At(r, "change")
    /\ hashes < MaxHashes
    /\ req[r].id \in Id
    /\ users' = [users EXCEPT ![req[r].id].hash = NewHash, ![req[r].id].mustChange = FALSE]
    /\ hashes' = NewHash
    /\ req' = [req EXCEPT ![r].stage = "reload", ![r].user.hash = NewHash]
    /\ UNCHANGED <<up, session, handed>>

Reload(r) ==
    /\ At(r, "reload")
    /\ GetUserFinds(req[r].id)
    /\ req' = [req EXCEPT ![r] =
            [stage |-> "bind", jar |-> req[r].jar, id |-> req[r].id,
             user |-> req[r].user, found |-> LoginOf(req[r].id)]]
    /\ UNCHANGED <<up, users, session, hashes, handed>>

BindWithoutLogin(r) ==
    /\ At(r, "bind")
    /\ session' = [session EXCEPT ![req[r].jar] =
            IF @ = NoSession THEN @ ELSE [@ EXCEPT !.proved = req[r].user]]
    /\ Finish(r)
    /\ UNCHANGED <<up, users, hashes, handed>>

Bind(r) ==
    /\ At(r, "bind")
    /\ session' = [session EXCEPT ![req[r].jar] =
            [id |-> req[r].id, hash |-> req[r].found.hash,
             proved |-> req[r].user, stray |-> req[r].found # req[r].user]]
    /\ Finish(r)
    /\ UNCHANGED <<up, users, hashes, handed>>

--------------------------------------------------------------------------------
(* create_user, modify_user, change_username and delete_user: one statement, *)
(* on the caller as it was read when the request came in                     *)

CallerMay(r, permission) ==
    /\ At(r, "manage")
    /\ req[r].caller.admin
    /\ permission \in req[r].caller.permissions

TakenByActive(name) == \E id \in Id : users[id].name = name /\ users[id].active

Taken(name) == \E id \in Id : users[id].name = name

(* INTEGER PRIMARY KEY: one past the largest id, so the last one is reused. *)
NextRowId(id) ==
    /\ \A other \in Id : other < id
    /\ id = 1 \/ id - 1 \in Id

InsertUser(name, grant, mustChange) ==
    /\ ~Taken(name)
    /\ \E id \in 1..NewHash :
        /\ NextRowId(id)
        /\ users' = [i \in Id \cup {id} |->
               IF i # id THEN users[i]
               ELSE [name |-> name, hash |-> NewHash, grant |-> grant,
                     mustChange |-> mustChange, active |-> TRUE, born |-> NewHash]]
    /\ hashes' = NewHash
    /\ handed' = IF mustChange THEN handed \cup {NewHash} ELSE handed

CreateUser(r) ==
    /\ CallerMay(r, "CREATE")
    /\ hashes < MaxGiven
    /\ \E name \in Name, grant \in Grant, mustChange \in BOOLEAN :
        InsertUser(name, grant, mustChange)
    /\ Finish(r)
    /\ UNCHANGED <<up, session>>

(* Without a password the hash and the flag stay. *)
ModifyUser(r) ==
    /\ CallerMay(r, "MODIFY")
    /\ \E id \in Id, grant \in Grant, active \in BOOLEAN :
        users' = [users EXCEPT ![id].grant = grant, ![id].active = active]
    /\ Finish(r)
    /\ UNCHANGED <<up, session, hashes, handed>>

ResetKeepingFlag(r) ==
    /\ CallerMay(r, "MODIFY")
    /\ hashes < MaxGiven
    /\ \E id \in Id, grant \in Grant, active \in BOOLEAN :
        users' = [users EXCEPT ![id].grant = grant, ![id].active = active,
                               ![id].hash = NewHash]
    /\ hashes' = NewHash
    /\ handed' = handed \cup {NewHash}
    /\ Finish(r)
    /\ UNCHANGED <<up, session>>

ResetUser(r) ==
    /\ CallerMay(r, "MODIFY")
    /\ hashes < MaxGiven
    /\ \E id \in Id, grant \in Grant, active \in BOOLEAN :
        users' = [users EXCEPT ![id].grant = grant, ![id].active = active,
                               ![id].hash = NewHash, ![id].mustChange = TRUE]
    /\ hashes' = NewHash
    /\ handed' = handed \cup {NewHash}
    /\ Finish(r)
    /\ UNCHANGED <<up, session>>

ChangeUsername(r) ==
    /\ CallerMay(r, "MODIFY")
    /\ \E id \in Id, name \in Name :
        /\ Taken(name) => users[id].name = name
        /\ users' = [users EXCEPT ![id].name = name]
    /\ Finish(r)
    /\ UNCHANGED <<up, session, hashes, handed>>

DeleteUser(r) ==
    /\ CallerMay(r, "DELETE")
    /\ \E id \in Id : users' = [i \in Id \ {id} |-> users[i]]
    /\ Finish(r)
    /\ UNCHANGED <<up, session, hashes, handed>>

(* An answer without a further change: refused, failed, timed out, dropped. *)
RequestEnds(r) ==
    /\ req[r] # Idle
    /\ Finish(r)
    /\ UNCHANGED <<up, users, session, hashes, handed>>

--------------------------------------------------------------------------------
Crash ==
    /\ up
    /\ up' = FALSE
    /\ req' = [r \in Request |-> Idle]
    /\ UNCHANGED <<users, session, hashes, handed>>

(* bootstrap_default_admin comes before the server. *)
Start ==
    /\ ~up
    /\ up' = TRUE
    /\ \/ /\ Id # {}
          /\ UNCHANGED <<users, hashes, handed>>
       \/ /\ Id = {}
          /\ InsertUser(DefaultName, [admin |-> TRUE, permissions |-> Permission], TRUE)
    /\ UNCHANGED <<session, req>>

Init ==
    /\ up = FALSE
    /\ users = [id \in {} |-> 0]
    /\ session = [j \in Jar |-> NoSession]
    /\ req = [r \in Request |-> Idle]
    /\ hashes = 0
    /\ handed = {}

RequestStep(r) ==
    \/ \E j \in Jar : Authenticate(r, j) \/ AdmitChange(r, j) \/ AdmitManage(r, j)
    \/ OpenSession(r)
    \/ ChangePassword(r) \/ Reload(r) \/ Bind(r)
    \/ CreateUser(r) \/ ModifyUser(r) \/ ResetUser(r) \/ ChangeUsername(r) \/ DeleteUser(r)
    \/ RequestEnds(r)

Next ==
    \/ \E r \in Request : RequestStep(r)
    \/ \E j \in Jar : SessionEnds(j) \/ Flush(j)
    \/ Crash
    \/ Start

Spec == Init /\ [][Next]_vars

--------------------------------------------------------------------------------
(* Every account, session and request is well formed, and no two accounts have *)
(* one name.                                                                   *)
TypeOK ==
    /\ up \in BOOLEAN
    /\ Id \subseteq Hash
    /\ users \in [Id -> Account]
    /\ \A i, k \in Id : users[i].name = users[k].name => i = k
    /\ session \in [Jar -> {NoSession} \cup Session]
    /\ req \in [Request -> {Idle} \cup Call]
    /\ hashes \in Nat
    /\ handed \subseteq 1..hashes

(* No request passes to a handler behind require_completed_password_change on   *)
(* a password that somebody else chose for the account (bootstrap, reset, a     *)
(* creation that says so), whatever resets, changes and deletions overlap it.   *)
GatedUntilChanged ==
    \A r \in Request : At(r, "manage") => req[r].user.hash \notin handed

(* A request is admitted only for the account whose password its client gave or *)
(* chose, and only while that password is in force; through deletions that free *)
(* an id, resets, renames and restarts.  Except after a change_password that    *)
(* reloaded a row it had not written.                                           *)
AdmittedOnProof ==
    [][\A r \in Request, j \in Jar :
        \A stage \in {"change", "manage"} :
            (At(r, "idle") /\ req'[r] # Idle /\ req'[r].stage = stage /\ req'[r].jar = j)
            => session[j].stray \/ session[j].proved = req'[r].user
      ]_vars

(* A client that last proved the password now in force keeps its session: its   *)
(* own change of password does not log it out.                                  *)
ProvedIsVerified ==
    \A j \in Jar :
        /\ session[j] # NoSession
        /\ session[j].id \in Id
        /\ session[j].proved = LoginOf(session[j].id)
        => SessionVerified(j)
================================================================================

----------------------------- MODULE AccountsProofs ----------------------------
(***************************************************************************)
(* What Accounts promises of sessions and passwords, for any number of      *)
(* clients, requests, names and hashes.                                     *)
(***************************************************************************)
EXTENDS Accounts, TLAPS

USE DEF Id

(***************************************************************************)
(* Types                                                                    *)
(***************************************************************************)
LEMMA Distinct ==
    /\ Idle.stage = "idle"
    /\ \A call \in Call : call # Idle /\ call.stage # "idle"
    /\ \A s \in Session : s # NoSession
<1>1. \A call \in Call : call.stage # "idle"
  BY DEF Call
<1>2. \A s \in Session : s.id # 0
  BY DEF Session, Hash
<1> QED BY <1>1, <1>2 DEF Idle, NoSession

LEMMA CallFields ==
    ASSUME NEW call \in Call
    PROVE  /\ call.jar \in Jar /\ call.user \in Login
           /\ call.stage \in {"open", "change", "reload"} =>
                call \in [stage : {"open", "change", "reload"}, jar : Jar, id : Hash, user : Login]
           /\ call.stage = "bind" =>
                call \in [stage : {"bind"}, jar : Jar, id : Hash, user : Login, found : Login]
           /\ call.stage = "manage" =>
                call \in [stage : {"manage"}, jar : Jar, user : Login, caller : Rights]
<1>1. CASE call \in [stage : {"open", "change", "reload"}, jar : Jar, id : Hash, user : Login]
  BY <1>1
<1>2. CASE call \in [stage : {"bind"}, jar : Jar, id : Hash, user : Login, found : Login]
  BY <1>2
<1>3. CASE call \in [stage : {"manage"}, jar : Jar, user : Login, caller : Rights]
  BY <1>3
<1> QED BY <1>1, <1>2, <1>3 DEF Call

(* What TypeOK says of the account table. *)
Table == /\ Id \subseteq Hash
         /\ users \in [Id -> Account]
         /\ \A i, k \in Id : users[i].name = users[k].name => i = k

LEMMA LoginType ==
    ASSUME Table, NEW id \in Id
    PROVE  /\ LoginOf(id) \in Login /\ id \in Hash
           /\ LoginOf(id).hash = users[id].hash /\ LoginOf(id).born = users[id].born
           /\ users[id].grant \in Rights
BY DEF Table, LoginOf, Login, Account

(***************************************************************************)
(* Steps on the table                                                       *)
(***************************************************************************)
(* A row keeps its hash, or has one that is new. *)
Kept(i) == /\ i \in Id
           /\ LoginOf(i)' = LoginOf(i)
           /\ users'[i].mustChange = users[i].mustChange
Rehashed(i) == /\ hashes' = hashes + 1
               /\ users'[i].hash = hashes + 1
               /\ users'[i].born \in 1..(hashes + 1)
               /\ hashes + 1 \in handed' => users'[i].mustChange

Evolves ==
    /\ \A i \in Id' : Kept(i) \/ Rehashed(i)
    /\ \A i, k \in Id' : users'[i].hash = hashes + 1 /\ users'[k].hash = hashes + 1 => i = k
    /\ \/ hashes' = hashes /\ handed' = handed
       \/ hashes' = hashes + 1 /\ handed \subseteq handed' /\ handed' \subseteq handed \cup {hashes + 1}

Counted == \A i \in Id : users[i].hash \in 1..hashes /\ users[i].born \in 1..hashes

(* How one row differs after a statement. *)
LEMMA UpdateRow ==
    ASSUME Table, Counted, hashes \in Nat, handed \subseteq 1..hashes,
           NEW id \in Id, NEW row \in Account,
           users' = [users EXCEPT ![id] = row],
           row.born = users[id].born,
           \A i \in Id : users[i].name = row.name => i = id,
           \/ /\ row.hash = users[id].hash /\ row.mustChange = users[id].mustChange
              /\ hashes' = hashes /\ handed' = handed
           \/ /\ row.hash = hashes + 1 /\ hashes' = hashes + 1
              /\ \/ handed' = handed
                 \/ handed' = handed \cup {hashes + 1} /\ row.mustChange = TRUE
    PROVE  Table' /\ Evolves /\ handed' \subseteq 1..hashes' /\ hashes' \in Nat
<1>1. /\ Id' = Id /\ users'[id] = row
      /\ \A i \in Id \ {id} : users'[i] = users[i]
  BY DEF Table
<1>2. Table'
  BY <1>1 DEF Table
<1>3. \A i \in Id : users[i].hash # hashes + 1
  BY DEF Counted
<1>4. \A i \in Id' : Kept(i) \/ Rehashed(i)
  BY <1>1 DEF Kept, Rehashed, LoginOf, Counted
<1>5. \A i, k \in Id' : users'[i].hash = hashes + 1 /\ users'[k].hash = hashes + 1 => i = k
  BY <1>1, <1>3
<1> QED BY <1>2, <1>4, <1>5 DEF Evolves

LEMMA InsertRow ==
    ASSUME Table, Counted, hashes \in Nat, handed \subseteq 1..hashes,
           NEW name \in Name, NEW grant \in Rights, NEW mustChange \in BOOLEAN,
           InsertUser(name, grant, mustChange)
    PROVE  Table' /\ Evolves /\ handed' \subseteq 1..hashes' /\ hashes' \in Nat
<1> DEFINE row == [name |-> name, hash |-> NewHash, grant |-> grant,
                   mustChange |-> mustChange, active |-> TRUE, born |-> NewHash]
<1>1. PICK id \in 1..NewHash :
        /\ NextRowId(id)
        /\ users' = [i \in Id \cup {id} |-> IF i # id THEN users[i] ELSE row]
  BY DEF InsertUser
<1>2. id \in Hash /\ id \notin Id
  BY <1>1 DEF NextRowId, Table, Hash, NewHash
<1>3. row \in Account
  BY DEF Account, Hash, NewHash
<1>4. /\ Id' = Id \cup {id} /\ users'[id] = row
      /\ \A i \in Id : users'[i] = users[i]
  BY <1>1, <1>2
<1>5. \A i \in Id : users[i].name # name
  BY DEF InsertUser, Taken
<1>6. Table'
  <2>1. users' \in [Id' -> Account]
    BY <1>1, <1>3, <1>4 DEF Table
  <2> QED BY <1>2, <1>4, <1>5, <2>1 DEF Table
<1>7. \A i \in Id : users[i].hash # hashes + 1
  BY DEF Counted
<1>8. hashes' = hashes + 1 /\ handed' = IF mustChange THEN handed \cup {hashes + 1} ELSE handed
  BY DEF InsertUser, NewHash
<1>9. \A i \in Id' : Kept(i) \/ Rehashed(i)
  <2>1. \A i \in Id : Kept(i)
    BY <1>4 DEF Kept, LoginOf
  <2>2. Rehashed(id)
    BY <1>4, <1>8 DEF Rehashed, NewHash
  <2> QED BY <1>4, <2>1, <2>2
<1>10. \A i, k \in Id' : users'[i].hash = hashes + 1 /\ users'[k].hash = hashes + 1 => i = k
  BY <1>4, <1>7
<1> QED BY <1>6, <1>8, <1>9, <1>10 DEF Evolves

LEMMA RemoveRow ==
    ASSUME Table, Counted, hashes \in Nat, handed \subseteq 1..hashes, NEW id \in Id,
           users' = [i \in Id \ {id} |-> users[i]], hashes' = hashes, handed' = handed
    PROVE  Table' /\ Evolves /\ handed' \subseteq 1..hashes' /\ hashes' \in Nat
<1>1. Id' = Id \ {id} /\ \A i \in Id' : users'[i] = users[i]
  OBVIOUS
<1>2. Table'
  BY <1>1 DEF Table
<1>3. \A i \in Id' : Kept(i)
  BY <1>1 DEF Kept, LoginOf
<1> QED BY <1>1, <1>2, <1>3 DEF Evolves, Counted

LEMMA SameTable ==
    ASSUME Table, Counted, hashes \in Nat, handed \subseteq 1..hashes,
           UNCHANGED <<users, hashes, handed>>
    PROVE  Table' /\ Evolves /\ handed' \subseteq 1..hashes' /\ hashes' \in Nat
<1>1. \A i \in Id' : Kept(i)
  BY DEF Kept, LoginOf
<1> QED BY <1>1 DEF Evolves, Table, Counted

(***************************************************************************)
(* Every step leaves the table as Evolves says                              *)
(***************************************************************************)
LEMMA TypeOKTable == TypeOK => Table
BY DEF TypeOK, Table

LEMMA TableStep ==
    ASSUME TypeOK, Counted, [Next]_vars
    PROVE  Table' /\ Evolves /\ handed' \subseteq 1..hashes' /\ hashes' \in Nat
<1> DEFINE Good == Table' /\ Evolves /\ handed' \subseteq 1..hashes' /\ hashes' \in Nat
<1>1. Table /\ hashes \in Nat /\ handed \subseteq 1..hashes
  BY TypeOKTable DEF TypeOK
<1>2. CASE UNCHANGED <<users, hashes, handed>>
  BY <1>1, <1>2, SameTable
<1>3. ASSUME NEW r \in Request, ChangePassword(r) PROVE Good
  <2>1. req[r].id \in Id /\ handed' = handed /\ hashes' = hashes + 1
    BY <1>3 DEF ChangePassword, NewHash
  <2> DEFINE row == [users[req[r].id] EXCEPT !.hash = hashes + 1, !.mustChange = FALSE]
  <2>2. row \in Account /\ row.born = users[req[r].id].born /\ row.hash = hashes + 1
        /\ row.name = users[req[r].id].name
    <3>1. users[req[r].id] \in Account /\ hashes + 1 \in Hash
      BY <1>1, <2>1 DEF Table, Hash
    <3> QED BY <3>1 DEF Account
  <2>3. users' = [users EXCEPT ![req[r].id] = row]
    BY <1>1, <1>3, <2>1 DEF ChangePassword, Table, NewHash
  <2>4. \A i \in Id : users[i].name = row.name => i = req[r].id
    BY <1>1, <2>1, <2>2 DEF Table
  <2> HIDE DEF row
  <2> QED BY <1>1, <2>1, <2>2, <2>3, <2>4, UpdateRow
<1>4. ASSUME NEW r \in Request, ModifyUser(r) PROVE Good
  <2>1. PICK id \in Id, grant \in Grant, active \in BOOLEAN :
          users' = [users EXCEPT ![id].grant = grant, ![id].active = active]
    BY <1>4 DEF ModifyUser
  <2> DEFINE row == [users[id] EXCEPT !.grant = grant, !.active = active]
  <2>2. row \in Account /\ row.born = users[id].born /\ row.hash = users[id].hash
        /\ row.name = users[id].name /\ row.mustChange = users[id].mustChange
    BY <1>1, GrantAssumption DEF Table, Account
  <2>3. users' = [users EXCEPT ![id] = row]
    BY <1>1, <2>1 DEF Table
  <2>4. \A i \in Id : users[i].name = row.name => i = id
    BY <1>1, <2>2 DEF Table
  <2>5. handed' = handed /\ hashes' = hashes
    BY <1>4 DEF ModifyUser
  <2> HIDE DEF row
  <2> QED BY <1>1, <2>2, <2>3, <2>4, <2>5, UpdateRow
<1>5. ASSUME NEW r \in Request, ResetUser(r) PROVE Good
  <2>1. PICK id \in Id, grant \in Grant, active \in BOOLEAN :
          users' = [users EXCEPT ![id].grant = grant, ![id].active = active,
                                 ![id].hash = hashes + 1, ![id].mustChange = TRUE]
    BY <1>5 DEF ResetUser, NewHash
  <2> DEFINE row == [users[id] EXCEPT !.grant = grant, !.active = active,
                                      !.hash = hashes + 1, !.mustChange = TRUE]
  <2>2. row \in Account /\ row.born = users[id].born /\ row.hash = hashes + 1
        /\ row.name = users[id].name /\ row.mustChange = TRUE
    <3>1. users[id] \in Account /\ hashes + 1 \in Hash /\ grant \in Rights
      BY <1>1, GrantAssumption DEF Table, Hash
    <3> QED BY <3>1 DEF Account
  <2>3. users' = [users EXCEPT ![id] = row]
    BY <1>1, <2>1 DEF Table
  <2>4. \A i \in Id : users[i].name = row.name => i = id
    BY <1>1, <2>2 DEF Table
  <2>5. handed' = handed \cup {hashes + 1} /\ hashes' = hashes + 1
    BY <1>5 DEF ResetUser, NewHash
  <2> HIDE DEF row
  <2> QED BY <1>1, <2>2, <2>3, <2>4, <2>5, UpdateRow
<1>6. ASSUME NEW r \in Request, ChangeUsername(r) PROVE Good
  <2>1. PICK id \in Id, name \in Name :
          /\ Taken(name) => users[id].name = name
          /\ users' = [users EXCEPT ![id].name = name]
    BY <1>6 DEF ChangeUsername
  <2> DEFINE row == [users[id] EXCEPT !.name = name]
  <2>2. row \in Account /\ row.born = users[id].born /\ row.hash = users[id].hash
        /\ row.name = name /\ row.mustChange = users[id].mustChange
    BY <1>1 DEF Table, Account
  <2>3. users' = [users EXCEPT ![id] = row]
    BY <1>1, <2>1 DEF Table
  <2>4. \A i \in Id : users[i].name = row.name => i = id
    BY <1>1, <2>1, <2>2 DEF Table, Taken
  <2>5. handed' = handed /\ hashes' = hashes
    BY <1>6 DEF ChangeUsername
  <2> HIDE DEF row
  <2> QED BY <1>1, <2>2, <2>3, <2>4, <2>5, UpdateRow
<1>7. ASSUME NEW r \in Request, CreateUser(r) PROVE Good
  <2>1. PICK name \in Name, grant \in Grant, mustChange \in BOOLEAN :
          InsertUser(name, grant, mustChange)
    BY <1>7 DEF CreateUser
  <2> QED BY <1>1, <2>1, GrantAssumption, InsertRow
<1>8. ASSUME NEW r \in Request, DeleteUser(r) PROVE Good
  <2>1. PICK id \in Id : users' = [i \in Id \ {id} |-> users[i]]
    BY <1>8 DEF DeleteUser
  <2> QED BY <1>1, <1>8, <2>1, RemoveRow DEF DeleteUser
<1>9. CASE Start
  <2>1. [admin |-> TRUE, permissions |-> Permission] \in Rights
    BY DEF Rights
  <2> QED BY <1>1, <1>2, <1>9, <2>1, NameAssumption, InsertRow DEF Start
<1>10. ASSUME NEW r \in Request, RequestStep(r) PROVE Good
  BY <1>2, <1>3, <1>4, <1>5, <1>6, <1>7, <1>8, <1>10
  DEF RequestStep, Authenticate, AdmitChange, AdmitManage, OpenSession, Reload, Bind, RequestEnds
<1> QED BY <1>2, <1>9, <1>10 DEF Next, vars, SessionEnds, Flush, Crash

(***************************************************************************)
(* Type correctness                                                         *)
(***************************************************************************)
LEMMA BeginType ==
    ASSUME TypeOK, NEW r \in Request, NEW j \in Jar, NEW id \in Id,
           NEW stage \in {"open", "change"}, Begin(r, stage, j, id)
    PROVE  req' \in [Request -> {Idle} \cup Call]
<1>1. [stage |-> stage, jar |-> j, id |-> id, user |-> LoginOf(id)] \in Call
  BY TypeOKTable, LoginType DEF Call
<1> QED BY <1>1 DEF TypeOK, Begin

LEMMA CallType ==
    ASSUME TypeOK, NEW r \in Request, NEW stage, At(r, stage), stage # "idle"
    PROVE  /\ req[r] \in Call /\ req[r].jar \in Jar /\ req[r].user \in Login
           /\ stage \in {"open", "change", "reload", "bind"} => req[r].id \in Hash
           /\ stage = "bind" => req[r].found \in Login
<1>1. req[r] \in Call
  BY Distinct DEF TypeOK, At
<1> QED BY <1>1, CallFields DEF At

LEMMA CallsStep ==
    ASSUME TypeOK, [Next]_vars
    PROVE  req' \in [Request -> {Idle} \cup Call]
<1> DEFINE Good == req' \in [Request -> {Idle} \cup Call]
<1>1. ASSUME NEW r \in Request, Finish(r) PROVE Good
  BY <1>1 DEF Finish, TypeOK
<1>2. ASSUME NEW r \in Request, NEW j \in Jar, Authenticate(r, j) PROVE Good
  BY <1>2, BeginType DEF Authenticate
<1>3. ASSUME NEW r \in Request, NEW j \in Jar, AdmitChange(r, j) PROVE Good
  BY <1>3, BeginType DEF AdmitChange, LoggedIn, GetUserFinds
<1>4. ASSUME NEW r \in Request, NEW j \in Jar, AdmitManage(r, j) PROVE Good
  <2>1. session[j].id \in Id
    BY <1>4 DEF AdmitManage, LoggedIn, GetUserFinds
  <2>2. [stage |-> "manage", jar |-> j, user |-> LoginOf(session[j].id),
         caller |-> users[session[j].id].grant] \in Call
    BY <2>1, TypeOKTable, LoginType DEF Call
  <2> QED BY <1>4, <2>2 DEF AdmitManage, TypeOK
<1>5. ASSUME NEW r \in Request, ChangePassword(r) PROVE Good
  <2> DEFINE c == [req[r] EXCEPT !.stage = "reload", !.user.hash = NewHash]
  <2>1. req[r] \in [stage : {"open", "change", "reload"}, jar : Jar, id : Hash, user : Login]
    BY <1>5, CallType, CallFields DEF ChangePassword, At
  <2>2. NewHash \in Hash
    BY DEF NewHash, Hash, TypeOK
  <2>3. c \in [stage : {"open", "change", "reload"}, jar : Jar, id : Hash, user : Login]
    BY <2>1, <2>2 DEF Login
  <2>4. c \in Call
    BY <2>3 DEF Call
  <2>5. req' = [req EXCEPT ![r] = c]
    BY <1>5 DEF ChangePassword, TypeOK
  <2> HIDE DEF c
  <2> QED BY <2>4, <2>5 DEF TypeOK
<1>6. ASSUME NEW r \in Request, Reload(r) PROVE Good
  <2> DEFINE c == [stage |-> "bind", jar |-> req[r].jar, id |-> req[r].id,
                   user |-> req[r].user, found |-> LoginOf(req[r].id)]
  <2>1. req[r].jar \in Jar /\ req[r].id \in Hash /\ req[r].user \in Login
    BY <1>6, CallType DEF Reload
  <2>2. LoginOf(req[r].id) \in Login
    BY <1>6, TypeOKTable, LoginType DEF Reload, GetUserFinds
  <2>3. c \in Call
    BY <2>1, <2>2 DEF Call
  <2>4. req' = [req EXCEPT ![r] = c]
    BY <1>6 DEF Reload
  <2> HIDE DEF c
  <2> QED BY <2>3, <2>4 DEF TypeOK
<1>7. ASSUME NEW r \in Request, RequestStep(r) PROVE Good
  BY <1>1, <1>2, <1>3, <1>4, <1>5, <1>6, <1>7
  DEF RequestStep, OpenSession, Bind, CreateUser, ModifyUser, ResetUser, ChangeUsername,
      DeleteUser, RequestEnds
<1>8. CASE UNCHANGED req
  BY <1>8 DEF TypeOK
<1>9. CASE Crash
  BY <1>9 DEF Crash
<1> QED BY <1>7, <1>8, <1>9 DEF Next, vars, SessionEnds, Flush, Start

LEMMA SessionsStep ==
    ASSUME TypeOK, [Next]_vars
    PROVE  session' \in [Jar -> {NoSession} \cup Session]
<1> DEFINE Good == session' \in [Jar -> {NoSession} \cup Session]
<1>1. ASSUME NEW r \in Request, OpenSession(r) PROVE Good
  <2> DEFINE s == [id |-> req[r].id, hash |-> req[r].user.hash,
                   proved |-> req[r].user, stray |-> FALSE]
  <2>1. s \in Session
    BY <1>1, CallType DEF OpenSession, Session, Login
  <2>2. session' = [session EXCEPT ![req[r].jar] = s]
    BY <1>1 DEF OpenSession
  <2> HIDE DEF s
  <2> QED BY <2>1, <2>2 DEF TypeOK
<1>2. ASSUME NEW r \in Request, Bind(r) PROVE Good
  <2> DEFINE s == [id |-> req[r].id, hash |-> req[r].found.hash,
                   proved |-> req[r].user, stray |-> req[r].found # req[r].user]
  <2>1. s \in Session
    BY <1>2, CallType DEF Bind, Session, Login
  <2>2. session' = [session EXCEPT ![req[r].jar] = s]
    BY <1>2 DEF Bind
  <2> HIDE DEF s
  <2> QED BY <2>1, <2>2 DEF TypeOK
<1>3. ASSUME NEW j \in Jar, session' = [session EXCEPT ![j] = NoSession] PROVE Good
  BY <1>3 DEF TypeOK
<1>4. CASE UNCHANGED session
  BY <1>4 DEF TypeOK
<1> QED BY <1>1, <1>2, <1>3, <1>4
    DEF Next, RequestStep, vars, SessionEnds, Flush, Crash, Start, Authenticate, AdmitChange,
        AdmitManage, ChangePassword, Reload, CreateUser, ModifyUser, ResetUser,
        ChangeUsername, DeleteUser, RequestEnds

LEMMA UpStep == ASSUME TypeOK, [Next]_vars PROVE up' \in BOOLEAN
BY DEF Next, RequestStep, vars, SessionEnds, Flush, Crash, Start, Authenticate, AdmitChange,
       AdmitManage, ChangePassword, Reload, CreateUser, ModifyUser, ResetUser,
       ChangeUsername, DeleteUser, RequestEnds, OpenSession, Bind, TypeOK

LEMMA CountedStep ==
    ASSUME TypeOK, Counted, Evolves
    PROVE  Counted'
<1>1. hashes \in Nat /\ hashes' \in {hashes, hashes + 1}
  BY DEF TypeOK, Evolves
<1>2. SUFFICES ASSUME NEW i \in Id'
               PROVE  users'[i].hash \in 1..hashes' /\ users'[i].born \in 1..hashes'
  BY DEF Counted
<1>3. CASE Kept(i)
  BY <1>1, <1>3 DEF Kept, LoginOf, Counted
<1>4. CASE Rehashed(i)
  BY <1>1, <1>4 DEF Rehashed
<1> QED BY <1>2, <1>3, <1>4 DEF Evolves

TypeInv == TypeOK /\ Counted

LEMMA TypeInvariant == Spec => []TypeInv
<1>1. Init => TypeInv
  <2> SUFFICES ASSUME Init PROVE TypeInv
    OBVIOUS
  <2>1. Id = {}
    BY DEF Init
  <2>2. users \in [Id -> Account]
    BY <2>1 DEF Init
  <2> QED BY <2>1, <2>2 DEF Init, TypeInv, TypeOK, Counted
<1>2. TypeInv /\ [Next]_vars => TypeInv'
  <2> SUFFICES ASSUME TypeInv, [Next]_vars PROVE TypeInv'
    OBVIOUS
  <2>1. Table' /\ Evolves /\ handed' \subseteq 1..hashes' /\ hashes' \in Nat
    BY TableStep DEF TypeInv
  <2>2. req' \in [Request -> {Idle} \cup Call]
    BY CallsStep DEF TypeInv
  <2>3. session' \in [Jar -> {NoSession} \cup Session]
    BY SessionsStep DEF TypeInv
  <2>4. up' \in BOOLEAN
    BY UpStep DEF TypeInv
  <2>5. Counted'
    BY <2>1, CountedStep DEF TypeInv
  <2> QED BY <2>1, <2>2, <2>3, <2>4, <2>5 DEF TypeInv, TypeOK, Table
<1> QED BY <1>1, <1>2, PTL DEF Spec

(* Every reachable state is well typed, and names are unique: no order of       *)
(* creations, renames and deletions gives two accounts one name.                *)
THEOREM TypeCorrect == Spec => []TypeOK
<1>1. TypeInv => TypeOK
  BY DEF TypeInv
<1> QED BY <1>1, TypeInvariant, PTL

(***************************************************************************)
(* What a step does to one request and to one session                       *)
(***************************************************************************)
Admitted(r, j) ==
    /\ LoggedIn(j)
    /\ req'[r].jar = j
    /\ req'[r].user = LoginOf(session[j].id)
    /\ req'[r].stage = "manage" => PasswordChangeCompleted(session[j].id)

(* The four ways a request is in progress after a step. *)
Began(r) ==
    /\ req[r] = Idle
    /\ \/ req'[r].stage = "open" /\ \E id \in Id : req'[r].user = LoginOf(id)
       \/ req'[r].stage \in {"change", "manage"} /\ \E j \in Jar : Admitted(r, j)
    /\ UNCHANGED <<users, session, hashes, handed>>
Changed(r) ==
    /\ req[r] # Idle
    /\ req'[r].stage = "reload" /\ req'[r].user.hash = hashes + 1 /\ hashes' = hashes + 1
Reloaded(r) ==
    /\ req[r] # Idle
    /\ req'[r].stage = "bind" /\ req'[r].user = req[r].user /\ req'[r].id = req[r].id
    /\ req[r].id \in Id /\ req'[r].found = LoginOf(req[r].id)
    /\ UNCHANGED <<users, session, hashes, handed>>

LEMMA IdleStage == ASSUME TypeOK, NEW r \in Request, At(r, "idle") PROVE req[r] = Idle
BY Distinct DEF TypeOK, At

LEMMA CallCases ==
    ASSUME TypeOK, [Next]_vars, NEW r \in Request, req'[r] # Idle
    PROVE  req'[r] = req[r] \/ Began(r) \/ Changed(r) \/ Reloaded(r)
<1> DEFINE Good == req'[r] = req[r] \/ Began(r) \/ Changed(r) \/ Reloaded(r)
<1>1. ASSUME NEW q \in Request, Finish(q) PROVE Good
  BY <1>1 DEF Finish, TypeOK
<1>2. ASSUME NEW q \in Request, NEW j \in Jar, Authenticate(q, j) PROVE Good
  <2>1. PICK id \in Id : Begin(q, "open", j, id)
    BY <1>2 DEF Authenticate
  <2>2. CASE r = q
    <3>1. req[r] = Idle /\ req'[r].stage = "open" /\ req'[r].user = LoginOf(id)
      BY <1>2, <2>1, <2>2, IdleStage DEF Authenticate, Begin, TypeOK
    <3> QED BY <1>2, <3>1 DEF Began, Authenticate
  <2> QED BY <2>1, <2>2 DEF Begin, TypeOK
<1>3. ASSUME NEW q \in Request, NEW j \in Jar, AdmitChange(q, j) PROVE Good
  <2>1. CASE r = q
    <3>1. /\ req[r] = Idle /\ req'[r].stage = "change" /\ req'[r].jar = j
          /\ req'[r].user = LoginOf(session[j].id)
      BY <1>3, <2>1, IdleStage DEF AdmitChange, Begin, TypeOK
    <3> QED BY <1>3, <3>1 DEF Began, Admitted, AdmitChange
  <2> QED BY <1>3, <2>1 DEF AdmitChange, Begin, TypeOK
<1>4. ASSUME NEW q \in Request, NEW j \in Jar, AdmitManage(q, j) PROVE Good
  <2>1. CASE r = q
    <3>1. /\ req[r] = Idle /\ req'[r].stage = "manage" /\ req'[r].jar = j
          /\ req'[r].user = LoginOf(session[j].id)
      BY <1>4, <2>1, IdleStage DEF AdmitManage, TypeOK
    <3> QED BY <1>4, <3>1 DEF Began, Admitted, AdmitManage
  <2> QED BY <1>4, <2>1 DEF AdmitManage, TypeOK
<1>5. ASSUME NEW q \in Request, ChangePassword(q) PROVE Good
  <2>1. CASE r = q
    <3>1. req[r] \in [stage : {"open", "change", "reload"}, jar : Jar, id : Hash, user : Login]
      BY <1>5, <2>1, CallType, CallFields DEF ChangePassword, At
    <3>2. req'[r] = [req[r] EXCEPT !.stage = "reload", !.user.hash = hashes + 1]
      BY <1>5, <2>1 DEF ChangePassword, NewHash, TypeOK
    <3>3. req'[r].stage = "reload" /\ req'[r].user.hash = hashes + 1
      BY <3>1, <3>2 DEF Login
    <3>4. req[r] # Idle
      BY <1>5, <2>1, Distinct DEF ChangePassword, At
    <3> QED BY <1>5, <3>3, <3>4 DEF Changed, ChangePassword, NewHash
  <2> QED BY <1>5, <2>1 DEF ChangePassword, TypeOK
<1>6. ASSUME NEW q \in Request, Reload(q) PROVE Good
  <2>1. CASE r = q
    <3>1. /\ req'[r].stage = "bind" /\ req'[r].user = req[r].user /\ req'[r].id = req[r].id
          /\ req'[r].found = LoginOf(req[r].id)
      BY <1>6, <2>1 DEF Reload, TypeOK
    <3>2. req[r] # Idle
      BY <1>6, <2>1, Distinct DEF Reload, At
    <3> QED BY <1>6, <2>1, <3>1, <3>2 DEF Reloaded, Reload, GetUserFinds
  <2> QED BY <1>6, <2>1 DEF Reload, TypeOK
<1>7. ASSUME NEW q \in Request, RequestStep(q) PROVE Good
  BY <1>1, <1>2, <1>3, <1>4, <1>5, <1>6, <1>7
  DEF RequestStep, OpenSession, Bind, CreateUser, ModifyUser, ResetUser, ChangeUsername,
      DeleteUser, RequestEnds
<1>8. CASE Crash
  BY <1>8 DEF Crash
<1> QED BY <1>7, <1>8 DEF Next, vars, SessionEnds, Flush, Start

Opened(j) == \E r \in Request :
    /\ At(r, "open") /\ session'[j].id = req[r].id /\ session'[j].hash = req[r].user.hash
    /\ session'[j].proved = req[r].user /\ session'[j].stray = FALSE
    /\ UNCHANGED <<users, hashes, handed>>
Bound(j) == \E r \in Request :
    /\ At(r, "bind") /\ session'[j].id = req[r].id /\ session'[j].hash = req[r].found.hash
    /\ session'[j].proved = req[r].user /\ session'[j].stray = (req[r].found # req[r].user)
    /\ UNCHANGED <<users, hashes, handed>>

LEMMA SessionCases ==
    ASSUME TypeOK, [Next]_vars, NEW j \in Jar, session'[j] # NoSession
    PROVE  session'[j] = session[j] \/ Opened(j) \/ Bound(j)
<1> DEFINE Good == session'[j] = session[j] \/ Opened(j) \/ Bound(j)
<1>1. ASSUME NEW r \in Request, OpenSession(r) PROVE Good
  <2>1. CASE j = req[r].jar
    BY <1>1, <2>1 DEF OpenSession, Opened, TypeOK
  <2> QED BY <1>1, <2>1 DEF OpenSession, TypeOK
<1>2. ASSUME NEW r \in Request, Bind(r) PROVE Good
  <2>1. CASE j = req[r].jar
    BY <1>2, <2>1 DEF Bind, Bound, TypeOK
  <2> QED BY <1>2, <2>1 DEF Bind, TypeOK
<1>3. ASSUME NEW i \in Jar, session' = [session EXCEPT ![i] = NoSession] PROVE Good
  BY <1>3 DEF TypeOK
<1> QED BY <1>1, <1>2, <1>3
    DEF Next, RequestStep, vars, SessionEnds, Flush, Crash, Start, Authenticate, AdmitChange,
        AdmitManage, ChangePassword, Reload, CreateUser, ModifyUser, ResetUser,
        ChangeUsername, DeleteUser, RequestEnds

(***************************************************************************)
(* The duty to change a password                                            *)
(***************************************************************************)
(* A row with a password that somebody else chose has the flag; and what a      *)
(* request holds is a hash already made, so that no later one is it.            *)
Flagged == \A i \in Id : users[i].hash \in handed => users[i].mustChange
CallsCounted == \A r \in Request : req[r] # Idle => req[r].user.hash \in 1..hashes
GateInv == TypeInv /\ Flagged /\ CallsCounted /\ GatedUntilChanged

LEMMA CallsCountedStep ==
    ASSUME TypeInv, CallsCounted, [Next]_vars PROVE CallsCounted'
<1>1. /\ hashes \in Nat
      /\ hashes' \in {hashes, hashes + 1}
  BY TableStep DEF TypeInv, TypeOK, Evolves
<1>2. SUFFICES ASSUME NEW r \in Request, req'[r] # Idle PROVE req'[r].user.hash \in 1..hashes'
  BY DEF CallsCounted
<1>3. CASE req'[r] = req[r]
  BY <1>1, <1>2, <1>3 DEF CallsCounted
<1>4. CASE Began(r)
  <2>1. PICK id \in Id : req'[r].user = LoginOf(id)
    BY <1>4 DEF Began, Admitted, LoggedIn, GetUserFinds
  <2> QED BY <1>4, <2>1 DEF Began, LoginOf, TypeInv, Counted
<1>5. CASE Changed(r)
  BY <1>1, <1>5 DEF Changed
<1>6. CASE Reloaded(r)
  BY <1>6 DEF Reloaded, CallsCounted
<1> QED BY <1>2, <1>3, <1>4, <1>5, <1>6, CallCases DEF TypeInv

LEMMA FlaggedStep ==
    ASSUME TypeInv, Flagged, [Next]_vars PROVE Flagged'
<1>1. hashes \in Nat /\ Evolves
  BY TableStep DEF TypeInv, TypeOK
<1>2. SUFFICES ASSUME NEW i \in Id', users'[i].hash \in handed' PROVE users'[i].mustChange
  BY DEF Flagged
<1>3. CASE Kept(i)
  <2>1. users'[i].hash = users[i].hash /\ i \in Id /\ users[i].hash \in 1..hashes
    BY <1>3 DEF Kept, LoginOf, TypeInv, Counted
  <2>2. users[i].hash # hashes + 1
    BY <1>1, <2>1
  <2>3. users[i].hash \in handed
    BY <1>1, <1>2, <2>1, <2>2 DEF Evolves
  <2> QED BY <1>3, <2>1, <2>3 DEF Kept, Flagged
<1>4. CASE Rehashed(i)
  BY <1>2, <1>4 DEF Rehashed
<1> QED BY <1>1, <1>3, <1>4 DEF Evolves

LEMMA GateInvariant == Spec => []GateInv
<1>1. TypeInv /\ Init => Flagged /\ CallsCounted /\ GatedUntilChanged
  <2>1. Init => \A r \in Request : ~At(r, "manage") /\ req[r] = Idle
    BY Distinct DEF Init, At
  <2> QED BY <2>1 DEF Init, Flagged, CallsCounted, GatedUntilChanged
<1>2. TypeInv /\ Flagged /\ CallsCounted /\ GatedUntilChanged /\ [Next]_vars
      => (Flagged /\ CallsCounted /\ GatedUntilChanged)'
  <2> SUFFICES ASSUME TypeInv, Flagged, CallsCounted, GatedUntilChanged, [Next]_vars
               PROVE  (Flagged /\ CallsCounted /\ GatedUntilChanged)'
    OBVIOUS
  <2>1. Flagged' /\ CallsCounted'
    BY FlaggedStep, CallsCountedStep
  <2>2. GatedUntilChanged'
    <3>1. hashes \in Nat /\ Evolves
      BY TableStep DEF TypeInv, TypeOK
    <3>2. SUFFICES ASSUME NEW r \in Request, req'[r].stage = "manage"
                   PROVE  req'[r].user.hash \notin handed'
      BY DEF GatedUntilChanged, At
    <3>3. req'[r] # Idle
      BY <3>2, Distinct
    <3>4. CASE req'[r] = req[r]
      <4>1. req[r].user.hash \in 1..hashes /\ req[r].user.hash \notin handed
        BY <3>2, <3>3, <3>4 DEF CallsCounted, GatedUntilChanged, At
      <4>2. req[r].user.hash # hashes + 1
        BY <3>1, <4>1
      <4> QED BY <3>1, <3>4, <4>1, <4>2 DEF Evolves
    <3>5. CASE Began(r)
      <4>1. PICK j \in Jar : Admitted(r, j)
        BY <3>2, <3>5 DEF Began
      <4>2. session[j].id \in Id /\ ~users[session[j].id].mustChange
            /\ req'[r].user.hash = users[session[j].id].hash
        BY <3>2, <4>1 DEF Admitted, LoggedIn, GetUserFinds, PasswordChangeCompleted, LoginOf
      <4> QED BY <3>5, <4>2 DEF Began, Flagged
    <3> QED BY <3>2, <3>3, <3>4, <3>5, CallCases DEF Changed, Reloaded, TypeInv
  <2> QED BY <2>1, <2>2
<1> QED BY <1>1, <1>2, TypeInvariant, PTL DEF Spec, GateInv

(* No request behind require_completed_password_change runs on a password that  *)
(* somebody else chose for the account, however requests overlap.               *)
THEOREM HandedOutPasswordsAreGated == Spec => []GatedUntilChanged
<1>1. GateInv => GatedUntilChanged
  BY DEF GateInv
<1> QED BY <1>1, GateInvariant, PTL

(***************************************************************************)
(* What a session is bound to                                               *)
(***************************************************************************)
(* The hash of a login belongs to no account but its own. *)
Consistent(login) == \A i \in Id : users[i].hash = login.hash => LoginOf(i) = login
Past(login) == login.hash \in 1..hashes

(* If login is what the row id has, then hash is its hash. *)
Agrees(id, login, hash) == id \in Id /\ LoginOf(id) = login => hash = login.hash

HashesApart == \A i, k \in Id : users[i].hash = users[k].hash => i = k
OpeningInv == \A r \in Request : At(r, "open") => Consistent(req[r].user)
BindingInv == \A r \in Request : At(r, "bind") =>
    /\ Consistent(req[r].found) /\ Past(req[r].found)
    /\ Agrees(req[r].id, req[r].user, req[r].found.hash)
SessionInv == \A j \in Jar : session[j] # NoSession =>
    /\ Past(session[j].proved)
    /\ Agrees(session[j].id, session[j].proved, session[j].hash)
    /\ ~session[j].stray =>
         session[j].hash = session[j].proved.hash /\ Consistent(session[j].proved)

BoundInv == TypeInv /\ CallsCounted /\ HashesApart /\ OpeningInv /\ BindingInv /\ SessionInv

(* A hash already made is never made again. *)
LEMMA LoginsStay ==
    ASSUME TypeInv, Evolves, NEW login \in Login, Past(login)
    PROVE  /\ Past(login)'
           /\ Consistent(login) => Consistent(login)'
           /\ \A id, hash : Agrees(id, login, hash) => Agrees(id, login, hash)'
<1>1. hashes \in Nat /\ hashes' \in {hashes, hashes + 1} /\ login.hash # hashes + 1
  BY DEF TypeInv, TypeOK, Evolves, Past
<1>2. \A i \in Id' : users'[i].hash = login.hash => i \in Id /\ LoginOf(i)' = LoginOf(i)
  <2> SUFFICES ASSUME NEW i \in Id', users'[i].hash = login.hash
               PROVE  i \in Id /\ LoginOf(i)' = LoginOf(i)
    OBVIOUS
  <2>1. ~Rehashed(i)
    BY <1>1 DEF Rehashed
  <2> QED BY <2>1 DEF Evolves, Kept
<1>3. Past(login)'
  BY <1>1 DEF Past
<1>4. Consistent(login) => Consistent(login)'
  BY <1>2 DEF Consistent, LoginOf
<1>5. ASSUME NEW id, NEW hash, Agrees(id, login, hash) PROVE Agrees(id, login, hash)'
  <2> SUFFICES ASSUME id \in Id', LoginOf(id)' = login PROVE hash = login.hash
    BY DEF Agrees
  <2>1. users'[id].hash = login.hash
    BY DEF LoginOf
  <2> QED BY <1>2, <1>5, <2>1 DEF Agrees
<1> QED BY <1>3, <1>4, <1>5

LEMMA HashesApartStep ==
    ASSUME TypeInv, HashesApart, Evolves PROVE HashesApart'
<1>1. SUFFICES ASSUME NEW i \in Id', NEW k \in Id', users'[i].hash = users'[k].hash PROVE i = k
  BY DEF HashesApart
<1>2. hashes \in Nat
  BY DEF TypeInv, TypeOK
<1>3. \A n \in Id' : \/ users'[n].hash = hashes + 1
                     \/ n \in Id /\ users'[n].hash = users[n].hash /\ users[n].hash \in 1..hashes
  BY DEF Evolves, Kept, Rehashed, LoginOf, TypeInv, Counted
<1>4. \A n \in Id : users[n].hash \in 1..hashes => users[n].hash # hashes + 1
  BY <1>2
<1> QED BY <1>1, <1>3, <1>4 DEF Evolves, HashesApart

(* What a row has now is consistent. *)
LEMMA RowIsConsistent ==
    ASSUME TypeInv, HashesApart, NEW id \in Id
    PROVE  Consistent(LoginOf(id)) /\ Past(LoginOf(id)) /\ LoginOf(id) \in Login
BY TypeOKTable, LoginType DEF HashesApart, Consistent, LoginOf, Past, TypeInv, Counted

LEMMA OpeningStep ==
    ASSUME BoundInv, [Next]_vars PROVE OpeningInv'
<1>1. Evolves
  BY TableStep DEF BoundInv, TypeInv
<1>2. SUFFICES ASSUME NEW r \in Request, req'[r].stage = "open"
               PROVE  Consistent(req[r].user)'
  BY DEF OpeningInv, At
<1>3. req'[r] # Idle
  BY <1>2, Distinct
<1>4. CASE req'[r] = req[r]
  <2>1. Consistent(req[r].user) /\ Past(req[r].user) /\ req[r].user \in Login
    BY <1>2, <1>3, <1>4, CallType
       DEF BoundInv, OpeningInv, CallsCounted, At, Past, TypeInv
  <2>2. Consistent(req[r].user)'
    BY <1>1, <1>4, <2>1, LoginsStay DEF BoundInv, Consistent
  <2> QED BY <2>2
<1>5. CASE Began(r)
  <2>1. PICK id \in Id : req'[r].user = LoginOf(id)
    BY <1>2, <1>5 DEF Began
  <2>2. Consistent(req'[r].user)
    BY <2>1, RowIsConsistent DEF BoundInv
  <2> QED BY <1>5, <2>2 DEF Began, Consistent, LoginOf
<1> QED BY <1>2, <1>3, <1>4, <1>5, CallCases DEF Changed, Reloaded, BoundInv, TypeInv

LEMMA BindingStep ==
    ASSUME BoundInv, [Next]_vars PROVE BindingInv'
<1>1. Evolves
  BY TableStep DEF BoundInv, TypeInv
<1> DEFINE Fits(c) == /\ Consistent(c.found) /\ Past(c.found)
                      /\ Agrees(c.id, c.user, c.found.hash)
<1>2. SUFFICES ASSUME NEW r \in Request, req'[r].stage = "bind" PROVE Fits(req[r])'
  BY DEF BindingInv, At
<1>3. req'[r] # Idle
  BY <1>2, Distinct
<1>4. CASE req'[r] = req[r]
  <2>1. /\ Fits(req[r]) /\ Past(req[r].user)
        /\ req[r].user \in Login /\ req[r].found \in Login
    BY <1>2, <1>3, <1>4, CallType DEF BoundInv, BindingInv, CallsCounted, At, Past, TypeInv
  <2>2. Consistent(req[r].found)' /\ Past(req[r].found)'
    BY <1>1, <1>4, <2>1, LoginsStay DEF BoundInv, Consistent, Past
  <2>3. Agrees(req[r].id, req[r].user, req[r].found.hash)'
    BY <1>1, <1>4, <2>1, LoginsStay DEF BoundInv, Agrees
  <2> QED BY <2>2, <2>3
<1>5. CASE Reloaded(r)
  <2>1. Consistent(req'[r].found) /\ Past(req'[r].found)
    BY <1>5, RowIsConsistent DEF Reloaded, BoundInv
  <2>2. Agrees(req'[r].id, req'[r].user, req'[r].found.hash)
    BY <1>5 DEF Reloaded, Agrees
  <2> QED BY <1>5, <2>1, <2>2 DEF Reloaded, Consistent, Past, Agrees, LoginOf
<1> QED BY <1>2, <1>3, <1>4, <1>5, CallCases DEF Began, Changed, BoundInv, TypeInv

LEMMA SessionStep ==
    ASSUME BoundInv, [Next]_vars PROVE SessionInv'
<1>1. Evolves
  BY TableStep DEF BoundInv, TypeInv
<1> DEFINE Fits(s) == /\ Past(s.proved) /\ Agrees(s.id, s.proved, s.hash)
                      /\ ~s.stray => s.hash = s.proved.hash /\ Consistent(s.proved)
<1>2. SUFFICES ASSUME NEW j \in Jar, session'[j] # NoSession PROVE Fits(session[j])'
  BY DEF SessionInv
<1>3. CASE session'[j] = session[j]
  <2>1. Fits(session[j]) /\ session[j].proved \in Login
    BY <1>2, <1>3 DEF BoundInv, SessionInv, TypeInv, TypeOK, Session
  <2>2. /\ Past(session[j].proved)'
        /\ Consistent(session[j].proved) => Consistent(session[j].proved)'
    BY <1>1, <1>3, <2>1, LoginsStay DEF BoundInv, Consistent, Past
  <2>3. Agrees(session[j].id, session[j].proved, session[j].hash)'
    BY <1>1, <1>3, <2>1, LoginsStay DEF BoundInv, Agrees
  <2> QED BY <1>3, <2>1, <2>2, <2>3
<1>4. CASE Opened(j)
  <2>1. PICK r \in Request :
          /\ At(r, "open") /\ session'[j].id = req[r].id /\ session'[j].hash = req[r].user.hash
          /\ session'[j].proved = req[r].user /\ session'[j].stray = FALSE
          /\ UNCHANGED <<users, hashes, handed>>
    BY <1>4 DEF Opened
  <2>2. Consistent(req[r].user) /\ Past(req[r].user)
    BY <2>1, Distinct DEF BoundInv, OpeningInv, CallsCounted, Past, At
  <2> QED BY <2>1, <2>2 DEF Past, Consistent, Agrees, LoginOf
<1>5. CASE Bound(j)
  <2>1. PICK r \in Request :
          /\ At(r, "bind") /\ session'[j].id = req[r].id /\ session'[j].hash = req[r].found.hash
          /\ session'[j].proved = req[r].user /\ session'[j].stray = (req[r].found # req[r].user)
          /\ UNCHANGED <<users, hashes, handed>>
    BY <1>5 DEF Bound
  <2>2. /\ Consistent(req[r].found) /\ Past(req[r].user)
        /\ Agrees(req[r].id, req[r].user, req[r].found.hash)
    BY <2>1, Distinct DEF BoundInv, BindingInv, CallsCounted, Past, At
  <2>3. Past(session'[j].proved) /\ Agrees(session'[j].id, session'[j].proved, session'[j].hash)
    BY <2>1, <2>2
  <2>4. ~session'[j].stray =>
           session'[j].hash = session'[j].proved.hash /\ Consistent(session'[j].proved)
    BY <2>1, <2>2
  <2> QED BY <2>1, <2>3, <2>4 DEF Past, Consistent, Agrees, LoginOf
<1> QED BY <1>2, <1>3, <1>4, <1>5, SessionCases DEF BoundInv, TypeInv

LEMMA BoundInvariant == Spec => []BoundInv
<1> DEFINE Rest == CallsCounted /\ HashesApart /\ OpeningInv /\ BindingInv /\ SessionInv
<1>1. TypeInv /\ Init => Rest
  <2> SUFFICES ASSUME Init PROVE Rest
    OBVIOUS
  <2>1. \A r \in Request : ~At(r, "open") /\ ~At(r, "bind") /\ req[r] = Idle
    BY Distinct DEF Init, At
  <2>2. HashesApart /\ SessionInv
    BY DEF Init, HashesApart, SessionInv
  <2> QED BY <2>1, <2>2 DEF CallsCounted, OpeningInv, BindingInv
<1>2. TypeInv /\ Rest /\ [Next]_vars => Rest'
  <2> SUFFICES ASSUME BoundInv, [Next]_vars PROVE Rest'
    BY DEF BoundInv
  <2>1. CallsCounted' /\ OpeningInv' /\ BindingInv' /\ SessionInv'
    BY CallsCountedStep, OpeningStep, BindingStep, SessionStep DEF BoundInv
  <2>2. HashesApart'
    BY TableStep, HashesApartStep DEF BoundInv, TypeInv
  <2> QED BY <2>1, <2>2
<1> QED BY <1>1, <1>2, TypeInvariant, PTL DEF Spec, BoundInv

(* A request is admitted only for the account whose password its client gave or *)
(* chose, and only while that password is in force, whatever ids are reused.    *)
THEOREM SessionsAreProved == Spec => AdmittedOnProof
<1> DEFINE A == \A r \in Request, j \in Jar :
        \A stage \in {"change", "manage"} :
            (At(r, "idle") /\ req'[r] # Idle /\ req'[r].stage = stage /\ req'[r].jar = j)
            => session[j].stray \/ session[j].proved = req'[r].user
<1>1. BoundInv /\ [Next]_vars => A
  <2> SUFFICES ASSUME BoundInv, [Next]_vars, NEW r \in Request, NEW j \in Jar,
                      NEW stage \in {"change", "manage"},
                      At(r, "idle"), req'[r] # Idle, req'[r].stage = stage, req'[r].jar = j,
                      ~session[j].stray
               PROVE  session[j].proved = req'[r].user
    OBVIOUS
  <2>1. req[r] = Idle /\ req'[r] # req[r]
    BY IdleStage DEF BoundInv, TypeInv
  <2>2. Began(r)
    BY <2>1, CallCases DEF BoundInv, TypeInv, Changed, Reloaded
  <2>3. Admitted(r, j)
    BY <2>2 DEF Began, Admitted
  <2>4. /\ session[j] # NoSession /\ session[j].id \in Id
        /\ session[j].hash = users[session[j].id].hash
        /\ req'[r].user = LoginOf(session[j].id)
    BY <2>3 DEF Admitted, LoggedIn, GetUserFinds, SessionVerified
  <2>5. session[j].hash = session[j].proved.hash /\ Consistent(session[j].proved)
    BY <2>4 DEF BoundInv, SessionInv
  <2> QED BY <2>4, <2>5 DEF Consistent
<1>2. [][A]_vars <=> AdmittedOnProof
  BY DEF AdmittedOnProof
<1> HIDE DEF A
<1> QED BY <1>1, <1>2, BoundInvariant, PTL DEF Spec

(* A client that last proved the password now in force keeps its session.       *)
THEOREM ProvedSessionsAreVerified == Spec => []ProvedIsVerified
<1>1. BoundInv => ProvedIsVerified
  BY DEF BoundInv, SessionInv, ProvedIsVerified, Agrees, SessionVerified, LoginOf
<1> QED BY <1>1, BoundInvariant, PTL
================================================================================

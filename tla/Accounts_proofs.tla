------------------------- MODULE Accounts_proofs -------------------------
(***************************************************************************)
(* Proofs about Accounts, for any ids, clients, request bodies and token   *)
(* lives.  The inductive invariant AccountInv adds to the types that the   *)
(* e-mails are unique, that a token's account was handed out by the time   *)
(* the token was, and that a request still carries the body it came with.  *)
(***************************************************************************)
EXTENDS Accounts, TLAPS

SessionKnown == \A c \in Clients : session[c].user \in DOMAIN created \cup {None}

TokenNotOlder ==
    \A c \in Clients : session[c].user \in DOMAIN created =>
                       created[session[c].user] <= session[c].issued

BodyKept == \A c \in Clients :
    /\ request[c].method = "POST" => request[c].body \in NewAccounts
    /\ request[c].method = "PATCH" => request[c].body \in Patches /\ request[c].target \in UserIds
    /\ request[c].method = "DELETE" => request[c].target \in UserIds
    /\ request[c].at # "idle" => request[c].method # ""

AccountInv == TypeOK /\ EmailsUnique /\ SessionKnown /\ TokenNotOlder /\ BodyKept

-----------------------------------------------------------------------------
LEMMA IdleType == /\ Idle \in Requests /\ Idle.at = "idle" /\ Idle.method = ""
                  /\ NoBody \in Body
<1>1. NoBody \in Body  BY DEF NoBody, Body
<1>2. QED  BY <1>1 DEF Idle, Requests

LEMMA StatusesType == /\ 0 \in Statuses /\ 200 \in Statuses /\ 201 \in Statuses
                      /\ 204 \in Statuses /\ 401 \in Statuses /\ 403 \in Statuses
                      /\ 404 \in Statuses /\ 409 \in Statuses /\ 500 \in Statuses
BY DEF Statuses

LEMMA InitAccountInv == Init => AccountInv
<1> SUFFICES ASSUME Init PROVE AccountInv
  OBVIOUS
<1>1. PICK u \in UserIds : users = [x \in {u} |-> FirstAdmin] /\ created = [x \in {u} |-> 0]
  BY DEF Init
<1>2. users \in [{u} -> Columns] /\ created \in [{u} -> 0 .. 0]
  BY <1>1, BodiesAssumption
<1>3. \A c \in Clients : session[c].user = None /\ request[c] = Idle
  BY DEF Init, NoToken
<1>4. TypeOK
  <2>1. clock = 0 /\ clock \in 0 .. MaxTime  BY LivesAssumption DEF Init
  <2>2. DOMAIN users = {u} /\ DOMAIN created = {u}  BY <1>1
  <2>4. users \in [DOMAIN users -> Columns]  BY <1>2, <2>2
  <2>5. created \in [DOMAIN created -> 0 .. clock]  BY <1>2, <2>1, <2>2
  <2>3. /\ session \in [Clients -> [user : UserIds \cup {None}, issued : 0 .. clock]]
        /\ request \in [Clients -> Requests] /\ reply \in [Clients -> Statuses]
    <3>1. NoToken \in [user : UserIds \cup {None}, issued : 0 .. clock]
      BY <2>1 DEF NoToken
    <3>2. QED  BY <3>1, IdleType, StatusesType DEF Init
  <2>6. QED  BY <2>1, <2>2, <2>3, <2>4, <2>5 DEF TypeOK
<1>5. EmailsUnique /\ SessionKnown /\ TokenNotOlder
  BY <1>1, <1>3, NamesAssumption DEF EmailsUnique, SessionKnown, TokenNotOlder
<1>6. BodyKept  BY <1>3, IdleType DEF BodyKept
<1>7. QED  BY <1>4, <1>5, <1>6 DEF AccountInv

\* A granted token stands for an account that exists, and is dated now.
LEMMA GrantStep ==
    ASSUME AccountInv, NEW c \in Clients, NEW u \in DOMAIN users, Grant(c, u)
    PROVE  AccountInv'
<1> USE DEF AccountInv
<1>1. clock \in Nat /\ 0 .. clock = 0 .. clock'  BY LivesAssumption DEF TypeOK, Grant
<1>2. TypeOK'  BY <1>1, StatusesType DEF TypeOK, Grant
<1>3. SessionKnown' /\ TokenNotOlder'  BY <1>1 DEF TypeOK, SessionKnown, TokenNotOlder, Grant
<1>4. EmailsUnique' /\ BodyKept'  BY DEF EmailsUnique, BodyKept, Grant
<1>5. QED  BY <1>2, <1>3, <1>4

\* The end of a request leaves nothing of it.
LEMMA AnswerTypes ==
    ASSUME AccountInv, NEW c \in Clients,
           NEW status \in Statuses, Answer(c, status)
    PROVE  /\ request' \in [Clients -> Requests] /\ BodyKept'
           /\ reply' \in [Clients -> Statuses]
BY IdleType DEF AccountInv, TypeOK, BodyKept, Answer

\* A request that goes on as a request of its kind.
LEMMA GotoTypes ==
    ASSUME AccountInv, NEW c \in Clients, NEW q \in Requests, Goto(c, q),
           q.method = "POST" => q.body \in NewAccounts,
           q.method = "PATCH" => q.body \in Patches /\ q.target \in UserIds,
           q.method = "DELETE" => q.target \in UserIds,
           q.at # "idle" => q.method # ""
    PROVE  /\ request' \in [Clients -> Requests] /\ BodyKept'
           /\ reply' \in [Clients -> Statuses]
<1>1. request' = [request EXCEPT ![c] = q] /\ reply' = [reply EXCEPT ![c] = 0]
  BY DEF Goto
<1>2. request' \in [Clients -> Requests] /\ reply' \in [Clients -> Statuses]
  BY <1>1, StatusesType DEF AccountInv, TypeOK
<1>3. \A x \in Clients : request'[x] = IF x = c THEN q ELSE request[x]
  BY <1>1 DEF AccountInv, TypeOK
<1>4. QED  BY <1>2, <1>3 DEF AccountInv, BodyKept

\* What no statement of a request touches stays as it was.
LEMMA OnlyRequestStep ==
    ASSUME AccountInv, OnlyRequest, request' \in [Clients -> Requests], BodyKept',
           reply' \in [Clients -> Statuses]
    PROVE  AccountInv'
BY DEF AccountInv, TypeOK, EmailsUnique, SessionKnown, TokenNotOlder, OnlyRequest

LEMMA BeginStep ==
    ASSUME AccountInv, NEW c \in Clients, NEW q \in Requests, Begin(c, q),
           q.method # "",
           q.method = "POST" => q.body \in NewAccounts,
           q.method = "PATCH" => q.body \in Patches /\ q.target \in UserIds,
           q.method = "DELETE" => q.target \in UserIds
    PROVE  AccountInv'
<1>1. CASE ~Accepted(c)
  <2>1. Answer(c, 401) /\ OnlyRequest  BY <1>1 DEF Begin
  <2>2. QED  BY <2>1, StatusesType, AnswerTypes, OnlyRequestStep
<1>2. CASE Accepted(c)
  <2> DEFINE caller == users[session[c].user]
             p == [q EXCEPT !.loaded = IF q.target = session[c].user THEN caller ELSE @]
  <2>1. session[c].user \in DOMAIN users  BY <1>2 DEF Accepted
  <2>2. caller \in Columns  BY <2>1 DEF AccountInv, TypeOK
  <2>3. caller \in Body  BY <2>2 DEF Columns, Body
  <2>4. p \in Requests  BY <2>3 DEF Requests
  <2>5. CASE caller.role # "admin"
    <3>1. Answer(c, 403) /\ OnlyRequest  BY <1>2, <2>5 DEF Begin
    <3>2. QED  BY <3>1, StatusesType, AnswerTypes, OnlyRequestStep
  <2>6. CASE caller.role = "admin"
    <3>1. Goto(c, p) /\ OnlyRequest  BY <1>2, <2>6 DEF Begin
    <3>2. p.at = q.at /\ p.method = q.method /\ p.target = q.target /\ p.body = q.body
      BY DEF Requests
    <3> HIDE DEF p
    <3>3. QED  BY <2>4, <3>1, <3>2, GotoTypes, OnlyRequestStep
  <2>7. QED  BY <2>5, <2>6
<1>3. QED  BY <1>1, <1>2

LEMMA BeginSteps ==
    ASSUME AccountInv, NEW c \in Clients
    PROVE  /\ \A new \in NewAccounts : BeginPost(c, new) => AccountInv'
           /\ \A u \in UserIds, patch \in Patches : BeginPatch(c, u, patch) => AccountInv'
           /\ \A u \in UserIds : BeginDelete(c, u) => AccountInv'
<1>1. Idle \in Requests  BY IdleType
<1>2. ASSUME NEW new \in NewAccounts, BeginPost(c, new) PROVE AccountInv'
  <2> DEFINE q == [Idle EXCEPT !.at = "checkEmail", !.method = "POST", !.body = new]
  <2>1. new \in Body  BY BodiesAssumption DEF Columns, Body
  <2>2. q \in Requests /\ q.at = "checkEmail" /\ q.method = "POST" /\ q.body = new
    BY <1>1, <2>1 DEF Requests, Idle
  <2>3. QED  BY <1>2, <2>2, BeginStep DEF BeginPost
<1>3. ASSUME NEW u \in UserIds, NEW patch \in Patches, BeginPatch(c, u, patch) PROVE AccountInv'
  <2> DEFINE q == [Idle EXCEPT !.at = "getUser", !.method = "PATCH", !.target = u, !.body = patch]
  <2>1. patch \in Body  BY BodiesAssumption
  <2>2. q \in Requests /\ q.at = "getUser" /\ q.method = "PATCH" /\ q.target = u /\ q.body = patch
    BY <1>1, <2>1 DEF Requests, Idle
  <2>3. QED  BY <1>3, <2>2, BeginStep DEF BeginPatch
<1>4. ASSUME NEW u \in UserIds, BeginDelete(c, u) PROVE AccountInv'
  <2> DEFINE q == [Idle EXCEPT !.at = "getUser", !.method = "DELETE", !.target = u]
  <2>1. q \in Requests /\ q.at = "getUser" /\ q.method = "DELETE" /\ q.target = u
    BY <1>1 DEF Requests, Idle
  <2>2. QED  BY <1>4, <2>1, BeginStep DEF BeginDelete
<1>5. QED  BY <1>2, <1>3, <1>4

-----------------------------------------------------------------------------
\* The row that get_user hands on: the caller's own as loaded, or the table's.
LEMMA GetUserStep ==
    ASSUME AccountInv, NEW c \in Clients, GetUser(c)
    PROVE  AccountInv'
<1> DEFINE q == request[c]
           own == q.loaded # NoBody
           row == IF own THEN q.loaded ELSE users[q.target]
           step == IF q.body.email \in {Unset, row.email} THEN "save" ELSE "checkEmail"
           p == [q EXCEPT !.loaded = row, !.at = step]
<1>1. q \in Requests /\ q.at = "getUser"  BY DEF AccountInv, TypeOK, GetUser
<1>2. OnlyRequest  BY DEF GetUser
<1>3. CASE ~own /\ q.target \notin DOMAIN users
  BY <1>2, <1>3, StatusesType, AnswerTypes, OnlyRequestStep DEF GetUser
<1>4. CASE own \/ q.target \in DOMAIN users
  <2>1. row \in Body
    <3>1. CASE own  BY <1>1, <3>1 DEF Requests
    <3>2. CASE ~own
      BY <1>4, <3>2 DEF AccountInv, TypeOK, Columns, Body
    <3>3. QED  BY <3>1, <3>2
  <2>2. step \in {"save", "checkEmail"}  OBVIOUS
  <2> HIDE DEF row, step
  <2>3. /\ p \in Requests /\ p.at = step
        /\ p.method = q.method /\ p.target = q.target /\ p.body = q.body
    BY <1>1, <2>1, <2>2 DEF Requests
  <2>4. Goto(c, p)  BY <1>4 DEF GetUser, row, step
  <2>5. QED
    BY <1>1, <1>2, <2>3, <2>4, GotoTypes, OnlyRequestStep DEF AccountInv, BodyKept
<1>5. QED  BY <1>3, <1>4

LEMMA CheckEmailStep ==
    ASSUME AccountInv, NEW c \in Clients, CheckEmail(c)
    PROVE  AccountInv'
<1> DEFINE p == [request[c] EXCEPT !.at = "save"]
<1>1. request[c] \in Requests /\ request[c].at = "checkEmail" /\ OnlyRequest
  BY DEF AccountInv, TypeOK, CheckEmail
<1>2. CASE Answer(c, 409)
  BY <1>1, <1>2, StatusesType, AnswerTypes, OnlyRequestStep
<1>3. CASE Goto(c, p)
  <2>1. /\ p \in Requests /\ p.at = "save" /\ p.method = request[c].method
        /\ p.target = request[c].target /\ p.body = request[c].body
    BY <1>1 DEF Requests
  <2> HIDE DEF p
  <2>2. QED  BY <1>1, <1>3, <2>1, GotoTypes, OnlyRequestStep DEF AccountInv, BodyKept
<1>4. QED  BY <1>2, <1>3 DEF CheckEmail

LEMMA RefreshRowStep ==
    ASSUME AccountInv, NEW c \in Clients, RefreshRow(c)
    PROVE  AccountInv'
BY StatusesType, AnswerTypes, OnlyRequestStep DEF RefreshRow

-----------------------------------------------------------------------------
\* An inserted row has an id that no table and no token has known.
LEMMA InsertStep ==
    ASSUME AccountInv, NEW c \in Clients, Insert(c)
    PROVE  AccountInv'
<1> DEFINE q == request[c]
           Fails(u) == EmailFails(q.body.email, u)
<1> USE DEF AccountInv
<1>1. q \in Requests /\ q.body \in NewAccounts /\ q.method = "POST" /\ q.at = "save"
  BY DEF TypeOK, BodyKept, Insert
<1>2. q.body \in Columns  BY <1>1, BodiesAssumption
<1>3. clock' = clock /\ session' = session /\ clock \in Nat
  BY LivesAssumption DEF Insert, TypeOK
<1>4. PICK u \in FreeIds :
        /\ created' = [x \in DOMAIN created \cup {u} |-> IF x = u THEN clock ELSE created[x]]
        /\ \/ Fails(u) /\ Answer(c, 500) /\ users' = users
           \/ /\ ~Fails(u)
              /\ users' = [x \in DOMAIN users \cup {u} |-> IF x = u THEN q.body ELSE users[x]]
              /\ Goto(c, [q EXCEPT !.at = "refresh", !.target = u])
  BY DEF Insert
<1>5. u \in UserIds /\ u \notin DOMAIN created /\ u # None
  BY NamesAssumption DEF FreeIds
<1>6. /\ DOMAIN created' = DOMAIN created \cup {u}
      /\ created' \in [DOMAIN created' -> 0 .. clock]
      /\ \A x \in DOMAIN created : created'[x] = created[x]
  BY <1>3, <1>4, <1>5 DEF TypeOK
<1>7. SessionKnown' /\ TokenNotOlder'
  BY <1>3, <1>5, <1>6 DEF SessionKnown, TokenNotOlder
<1>8. CASE Answer(c, 500) /\ users' = users
  <2>1. TypeOK'  BY <1>3, <1>5, <1>6, <1>8, StatusesType, AnswerTypes DEF TypeOK
  <2>2. EmailsUnique'  BY <1>8 DEF EmailsUnique
  <2>3. QED  BY <1>7, <1>8, <2>1, <2>2, StatusesType, AnswerTypes
<1>9. CASE /\ ~Fails(u)
           /\ users' = [x \in DOMAIN users \cup {u} |-> IF x = u THEN q.body ELSE users[x]]
           /\ Goto(c, [q EXCEPT !.at = "refresh", !.target = u])
  <2> DEFINE p == [q EXCEPT !.at = "refresh", !.target = u]
  <2>1. /\ p \in Requests /\ p.at = "refresh" /\ p.target = u
        /\ p.method = "POST" /\ p.body = q.body
    BY <1>1, <1>5 DEF Requests
  <2>2. Goto(c, p)  BY <1>9
  <2> HIDE DEF p
  <2>3. request' \in [Clients -> Requests] /\ BodyKept' /\ reply' \in [Clients -> Statuses]
    BY <1>1, <2>1, <2>2, GotoTypes
  <2>4. DOMAIN users' = DOMAIN users \cup {u} /\ users' \in [DOMAIN users' -> Columns]
    BY <1>2, <1>9 DEF TypeOK
  <2>5. TypeOK'  BY <1>3, <1>5, <1>6, <2>3, <2>4 DEF TypeOK
  <2>6. EmailsUnique'
    <3>1. \A x \in DOMAIN users \ {u} : users[x].email # q.body.email
      BY <1>9 DEF EmailFails
    <3>2. \A x \in DOMAIN users' : users'[x] = IF x = u THEN q.body ELSE users[x]
      BY <1>9, <2>4
    <3> HIDE DEF q
    <3>3. QED  BY <2>4, <3>1, <3>2 DEF EmailsUnique
  <2>7. QED  BY <1>7, <2>3, <2>5, <2>6
<1>10. QED  BY <1>4, <1>8, <1>9

\* What the UPDATE leaves in a row.
LEMMA UpdatedRow ==
    ASSUME NEW row \in Columns, NEW q \in Requests
    PROVE  /\ Updated(row, q).email \in {row.email, q.body.email} \ {Unset}
           /\ Updated(row, q).email # row.email => "email" \in Writes(q)
           /\ "email" \in Writes(q) => Held(q, "email") = q.body.email
           /\ Updated(row, q).password \in {row.password, q.body.password} \ {Unset}
           /\ Updated(row, q).role \in {row.role, q.body.role} \ {Unset}
           /\ "email" \in Writes(q) => Updated(row, q).email = q.body.email
           /\ "email" \notin Writes(q) => Updated(row, q).email = row.email
           /\ Writes(q) = {} => Updated(row, q) = row
<1>1. /\ "email" \in Writes(q) => q.body.email # Unset
      /\ "password" \in Writes(q) => q.body.password # Unset
      /\ "role" \in Writes(q) => q.body.role # Unset
  BY DEF Writes
<1>2. row.email # Unset /\ row.password # Unset /\ row.role # Unset
  BY NamesAssumption DEF Columns
<1>3. /\ Updated(row, q).email = IF "email" \in Writes(q) THEN Held(q, "email") ELSE row.email
      /\ Updated(row, q).password =
           IF "password" \in Writes(q) THEN Held(q, "password") ELSE row.password
      /\ Updated(row, q).role = IF "role" \in Writes(q) THEN Held(q, "role") ELSE row.role
  BY DEF Updated
<1>4. /\ "email" \in Writes(q) => Held(q, "email") = q.body.email
      /\ "password" \in Writes(q) => Held(q, "password") = q.body.password
      /\ "role" \in Writes(q) => Held(q, "role") = q.body.role
  BY <1>1 DEF Held
<1>5. Writes(q) = {} => Updated(row, q) = row
  BY DEF Updated, Columns
<1>6. QED  BY <1>1, <1>2, <1>3, <1>4, <1>5

\* An UPDATE keeps the ids, and the unique index keeps the e-mails apart.
LEMMA UpdateStep ==
    ASSUME AccountInv, NEW c \in Clients, Update(c)
    PROVE  AccountInv'
<1> DEFINE q == request[c]
           p == [q EXCEPT !.at = "refresh"]
<1> USE DEF AccountInv
<1>1. /\ q \in Requests /\ q.at = "save" /\ q.method = "PATCH"
      /\ q.body \in Patches /\ q.target \in UserIds
  BY DEF TypeOK, BodyKept, Update
<1>2. created' = created /\ clock' = clock /\ session' = session
  BY DEF Update
<1>3. SessionKnown' /\ TokenNotOlder'  BY <1>2 DEF SessionKnown, TokenNotOlder
<1>4. CASE Answer(c, 500) /\ users' = users
  <2>1. request' \in [Clients -> Requests] /\ BodyKept' /\ reply' \in [Clients -> Statuses]
    BY <1>4, StatusesType, AnswerTypes
  <2>2. TypeOK' /\ EmailsUnique'  BY <1>2, <1>4, <2>1 DEF TypeOK, EmailsUnique
  <2>3. QED  BY <1>3, <2>1, <2>2
<1>5. CASE /\ \/ Writes(q) = {}
              \/ /\ q.target \in DOMAIN users
                 /\ "email" \in Writes(q) => ~EmailFails(Held(q, "email"), q.target)
           /\ users' = [x \in DOMAIN users |->
                          IF x = q.target THEN Updated(users[x], q) ELSE users[x]]
           /\ Goto(c, p)
  <2>1. /\ p \in Requests /\ p.at = "refresh" /\ p.target = q.target
        /\ p.method = "PATCH" /\ p.body = q.body
    BY <1>1 DEF Requests
  <2>2. Goto(c, p)  BY <1>5
  <2> HIDE DEF p
  <2>3. request' \in [Clients -> Requests] /\ BodyKept' /\ reply' \in [Clients -> Statuses]
    BY <1>1, <2>1, <2>2, GotoTypes
  <2>4. DOMAIN users' = DOMAIN users  BY <1>5
  <2>5. \A x \in DOMAIN users : users[x] \in Columns  BY DEF TypeOK
  <2>6. "email" \in Writes(q) => q.body.email # None
    BY <1>1, <1>5, <2>5, UpdatedRow DEF EmailFails
  <2>7. \A x \in DOMAIN users : Updated(users[x], q) \in Columns
    <3> TAKE x \in DOMAIN users
    <3> DEFINE row == users[x]
    <3>1. row \in Columns  BY <2>5
    <3>2. /\ Updated(row, q).email \in Emails
          /\ Updated(row, q).password \in Passwords
          /\ Updated(row, q).role \in {"admin", "driver"}
      <4>1. q.body \in Body  BY <1>1 DEF Requests
      <4>2. "email" \in Writes(q) => q.body.email \in Emails
        BY <2>6, <4>1 DEF Body, Writes
      <4> HIDE DEF q, row
      <4>3. Updated(row, q).email \in Emails
        BY <1>1, <3>1, <4>2, UpdatedRow DEF Columns
      <4>4. QED  BY <1>1, <3>1, <4>1, <4>3, UpdatedRow DEF Columns, Body
    <3>3. QED  BY <3>2 DEF Updated, Columns
  <2>8. users' \in [DOMAIN users' -> Columns]  BY <1>5, <2>4, <2>5, <2>7
  <2>9. TypeOK'  BY <1>2, <2>3, <2>4, <2>8 DEF TypeOK
  <2>10. EmailsUnique'
    <3>1. \A x \in DOMAIN users : x # q.target => users'[x] = users[x]
      BY <1>5
    <3>2. CASE q.target \in DOMAIN users /\ "email" \in Writes(q)
      <4>1. users'[q.target].email = q.body.email
        BY <1>1, <1>5, <2>5, <3>2, UpdatedRow
      <4>2. \A x \in DOMAIN users \ {q.target} : users[x].email # q.body.email
        BY <1>1, <1>5, <2>5, <3>2, UpdatedRow DEF EmailFails
      <4> HIDE DEF q
      <4>3. QED  BY <2>4, <3>1, <4>1, <4>2 DEF EmailsUnique
    <3>3. CASE ~(q.target \in DOMAIN users /\ "email" \in Writes(q))
      <4>1. \A x \in DOMAIN users : users'[x].email = users[x].email
        BY <1>1, <1>5, <2>5, <3>1, <3>3, UpdatedRow
      <4>2. QED  BY <2>4, <4>1 DEF EmailsUnique
    <3>4. QED  BY <3>2, <3>3
  <2>11. QED  BY <1>3, <2>3, <2>9, <2>10
<1>6. QED  BY <1>1, <1>4, <1>5 DEF Update

LEMMA DeleteStep ==
    ASSUME AccountInv, NEW c \in Clients, Delete(c)
    PROVE  AccountInv'
<1> USE DEF AccountInv
<1>1. request' \in [Clients -> Requests] /\ BodyKept' /\ reply' \in [Clients -> Statuses]
  BY StatusesType, AnswerTypes DEF Delete
<1>2. /\ DOMAIN users' = DOMAIN users \ {request[c].target}
      /\ \A x \in DOMAIN users' : users'[x] = users[x]
      /\ users' = [x \in DOMAIN users' |-> users[x]]
      /\ created' = created /\ clock' = clock /\ session' = session
  BY DEF Delete
<1>3. users' \in [DOMAIN users' -> Columns]  BY <1>2 DEF TypeOK
<1>4. TypeOK'  BY <1>1, <1>2, <1>3 DEF TypeOK
<1>5. EmailsUnique' /\ SessionKnown' /\ TokenNotOlder'
  BY <1>2 DEF EmailsUnique, SessionKnown, TokenNotOlder
<1>6. QED  BY <1>1, <1>4, <1>5

\* The times recorded so far stay times recorded so far.
LEMMA TickStep == ASSUME AccountInv, Tick PROVE AccountInv'
<1> USE DEF AccountInv
<1>1. /\ clock \in Nat /\ clock' = clock + 1 /\ clock' \in 0 .. MaxTime
      /\ 0 .. clock \subseteq 0 .. clock'
  BY LivesAssumption DEF Tick, TypeOK
<1>2. /\ users' = users /\ created' = created /\ session' = session
      /\ request' = request /\ reply' = reply
  BY DEF Tick
<1>3. created' \in [DOMAIN created' -> 0 .. clock']  BY <1>1, <1>2 DEF TypeOK
<1>4. session' \in [Clients -> [user : UserIds \cup {None}, issued : 0 .. clock']]
  BY <1>1, <1>2 DEF TypeOK
<1>5. TypeOK'  BY <1>1, <1>2, <1>3, <1>4 DEF TypeOK
<1>6. EmailsUnique' /\ SessionKnown' /\ TokenNotOlder' /\ BodyKept'
  BY <1>2 DEF EmailsUnique, SessionKnown, TokenNotOlder, BodyKept
<1>7. QED  BY <1>5, <1>6

LEMMA NextAccountInv == AccountInv /\ [Next]_vars => AccountInv'
<1> SUFFICES ASSUME AccountInv, [Next]_vars PROVE AccountInv'
  OBVIOUS
<1>1. CASE UNCHANGED vars
  BY <1>1 DEF AccountInv, TypeOK, EmailsUnique, SessionKnown, TokenNotOlder, BodyKept, vars
<1>2. CASE Tick  BY <1>2, TickStep
<1>3. ASSUME NEW c \in Clients, NEW email \in Emails, NEW password \in Passwords,
             Login(c, email, password)
      PROVE  AccountInv'
  BY <1>3, GrantStep DEF Login
<1>4. ASSUME NEW c \in Clients, Refresh(c) PROVE AccountInv'
  BY <1>4, GrantStep DEF Refresh
<1>5. ASSUME NEW c \in Clients, ReadProfile(c) PROVE AccountInv'
  <2>1. PICK status \in Statuses : Answer(c, status)
    BY <1>5, StatusesType DEF ReadProfile
  <2>2. QED  BY <1>5, <2>1, AnswerTypes, OnlyRequestStep DEF ReadProfile
<1>6. QED
  BY <1>1, <1>2, <1>3, <1>4, <1>5, BeginSteps, GetUserStep, CheckEmailStep,
     InsertStep, UpdateStep, RefreshRowStep, DeleteStep DEF Next

LEMMA Invariance == Spec => []AccountInv
BY InitAccountInv, NextAccountInv, PTL DEF Spec

-----------------------------------------------------------------------------
\* The types hold: in particular no column of an account is ever left null,
\* whatever a PATCH may carry.
THEOREM Typing == Spec => []TypeOK
BY Invariance, PTL DEF AccountInv

\* No two accounts share an e-mail, however many admins write at a time.
THEOREM Uniqueness == Spec => []EmailsUnique
BY Invariance, PTL DEF AccountInv

\* An id opens no account that is younger than the token that carries it.
THEOREM Owner == Spec => []TokenOwner
<1>1. AccountInv => TokenOwner
  BY DEF AccountInv, TypeOK, TokenNotOlder, TokenOwner
<1>2. QED  BY <1>1, Invariance, PTL

-----------------------------------------------------------------------------
\* Cutting an expiry to whole seconds takes less than a second off it.
LEMMA WholeSeconds ==
    ASSUME NEW n \in Nat
    PROVE  (n \div Second) * Second <= n /\ n < (n \div Second) * Second + Second
<1>1. \A a \in Nat, s \in Nat \ {0} :
        (a \div s) * s <= a /\ a < (a \div s) * s + s
  BY SMT
<1>2. QED  BY <1>1, LivesAssumption

\* A step of one client's request shows in that client's request only.
LEMMA OneClient ==
    ASSUME AccountInv, [Next]_vars, NEW c \in Clients,
           request'[c] # request[c] \/ reply'[c] # reply[c]
    PROVE  \/ reply'[c] = 0 /\ request'[c] = request[c]
           \/ reply'[c] # 401 /\ request[c] # Idle
           \/ request'[c] = Idle /\ (reply'[c] = 401 => ~Accepted(c))
           \/ Accepted(c) /\ reply'[c] = 0
<1> USE DEF AccountInv, TypeOK
<1>1. \A d \in Clients : \A status : Answer(d, status) =>
         IF c = d THEN request'[c] = Idle /\ reply'[c] = status
         ELSE request'[c] = request[c] /\ reply'[c] = reply[c]
  BY DEF Answer
<1>2. \A d \in Clients : \A q : Goto(d, q) =>
         IF c = d THEN request'[c] = q /\ reply'[c] = 0
         ELSE request'[c] = request[c] /\ reply'[c] = reply[c]
  BY DEF Goto
<1>3. request[c].at # "idle" => request[c] # Idle  BY IdleType
<1>4. ~UNCHANGED vars  BY DEF vars
<1>5. ~Tick  BY DEF Tick
<1>6. ASSUME NEW d \in Clients, NEW u, Grant(d, u)
      PROVE  reply'[c] = 0 /\ request'[c] = request[c]
  BY <1>6 DEF Grant
<1>7. ASSUME NEW d \in Clients, ReadProfile(d)
      PROVE  request'[c] = Idle /\ (reply'[c] = 401 => ~Accepted(c))
  BY <1>1, <1>7 DEF ReadProfile
<1>8. ASSUME NEW d \in Clients, NEW q, Begin(d, q)
      PROVE  \/ request'[c] = Idle /\ (reply'[c] = 401 => ~Accepted(c))
             \/ Accepted(c) /\ reply'[c] = 0
  <2>1. CASE Answer(d, 401) /\ ~Accepted(d)  BY <1>1, <2>1
  <2>2. CASE Answer(d, 403)  BY <1>1, <2>2
  <2>3. ASSUME NEW p, Goto(d, p), Accepted(d)
        PROVE  Accepted(c) /\ reply'[c] = 0
    BY <1>2, <2>3
  <2>4. QED  BY <1>8, <2>1, <2>2, <2>3 DEF Begin
<1>9. ASSUME NEW d \in Clients,
             \/ GetUser(d) \/ CheckEmail(d) \/ Insert(d) \/ Update(d)
             \/ RefreshRow(d) \/ Delete(d)
      PROVE  reply'[c] # 401 /\ request[c] # Idle
  <2>1. \A status \in {200, 201, 204, 404, 409, 500} : status # 401  OBVIOUS
  <2>2. GetUser(d) => reply'[c] # 401 /\ request[c] # Idle
    BY <1>1, <1>2, <1>3 DEF GetUser
  <2>3. CheckEmail(d) => reply'[c] # 401 /\ request[c] # Idle
    BY <1>1, <1>2, <1>3 DEF CheckEmail
  <2>4. Insert(d) => reply'[c] # 401 /\ request[c] # Idle
    BY <1>1, <1>2, <1>3 DEF Insert
  <2>5. Update(d) => reply'[c] # 401 /\ request[c] # Idle
    BY <1>1, <1>2, <1>3 DEF Update
  <2>6. RefreshRow(d) => reply'[c] # 401 /\ request[c] # Idle
    BY <1>1, <1>3 DEF RefreshRow
  <2>7. Delete(d) => reply'[c] # 401 /\ request[c] # Idle
    BY <1>1, <1>3 DEF Delete
  <2>8. QED  BY <1>9, <2>2, <2>3, <2>4, <2>5, <2>6, <2>7
<1>10. ASSUME NEW d \in Clients, NEW u \in UserIds, BeginDelete(d, u)
       PROVE  \/ request'[c] = Idle /\ (reply'[c] = 401 => ~Accepted(c))
              \/ Accepted(c) /\ reply'[c] = 0
  BY <1>8, <1>10 DEF BeginDelete
<1>11. ASSUME NEW d \in Clients, NEW new \in NewAccounts, BeginPost(d, new)
       PROVE  \/ request'[c] = Idle /\ (reply'[c] = 401 => ~Accepted(c))
              \/ Accepted(c) /\ reply'[c] = 0
  BY <1>8, <1>11 DEF BeginPost
<1>12. ASSUME NEW d \in Clients, NEW u \in UserIds, NEW patch \in Patches, BeginPatch(d, u, patch)
       PROVE  \/ request'[c] = Idle /\ (reply'[c] = 401 => ~Accepted(c))
              \/ Accepted(c) /\ reply'[c] = 0
  BY <1>8, <1>12 DEF BeginPatch
<1>13. ASSUME NEW d \in Clients,
              \/ \E email \in Emails, password \in Passwords : Login(d, email, password)
              \/ Refresh(d)
       PROVE  reply'[c] = 0 /\ request'[c] = request[c]
  BY <1>6, <1>13 DEF Login, Refresh
<1>14. QED
  BY <1>4, <1>5, <1>7, <1>9, <1>10, <1>11, <1>12, <1>13 DEF Next

\* No request starts on a token past its announced life, and none is refused
\* before the last second of it, whatever the lives and the clock's grain.
THEOREM Lifetime == Spec => TokenLifetime
<1>1. ASSUME AccountInv, [Next]_vars, NEW c \in Clients PROVE LifeKept(c)
  <2> DEFINE n == session[c].issued + AccessLife
             end == (n \div Second) * Second
  <2>1. /\ clock \in Nat /\ session[c].issued \in Nat
        /\ session[c].user \in DOMAIN users => session[c].user # None
    BY <1>1, LivesAssumption, NamesAssumption DEF AccountInv, TypeOK
  <2>2. n \in Nat  BY <2>1, LivesAssumption
  <2> HIDE DEF n
  <2>3. end <= n /\ n < end + Second /\ end \in Int
    BY <2>2, WholeSeconds, LivesAssumption
  <2> HIDE DEF end
  <2>4. Accepted(c) => clock < end  BY DEF Accepted, Valid, Expiry, end, n
  <2>5. ~Accepted(c) /\ session[c].user \in DOMAIN users => ~(clock < end)
    BY <2>1 DEF Accepted, Valid, Expiry, end, n
  <2>6. session[c].user \in DOMAIN users /\ ~Accepted(c) =>
          clock > session[c].issued + AccessLife - Second
    BY <2>1, <2>2, <2>3, <2>5, LivesAssumption DEF n
  <2>7. Accepted(c) => clock < session[c].issued + AccessLife
    BY <2>1, <2>2, <2>3, <2>4, LivesAssumption DEF n
  <2>8. request[c] = Idle /\ request'[c] # Idle => Accepted(c)
    BY <1>1, OneClient
  <2>9. reply[c] # 401 /\ reply'[c] = 401 => ~Accepted(c)
    BY <1>1, OneClient
  <2>10. QED  BY <2>6, <2>7, <2>8, <2>9 DEF LifeKept
<1>2. AccountInv /\ [Next]_vars => [\A c \in Clients : LifeKept(c)]_vars
  BY <1>1
<1>3. QED  BY <1>2, Invariance, PTL DEF Spec, TokenLifetime

-----------------------------------------------------------------------------
LEMMA RegistryInit == Init => Registry!Init
<1> SUFFICES ASSUME Init PROVE Registry!Init
  OBVIOUS
<1>1. PICK u \in UserIds : users = [x \in {u} |-> FirstAdmin] /\ created = [x \in {u} |-> 0]
  BY DEF Init
<1>2. FirstAdmin.email # None  BY BodiesAssumption, NamesAssumption DEF Columns
<1>3. QED  BY <1>1, <1>2 DEF Registry!Init

\* An INSERT adds an account or only uses up an id.
LEMMA InsertRegistry ==
    ASSUME AccountInv, NEW c \in Clients, Insert(c)
    PROVE  Registry!Next
<1> DEFINE q == request[c]
<1>1. q.body \in NewAccounts  BY DEF AccountInv, BodyKept, Insert
<1>2. PICK u \in FreeIds :
        /\ created' = [x \in DOMAIN created \cup {u} |-> IF x = u THEN clock ELSE created[x]]
        /\ \/ users' = users
           \/ /\ ~EmailFails(q.body.email, u)
              /\ users' = [x \in DOMAIN users \cup {u} |-> IF x = u THEN q.body ELSE users[x]]
  BY DEF Insert
<1>3. u \in UserIds \ DOMAIN created /\ DOMAIN created' = DOMAIN created \cup {u}
  BY <1>2 DEF FreeIds
<1>4. CASE users' = users
  <2>1. Registry!Issue(u)  BY <1>3, <1>4 DEF Registry!Issue
  <2>2. QED  BY <1>3, <2>1 DEF Registry!Next
<1>5. CASE /\ ~EmailFails(q.body.email, u)
           /\ users' = [x \in DOMAIN users \cup {u} |-> IF x = u THEN q.body ELSE users[x]]
  <2>1. Registry!Free(q.body.email, u)  BY <1>5 DEF Registry!Free, EmailFails
  <2>2. Registry!Add(u, q.body)  BY <1>3, <1>5, <2>1 DEF Registry!Add
  <2>3. QED  BY <1>1, <1>3, <2>2 DEF Registry!Next
<1>6. QED  BY <1>2, <1>4, <1>5

\* An UPDATE edits the columns its body names, or does nothing.
LEMMA UpdateRegistry ==
    ASSUME AccountInv, NEW c \in Clients, Update(c)
    PROVE  Registry!Next \/ UNCHANGED <<users, DOMAIN created>>
<1> DEFINE q == request[c]
           t == q.target
<1> USE DEF AccountInv
<1>1. /\ q \in Requests /\ q.at = "save" /\ q.method = "PATCH"
      /\ q.body \in Patches /\ t \in UserIds
      /\ created' = created
  BY DEF TypeOK, BodyKept, Update
<1>2. \A x \in DOMAIN users : users[x] \in Columns  BY DEF TypeOK
<1>3. users' # users =>
        /\ users' = [x \in DOMAIN users |-> IF x = t THEN Updated(users[x], q) ELSE users[x]]
        /\ "email" \in Writes(q) => ~EmailFails(Held(q, "email"), t)
  BY DEF Update
<1> HIDE DEF q
<1>4. CASE users' = users  BY <1>1, <1>4
<1>5. CASE users' # users /\ t \in DOMAIN users
  <2> DEFINE row == users[t]
             new == Updated(row, q)
  <2>1. /\ DOMAIN users' = DOMAIN users /\ users'[t] = new
        /\ \A x \in DOMAIN users \ {t} : users'[x] = users[x]
    BY <1>3, <1>5
  <2>2. row \in Columns /\ row.email # None
    BY <1>2, <1>5, NamesAssumption DEF Columns
  <2> HIDE DEF row
  <2>3. /\ new.email \in {row.email, q.body.email} \ {Unset}
        /\ new.password \in {row.password, q.body.password} \ {Unset}
        /\ new.role \in {row.role, q.body.role} \ {Unset}
    BY <1>1, <2>2, UpdatedRow
  <2>4. "email" \in Writes(q) =>
          new.email = q.body.email /\ ~EmailFails(new.email, t)
    BY <1>1, <1>3, <1>5, <2>2, UpdatedRow
  <2>5. "email" \notin Writes(q) => new.email = row.email
    BY <1>1, <2>2, UpdatedRow
  <2> HIDE DEF new
  <2>6. new.email # None /\ Registry!Free(new.email, t)
    <3>1. CASE "email" \in Writes(q)
      BY <2>4, <3>1 DEF EmailFails, Registry!Free
    <3>2. CASE "email" \notin Writes(q)
      BY <1>5, <2>2, <2>5, <3>2 DEF EmailsUnique, Registry!Free, row
    <3>3. QED  BY <3>1, <3>2
  <2>7. \A col \in {"email", "password", "role"} :
          users'[t][col] \in {users[t][col]} \cup ({q.body[col]} \ {Unset})
    BY <2>1, <2>3 DEF row
  <2>8. users'[t].email \in {users[t].email, q.body.email} \ {None}
    BY <2>1, <2>3, <2>6 DEF row
  <2>9. Registry!Edit(t, q.body)
    BY <1>1, <1>5, <2>1, <2>6, <2>7, <2>8 DEF Registry!Edit
  <2>10. QED  BY <1>1, <2>9 DEF Registry!Next
<1>6. CASE users' # users /\ t \notin DOMAIN users
  <2>1. users = [x \in DOMAIN users |-> users[x]]  BY DEF TypeOK
  <2>2. users' = users  BY <1>3, <1>6, <2>1
  <2>3. QED  BY <1>6, <2>2
<1>7. QED  BY <1>4, <1>5, <1>6

\* Every step is an atomic step of the registry or none of its business.
THEOREM Implementation == Spec => ImplementsRegistry
<1>1. ASSUME AccountInv, [Next]_vars
      PROVE  [Registry!Next]_(Registry!vars)
  <2> SUFFICES Registry!Next \/ UNCHANGED <<users, DOMAIN created>>
    BY DEF Registry!vars
  <2>1. CASE UNCHANGED <<users, created>>  BY <2>1
  <2>2. ASSUME NEW c \in Clients, Insert(c) PROVE Registry!Next
    BY <1>1, <2>2, InsertRegistry
  <2>3. ASSUME NEW c \in Clients, Update(c)
        PROVE  Registry!Next \/ UNCHANGED <<users, DOMAIN created>>
    BY <1>1, <2>3, UpdateRegistry
  <2>4. ASSUME NEW c \in Clients, Delete(c) PROVE Registry!Next
    <3>1. request[c].target \in UserIds /\ created' = created
      BY <1>1, <2>4 DEF AccountInv, BodyKept, Delete
    <3>2. Registry!Remove(request[c].target)
      BY <2>4, <3>1 DEF Delete, Registry!Remove
    <3>3. QED  BY <3>1, <3>2 DEF Registry!Next
  <2>5. ASSUME NEW c \in Clients,
               \/ \E email \in Emails, password \in Passwords : Login(c, email, password)
               \/ Refresh(c)
        PROVE  UNCHANGED <<users, created>>
    BY <2>5 DEF Login, Refresh, Grant
  <2>6. ASSUME NEW c \in Clients,
               \/ ReadProfile(c) \/ GetUser(c) \/ CheckEmail(c) \/ RefreshRow(c)
               \/ \E new \in NewAccounts : BeginPost(c, new)
               \/ \E u \in UserIds : \/ BeginDelete(c, u)
                                     \/ \E patch \in Patches : BeginPatch(c, u, patch)
        PROVE  UNCHANGED <<users, created>>
    BY <2>6 DEF ReadProfile, GetUser, CheckEmail, RefreshRow, BeginPost, BeginDelete,
                BeginPatch, Begin, OnlyRequest
  <2>7. QED
    BY <1>1, <2>1, <2>2, <2>3, <2>4, <2>5, <2>6 DEF Next, Tick, vars
<1>2. QED
  BY <1>1, RegistryInit, Invariance, PTL DEF Spec, ImplementsRegistry, Registry!Spec
=============================================================================

---------------------------- MODULE Accounts ----------------------------
(***************************************************************************)
(* User accounts: who a token stands for, and the admin requests that      *)
(* create, change and delete accounts (app/core/security.py, deps.py,      *)
(* auth_service.py and the user half of fleet_admin_service.py).           *)
(*                                                                         *)
(* One action is one SQL statement of a request, with the Python after it; *)
(* a flush and its commit are one action.  Time is counted in ticks, some  *)
(* of them to a second.                                                    *)
(*                                                                         *)
(* Abstracted: a JWT is its subject and its time of issue (signatures hold *)
(* and nobody forges one), a hash is its password, is_admin is a role, and *)
(* a null password or role in a PATCH is left out, for the code does too.  *)
(***************************************************************************)
EXTENDS Integers, FiniteSets

CONSTANTS
    UserIds,         \* the ids users' sequence hands out, each once
    Clients,         \* people with a browser each, one request at a time
    Emails, Passwords,
    NewAccounts,     \* bodies of POST /users
    Patches,         \* bodies of PATCH /users/{id}
    FirstAdmin,      \* the account of the first boot's seed
    None,            \* SQL NULL and no user
    Unset,           \* a column that a PATCH does not name
    Second,          \* ticks to a second
    AccessLife, RefreshLife,
    MaxTime          \* bound of the model's clock

Body == [email : Emails \cup {None, Unset}, password : Passwords \cup {Unset},
         role : {"admin", "driver", Unset}]
Columns == [email : Emails, password : Passwords, role : {"admin", "driver"}]

ASSUME NamesAssumption == /\ Unset \notin Emails \cup Passwords \cup {None, "admin", "driver"}
                          /\ None \notin UserIds \cup Emails
ASSUME BodiesAssumption == /\ NewAccounts \subseteq Columns /\ Patches \subseteq Body
                           /\ FirstAdmin \in Columns
ASSUME LivesAssumption ==
    /\ Second \in Nat \ {0} /\ MaxTime \in Nat
    /\ AccessLife \in Nat /\ RefreshLife \in Nat

VARIABLES
    users,    \* users table: id -> e-mail, password, role
    created,  \* created_at of every id handed out
    clock,
    session,  \* the token pair each client holds: its user and time of issue
    request,  \* the admin request each client has under way
    reply     \* the status it has just been answered, 0 when it went on since

vars == <<users, created, clock, session, request, reply>>

NoToken == [user |-> None, issued |-> 0]
NoBody == [email |-> Unset, password |-> Unset, role |-> Unset]

\* A request: its method and next statement, the account it is about, its
\* body, and the row its session holds of that account.
Requests == [at : {"idle", "getUser", "checkEmail", "save", "refresh"},
             method : {"", "POST", "PATCH", "DELETE"}, target : UserIds \cup {None},
             body : Body, loaded : Body]
Idle == [at |-> "idle", method |-> "", target |-> None, body |-> NoBody, loaded |-> NoBody]

Statuses == {0, 200, 201, 204, 401, 403, 404, 409, 500}

TypeOK ==
    /\ DOMAIN users \subseteq DOMAIN created /\ users \in [DOMAIN users -> Columns]
    /\ DOMAIN created \subseteq UserIds /\ created \in [DOMAIN created -> 0 .. clock]
    /\ clock \in 0 .. MaxTime
    /\ session \in [Clients -> [user : UserIds \cup {None}, issued : 0 .. clock]]
    /\ request \in [Clients -> Requests]
    /\ reply \in [Clients -> Statuses]

Init ==
    /\ clock = 0
    /\ \E u \in UserIds : /\ users = [x \in {u} |-> FirstAdmin]
                          /\ created = [x \in {u} |-> 0]
    /\ session = [c \in Clients |-> NoToken]
    /\ request = [c \in Clients |-> Idle]
    /\ reply = [c \in Clients |-> 0]

Tick == clock < MaxTime /\ clock' = clock + 1
        /\ UNCHANGED <<users, created, session, request, reply>>

-----------------------------------------------------------------------------
(* Tokens                                                                  *)

\* The expiry is encoded in whole seconds; the clock it is compared with is not.
Expiry(token, life) == ((token.issued + life) \div Second) * Second

Valid(token, life) == token.user # None /\ clock < Expiry(token, life)

\* issue_token_pair; the client forgets its old pair.
Grant(c, u) ==
    /\ session' = [session EXCEPT ![c] = [user |-> u, issued |-> clock]]
    /\ reply' = [reply EXCEPT ![c] = 0]
    /\ UNCHANGED <<users, created, clock, request>>

Login(c, email, password) ==
    /\ request[c] = Idle
    /\ \E u \in DOMAIN users :
         /\ users[u].email = email /\ users[u].password = password
         /\ Grant(c, u)

Refresh(c) ==
    /\ request[c] = Idle
    /\ Valid(session[c], RefreshLife)
    /\ session[c].user \in DOMAIN users
    /\ Grant(c, session[c].user)

\* Mutant: the token's type is not looked at.
AcceptedOfAnyType(c) == /\ Valid(session[c], AccessLife) \/ Valid(session[c], RefreshLife)
                        /\ session[c].user \in DOMAIN users

\* decode_token and the load of the token's user.
Accepted(c) == Valid(session[c], AccessLife) /\ session[c].user \in DOMAIN users

-----------------------------------------------------------------------------
(* Authenticated requests                                                  *)

Answer(c, status) ==
    /\ reply' = [reply EXCEPT ![c] = status]
    /\ request' = [request EXCEPT ![c] = Idle]

Goto(c, q) == request' = [request EXCEPT ![c] = q] /\ reply' = [reply EXCEPT ![c] = 0]

OnlyRequest == UNCHANGED <<users, created, clock, session>>

\* GET /me, open to every account.
ReadProfile(c) ==
    /\ request[c] = Idle
    /\ Answer(c, IF Accepted(c) THEN 200 ELSE 401)
    /\ OnlyRequest

\* The admin gate.  The caller's own row stays in the session that it shares
\* with the handler, where it matters if the request is about the caller.
Begin(c, q) ==
    /\ request[c] = Idle
    /\ IF ~Accepted(c) THEN Answer(c, 401)
       ELSE LET caller == users[session[c].user] IN
            IF caller.role # "admin" THEN Answer(c, 403)
            ELSE Goto(c, [q EXCEPT !.loaded = IF q.target = session[c].user THEN caller ELSE @])
    /\ OnlyRequest

BeginPost(c, new) == Begin(c, [Idle EXCEPT !.at = "checkEmail", !.method = "POST", !.body = new])
BeginPatch(c, u, patch) ==
    Begin(c, [Idle EXCEPT !.at = "getUser", !.method = "PATCH", !.target = u, !.body = patch])
BeginDelete(c, u) == Begin(c, [Idle EXCEPT !.at = "getUser", !.method = "DELETE", !.target = u])

\* get_user asks the session first, and update_user looks for a clash only
\* when the e-mail changes.
GetUser(c) ==
    LET q == request[c]
        own == q.loaded # NoBody
        row == IF own THEN q.loaded ELSE users[q.target]
    IN /\ q.at = "getUser"
       /\ IF ~own /\ q.target \notin DOMAIN users THEN Answer(c, 404)
          ELSE Goto(c, [q EXCEPT !.loaded = row, !.at =
                  IF q.body.email \in {Unset, row.email} THEN "save" ELSE "checkEmail"])
       /\ OnlyRequest

CheckEmail(c) ==
    /\ request[c].at = "checkEmail"
    /\ IF \E u \in DOMAIN users : users[u].email = request[c].body.email
       THEN Answer(c, 409)
       ELSE Goto(c, [request[c] EXCEPT !.at = "save"])
    /\ OnlyRequest

\* Mutants: an e-mail index that is not unique, and an e-mail that may be null.
EmailFailsOnNull(email, u) == email = None
EmailFailsOnDuplicate(email, u) == \E x \in DOMAIN users \ {u} : users[x].email = email

\* NOT NULL and the unique index, checked when the statement runs.
EmailFails(email, u) ==
    email = None \/ \E x \in DOMAIN users \ {u} : users[x].email = email

\* Mutant: the lowest free id instead of the sequence's next.
FreedIds == UserIds \ DOMAIN users

\* The sequence never hands out an id again, not even after a failed insert.
FreeIds == UserIds \ DOMAIN created

Insert(c) ==
    LET q == request[c] IN
    /\ q.at = "save" /\ q.method = "POST"
    /\ \E u \in FreeIds :
         /\ created' = [x \in DOMAIN created \cup {u} |-> IF x = u THEN clock ELSE created[x]]
         /\ IF EmailFails(q.body.email, u) THEN Answer(c, 500) /\ UNCHANGED users
            ELSE /\ users' = [x \in DOMAIN users \cup {u} |-> IF x = u THEN q.body ELSE users[x]]
                 /\ Goto(c, [q EXCEPT !.at = "refresh", !.target = u])
    /\ UNCHANGED <<clock, session>>

\* Mutant: the whole row is written back.
WritesAll(q) == {"email", "password", "role"}

\* The columns of the UPDATE: those whose value differs from the loaded one; a
\* password gets a new salt and always differs.
Writes(q) == {col \in {"email", "password", "role"} :
                /\ q.body[col] # Unset
                /\ col = "password" \/ q.body[col] # q.loaded[col]}

\* The value the ORM's object holds for a column.
Held(q, col) == IF q.body[col] = Unset THEN q.loaded[col] ELSE q.body[col]

Updated(row, q) ==
    [email    |-> IF "email" \in Writes(q) THEN Held(q, "email") ELSE row.email,
     password |-> IF "password" \in Writes(q) THEN Held(q, "password") ELSE row.password,
     role     |-> IF "role" \in Writes(q) THEN Held(q, "role") ELSE row.role]

\* Without a changed column there is no UPDATE that could fail.
Update(c) ==
    LET q == request[c] IN
    /\ q.at = "save" /\ q.method = "PATCH"
    /\ IF /\ Writes(q) # {}
          /\ \/ q.target \notin DOMAIN users
             \/ "email" \in Writes(q) /\ EmailFails(Held(q, "email"), q.target)
       THEN Answer(c, 500) /\ UNCHANGED users
       ELSE /\ users' = [x \in DOMAIN users |->
                           IF x = q.target THEN Updated(users[x], q) ELSE users[x]]
            /\ Goto(c, [q EXCEPT !.at = "refresh"])
    /\ UNCHANGED <<created, clock, session>>

\* db.refresh is a SELECT of its own, and raises when the row has gone.
RefreshRow(c) ==
    LET q == request[c] IN
    /\ q.at = "refresh"
    /\ Answer(c, IF q.target \notin DOMAIN users THEN 500
                 ELSE IF q.method = "POST" THEN 201 ELSE 200)
    /\ OnlyRequest

\* A row already gone is a warning.
Delete(c) ==
    LET q == request[c] IN
    /\ q.at = "save" /\ q.method = "DELETE"
    /\ users' = [x \in DOMAIN users \ {q.target} |-> users[x]]
    /\ Answer(c, 204)
    /\ UNCHANGED <<created, clock, session>>

-----------------------------------------------------------------------------
Next ==
    \/ Tick
    \/ \E c \in Clients :
         \/ \E email \in Emails, password \in Passwords : Login(c, email, password)
         \/ Refresh(c) \/ ReadProfile(c)
         \/ \E new \in NewAccounts : BeginPost(c, new)
         \/ \E u \in UserIds : BeginDelete(c, u) \/ \E patch \in Patches : BeginPatch(c, u, patch)
         \/ GetUser(c) \/ CheckEmail(c) \/ Insert(c) \/ Update(c) \/ RefreshRow(c) \/ Delete(c)

Spec == Init /\ [][Next]_vars

-----------------------------------------------------------------------------
(* Properties                                                              *)

\* No two accounts share an e-mail, which login looks accounts up by, although
\* create_user and update_user check it and write it in two statements.
EmailsUnique == \A x, y \in DOMAIN users : users[x].email = users[y].email => x = y

\* A token never stands for an account younger than itself: a token carries
\* nothing but the id, so it would open whatever account later got that id.
TokenOwner ==
    \A c \in Clients : session[c].user \in DOMAIN users =>
                       created[session[c].user] <= session[c].issued

\* No request of c starts at the end of its access token's life or later, and
\* none is refused before the last second of it, unless the account is gone.
LifeKept(c) ==
    /\ request[c] = Idle /\ request'[c] # Idle => clock < session[c].issued + AccessLife
    /\ reply[c] # 401 /\ reply'[c] = 401 /\ session[c].user \in DOMAIN users =>
         clock > session[c].issued + AccessLife - Second

\* The access token's life is the one expires_in announces, to the second,
\* whatever longer-lived token the client holds beside it.
TokenLifetime == [][\A c \in Clients : LifeKept(c)]_vars

\* Requests may interleave at every statement, run on a row their session
\* loaded long ago and fail half-way: each acts on the table as one atomic
\* step of the registry or not at all, in no column that its body leaves out.
Registry == INSTANCE AccountRegistry WITH issued <- DOMAIN created
ImplementsRegistry == Registry!Spec
=============================================================================

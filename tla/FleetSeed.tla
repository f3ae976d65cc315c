---------------------------- MODULE FleetSeed ----------------------------
(***************************************************************************)
(* Boots of the API container, each of which seeds the demo data set       *)
(* before it serves (app/seed.py, Dockerfile), the demo reset somebody may *)
(* run by hand meanwhile (seed --fresh), and what admins do to that data   *)
(* between two seeds (app/services/fleet_admin_service.py).                *)
(*                                                                         *)
(* A table is the sequence of its rows in id order, a deleted row is None: *)
(* ids are never handed out again, not even after a reset.  A route or     *)
(* vehicle row is its name or code.  Requests and seeds come one by one:   *)
(* what happens when requests race is FleetAssignment's subject, and a     *)
(* seed that collides with one fails as a whole.                           *)
(***************************************************************************)
EXTENDS Naturals, FiniteSets, Sequences, SequencesExt

CONSTANTS
    Accounts,                            \* the demo accounts, with their route and vehicle
    OtherEmails, OtherNames, OtherCodes, \* what admins use beside the demo's
    Edits,                               \* the admin requests that occur
    None,
    MaxRows, MaxSeeds                    \* bounds: rows admins add up to, seeds

ASSUME AccountsAssumption ==
    /\ IsFiniteSet(Accounts)
    /\ \A a \in Accounts : a.route = None <=> a.vehicle = None
    /\ \A a, b \in Accounts : a # b =>
        /\ a.email # b.email
        /\ a.route = b.route => a.route = None
        /\ a.vehicle = b.vehicle => a.vehicle = None

VARIABLES
    routes, vehicles, users,
    serving,  \* the container has booted
    wiped,    \* a reset has committed its wipe and not yet its seed
    seeds     \* seeds committed so far

vars == <<routes, vehicles, users, serving, wiped, seeds>>

Named(table) == {i \in DOMAIN table : table[i] # None}
RouteIds == Named(routes)
VehicleIds == Named(vehicles)
UserIds == Named(users)

DemoRoutes == {a.route : a \in Accounts} \ {None}
DemoVehicles == {a.vehicle : a \in Accounts} \ {None}
Names == DemoRoutes \cup OtherNames
Codes == DemoVehicles \cup OtherCodes
Emails == {a.email : a \in Accounts} \cup OtherEmails
Rows(rids, vids) == [email : Emails, route : rids \cup {None}, vehicle : vids \cup {None}]

ASSUME BoundAssumption == MaxSeeds \in Nat

ASSUME NoneAssumption == None \notin OtherNames \cup OtherCodes \cup Rows(Nat, Nat)

TypeOK ==
    /\ routes \in Seq(Names \cup {None}) /\ vehicles \in Seq(Codes \cup {None})
    /\ users \in Seq(Rows(DOMAIN routes, DOMAIN vehicles) \cup {None})
    /\ serving \in BOOLEAN /\ wiped \in BOOLEAN /\ seeds \in 0 .. MaxSeeds

Init ==
    /\ routes = <<>> /\ vehicles = <<>> /\ users = <<>>
    /\ serving = FALSE /\ wiped = FALSE /\ seeds = 0

-----------------------------------------------------------------------------
(* python -m app.seed                                                      *)

HasEmail(email) == \E u \in UserIds : users[u].email = email

\* Mutant: the ids of the created rows are counted from zero.
IdOfFromZero(name, table) == IF name = None THEN None ELSE
                             (CHOOSE i \in DOMAIN table : table[i] = name) - 1

IdOf(name, table) == IF name = None THEN None ELSE
                     CHOOSE i \in DOMAIN table : table[i] = name

DemoUser(a) == [email   |-> a.email,
                route   |-> IdOf(a.route, routes'),
                vehicle |-> IdOf(a.vehicle, vehicles')]

MissingRoutes == DemoRoutes \ Range(routes)
MissingVehicles == DemoVehicles \ Range(vehicles)
MissingAccounts == {a \in Accounts : ~HasEmail(a.email)}

\* Mutants: a demo driver without an assignment gets the demo one back, and
\* only an empty table is seeded.
SeededReassigns(new) ==
    LET Kept(row) == IF row # None /\ row.route = None
                       /\ \E a \in Accounts : a.email = row.email
                     THEN DemoUser(CHOOSE a \in Accounts : a.email = row.email)
                     ELSE row
    IN [i \in DOMAIN users |-> Kept(users[i])] \o [i \in DOMAIN new |-> DemoUser(new[i])]
SeededWhenEmpty(new) == IF UserIds # {} THEN users
                        ELSE users \o [i \in DOMAIN new |-> DemoUser(new[i])]

SeededUsers(new) == users \o [i \in DOMAIN new |-> DemoUser(new[i])]

\* One transaction: what is missing by name, code or e-mail is created,
\* in whatever order.
Seed ==
    /\ seeds < MaxSeeds
    /\ \E new \in SetToSeqs(MissingRoutes) : routes' = routes \o new
    /\ \E new \in SetToSeqs(MissingVehicles) : vehicles' = vehicles \o new
    /\ \E new \in SetToSeqs(MissingAccounts) : users' = SeededUsers(new)
    /\ seeds' = seeds + 1

Boot == ~serving /\ Seed /\ serving' = TRUE /\ UNCHANGED wiped

\* The container stops: a crash, a redeploy, the free tier's idle spin-down.
Stop ==
    /\ serving /\ serving' = FALSE /\ wiped' = FALSE
    /\ UNCHANGED <<routes, vehicles, users, seeds>>

\* seed --fresh commits its wipe before it seeds, and may be killed in between.
Wipe ==
    /\ serving /\ seeds < MaxSeeds
    /\ routes' = [i \in DOMAIN routes |-> None]
    /\ vehicles' = [i \in DOMAIN vehicles |-> None]
    /\ users' = [i \in DOMAIN users |-> None]
    /\ wiped' = TRUE
    /\ UNCHANGED <<serving, seeds>>

SeedFresh == serving /\ wiped /\ Seed /\ wiped' = FALSE /\ UNCHANGED serving

-----------------------------------------------------------------------------
(* Admin requests while the container serves, those under way in a wipe too *)

Request(edit) == serving /\ edit \in Edits /\ UNCHANGED <<serving, wiped, seeds>>

CreateUser(email) ==
    /\ Request("createUser")
    /\ ~HasEmail(email) /\ Len(users) < MaxRows
    /\ users' = Append(users, [email |-> email, route |-> None, vehicle |-> None])
    /\ UNCHANGED <<routes, vehicles>>

ChangeEmail(u, email) ==
    /\ Request("changeEmail")
    /\ ~HasEmail(email)
    /\ users' = [users EXCEPT ![u].email = email]
    /\ UNCHANGED <<routes, vehicles>>

DeleteUser(u) ==
    /\ Request("deleteUser")
    /\ users' = [users EXCEPT ![u] = None]
    /\ UNCHANGED <<routes, vehicles>>

Assign(u, r, v) ==
    /\ Request("assign")
    /\ \A x \in UserIds \ {u} : users[x].route # r /\ users[x].vehicle # v
    /\ users' = [users EXCEPT ![u].route = r, ![u].vehicle = v]
    /\ UNCHANGED <<routes, vehicles>>

Unassign(u) ==
    /\ Request("unassign")
    /\ users' = [users EXCEPT ![u].route = None, ![u].vehicle = None]
    /\ UNCHANGED <<routes, vehicles>>

CreateRoute(name) ==
    /\ Request("createRoute")
    /\ name \notin Range(routes) /\ Len(routes) < MaxRows
    /\ routes' = Append(routes, name)
    /\ UNCHANGED <<vehicles, users>>

CreateVehicle(code) ==
    /\ Request("createVehicle")
    /\ code \notin Range(vehicles) /\ Len(vehicles) < MaxRows
    /\ vehicles' = Append(vehicles, code)
    /\ UNCHANGED <<routes, users>>

RenameRoute(r, name) ==
    /\ Request("renameRoute")
    /\ name \notin Range(routes) /\ Len(routes) < MaxRows
    /\ routes' = [routes EXCEPT ![r] = name]
    /\ UNCHANGED <<vehicles, users>>

RenameVehicle(v, code) ==
    /\ Request("renameVehicle")
    /\ code \notin Range(vehicles) /\ Len(vehicles) < MaxRows
    /\ vehicles' = [vehicles EXCEPT ![v] = code]
    /\ UNCHANGED <<routes, users>>

\* Mutant: the users of the route are not counted.
DeleteRouteUnchecked(r) ==
    /\ Request("deleteRoute")
    /\ routes' = [routes EXCEPT ![r] = None]
    /\ UNCHANGED <<vehicles, users>>

DeleteRoute(r) ==
    /\ Request("deleteRoute")
    /\ \A u \in UserIds : users[u].route # r
    /\ routes' = [routes EXCEPT ![r] = None]
    /\ UNCHANGED <<vehicles, users>>

DeleteVehicle(v) ==
    /\ Request("deleteVehicle")
    /\ \A u \in UserIds : users[u].vehicle # v
    /\ vehicles' = [vehicles EXCEPT ![v] = None]
    /\ UNCHANGED <<routes, users>>

EditUsers ==
    \/ \E email \in Emails : CreateUser(email)
    \/ \E u \in UserIds : \/ \E email \in Emails : ChangeEmail(u, email)
                          \/ DeleteUser(u) \/ Unassign(u)
    \/ \E u \in UserIds, r \in RouteIds, v \in VehicleIds : Assign(u, r, v)

EditFleet ==
    \/ \E name \in Names : CreateRoute(name) \/ \E r \in RouteIds : RenameRoute(r, name)
    \/ \E code \in Codes : CreateVehicle(code) \/ \E v \in VehicleIds : RenameVehicle(v, code)
    \/ \E r \in RouteIds : DeleteRoute(r)
    \/ \E v \in VehicleIds : DeleteVehicle(v)

Next == Boot \/ Stop \/ Wipe \/ SeedFresh \/ EditUsers \/ EditFleet

Spec == Init /\ [][Next]_vars

-----------------------------------------------------------------------------
(* Properties                                                              *)

\* The foreign keys hold through renamings, deletions and resets between seeds.
RefIntegrity ==
    \A u \in UserIds : /\ users[u].route \in RouteIds \cup {None}
                       /\ users[u].vehicle \in VehicleIds \cup {None}

\* The unique columns hold: no seed and no edit gives two rows one name, code or e-mail.
UniqueKeys ==
    /\ \A i, j \in RouteIds : routes[i] = routes[j] => i = j
    /\ \A i, j \in VehicleIds : vehicles[i] = vehicles[j] => i = j
    /\ \A i, j \in UserIds : users[i].email = users[j].email => i = j

\* "Idempotent", "cannot clobber demo state": a seed that finds every demo account
\* under its e-mail leaves all users as the admins left them, whatever happened to
\* their assignments, routes and vehicles.
SeedKeepsUsers ==
    [][seeds' # seeds /\ (\A a \in Accounts : HasEmail(a.email)) => users' = users]_vars

\* "Create any missing demo entities": whatever admins changed, and even if a
\* reset died between its two commits, the next seed leaves every demo account in
\* place, and those it creates with the route and vehicle of their demo names.
SeedCompletes ==
    [][seeds' # seeds => \A a \in Accounts : \E u \in UserIds' :
         /\ users'[u].email = a.email
         /\ ~HasEmail(a.email) /\ a.route # None =>
              routes'[users'[u].route] = a.route /\ vehicles'[users'[u].vehicle] = a.vehicle]_vars

DemoInPlace == /\ DemoRoutes \subseteq Range(routes) /\ DemoVehicles \subseteq Range(vehicles)
               /\ \A a \in Accounts : HasEmail(a.email)

\* "Idempotent": a seed leaves every demo entity in place, and one that finds
\* them so changes no table: a restart without an edit since leaves no trace.
SeedIdempotent ==
    [][seeds' # seeds => /\ DemoInPlace'
                         /\ DemoInPlace => UNCHANGED <<routes, vehicles, users>>]_vars
=============================================================================

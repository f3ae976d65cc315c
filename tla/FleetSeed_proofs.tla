-------------------------- MODULE FleetSeed_proofs --------------------------
(***************************************************************************)
(* Proofs about FleetSeed, for any demo accounts, any requests and any     *)
(* number of seeds.  A seed appends to each table, so what a row refers to *)
(* stays where it was, and what it looks up it has just created.           *)
(***************************************************************************)
EXTENDS FleetSeed, FiniteSetTheorems, SequenceTheorems, TLAPS

-----------------------------------------------------------------------------
(* Listing a finite set and appending the list to a table                  *)

\* A list of a finite set has each of its members, once.
LEMMA Listed ==
    ASSUME NEW S, IsFiniteSet(S), NEW new \in SetToSeqs(S)
    PROVE  /\ new \in Seq(S) /\ Range(new) = S
           /\ \A i, j \in DOMAIN new : new[i] = new[j] => i = j
           /\ S = {} => new = <<>>
<1> DEFINE n == Cardinality(S)
<1>1. n \in Nat  BY FS_CardinalityType
<1>2. new \in [1 .. n -> S] /\ \A i, j \in 1 .. n : i # j => new[i] # new[j]
  BY DEF SetToSeqs
<1>3. new \in Seq(S) /\ DOMAIN new = 1 .. n /\ Len(new) = n
  BY <1>1, <1>2
<1>4. new \in Injection(1 .. n, S)
  BY <1>2 DEF Injection, IsInjective
<1>5. IsFiniteSet(1 .. n) /\ Cardinality(1 .. n) = n
  BY <1>1, FS_Interval
<1>6. new \in Surjection(1 .. n, S)
  BY <1>4, <1>5, FS_Injection
<1>7. Range(new) = S
  BY <1>2, <1>6 DEF Surjection, Range
<1>8. ASSUME S = {}  PROVE new = <<>>
  <2>1. n = 0  BY <1>8, FS_EmptySet
  <2>2. QED  BY <2>1, <1>3, EmptySeq
<1>9. QED  BY <1>2, <1>3, <1>7, <1>8

\* Appending to a table keeps its rows and their ids; the new rows follow.
LEMMA Appended ==
    ASSUME NEW S, NEW table \in Seq(S), NEW new \in Seq(S)
    PROVE  /\ table \o new \in Seq(S)
           /\ \A i \in DOMAIN table : i \in DOMAIN (table \o new) /\ (table \o new)[i] = table[i]
           /\ \A j \in DOMAIN new : /\ Len(table) + j \in DOMAIN (table \o new) \ DOMAIN table
                                    /\ (table \o new)[Len(table) + j] = new[j]
           /\ \A i \in DOMAIN (table \o new) \ DOMAIN table :
                i - Len(table) \in DOMAIN new /\ (table \o new)[i] = new[i - Len(table)]
<1>1. /\ DOMAIN table = 1 .. Len(table) /\ Len(table) \in Nat
      /\ DOMAIN new = 1 .. Len(new) /\ Len(new) \in Nat
  BY LenProperties
<1>2. /\ table \o new \in Seq(S) /\ Len(table \o new) = Len(table) + Len(new)
      /\ \A i \in 1 .. Len(table) + Len(new) :
           (table \o new)[i] = IF i <= Len(table) THEN table[i] ELSE new[i - Len(table)]
  BY ConcatProperties
<1>3. DOMAIN (table \o new) = 1 .. Len(table) + Len(new)
  BY <1>2, LenProperties
<1>4. QED  BY <1>1, <1>2, <1>3

\* What a seed makes of a table of names: what was missing is there, once, and
\* the rows that were there still are, under their ids.
Grown(table, after, demo, names) ==
    /\ after \in Seq(names \cup {None}) /\ demo \subseteq Range(after)
    /\ \A i \in DOMAIN table : i \in DOMAIN after /\ after[i] = table[i]
    /\ \A i \in DOMAIN after \ DOMAIN table : after[i] \in demo \ Range(table)
    /\ \A i, j \in DOMAIN after \ DOMAIN table : after[i] = after[j] => i = j
    /\ demo \subseteq Range(table) => after = table

LEMMA Completed ==
    ASSUME NEW names, NEW table \in Seq(names \cup {None}),
           NEW demo \in SUBSET names, IsFiniteSet(demo),
           NEW new \in SetToSeqs(demo \ Range(table))
    PROVE  Grown(table, table \o new, demo, names)
<1> DEFINE S == names \cup {None}
           after == table \o new
           M == demo \ Range(table)
<1>1. IsFiniteSet(M)  BY FS_Subset
<1>2. /\ new \in Seq(M) /\ Range(new) = M
      /\ \A i, j \in DOMAIN new : new[i] = new[j] => i = j
      /\ M = {} => new = <<>>
  BY <1>1, Listed
<1> HIDE DEF M, S
<1>3. new \in Seq(S)  BY <1>2, SeqMonotonic DEF M, S
<1>4. /\ after \in Seq(S)
      /\ \A i \in DOMAIN table : i \in DOMAIN after /\ after[i] = table[i]
      /\ \A j \in DOMAIN new : Len(table) + j \in DOMAIN after /\ after[Len(table) + j] = new[j]
      /\ \A i \in DOMAIN after \ DOMAIN table :
           i - Len(table) \in DOMAIN new /\ after[i] = new[i - Len(table)]
  BY <1>3, Appended DEF S
<1> HIDE DEF after
<1>5. demo \subseteq Range(after)
  <2> SUFFICES ASSUME NEW name \in demo  PROVE \E i \in DOMAIN after : after[i] = name
    BY DEF Range
  <2>1. CASE name \in Range(table)  BY <2>1, <1>4 DEF Range
  <2>2. CASE name \in M
    <3>1. PICK j \in DOMAIN new : new[j] = name  BY <2>2, <1>2 DEF Range
    <3>2. QED  BY <3>1, <1>4
  <2>3. QED  BY <2>1, <2>2 DEF M
<1>6. \A i \in DOMAIN after \ DOMAIN table : after[i] \in M
  BY <1>2, <1>4 DEF Range
<1>7. Len(table) \in Nat /\ DOMAIN after \subseteq Nat
  BY <1>4, LenProperties
<1>8. \A i, j \in DOMAIN after \ DOMAIN table : after[i] = after[j] => i = j
  BY <1>2, <1>4, <1>7
<1>9. demo \subseteq Range(table) => after = table
  BY <1>2, ConcatEmptySeq DEF M, after
<1>10. QED  BY <1>4, <1>5, <1>6, <1>8, <1>9 DEF M, S, after, Grown
-----------------------------------------------------------------------------
(* What a seed does to each table                                          *)

LEMMA Demos ==
    /\ IsFiniteSet(DemoRoutes) /\ IsFiniteSet(DemoVehicles)
    /\ DemoRoutes \subseteq Names /\ DemoVehicles \subseteq Codes
    /\ None \notin Names /\ None \notin Codes
<1>1. IsFiniteSet({a.route : a \in Accounts}) /\ IsFiniteSet({a.vehicle : a \in Accounts})
  <2> DEFINE f == [a \in Accounts |-> a.route]
             g == [a \in Accounts |-> a.vehicle]
  <2>1. /\ f \in Surjection(Accounts, {a.route : a \in Accounts})
        /\ g \in Surjection(Accounts, {a.vehicle : a \in Accounts})
    BY DEF Surjection
  <2>2. QED  BY <2>1, AccountsAssumption, FS_Surjection
<1>2. IsFiniteSet(DemoRoutes) /\ IsFiniteSet(DemoVehicles)
  BY <1>1, FS_Subset DEF DemoRoutes, DemoVehicles
<1>3. QED  BY <1>2, NoneAssumption DEF DemoRoutes, DemoVehicles, Names, Codes

LEMMA SeedGrows ==
    ASSUME TypeOK, Seed
    PROVE  /\ Grown(routes, routes', DemoRoutes, Names)
           /\ Grown(vehicles, vehicles', DemoVehicles, Codes)
<1>1. Grown(routes, routes', DemoRoutes, Names)
  <2>1. PICK new \in SetToSeqs(DemoRoutes \ Range(routes)) : routes' = routes \o new
    BY DEF Seed, MissingRoutes
  <2>2. routes \in Seq(Names \cup {None})  BY DEF TypeOK
  <2>3. QED  BY <2>1, <2>2, Demos, Completed
<1>2. Grown(vehicles, vehicles', DemoVehicles, Codes)
  <2>1. PICK new \in SetToSeqs(DemoVehicles \ Range(vehicles)) : vehicles' = vehicles \o new
    BY DEF Seed, MissingVehicles
  <2>2. vehicles \in Seq(Codes \cup {None})  BY DEF TypeOK
  <2>3. QED  BY <2>1, <2>2, Demos, Completed
<1>3. QED  BY <1>1, <1>2

\* A demo name that has its row is found, and the row is not a deleted one.
LEMMA Found ==
    ASSUME NEW table, NEW name, name \in Range(table) \cup {None}
    PROVE  /\ name = None => IdOf(name, table) = None
           /\ name # None => /\ IdOf(name, table) \in Named(table)
                             /\ table[IdOf(name, table)] = name
BY DEF IdOf, Range, Named

\* A demo account is created with the route and vehicle of its demo names.
LEMMA DemoRow ==
    ASSUME TypeOK, Seed, NEW a \in Accounts
    PROVE  /\ DemoUser(a) \in Rows(DOMAIN routes', DOMAIN vehicles')
           /\ DemoUser(a).email = a.email
           /\ DemoUser(a).route \in RouteIds' \cup {None}
           /\ DemoUser(a).vehicle \in VehicleIds' \cup {None}
           /\ a.route # None => /\ routes'[DemoUser(a).route] = a.route
                                /\ vehicles'[DemoUser(a).vehicle] = a.vehicle
<1>1. a.route \in Range(routes') \cup {None} /\ a.vehicle \in Range(vehicles') \cup {None}
  BY SeedGrows DEF Grown, DemoRoutes, DemoVehicles
<1>2. /\ IdOf(a.route, routes') \in RouteIds' \cup {None}
      /\ IdOf(a.vehicle, vehicles') \in VehicleIds' \cup {None}
      /\ a.route # None => routes'[IdOf(a.route, routes')] = a.route
      /\ a.vehicle # None => vehicles'[IdOf(a.vehicle, vehicles')] = a.vehicle
  BY <1>1, Found DEF RouteIds, VehicleIds
<1>3. a.route # None => a.vehicle # None  BY AccountsAssumption
<1>4. a.email \in Emails  BY DEF Emails
<1>5. QED  BY <1>2, <1>3, <1>4 DEF DemoUser, Rows, RouteIds, VehicleIds, Named

LEMMA RowsMonotonic ==
    ASSUME NEW R, NEW V, NEW R2, NEW V2, R \subseteq R2, V \subseteq V2
    PROVE  Rows(R, V) \subseteq Rows(R2, V2)
BY DEF Rows

\* No row is a deleted one.
LEMMA RowsNotNone ==
    ASSUME NEW R \in SUBSET Nat, NEW V \in SUBSET Nat
    PROVE  None \notin Rows(R, V)
BY NoneAssumption, RowsMonotonic

LEMMA Domains ==
    TypeOK => /\ DOMAIN routes \subseteq Nat /\ DOMAIN vehicles \subseteq Nat
              /\ DOMAIN users = 1 .. Len(users) /\ Len(users) \in Nat
<1> SUFFICES ASSUME TypeOK
             PROVE  /\ DOMAIN routes \subseteq Nat /\ DOMAIN vehicles \subseteq Nat
                    /\ DOMAIN users = 1 .. Len(users) /\ Len(users) \in Nat
  OBVIOUS
<1>1. routes \in Seq(Names \cup {None}) /\ vehicles \in Seq(Codes \cup {None})
      /\ users \in Seq(Rows(DOMAIN routes, DOMAIN vehicles) \cup {None})
  BY DEF TypeOK
<1>2. QED  BY <1>1, LenProperties

\* A seed appends the rows of the demo accounts that were missing.
LEMMA SeedAppends ==
    ASSUME TypeOK, Seed
    PROVE  /\ users' \in Seq(Rows(DOMAIN routes', DOMAIN vehicles') \cup {None})
           /\ \A u \in DOMAIN users : u \in DOMAIN users' /\ users'[u] = users[u]
           /\ \A a \in MissingAccounts : \E u \in DOMAIN users' : users'[u] = DemoUser(a)
           /\ \A u \in DOMAIN users' \ DOMAIN users :
                \E a \in MissingAccounts : users'[u] = DemoUser(a)
           /\ \A u, v \in DOMAIN users' \ DOMAIN users : users'[u].email = users'[v].email => u = v
           /\ MissingAccounts = {} => users' = users
<1> DEFINE S == Rows(DOMAIN routes', DOMAIN vehicles') \cup {None}
<1>1. PICK new \in SetToSeqs(MissingAccounts) : users' = SeededUsers(new)
  BY DEF Seed
<1>2. IsFiniteSet(MissingAccounts) /\ MissingAccounts \subseteq Accounts
  BY AccountsAssumption, FS_Subset DEF MissingAccounts
<1>3. /\ new \in Seq(MissingAccounts) /\ Range(new) = MissingAccounts
      /\ \A i, j \in DOMAIN new : new[i] = new[j] => i = j
      /\ MissingAccounts = {} => new = <<>>
  BY <1>1, <1>2, Listed
<1> DEFINE rows == [i \in DOMAIN new |-> DemoUser(new[i])]
<1>4. users' = users \o rows  BY <1>1 DEF SeededUsers
<1>5. \A i \in DOMAIN new : new[i] \in MissingAccounts  BY <1>3, LenProperties
<1>6. \A i \in DOMAIN new : DemoUser(new[i]) \in S /\ DemoUser(new[i]).email = new[i].email
  BY <1>2, <1>5, DemoRow
<1>7. users \in Seq(S)
  <2>1. /\ DOMAIN routes \subseteq DOMAIN routes' /\ DOMAIN vehicles \subseteq DOMAIN vehicles'
    BY SeedGrows DEF Grown
  <2>2. Rows(DOMAIN routes, DOMAIN vehicles) \cup {None} \subseteq S
    BY <2>1, RowsMonotonic
  <2>3. users \in Seq(Rows(DOMAIN routes, DOMAIN vehicles) \cup {None})  BY DEF TypeOK
  <2>4. QED  BY <2>2, <2>3, SeqMonotonic
<1>8. rows \in Seq(S) /\ DOMAIN rows = DOMAIN new
  <2>1. DOMAIN new = 1 .. Len(new) /\ Len(new) \in Nat  BY <1>3, LenProperties
  <2>2. QED  BY <1>6, <2>1
<1>9. \A i \in DOMAIN new : rows[i] = DemoUser(new[i])  OBVIOUS
<1> HIDE DEF rows, S
<1>10. /\ users' \in Seq(S)
       /\ \A u \in DOMAIN users : u \in DOMAIN users' /\ users'[u] = users[u]
       /\ \A j \in DOMAIN rows : Len(users) + j \in DOMAIN users' /\ users'[Len(users) + j] = rows[j]
       /\ \A u \in DOMAIN users' \ DOMAIN users :
            u - Len(users) \in DOMAIN rows /\ users'[u] = rows[u - Len(users)]
  BY <1>4, <1>7, <1>8, Appended
<1>11. \A a \in MissingAccounts : \E u \in DOMAIN users' : users'[u] = DemoUser(a)
  <2> SUFFICES ASSUME NEW a \in MissingAccounts
               PROVE  \E u \in DOMAIN users' : users'[u] = DemoUser(a)
    OBVIOUS
  <2>1. PICK j \in DOMAIN new : new[j] = a  BY <1>3 DEF Range
  <2>2. QED  BY <2>1, <1>8, <1>9, <1>10
<1>12. \A u \in DOMAIN users' \ DOMAIN users :
         /\ new[u - Len(users)] \in MissingAccounts
         /\ users'[u] = DemoUser(new[u - Len(users)])
         /\ users'[u].email = new[u - Len(users)].email
  BY <1>5, <1>6, <1>8, <1>9, <1>10
<1>13. \A u, v \in DOMAIN users' \ DOMAIN users : users'[u].email = users'[v].email => u = v
  <2> SUFFICES ASSUME NEW u \in DOMAIN users' \ DOMAIN users, NEW v \in DOMAIN users' \ DOMAIN users,
                      users'[u].email = users'[v].email
               PROVE  u = v
    OBVIOUS
  <2>1. new[u - Len(users)] = new[v - Len(users)]
    BY <1>2, <1>12, AccountsAssumption
  <2>2. u - Len(users) = v - Len(users)
    BY <2>1, <1>3, <1>8, <1>10
  <2>3. u \in Nat /\ v \in Nat /\ Len(users) \in Nat
    BY <1>7, <1>10, LenProperties
  <2>4. QED  BY <2>2, <2>3
<1>14. MissingAccounts = {} => users' = users
  <2> SUFFICES ASSUME MissingAccounts = {}  PROVE users' = users
    OBVIOUS
  <2>1. rows = <<>>
    <3>1. DOMAIN rows = {} /\ rows \in Seq(S)  BY <1>3, <1>8
    <3>2. Len(rows) = 0  BY <3>1, LenProperties
    <3>3. QED  BY <3>1, <3>2, EmptySeq
  <2>2. QED  BY <2>1, <1>4, <1>7, ConcatEmptySeq
<1>15. QED  BY <1>10, <1>11, <1>12, <1>13, <1>14 DEF S

-----------------------------------------------------------------------------
(* Types                                                                   *)

LEMMA InitTypes == Init => TypeOK
<1> SUFFICES ASSUME Init  PROVE TypeOK
  OBVIOUS
<1>1. /\ routes \in Seq(Names \cup {None}) /\ vehicles \in Seq(Codes \cup {None})
      /\ users \in Seq(Rows(DOMAIN routes, DOMAIN vehicles) \cup {None})
  BY EmptySeq DEF Init
<1>2. serving \in BOOLEAN /\ wiped \in BOOLEAN  BY DEF Init
<1>3. seeds \in 0 .. MaxSeeds  BY BoundAssumption DEF Init
<1>4. QED  BY <1>1, <1>2, <1>3 DEF TypeOK

LEMMA SeedTypes ==
    ASSUME TypeOK, Seed, serving' \in BOOLEAN, wiped' \in BOOLEAN
    PROVE  TypeOK'
<1>1. seeds' \in 0 .. MaxSeeds  BY BoundAssumption DEF Seed, TypeOK
<1>2. QED  BY <1>1, SeedGrows, SeedAppends DEF Grown, TypeOK

\* What one request changes of a user's row.
LEMMA EditedUser ==
    ASSUME TypeOK, NEW u \in UserIds, NEW row, row \in Rows(DOMAIN routes, DOMAIN vehicles) \cup {None},
           users' = [users EXCEPT ![u] = row], UNCHANGED <<routes, vehicles, serving, wiped, seeds>>
    PROVE  TypeOK'
<1>1. users \in Seq(Rows(DOMAIN routes, DOMAIN vehicles) \cup {None}) /\ u \in 1 .. Len(users)
  BY Domains DEF TypeOK, UserIds, Named
<1>2. users' \in Seq(Rows(DOMAIN routes, DOMAIN vehicles) \cup {None})
  BY <1>1, ExceptSeq
<1>3. QED  BY <1>2 DEF TypeOK

LEMMA UserRow ==
    ASSUME TypeOK, NEW u \in UserIds
    PROVE  users[u] \in Rows(DOMAIN routes, DOMAIN vehicles)
<1>1. users \in Seq(Rows(DOMAIN routes, DOMAIN vehicles) \cup {None}) /\ u \in 1 .. Len(users)
  BY Domains DEF TypeOK, UserIds, Named
<1>2. users[u] \in Rows(DOMAIN routes, DOMAIN vehicles) \cup {None}  BY <1>1, ElementOfSeq
<1>3. QED  BY <1>2 DEF UserIds, Named

LEMMA EditTypes ==
    ASSUME TypeOK, EditUsers  PROVE TypeOK'
<1>1. ASSUME NEW email \in Emails, CreateUser(email)  PROVE TypeOK'
  <2> DEFINE row == [email |-> email, route |-> None, vehicle |-> None]
  <2>1. row \in Rows(DOMAIN routes, DOMAIN vehicles)  BY DEF Rows, Emails
  <2>2. users \in Seq(Rows(DOMAIN routes, DOMAIN vehicles) \cup {None})  BY DEF TypeOK
  <2>3. users' = Append(users, row)  BY <1>1 DEF CreateUser
  <2> HIDE DEF row
  <2>4. users' \in Seq(Rows(DOMAIN routes, DOMAIN vehicles) \cup {None})  BY <2>1, <2>2, <2>3
  <2>5. QED  BY <2>4, <1>1 DEF TypeOK, CreateUser, Request
<1>2. ASSUME NEW u \in UserIds, NEW email \in Emails, ChangeEmail(u, email)  PROVE TypeOK'
  <2>1. [users[u] EXCEPT !.email = email] \in Rows(DOMAIN routes, DOMAIN vehicles)
    BY UserRow DEF Rows, Emails
  <2>2. users' = [users EXCEPT ![u] = [users[u] EXCEPT !.email = email]]
    BY <1>2 DEF ChangeEmail
  <2>3. QED  BY <1>2, <2>1, <2>2, EditedUser DEF ChangeEmail, Request
<1>3. ASSUME NEW u \in UserIds, DeleteUser(u)  PROVE TypeOK'
  BY <1>3, EditedUser DEF DeleteUser, Request
<1>4. ASSUME NEW u \in UserIds, Unassign(u)  PROVE TypeOK'
  <2>1. [users[u] EXCEPT !.route = None, !.vehicle = None] \in Rows(DOMAIN routes, DOMAIN vehicles)
    BY UserRow DEF Rows
  <2>2. users' = [users EXCEPT ![u] = [users[u] EXCEPT !.route = None, !.vehicle = None]]
    BY <1>4 DEF Unassign
  <2>3. QED  BY <1>4, <2>1, <2>2, EditedUser DEF Unassign, Request
<1>5. ASSUME NEW u \in UserIds, NEW r \in RouteIds, NEW v \in VehicleIds, Assign(u, r, v)  PROVE TypeOK'
  <2>1. [users[u] EXCEPT !.route = r, !.vehicle = v] \in Rows(DOMAIN routes, DOMAIN vehicles)
    BY UserRow DEF Rows, RouteIds, VehicleIds, Named
  <2>2. users' = [users EXCEPT ![u] = [users[u] EXCEPT !.route = r, !.vehicle = v]]
    BY <1>5 DEF Assign
  <2>3. QED  BY <1>5, <2>1, <2>2, EditedUser DEF Assign, Request
<1>6. QED  BY <1>1, <1>2, <1>3, <1>4, <1>5 DEF EditUsers

\* A request about a route or a vehicle adds a row to the end of its table or
\* changes the one it names; ids stay.
LEMMA FleetTypes ==
    ASSUME TypeOK, EditFleet
    PROVE  /\ TypeOK' /\ users' = users
           /\ DOMAIN routes \subseteq DOMAIN routes' /\ DOMAIN vehicles \subseteq DOMAIN vehicles'
<1>1. /\ routes \in Seq(Names \cup {None}) /\ vehicles \in Seq(Codes \cup {None})
      /\ users \in Seq(Rows(DOMAIN routes, DOMAIN vehicles) \cup {None})
  BY DEF TypeOK
<1>2. ASSUME routes' \in Seq(Names \cup {None}), vehicles' \in Seq(Codes \cup {None}),
             DOMAIN routes \subseteq DOMAIN routes', DOMAIN vehicles \subseteq DOMAIN vehicles',
             UNCHANGED <<users, serving, wiped, seeds>>
      PROVE  TypeOK'
  <2>1. Rows(DOMAIN routes, DOMAIN vehicles) \cup {None}
          \subseteq Rows(DOMAIN routes', DOMAIN vehicles') \cup {None}
    BY <1>2, RowsMonotonic
  <2>2. users' \in Seq(Rows(DOMAIN routes', DOMAIN vehicles') \cup {None})
    BY <1>1, <1>2, <2>1, SeqMonotonic
  <2>3. QED  BY <1>2, <2>2 DEF TypeOK
<1>3. ASSUME NEW r \in RouteIds, NEW name \in Names \cup {None}
      PROVE  LET after == [routes EXCEPT ![r] = name]
             IN  after \in Seq(Names \cup {None}) /\ DOMAIN after = DOMAIN routes
  <2>1. r \in 1 .. Len(routes)  BY <1>1, LenProperties DEF RouteIds, Named
  <2>2. QED  BY <1>1, <2>1, ExceptSeq
<1>4. ASSUME NEW v \in VehicleIds, NEW code \in Codes \cup {None}
      PROVE  LET after == [vehicles EXCEPT ![v] = code]
             IN  after \in Seq(Codes \cup {None}) /\ DOMAIN after = DOMAIN vehicles
  <2>1. v \in 1 .. Len(vehicles)  BY <1>1, LenProperties DEF VehicleIds, Named
  <2>2. QED  BY <1>1, <2>1, ExceptSeq
<1>5. ASSUME NEW name \in Names, CreateRoute(name)
      PROVE  TypeOK' /\ users' = users /\ DOMAIN routes \subseteq DOMAIN routes' /\ vehicles' = vehicles
  <2>1. routes' = Append(routes, name)  BY <1>5 DEF CreateRoute
  <2>2. routes' \in Seq(Names \cup {None}) /\ DOMAIN routes \subseteq DOMAIN routes'
    BY <1>1, <2>1, AppendProperties, LenProperties
  <2>3. UNCHANGED <<vehicles, users, serving, wiped, seeds>>  BY <1>5 DEF CreateRoute, Request
  <2>4. QED  BY <1>1, <1>2, <2>2, <2>3
<1>6. ASSUME NEW code \in Codes, CreateVehicle(code)
      PROVE  TypeOK' /\ users' = users /\ DOMAIN vehicles \subseteq DOMAIN vehicles' /\ routes' = routes
  <2>1. vehicles' = Append(vehicles, code)  BY <1>6 DEF CreateVehicle
  <2>2. vehicles' \in Seq(Codes \cup {None}) /\ DOMAIN vehicles \subseteq DOMAIN vehicles'
    BY <1>1, <2>1, AppendProperties, LenProperties
  <2>3. UNCHANGED <<routes, users, serving, wiped, seeds>>  BY <1>6 DEF CreateVehicle, Request
  <2>4. QED  BY <1>1, <1>2, <2>2, <2>3
<1>7. ASSUME NEW r \in RouteIds, DeleteRoute(r) \/ \E name \in Names : RenameRoute(r, name)
      PROVE  TypeOK' /\ users' = users /\ DOMAIN routes' = DOMAIN routes /\ vehicles' = vehicles
  <2>1. PICK name \in Names \cup {None} : routes' = [routes EXCEPT ![r] = name]
    BY <1>7 DEF DeleteRoute, RenameRoute
  <2>2. UNCHANGED <<vehicles, users, serving, wiped, seeds>>
    BY <1>7 DEF DeleteRoute, RenameRoute, Request
  <2>3. QED  BY <1>1, <1>2, <1>3, <2>1, <2>2
<1>8. ASSUME NEW v \in VehicleIds, DeleteVehicle(v) \/ \E code \in Codes : RenameVehicle(v, code)
      PROVE  TypeOK' /\ users' = users /\ DOMAIN vehicles' = DOMAIN vehicles /\ routes' = routes
  <2>1. PICK code \in Codes \cup {None} : vehicles' = [vehicles EXCEPT ![v] = code]
    BY <1>8 DEF DeleteVehicle, RenameVehicle
  <2>2. UNCHANGED <<routes, users, serving, wiped, seeds>>
    BY <1>8 DEF DeleteVehicle, RenameVehicle, Request
  <2>3. QED  BY <1>1, <1>2, <1>4, <2>1, <2>2
<1>9. QED  BY <1>5, <1>6, <1>7, <1>8 DEF EditFleet

LEMMA WipeTypes ==
    ASSUME TypeOK, Wipe  PROVE TypeOK'
<1>1. \A S, table : table \in Seq(S) => /\ [i \in DOMAIN table |-> None] \in Seq(S \cup {None})
                                       /\ DOMAIN [i \in DOMAIN table |-> None] = DOMAIN table
  <2> SUFFICES ASSUME NEW S, NEW table \in Seq(S)
               PROVE  [i \in DOMAIN table |-> None] \in Seq(S \cup {None})
    OBVIOUS
  <2>1. DOMAIN table = 1 .. Len(table) /\ Len(table) \in Nat  BY LenProperties
  <2>2. QED  BY <2>1
<1>2. \A S : (S \cup {None}) \cup {None} = S \cup {None}  OBVIOUS
<1>3. /\ routes' \in Seq(Names \cup {None}) /\ vehicles' \in Seq(Codes \cup {None})
      /\ DOMAIN routes' = DOMAIN routes /\ DOMAIN vehicles' = DOMAIN vehicles
      /\ users' \in Seq(Rows(DOMAIN routes, DOMAIN vehicles) \cup {None})
  <2>1. /\ routes \in Seq(Names \cup {None}) /\ vehicles \in Seq(Codes \cup {None})
        /\ users \in Seq(Rows(DOMAIN routes, DOMAIN vehicles) \cup {None})
    BY DEF TypeOK
  <2>2. QED  BY <1>1, <1>2, <2>1 DEF Wipe
<1>4. QED  BY <1>3 DEF TypeOK, Wipe

LEMMA StepTypes == TypeOK /\ [Next]_vars => TypeOK'
<1> SUFFICES ASSUME TypeOK, [Next]_vars  PROVE TypeOK'
  OBVIOUS
<1>1. CASE Boot  BY <1>1, SeedTypes DEF Boot, TypeOK
<1>2. CASE Stop  BY <1>2 DEF Stop, TypeOK
<1>3. CASE Wipe  BY <1>3, WipeTypes
<1>4. CASE SeedFresh  BY <1>4, SeedTypes DEF SeedFresh, TypeOK
<1>5. CASE EditUsers  BY <1>5, EditTypes
<1>6. CASE EditFleet  BY <1>6, FleetTypes
<1>7. CASE UNCHANGED vars  BY <1>7 DEF vars, TypeOK
<1>8. QED  BY <1>1, <1>2, <1>3, <1>4, <1>5, <1>6, <1>7 DEF Next

\* Every table holds rows of its kind, and ids are only ever added to it: a
\* reference, of a deleted user too, is to an id that was once handed out.
THEOREM Typing == Spec => []TypeOK
<1>1. QED  BY InitTypes, StepTypes, PTL DEF Spec

-----------------------------------------------------------------------------
(* References and keys                                                     *)

RefInv == TypeOK /\ RefIntegrity

LEMMA SeedRefs ==
    ASSUME RefInv, Seed  PROVE RefIntegrity'
<1> SUFFICES ASSUME NEW u \in UserIds'
             PROVE  /\ users'[u].route \in RouteIds' \cup {None}
                    /\ users'[u].vehicle \in VehicleIds' \cup {None}
  BY DEF RefIntegrity
<1>1. u \in DOMAIN users' /\ users'[u] # None  BY DEF UserIds, Named
<1>2. CASE u \in DOMAIN users
  <2>1. users'[u] = users[u] /\ u \in UserIds
    BY <1>1, <1>2, SeedAppends DEF RefInv, UserIds, Named
  <2>2. /\ users[u].route \in RouteIds \cup {None}
        /\ users[u].vehicle \in VehicleIds \cup {None}
    BY <2>1 DEF RefInv, RefIntegrity
  <2>3. RouteIds \subseteq RouteIds' /\ VehicleIds \subseteq VehicleIds'
    BY SeedGrows DEF RefInv, Grown, RouteIds, VehicleIds, Named
  <2>4. QED  BY <2>1, <2>2, <2>3
<1>3. CASE u \notin DOMAIN users
  <2>1. PICK a \in MissingAccounts : users'[u] = DemoUser(a)
    BY <1>1, <1>3, SeedAppends DEF RefInv
  <2>2. a \in Accounts  BY DEF MissingAccounts
  <2>3. QED  BY <2>1, <2>2, DemoRow DEF RefInv
<1>4. QED  BY <1>2, <1>3

\* A request that touches one user leaves the references of the others alone.
LEMMA EditRefs ==
    ASSUME RefInv, EditUsers  PROVE RefIntegrity'
<1>1. /\ DOMAIN users = 1 .. Len(users) /\ Len(users) \in Nat
      /\ users \in Seq(Rows(DOMAIN routes, DOMAIN vehicles) \cup {None})
  BY Domains DEF RefInv, TypeOK
<1>2. ASSUME UNCHANGED <<routes, vehicles>>,
             \A u \in UserIds' : \/ u \in UserIds /\ users'[u] = users[u]
                               \/ /\ users'[u].route \in RouteIds \cup {None}
                                  /\ users'[u].vehicle \in VehicleIds \cup {None}
      PROVE  RefIntegrity'
  BY <1>2 DEF RefInv, RefIntegrity, RouteIds, VehicleIds, Named
<1>3. ASSUME NEW email \in Emails, CreateUser(email)  PROVE RefIntegrity'
  <2> DEFINE row == [email |-> email, route |-> None, vehicle |-> None]
  <2>1. row.route = None /\ row.vehicle = None  OBVIOUS
  <2>2. row \in Rows(DOMAIN routes, DOMAIN vehicles)  BY DEF Rows, Emails
  <2>3. users' = Append(users, row) /\ UNCHANGED <<routes, vehicles>>  BY <1>3 DEF CreateUser
  <2> HIDE DEF row
  <2>4. \A u \in DOMAIN users' : (u \in DOMAIN users /\ users'[u] = users[u]) \/ users'[u] = row
    BY <1>1, <2>2, <2>3
  <2>5. QED  BY <1>2, <2>1, <2>3, <2>4 DEF UserIds, Named
<1>4. ASSUME NEW u \in UserIds, NEW row, users' = [users EXCEPT ![u] = row], UNCHANGED <<routes, vehicles>>,
             row # None => /\ row.route \in RouteIds \cup {None}
                           /\ row.vehicle \in VehicleIds \cup {None}
      PROVE  RefIntegrity'
  <2>1. \A x \in DOMAIN users' : x \in DOMAIN users /\ users'[x] = IF x = u THEN row ELSE users[x]
    BY <1>1, <1>4 DEF UserIds, Named
  <2>2. QED  BY <1>2, <1>4, <2>1 DEF UserIds, Named
<1>5. ASSUME NEW u \in UserIds
      PROVE  /\ users[u] \in Rows(DOMAIN routes, DOMAIN vehicles)
             /\ users[u].route \in RouteIds \cup {None}
             /\ users[u].vehicle \in VehicleIds \cup {None}
  BY UserRow DEF RefInv, RefIntegrity
<1>6. ASSUME NEW u \in UserIds, NEW email \in Emails, ChangeEmail(u, email)  PROVE RefIntegrity'
  <2> DEFINE row == [users[u] EXCEPT !.email = email]
  <2>1. users' = [users EXCEPT ![u] = row] /\ UNCHANGED <<routes, vehicles>>
    BY <1>6 DEF ChangeEmail
  <2>2. row.route = users[u].route /\ row.vehicle = users[u].vehicle
    BY <1>5 DEF Rows
  <2>3. QED  BY <1>4, <1>5, <2>1, <2>2
<1>7. ASSUME NEW u \in UserIds, DeleteUser(u)  PROVE RefIntegrity'
  BY <1>4, <1>7 DEF DeleteUser
<1>8. ASSUME NEW u \in UserIds, Unassign(u)  PROVE RefIntegrity'
  <2> DEFINE row == [users[u] EXCEPT !.route = None, !.vehicle = None]
  <2>1. users' = [users EXCEPT ![u] = row] /\ UNCHANGED <<routes, vehicles>>
    BY <1>8 DEF Unassign
  <2>2. row.route = None /\ row.vehicle = None
    BY <1>5 DEF Rows
  <2>3. QED  BY <1>4, <2>1, <2>2
<1>9. ASSUME NEW u \in UserIds, NEW r \in RouteIds, NEW v \in VehicleIds, Assign(u, r, v)
      PROVE  RefIntegrity'
  <2> DEFINE row == [users[u] EXCEPT !.route = r, !.vehicle = v]
  <2>1. users' = [users EXCEPT ![u] = row] /\ UNCHANGED <<routes, vehicles>>
    BY <1>9 DEF Assign
  <2>2. row.route = r /\ row.vehicle = v
    BY <1>5 DEF Rows
  <2>3. QED  BY <1>4, <2>1, <2>2
<1>10. QED  BY <1>3, <1>6, <1>7, <1>8, <1>9 DEF EditUsers

\* A renamed row keeps its id, and a row is deleted only when no user refers to it.
LEMMA FleetRefs ==
    ASSUME RefInv, EditFleet  PROVE RefIntegrity'
<1>1. users' = users /\ UserIds' = UserIds  BY FleetTypes DEF RefInv, UserIds, Named
<1>2. None \notin Names /\ None \notin Codes  BY Demos
<1>3. /\ routes \in Seq(Names \cup {None}) /\ vehicles \in Seq(Codes \cup {None})
  BY DEF RefInv, TypeOK
<1>4. ASSUME RouteIds \subseteq RouteIds', VehicleIds \subseteq VehicleIds'  PROVE RefIntegrity'
  BY <1>1, <1>4 DEF RefInv, RefIntegrity
<1>5. ASSUME NEW r \in RouteIds, DeleteRoute(r)  PROVE RefIntegrity'
  <2>1. RouteIds' = RouteIds \ {r} /\ VehicleIds' = VehicleIds
    BY <1>5 DEF DeleteRoute, RouteIds, VehicleIds, Named
  <2>2. \A u \in UserIds : users[u].route # r  BY <1>5 DEF DeleteRoute
  <2>3. QED  BY <1>1, <2>1, <2>2 DEF RefInv, RefIntegrity
<1>6. ASSUME NEW v \in VehicleIds, DeleteVehicle(v)  PROVE RefIntegrity'
  <2>1. VehicleIds' = VehicleIds \ {v} /\ RouteIds' = RouteIds
    BY <1>6 DEF DeleteVehicle, RouteIds, VehicleIds, Named
  <2>2. \A u \in UserIds : users[u].vehicle # v  BY <1>6 DEF DeleteVehicle
  <2>3. QED  BY <1>1, <2>1, <2>2 DEF RefInv, RefIntegrity
<1>7. ASSUME NEW r \in RouteIds, NEW name \in Names, RenameRoute(r, name)  PROVE RefIntegrity'
  <2>1. RouteIds' = RouteIds /\ VehicleIds' = VehicleIds
    BY <1>2, <1>7 DEF RenameRoute, RouteIds, VehicleIds, Named
  <2>2. QED  BY <1>4, <2>1
<1>8. ASSUME NEW v \in VehicleIds, NEW code \in Codes, RenameVehicle(v, code)  PROVE RefIntegrity'
  <2>1. VehicleIds' = VehicleIds /\ RouteIds' = RouteIds
    BY <1>2, <1>8 DEF RenameVehicle, RouteIds, VehicleIds, Named
  <2>2. QED  BY <1>4, <2>1
<1>9. ASSUME NEW name \in Names, CreateRoute(name)  PROVE RefIntegrity'
  <2>1. routes' = Append(routes, name) /\ vehicles' = vehicles  BY <1>9 DEF CreateRoute
  <2>2. \A i \in DOMAIN routes : i \in DOMAIN routes' /\ routes'[i] = routes[i]
    BY <1>3, <2>1, AppendProperties, LenProperties
  <2>3. QED  BY <1>4, <2>1, <2>2 DEF RouteIds, VehicleIds, Named
<1>10. ASSUME NEW code \in Codes, CreateVehicle(code)  PROVE RefIntegrity'
  <2>1. vehicles' = Append(vehicles, code) /\ routes' = routes  BY <1>10 DEF CreateVehicle
  <2>2. \A i \in DOMAIN vehicles : i \in DOMAIN vehicles' /\ vehicles'[i] = vehicles[i]
    BY <1>3, <2>1, AppendProperties, LenProperties
  <2>3. QED  BY <1>4, <2>1, <2>2 DEF RouteIds, VehicleIds, Named
<1>11. QED  BY <1>5, <1>6, <1>7, <1>8, <1>9, <1>10 DEF EditFleet

LEMMA StepRefs == RefInv /\ [Next]_vars => RefInv'
<1> SUFFICES ASSUME RefInv, [Next]_vars  PROVE RefIntegrity'
  BY StepTypes DEF RefInv
<1>1. CASE Boot  BY <1>1, SeedRefs DEF Boot
<1>2. CASE Stop  BY <1>2 DEF Stop, RefInv, RefIntegrity, UserIds, RouteIds, VehicleIds, Named
<1>3. CASE Wipe  BY <1>3 DEF Wipe, RefIntegrity, UserIds, Named
<1>4. CASE SeedFresh  BY <1>4, SeedRefs DEF SeedFresh
<1>5. CASE EditUsers  BY <1>5, EditRefs
<1>6. CASE EditFleet  BY <1>6, FleetRefs
<1>7. CASE UNCHANGED vars
  BY <1>7 DEF vars, RefInv, RefIntegrity, UserIds, RouteIds, VehicleIds, Named
<1>8. QED  BY <1>1, <1>2, <1>3, <1>4, <1>5, <1>6, <1>7 DEF Next

\* No user ever refers to a route or a vehicle that is gone, however boots, resets
\* that die half-way, renamings and deletions follow each other.
THEOREM References == Spec => []RefIntegrity
<1>1. Init => RefInv  BY InitTypes DEF Init, RefInv, RefIntegrity, UserIds, Named
<1>2. RefInv => RefIntegrity  BY DEF RefInv
<1>3. QED  BY <1>1, <1>2, StepRefs, PTL DEF Spec

KeyInv == TypeOK /\ UniqueKeys

LEMMA SeedKeys ==
    ASSUME KeyInv, Seed  PROVE UniqueKeys'
<1>1. \A i, j \in RouteIds' : routes'[i] = routes'[j] => i = j
  <2>1. \A i \in RouteIds' : IF i \in DOMAIN routes THEN i \in RouteIds /\ routes'[i] = routes[i]
                                                  ELSE routes'[i] \notin Range(routes)
    BY SeedGrows DEF KeyInv, Grown, RouteIds, Named
  <2>2. \A i, j \in RouteIds' \ DOMAIN routes : routes'[i] = routes'[j] => i = j
    BY SeedGrows DEF KeyInv, Grown, RouteIds, Named
  <2>3. QED  BY <2>1, <2>2 DEF KeyInv, UniqueKeys, RouteIds, Named, Range
<1>2. \A i, j \in VehicleIds' : vehicles'[i] = vehicles'[j] => i = j
  <2>1. \A i \in VehicleIds' : IF i \in DOMAIN vehicles THEN i \in VehicleIds /\ vehicles'[i] = vehicles[i]
                                                    ELSE vehicles'[i] \notin Range(vehicles)
    BY SeedGrows DEF KeyInv, Grown, VehicleIds, Named
  <2>2. \A i, j \in VehicleIds' \ DOMAIN vehicles : vehicles'[i] = vehicles'[j] => i = j
    BY SeedGrows DEF KeyInv, Grown, VehicleIds, Named
  <2>3. QED  BY <2>1, <2>2 DEF KeyInv, UniqueKeys, VehicleIds, Named, Range
<1>3. \A i, j \in UserIds' : users'[i].email = users'[j].email => i = j
  <2>1. \A i \in UserIds' : i \in DOMAIN users => i \in UserIds /\ users'[i] = users[i]
    BY SeedAppends DEF KeyInv, UserIds, Named
  <2>2. \A i \in UserIds' : i \notin DOMAIN users => ~HasEmail(users'[i].email)
    <3> SUFFICES ASSUME NEW i \in UserIds', i \notin DOMAIN users
                 PROVE  ~HasEmail(users'[i].email)
      OBVIOUS
    <3>1. PICK a \in MissingAccounts : users'[i] = DemoUser(a)
      BY SeedAppends DEF KeyInv, UserIds, Named
    <3>2. users'[i].email = a.email  BY <3>1 DEF DemoUser
    <3>3. QED  BY <3>2 DEF MissingAccounts
  <2>3. \A i, j \in UserIds' \ DOMAIN users : users'[i].email = users'[j].email => i = j
    BY SeedAppends DEF KeyInv, UserIds, Named
  <2>4. QED  BY <2>1, <2>2, <2>3 DEF KeyInv, UniqueKeys, HasEmail
<1>4. QED  BY <1>1, <1>2, <1>3 DEF UniqueKeys

\* A request gives a user a new e-mail only when no other has it.
LEMMA EditKeys ==
    ASSUME KeyInv, EditUsers  PROVE UniqueKeys'
<1>1. /\ DOMAIN users = 1 .. Len(users) /\ Len(users) \in Nat
      /\ users \in Seq(Rows(DOMAIN routes, DOMAIN vehicles) \cup {None})
  BY Domains DEF KeyInv, TypeOK
<1>2. UNCHANGED <<routes, vehicles>>
  BY DEF EditUsers, CreateUser, ChangeEmail, DeleteUser, Unassign, Assign
<1>3. ASSUME NEW u,
             \A x \in UserIds' \ {u} : x \in UserIds /\ users'[x].email = users[x].email,
             \/ u \in UserIds /\ users'[u].email = users[u].email
             \/ ~HasEmail(users'[u].email)
             \/ u \notin UserIds'
      PROVE  UniqueKeys'
  <2>1. \A i, j \in UserIds' : users'[i].email = users'[j].email => i = j
    BY <1>3 DEF KeyInv, UniqueKeys, HasEmail
  <2>2. QED  BY <1>2, <2>1 DEF KeyInv, UniqueKeys, RouteIds, VehicleIds, Named
<1>4. ASSUME NEW email \in Emails, CreateUser(email)  PROVE UniqueKeys'
  <2> DEFINE row == [email |-> email, route |-> None, vehicle |-> None]
             u == Len(users) + 1
  <2>1. row.email = email /\ row \in Rows(DOMAIN routes, DOMAIN vehicles)  BY DEF Rows, Emails
  <2>2. users' = Append(users, row) /\ ~HasEmail(email)  BY <1>4 DEF CreateUser
  <2> HIDE DEF row
  <2>3. /\ users'[u] = row
        /\ \A x \in DOMAIN users' \ {u} : x \in DOMAIN users /\ users'[x] = users[x]
    BY <1>1, <2>1, <2>2
  <2> HIDE DEF u
  <2>4. QED  BY <1>3, <2>1, <2>2, <2>3 DEF UserIds, Named
<1>5. ASSUME NEW u \in UserIds, NEW row, users' = [users EXCEPT ![u] = row],
             \/ row = None
             \/ row.email = users[u].email
             \/ ~HasEmail(row.email)
      PROVE  UniqueKeys'
  <2>1. \A x \in DOMAIN users' : x \in DOMAIN users /\ users'[x] = IF x = u THEN row ELSE users[x]
    BY <1>1, <1>5 DEF UserIds, Named
  <2>2. users'[u] = row  BY <1>1, <1>5 DEF UserIds, Named
  <2>3. QED  BY <1>3, <1>5, <2>1, <2>2 DEF UserIds, Named
<1>6. ASSUME NEW u \in UserIds  PROVE users[u] \in Rows(DOMAIN routes, DOMAIN vehicles)
  BY UserRow DEF KeyInv
<1>7. ASSUME NEW u \in UserIds, NEW email \in Emails, ChangeEmail(u, email)  PROVE UniqueKeys'
  <2> DEFINE row == [users[u] EXCEPT !.email = email]
  <2>1. users' = [users EXCEPT ![u] = row] /\ ~HasEmail(email)  BY <1>7 DEF ChangeEmail
  <2>2. row.email = email  BY <1>6 DEF Rows
  <2>3. QED  BY <1>5, <2>1, <2>2
<1>8. ASSUME NEW u \in UserIds, DeleteUser(u)  PROVE UniqueKeys'
  BY <1>5, <1>8 DEF DeleteUser
<1>9. ASSUME NEW u \in UserIds, Unassign(u)  PROVE UniqueKeys'
  <2> DEFINE row == [users[u] EXCEPT !.route = None, !.vehicle = None]
  <2>1. users' = [users EXCEPT ![u] = row]  BY <1>9 DEF Unassign
  <2>2. row.email = users[u].email  BY <1>6 DEF Rows
  <2>3. QED  BY <1>5, <2>1, <2>2
<1>10. ASSUME NEW u \in UserIds, NEW r \in RouteIds, NEW v \in VehicleIds, Assign(u, r, v)
       PROVE  UniqueKeys'
  <2> DEFINE row == [users[u] EXCEPT !.route = r, !.vehicle = v]
  <2>1. users' = [users EXCEPT ![u] = row]  BY <1>10 DEF Assign
  <2>2. row.email = users[u].email  BY <1>6 DEF Rows
  <2>3. QED  BY <1>5, <2>1, <2>2
<1>11. QED  BY <1>4, <1>7, <1>8, <1>9, <1>10 DEF EditUsers

\* A creation or a renaming looks for its name first, so that the new name is no
\* other row's.
LEMMA FleetKeys ==
    ASSUME KeyInv, EditFleet  PROVE UniqueKeys'
<1>1. users' = users  BY FleetTypes DEF KeyInv
<1>2. /\ routes \in Seq(Names \cup {None}) /\ vehicles \in Seq(Codes \cup {None})
  BY DEF KeyInv, TypeOK
<1>3. ASSUME NEW r, NEW name, vehicles' = vehicles, name = None \/ name \notin Range(routes),
             \A i \in RouteIds' : routes'[i] = (IF i = r THEN name ELSE routes[i])
                                  /\ (i = r \/ i \in RouteIds)
      PROVE  UniqueKeys'
  <2>1. \A i \in RouteIds' : routes'[i] # None  BY DEF RouteIds, Named
  <2>2. \A i \in RouteIds : routes[i] \in Range(routes)  BY DEF RouteIds, Named, Range
  <2>3. \A i, j \in RouteIds' : routes'[i] = routes'[j] => i = j
    BY <1>3, <2>1, <2>2 DEF KeyInv, UniqueKeys
  <2>4. QED  BY <1>1, <1>3, <2>3 DEF KeyInv, UniqueKeys, VehicleIds, UserIds, Named
<1>4. ASSUME NEW v, NEW code, routes' = routes, code = None \/ code \notin Range(vehicles),
             \A i \in VehicleIds' : vehicles'[i] = (IF i = v THEN code ELSE vehicles[i])
                                    /\ (i = v \/ i \in VehicleIds)
      PROVE  UniqueKeys'
  <2>1. \A i \in VehicleIds' : vehicles'[i] # None  BY DEF VehicleIds, Named
  <2>2. \A i \in VehicleIds : vehicles[i] \in Range(vehicles)  BY DEF VehicleIds, Named, Range
  <2>3. \A i, j \in VehicleIds' : vehicles'[i] = vehicles'[j] => i = j
    BY <1>4, <2>1, <2>2 DEF KeyInv, UniqueKeys
  <2>4. QED  BY <1>1, <1>4, <2>3 DEF KeyInv, UniqueKeys, RouteIds, UserIds, Named
<1>5. ASSUME NEW r \in RouteIds, DeleteRoute(r) \/ \E name \in Names : RenameRoute(r, name)
      PROVE  UniqueKeys'
  <2>1. PICK name : /\ routes' = [routes EXCEPT ![r] = name] /\ vehicles' = vehicles
                    /\ name = None \/ name \notin Range(routes)
    BY <1>5 DEF DeleteRoute, RenameRoute
  <2>2. QED  BY <1>3, <2>1 DEF RouteIds, Named
<1>6. ASSUME NEW v \in VehicleIds, DeleteVehicle(v) \/ \E code \in Codes : RenameVehicle(v, code)
      PROVE  UniqueKeys'
  <2>1. PICK code : /\ vehicles' = [vehicles EXCEPT ![v] = code] /\ routes' = routes
                    /\ code = None \/ code \notin Range(vehicles)
    BY <1>6 DEF DeleteVehicle, RenameVehicle
  <2>2. QED  BY <1>4, <2>1 DEF VehicleIds, Named
<1>7. ASSUME NEW name \in Names, CreateRoute(name)  PROVE UniqueKeys'
  <2> PICK new : new = Len(routes) + 1
    OBVIOUS
  <2>1. routes' = Append(routes, name)  BY <1>7 DEF CreateRoute
  <2>2. vehicles' = vehicles  BY <1>7 DEF CreateRoute
  <2>3. name = None \/ name \notin Range(routes)  BY <1>7 DEF CreateRoute
  <2>4. \A i \in DOMAIN routes' : IF i = new THEN routes'[i] = name
                                  ELSE i \in DOMAIN routes /\ routes'[i] = routes[i]
    BY <1>2, <2>1, AppendProperties, LenProperties
  <2>5. \A i \in RouteIds' : routes'[i] = (IF i = new THEN name ELSE routes[i])
                          /\ (i = new \/ i \in RouteIds)
    BY <2>4 DEF RouteIds, Named
  <2>6. QED  BY <1>3, <2>2, <2>3, <2>5, Zenon
<1>8. ASSUME NEW code \in Codes, CreateVehicle(code)  PROVE UniqueKeys'
  <2> PICK new : new = Len(vehicles) + 1
    OBVIOUS
  <2>1. vehicles' = Append(vehicles, code)  BY <1>8 DEF CreateVehicle
  <2>2. routes' = routes  BY <1>8 DEF CreateVehicle
  <2>3. code = None \/ code \notin Range(vehicles)  BY <1>8 DEF CreateVehicle
  <2>4. \A i \in DOMAIN vehicles' : IF i = new THEN vehicles'[i] = code
                                  ELSE i \in DOMAIN vehicles /\ vehicles'[i] = vehicles[i]
    BY <1>2, <2>1, AppendProperties, LenProperties
  <2>5. \A i \in VehicleIds' : vehicles'[i] = (IF i = new THEN code ELSE vehicles[i])
                          /\ (i = new \/ i \in VehicleIds)
    BY <2>4 DEF VehicleIds, Named
  <2>6. QED  BY <1>4, <2>2, <2>3, <2>5, Zenon
<1>9. QED  BY <1>5, <1>6, <1>7, <1>8 DEF EditFleet

LEMMA StepKeys == KeyInv /\ [Next]_vars => KeyInv'
<1> SUFFICES ASSUME KeyInv, [Next]_vars  PROVE UniqueKeys'
  BY StepTypes DEF KeyInv
<1>1. CASE Boot  BY <1>1, SeedKeys DEF Boot
<1>2. CASE Stop  BY <1>2 DEF Stop, KeyInv, UniqueKeys, UserIds, RouteIds, VehicleIds, Named
<1>3. CASE Wipe  BY <1>3 DEF Wipe, UniqueKeys, UserIds, RouteIds, VehicleIds, Named
<1>4. CASE SeedFresh  BY <1>4, SeedKeys DEF SeedFresh
<1>5. CASE EditUsers  BY <1>5, EditKeys
<1>6. CASE EditFleet  BY <1>6, FleetKeys
<1>7. CASE UNCHANGED vars
  BY <1>7 DEF vars, KeyInv, UniqueKeys, UserIds, RouteIds, VehicleIds, Named
<1>8. QED  BY <1>1, <1>2, <1>3, <1>4, <1>5, <1>6, <1>7 DEF Next

\* The lookups before each insert and each renaming suffice to keep names, codes
\* and e-mails unique, when they come one by one.
THEOREM Keys == Spec => []UniqueKeys
<1>1. Init => KeyInv
  BY InitTypes DEF Init, KeyInv, UniqueKeys, UserIds, RouteIds, VehicleIds, Named
<1>2. KeyInv => UniqueKeys  BY DEF KeyInv
<1>3. QED  BY <1>1, <1>2, StepKeys, PTL DEF Spec

-----------------------------------------------------------------------------
(* What a seed promises                                                    *)

\* Only a seed counts as one.
LEMMA SeedsOnly ==
    TypeOK /\ [Next]_vars /\ seeds' # seeds => Seed
BY DEF Next, vars, Boot, Stop, Wipe, SeedFresh, EditUsers, EditFleet, Request, CreateUser, ChangeEmail,
       DeleteUser, Assign, Unassign, CreateRoute, CreateVehicle, RenameRoute, RenameVehicle,
       DeleteRoute, DeleteVehicle

\* A seed that misses no demo e-mail changes no user.
THEOREM KeepsUsers == Spec => SeedKeepsUsers
<1>1. TypeOK /\ [Next]_vars =>
        [seeds' # seeds /\ (\A a \in Accounts : HasEmail(a.email)) => users' = users]_vars
  <2> SUFFICES ASSUME TypeOK, [Next]_vars, seeds' # seeds, \A a \in Accounts : HasEmail(a.email)
               PROVE  users' = users
    OBVIOUS
  <2>1. Seed  BY SeedsOnly
  <2>2. MissingAccounts = {}  BY DEF MissingAccounts
  <2>3. QED  BY <2>1, <2>2, SeedAppends
<1>2. QED  BY <1>1, Typing, PTL DEF Spec, SeedKeepsUsers

\* After a seed each demo account has its row, a new one with its demo names.
LEMMA SeedLeaves ==
    ASSUME TypeOK, Seed, NEW a \in Accounts
    PROVE  \E u \in UserIds' :
             /\ users'[u].email = a.email
             /\ ~HasEmail(a.email) /\ a.route # None =>
                  routes'[users'[u].route] = a.route /\ vehicles'[users'[u].vehicle] = a.vehicle
<1>1. CASE HasEmail(a.email)
  <2>1. PICK u \in UserIds : users[u].email = a.email  BY <1>1 DEF HasEmail
  <2>2. u \in UserIds' /\ users'[u] = users[u]  BY SeedAppends DEF UserIds, Named
  <2>3. QED  BY <1>1, <2>1, <2>2
<1>2. CASE ~HasEmail(a.email)
  <2>1. PICK u \in DOMAIN users' : users'[u] = DemoUser(a)
    BY <1>2, SeedAppends DEF MissingAccounts
  <2>2. DemoUser(a) # None
    <3>1. DOMAIN routes' \subseteq Nat /\ DOMAIN vehicles' \subseteq Nat
      BY SeedGrows, LenProperties DEF Grown
    <3>2. QED  BY <3>1, DemoRow, RowsNotNone
  <2>3. u \in UserIds'  BY <2>1, <2>2 DEF UserIds, Named
  <2>4. QED  BY <2>1, <2>3, DemoRow
<1>3. QED  BY <1>1, <1>2

\* The next seed repairs whatever admins or a reset that died left of the demo data.
THEOREM Completes == Spec => SeedCompletes
<1>1. TypeOK /\ [Next]_vars =>
        [seeds' # seeds => \A a \in Accounts : \E u \in UserIds' :
           /\ users'[u].email = a.email
           /\ ~HasEmail(a.email) /\ a.route # None =>
                routes'[users'[u].route] = a.route /\ vehicles'[users'[u].vehicle] = a.vehicle]_vars
  BY SeedsOnly, SeedLeaves
<1>2. QED  BY <1>1, Typing, PTL DEF Spec, SeedCompletes

\* Two seeds in a row do what the first did.
THEOREM Idempotent == Spec => SeedIdempotent
<1>1. TypeOK /\ [Next]_vars =>
        [seeds' # seeds => /\ DemoInPlace'
                           /\ DemoInPlace => UNCHANGED <<routes, vehicles, users>>]_vars
  <2> SUFFICES ASSUME TypeOK, [Next]_vars, seeds' # seeds
               PROVE  DemoInPlace' /\ (DemoInPlace => UNCHANGED <<routes, vehicles, users>>)
    OBVIOUS
  <2>1. Seed  BY SeedsOnly
  <2>2. DemoRoutes \subseteq Range(routes') /\ DemoVehicles \subseteq Range(vehicles')
    BY <2>1, SeedGrows DEF Grown
  <2>3. \A a \in Accounts : HasEmail(a.email)'
    BY <2>1, SeedLeaves DEF HasEmail
  <2>4. DemoInPlace'  BY <2>2, <2>3 DEF DemoInPlace
  <2>5. DemoInPlace => UNCHANGED <<routes, vehicles, users>>
    BY <2>1, SeedGrows, SeedAppends DEF DemoInPlace, Grown, MissingAccounts
  <2>6. QED  BY <2>4, <2>5
<1>2. QED  BY <1>1, Typing, PTL DEF Spec, SeedIdempotent
=============================================================================

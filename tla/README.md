# Fleet tracking backend: specifications, checks and proofs

This directory specifies the fleet tracking backend (a FastAPI service over
PostgreSQL with an in-process MQTT subscriber) in TLA+. TLC checks the modules
on small instances, TLAPS proves the results that matter for every instance.
Every definition is translated from the code; `PROJECT.json` maps each one to
the lines it stands for.

Run everything from this directory:

    tlc -config FleetAssignment_serial.cfg MC_FleetAssignment
    tlapm FleetAssignment_proofs.tla

## 1. The system

One process serves HTTP requests and runs up to two background tasks; all
lasting state is in PostgreSQL, under READ COMMITTED (the engine sets no
isolation level). Each request and each GPS message has a session of its own.

| component | state | operations | interacts with |
|---|---|---|---|
| Fleet assignment (`fleet_admin_service`, `api/v1/admin`) | `users`, `bus_routes`, `vehicles` | create and delete each, set or clear a user's (route, vehicle) pair | the GPS tables through foreign keys; concurrent requests of other admins |
| Account administration (same service) | e-mails, roles, passwords | create, PATCH, delete; the uniqueness checks | the caller's own row in the session; tokens of accounts that change or go |
| Catalogue edits (same service) | names, codes, flags | PATCH and the uniqueness checks | the seed finds demo rows by name and code |
| GPS ingestion (`mqtt/client`, `mqtt/handler`) | `gps_points`, `vehicle_current_location`, the client's queue | take a message, validate, insert a point, insert or update the current location | broker (QoS 1), vehicle rows, readers |
| Payload parsing (`mqtt/payload`) | none | topic, JSON and range validation | ingestion, simulator |
| Background tasks (`main.lifespan`) | two asyncio tasks | start, cancel, gather; reconnect loop | broker outages, shutdown |
| Simulator (`simulator/runner`) | walkers, loaded once | load assignments, publish a round, wait | broker, assignments |
| Bus walker (`simulator/walk`) | distance and direction | advance, position | moved by the simulator |
| Demo seed (`seed`, container command) | all tables | create what is missing at each boot; `--fresh` wipes first | what admins renamed, deleted or assigned |
| Status and location reads (`tracking_service`, fleet view) | none | derive moving, idle, offline | ingestion, the clock |
| History (`tracking_service.get_history`) | none | count, page | ingestion, a paging client |
| Assignment, route and location reads (`api/v1/me`) | none | the caller's own pair and what hangs on it | assignments, deletions and fixes under way |
| Authentication (`core/security`, `auth_service`, `core/deps`) | tokens held by clients | login, refresh, resolve, admin gate | users |
| Schema, session, migration | | constraints | everything |
| Routers, error envelope, configuration, entry points, deployment | none | wiring | |

What makes it hard, and what correct means:

* **Assignments.** Checks and writes are separate statements, so two requests
  interleave between them. A route or vehicle should belong to one user at a
  time; a user has both or neither; nothing referenced is deleted.
* **Ingestion.** Messages come late, repeated, out of order or never; statements
  fail; the process restarts; a deployment overlaps two processes. The current
  location should be the newest fix of the history, and exist exactly when
  history does.
* **Accounts.** E-mails are checked in one statement and written in another; a
  request may run on a row loaded long ago; tokens outlive accounts. E-mails
  should be unique, no update should undo another's, and a token should stand for
  one account only, as long as announced.
* **Tasks.** Broker outages and a shutdown reach a task in any of its awaits. The
  subscriber should survive and recover, the process should stop when asked. A simulated bus
  should stay on its route and walk it to and fro.
* **Seed.** A seed should complete the demo data without undoing what admins did, also
  after a reset that died half-way.
* **Reads.** A request reads once and answers later, and pages are separate
  requests: a status should be neither older than what was known nor wrong at its
  boundaries, paging should lose nothing, and a driver whose assignment changes
  under way should get a whole answer that is nobody else's.

The complete list of hazards, each at its line, is in `PROJECT.json`.

## 2. Modules

| module | what it is | main theorems in |
|---|---|---|
| `FleetTables` | abstract: what the tables go through whatever races, one atomic step at a time | |
| `FleetDirectory` | abstract: the same with assignments as atomic steps of exclusive whole pairs | |
| `FleetAssignment` | the admin handlers statement by statement; implements `FleetTables` always, `FleetDirectory` while assignments do not race | `FleetAssignment_proofs` |
| `AccountRegistry` | abstract: accounts added, edited and removed in one step | |
| `Accounts` | tokens and the account requests statement by statement; implements `AccountRegistry` | `Accounts_proofs` |
| `LatestLocation` | abstract: store a fix, the newest is current | |
| `GpsIngest` | the subscriber's pipeline; implements `LatestLocation` | `GpsIngest_proofs` |
| `BusWalker` | the simulator's walk along a route | |
| `Lifespan` | the background tasks' control, the simulator moving a `BusWalker` | `Lifespan_proofs` |
| `FleetSeed` | boots, the demo reset and the edits between them | `FleetSeed_proofs` |
| `DriverReads` | a driver's reads composed with `FleetTables` and the storing of fixes | `DriverReads_proofs` |
| `VehicleStatus` | the derived status a client reads | `VehicleStatus_proofs` |
| `HistoryPaging` | a client paging through the history | `HistoryPaging_proofs` |
| `MC_*` | symmetry sets and sequence constants for TLC | |

Each module stops where the next one begins: `FleetAssignment` knows of GPS data
only whether a vehicle has any, `VehicleStatus` and `HistoryPaging` see ingestion
as one atomic step (what `GpsIngest` justifies for one subscriber), `Lifespan`
leaves a message's effect to `GpsIngest`. `DriverReads` takes the admins' requests as
the steps of `FleetTables`, which `FleetAssignment` implements whatever they race
with (`TablesImplementation`), so that half pairs and shared vehicles occur in it.

### FleetTables and FleetDirectory

`FleetTables` is the least that can be said of the tables: rows come and go, nothing
that is referred to is deleted, an id is given once, and an assignment gives some
columns of a row the values of a whole body, if their foreign keys hold
(`SetColumns`). It does not say that a pair is whole or that it is anybody's alone,
because the code does not ensure it. `FleetDirectory` replaces that one step by
`Assign` and `Unassign`, which do say so, as the header of `fleet_admin_service.py`
does.

### FleetAssignment

`users`, `routes`, `vehicles` are the tables, a user row being its
(route, vehicle) pair; `tracked` are the vehicles with GPS data; `request` is,
per request slot, the handler's next statement, its arguments and what its session
loaded. One action is one SQL statement with the Python after it up to the next
`await`. A flush and its commit are one action, because the row locks of the
flush make every conflicting statement wait for the commit. Two facts about
the ORM matter and are modelled:

* an UPDATE writes only the columns that differ from the loaded values
  (`Updated`), so it neither restores nor rechecks the other column;
* the loaded user brings its own route and vehicle into the session, so
  `get_route` and `get_vehicle` can answer with a deleted row (`GetRoute`,
  `GetVehicle`).

Names and codes are abstracted: a uniqueness check only ends a request early. Ids
are never reused, as with a sequence. The acting admin has no assignment (an
admin who does would have their own pair in the session too).

### Accounts

`users` maps an id to e-mail, password and role; `created` dates every id handed
out; `session` is the token pair a client holds, by its subject and its time of
issue; `request` is the admin request it has under way and the row its session
loaded. Four facts decide the module:

* **The caller's row stays in the session.** The admin gate and the handler share
  it, so a request about the caller itself is not loaded anew (`Begin`, `GetUser`).
* **The UPDATE names changed columns only** (`Writes`); a PATCH that names a value
  the row already had when it was loaded writes nothing, even if another request
  has changed it since. An UPDATE of a row that is gone fails, a DELETE does not.
* **The constraints are checked when the statement runs** (`EmailFails`). An explicit
  null is refused there and nowhere else; so is the loser of a race. Both end in
  a 500 (`Insert`, `Update`).
* **Ids come from a sequence** (`FreeIds`), so that a token of a deleted account opens
  nothing.

`Expiry` cuts the encoded expiry to whole seconds (`Second` ticks each), `Valid`
compares it with the clock as it is. The refresh token differs from the access
token in its type and its life. `reply` keeps the last status, 0 in between.

### GpsIngest

`queue` is what the MQTT client holds, `handler` the message under way with the
current-location row its session loaded, `history` and `location` the two tables.
`TakeMessage`, `ReadCurrent`, `Commit` are the handler's awaits. `DatabaseError`
and `Restart` may strike at any of them; `CommitFails` is the foreign key (the
vehicle is gone) and the primary key (two subscribers insert the first row). A
fix is a time and a place, the place standing for `lat`, `lng` and `speed`.

### Lifespan and BusWalker

A task's state is the await it is suspended in; a pending `CancelledError` is
delivered before anything else the task does. `linked` are the tasks whose
connection is alive, as far as aiomqtt knows. `SubscriberCancelled` has three cases:

* in the backoff's sleep the error is suppressed (line 97) and the loop goes on;
* while connecting it ends the task;
* inside `async with Client` (line 64) it has to pass the client's exit. On a live
  connection that is one more await, the disconnect (`disconnecting`), after which
  the task ends, unless the connection is lost or the disconnect times out meanwhile
  (`DisconnectFails`). On a lost connection aiomqtt raises `MqttError` in place of the
  CancelledError, line 93 catches it, and the loop backs off and reconnects.

The simulator's client exits in the same way, but nothing catches its `MqttError`.

The simulator's `PublishRound` moves `bus` by `BusWalker`'s `Advance`. Distances are
whole numbers and a position is a waypoint with the distance walked from it;
what the code interpolates between the two waypoints follows from that pair. A bus
may start beyond the end of a short route, as the code's random start allows.

### FleetSeed

A table is the sequence of its rows in id order, the demo data is a set of accounts.
`Seed` appends what is missing (`MissingRoutes`, `MissingVehicles`,
`MissingAccounts`), in any order where the code has one. It is the seed's one
transaction, run by every `Boot` and by a reset (`SeedFresh`), whose wipe is a
transaction before it (`Wipe`): requests and a crash may come between the two.
Admins create, rename, assign and delete, with the demo's own names, codes and
e-mails too: a route that is created anew under a demo name is the one the next seed
finds. Their requests are atomic here because their races are the subject of
FleetAssignment and Accounts. What a request changes besides (waypoints, passwords,
roles, a vehicle's name and flag) the seed does not look at, and is left out. GPS data is left out, so `DeleteVehicle` is possible more often
than in the code.

### DriverReads

A request is two steps. `Authenticate` is the one query that loads the user with
route, vehicle and current location joined; `read` keeps what the session then
holds. `Answer` is the handler: `Get` is `db.get`, which asks the session before the
table. `Administer` is any step of `FleetTables`: assignments that race, half pairs
and vehicles with two users come and go between the two steps of a request, and a
half pair passes `Unassigned` for the kinds that do not need its missing half.
`changes` counts the steps that change or delete a user's row and dates requests and
answers by it, so that `OwnAnswers` can say which answers are up to date. `shown` is a driver's last answer, until it asks again. A fix is its number
among its vehicle's.

### VehicleStatus

`now` is the server's clock, `fixes` what has been stored (with the time it came),
`current` the current-location row. A driver's request is two steps:
`Authenticate` runs the query that loads the user with vehicle and location,
`Answer` derives the status; a row that was missing is asked for again. The fleet
view (`ListVehicles`) is one statement. One client polls, one request at a time.

### HistoryPaging

`get_history` runs a count (`CountPoints`) and a page (`FetchPage`), each on its
own snapshot. `IsPage` defines OFFSET and LIMIT by the sets they select: the
skipped points come before all others, the page before the rest. The client, which
is not in this repository, raises the offset by the limit until a page is short.

## 3. Runs

| run | instance | shows |
|---|---|---|
| `assign_serial` | 2 users, 2 routes, 2 vehicles, 2 slots of which 1 assigns | exclusivity and the refinement of `FleetDirectory`, whose pairs are whole, survive deletes, creates and ingestion in between |
| `assign_concurrent` | 3 users, 2 routes, 1 vehicle, 2 assigning slots | references never dangle; a vehicle or route is shared by at most as many users as there are slots; every handler is one step of `FleetTables`, whatever it races with |
| `assign_race` | 2 assigning slots | **violation**: two requests pass the check and both commit |
| `assign_torn_pair` | 2 assigning slots | **violation**: half a pair is stored |
| `accounts` | 2 account ids, the first an admin, 2 clients, 3 kinds of PATCH, 2 ticks to a second, lives of 1 and 2 seconds | e-mails stay unique under races, nulls and failures; tokens open their own account only, for their life; every request is one step of `AccountRegistry` or none |
| `gps_one` | 1 subscriber, 2 vehicles, 2 times, 2 places, 3 deliveries | refinement of `LatestLocation` under any delivery, failure, restart and deletion of the vehicle; a current location exists exactly when history does |
| `tasks` | the whole control state; a route of 4 segments, one of length 0; halts, short steps and one longer than the route; starts at 0, between waypoints and beyond the end | the subscriber survives and reconnects; the simulator is steady without an outage; the bus stays on its route, never leaps and reaches both ends; a shutdown ends that meets the subscriber neither in its backoff nor on a lost connection, if no outage comes while it closes the connection |
| `shutdown_hangs` | the same | **violation**: a shutdown during the backoff, or on a lost connection, never ends |
| `seed_edits` | an admin and a demo driver, 2 seeds, creations, renamings, assignments and deletions, with demo names too, a reset that may die | references hold; a seed that misses no account changes no user; every seed leaves all demo accounts, new ones with their demo route and vehicle |
| `driver_reads` | 2 drivers, 2 routes, 2 vehicles, 3 changes of users' rows, 1 fix per vehicle | every answer is the row its user had at authentication, each part that was asked for and no other; drivers share only what the table shares; what was shown stays |
| `status_reads` | 3 fixes, 5 instants, window 1, clock error 1 | the answer is that of the newest fix known; answers only advance |
| `history_pages` | 5 points, 3 timestamps, pages of 2 | nothing missed, repeats bounded by late arrivals, the count never beyond the pages |

The violations are the code's: `PROJECT.json`'s findings quote the comment or
document each one contradicts.

The `accounts` run's only e-mails are two, so that every request competes for them,
and its clock stops after two seconds, when the first tokens of both kinds have
expired.

**Bounds.** Two requests are enough for every check-then-write race; a third user is
needed to tell the sharing bound from an accident of few users. Two times and two
places give a newer, an older and a repeated fix that differ in one column each, two
vehicles one to delete while the other's fixes go on, and three deliveries an older
fix after a newer one with a repetition. Two seeds are a first boot and one after
the edits, after a reset that was carried through or after one that died; more than
two are left to the theorems. Three fixes with a window of
one tick give a stale, a fresh and a future-dated one; five points with pages of two
give three pages with an arrival between any two statements. Two account ids, one of
which may be deleted before the other is handed out, are enough for every race of
two requests about one account or one e-mail; half-second ticks put a request
inside the second that the rounding cuts off. Three changes assign a driver,
leave it half a pair or take the pair back between the two steps of its request, and
give the vehicle to the other driver, or to both. The
caps are the constants `MaxDeliveries`, `MaxRows`, `MaxSeeds`, `MaxTime`, `MaxFixes`,
`MaxChanges` and `MaxId`, and the finite id sets; none of them exists in the code.

**Deadlock.** Runs whose ids, deliveries, seeds or time run out, and the process that
really stops (`Lifespan`), set `CHECK_DEADLOCK FALSE`; the others check it.

**Symmetry** is over model values that the code compares for equality only, and
over request slots, clients or subscribers where all are alike; no run with a liveness
property uses it.

**Fairness** is assumed in `Lifespan` alone: the event loop runs a task whose await
has completed, connection attempts, disconnects (which aiomqtt times out) and sleeps
end, and the gather returns when its
tasks have ended. The broker's outages and returns, messages and the shutdown are
never forced. Every other module is checked for safety and needs none.

## 4. Proofs

All by TLAPS, with no assumption beyond the modules' ASSUMEs and the one named.

* **FleetAssignment.** `Typing`, `Integrity`, `Sharing` and `TablesImplementation` hold
  for any number of slots (`Sharing` for any finite number of assigning ones).
  Integrity is inductive with the types alone: the foreign keys protect a written
  column, and an unwritten one keeps a reference the table already had.
  What goes wrong when requests overlap is the subject of three theorems, for any
  number of slots, each about the behaviours in which some overlap never occurs:

  | theorem | without | holds | inductive invariant |
  |---|---|---|---|
  | `SharingNeedsOverlap` | `NoSharedTarget`: two requests at once for one route or vehicle and different users | `Exclusive` | `ExclusiveInv`: what a request has checked is still true when it writes (`CheckedInv`) |
  | `HalfPairNeedsOverlap` | `NoRacingUnassign`: a user's assignment taken back while another request serves the user | `PairComplete` | `PairInv`: the row is as loaded, or it and the request are both whole pairs (`RowInv`) |
  | `ApartImplementation` | `Apart`: two requests at once for one user, route or vehicle | `ImplementsDirectory` | `SerialInv`: both, and the row is as loaded (`LoadedInv`) |

  So the two races that `assign_race` and `assign_torn_pair` show are the only kinds
  there are: no interleaving with a delete, a create, a fix or an unrelated
  assignment is a further one. `BaseInv` is what all three rest on: a request serves a
  user that was handed out (`ServingInv`), a delete holds no pair (`DeletingInv`), and a
  request's row changes only by a commit for its user (`RequestStep`, `UsersStep`,
  `Written`). A user's deletion may take the row away; then the UPDATE finds none.
  The code prevents neither overlap. What needs no hypothesis is
  `TablesImplementation`: each statement maps to a step of `FleetTables` or to none
  (`MaintainStep`), the UPDATE to `SetColumns` of the columns that differ from the
  loaded row (`SaveColumns`), whose foreign keys PostgreSQL has just checked.
  `Sharing` bounds what concurrency can do. A check passes only while nobody else
  holds the route, so from then on `SharingInv` counts its holders together with
  the slots that have passed the check and not written yet: a write moves a slot
  from the second set to the first, and no step raises the sum beyond the number
  of assigning slots.
* **Accounts.** `AccountInv` adds to the types and to the unique e-mails that a token's
  user has been handed out (`SessionKnown`) and no later than the token was
  issued (`TokenNotOlder`), for an id is handed out once and time only advances, and
  that a request's body is one that was sent (`BodyKept`). Uniqueness follows from
  the index alone, whatever the check found. `Lifetime` rests on `WholeSeconds`, what
  the rounding takes off an expiry, and on `OneClient`, that a client's request and
  answer change only by its own steps. `Implementation` maps each statement to a
  step of `AccountRegistry`: a failed insert to using up an id, an UPDATE to an edit
  of some of the body's columns, everything else to nothing.
* **DriverReads.** `ReadsInv`: users' rows refer to rows that exist (`FleetInv`, all
  that `FleetTables` ensures); a request under way holds in its session whatever its
  pair names, half or whole, and, if no user's row has changed since, the pair is the
  one in the table (`ReadInv`); the same of answers (`ShownInv`). From it `Wholeness`,
  `Isolation` and `Permanence`, for any number of drivers, routes and vehicles and
  with no assumption on how assignments interleave.
* **Lifespan.** `LifeInv`: while the process serves, nothing is cancelled, and what is
  switched off stays stopped; so nothing ends the subscriber (`Alive`). `FateInv` adds
  that once the process gathers, every task but the subscriber has ended or is about
  to. From it `Fate`: a shutdown is in one of three ways. Either all its tasks have
  ended or are told to where nothing stands between the CancelledError and the end
  (`Ending`); or its subscriber swallows the cancellation in the backoff or on a lost
  connection, or has done so (`Doomed`), and then it gathers for ever; or the
  connection was lost while the subscriber closed it (`Torn`), and either may follow.
  An `Ending` shutdown stays so through every step but an outage that cuts the
  subscriber off (`EndingKept`). That it does end then is the liveness that TLC
  checks (`CancelEnds`). `OnRoute`
  is about any route: that `Segment`'s CHOOSE finds a segment is the lemma that
  takes the least waypoint beyond the position. `Continuous` is `NoLeap`, the safety
  half of `PingPong`: `AdvanceBound` follows a step through the turn at either end.
* **FleetSeed.** For any demo accounts, of which no two share an e-mail, a route or a
  vehicle, and each of which has both or neither. `RefInv` and `KeyInv`, the types with
  `RefIntegrity` and with `UniqueKeys`, are inductive, and the action properties
  follow from the types and one fact: a seed appends to each table a list of exactly
  what it misses (`Listed`, `Grown`, `SeedAppends`). Hence old references keep their
  rows, a demo name is found after it, as the one row a new account refers to
  (`DemoRow`), and nothing is appended where nothing is missing (`Idempotent`).
  `UniqueKeys` and `SeedIdempotent` are proved and in no run.
* **GpsIngest.** `Typing` and `Backed` hold for any number of subscribers, so also
  for the two processes that a rolling deployment overlaps.
  `ApartImplementation` says what such an overlap can do: while no two subscribers
  handle a message of the same vehicle at once (`VehiclesApart`), `LatestLocation` is
  implemented all the same. `NewestInv`: the current row is the newest fix, and
  the row a handler loaded is still the row in the table. Without the hypothesis two
  subscribers and three times are enough for TLC to find an older fix that stays
  current (an instance that is no run here: the code is deployed as one process).
  `Regress` bounds that: nothing is ever written that is older than what its writer
  loaded, so the current location falls back at most to the oldest row that a handler
  under way has loaded.
  `Implementation` is the case of one subscriber, as one process runs it. The lemmas
  `NewestUnique` and `NewestOfAppend` replace the abstract CHOOSE by the comparison the
  code makes.
* **VehicleStatus.** `StatusInv`: the current row is the newest fix, and the row
  of a request, or of an answer, covers every fix stored before the request began.
  From it `OfflineIsSilent`, `LiveIsRecent` and `Advance`, for every window,
  threshold and clock error.
* **HistoryPaging.** `PagingInv`: a point that was there at the start and has not
  been delivered has at least `offset` points before it. An insertion only raises
  that number; `LeftForLater` shows that a page raises it past the next offset for
  whatever it leaves out; `ShortPageIsLast` that a short page leaves out nothing.
  From it `NothingMissed` and `CountIsReached`. `RepeatInv` counts: a client has
  received as many points as it skips, and `late` is the number of points of the
  window that it did not find at its start. Whatever a page's offset skips without
  its having been delivered is late (`SkippedArePassed`), so a page brings new
  points but for the late ones (`PageBrings`), which gives `RepeatsAreLate`.

**Model-checked only.** Liveness (`SubscriberReconnects`, `CancelEnds`,
`SimulatorSteady`), which is beyond the prover, and the half of `PingPong` that says that
a bus reaches both termini again and again. Every other property of the passing runs
is stated by a theorem; `Exclusive` and `ImplementsDirectory`, which the code does not
keep in general, under the hypotheses above, which `assign_serial` satisfies.

## 5. Not modelled

* The default history window, which ends at each request's own moment: paging
  without `from` and `to` lets old points slide out between two pages.
* A client that trusts `count` to stop: the count is an earlier snapshot than the page.
* Signatures and hashes: argon2 and the JWT library are taken to do their work.
* Names, codes and flags of routes and vehicles in a PATCH, except the renamings that
  matter to the seed: they are checked and written as `update_user` does with an
  e-mail, which `Accounts` models.
* The great-circle formula and floating-point rounding of the walker; the simulator's
  standalone process, whose loop is the same with a plain sleep.
* Request parsing, the JSON of errors, routers, configuration, deployment files: no
  state, or read once.
* The last admin may delete or demote itself. Nothing in the code or the documents
  says otherwise, so no property does.
* A demo reset between the pages of a history, which leaves nothing to page through.
* `latest_fix` (`handler.py`, line 69), which only a test calls. Of two fixes with one
  time it returns the last stored; the current location is the first stored (line
  52's strict comparison), which is what `LatestLocation` says.

Some statements of the documents and comments are contradicted without a run of their
own. The first four are behaviours, the others details:

* `docs/CLOUD_DEMO.md` (line 107) says that the simulator writes continuously. Nothing
  in `runner.py` catches the `MqttError` of a lost connection (line 83 or 103), so the
  task ends at the first broker outage; in `Lifespan` it is in `failed` then, which no
  action leaves. `SimulatorSteady` states what does hold.
* `seed.py` (line 77) calls the demo assignments strict 1:1:1, and the admin service
  (line 6) every assignment exclusive. After a demo driver's e-mail is changed, or the
  driver is deleted and its vehicle given away, the next seed creates it again with
  the same route and vehicle without looking at who holds them (line 140). `FleetSeed`
  has that behaviour and claims exclusivity nowhere.
* `exceptions.py` (line 113) says that whatever reaches the handler of unhandled errors
  is a bug. A request that loses a race for an e-mail, sends an explicit null or
  finds its row gone at the refresh does reach it; in `Accounts` the answer is 500.
* `client.py` (line 23) says that the handler dedups what QoS 1 delivers twice. It leaves
  the current location as it is, by the same strict comparison, but stores the point
  in the history once more. `LatestLocation` keeps every fix in the history, and a
  repeated one like any other.
* `DESIGN_DECISIONS.md` (line 86) orders the history newest first with a default
  limit of 200; `get_history` orders it oldest first, with 500.
* `DESIGN_DECISIONS.md` (line 91) calls the staleness window configurable; nothing
  reads `GPS_STALENESS_SECONDS`, `derive_status` uses the constant `STALE_AFTER`.
* `tracking_service.py` (line 28) says that no update for 60 s means offline; a
  vehicle that goes silent after a fix dated ahead of the server's clock stays live
  for that much longer. `LiveMeansRecent` states, and `LiveIsRecent` proves, the
  bound that does hold: the window plus the clock error.
* A missing timestamp is said to become server time; the payload schema rejects it.

## 6. Plan

What is left, in order of its worth:

1. `VehicleStatus` and `DriverReads` as users of `LatestLocation`: that their one-step
   storing of a fix is a `Store` of it, so that `GpsIngest`'s theorem carries over to
   them as `FleetAssignment`'s does to `DriverReads`.
2. The history's moving default window: which points a client may then lose.

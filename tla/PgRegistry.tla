------------------------------ MODULE PgRegistry ------------------------------
(***************************************************************************)
(* One Team in pg-driver: its principal, the databases the registry        *)
(* assigns to it and the databases that exist in Postgres (src/pg/app.py,  *)
(* pg_client.py, principal_store.py).  A request is refused, done, or cut  *)
(* short by a failure or a crash between Postgres and the registry; the    *)
(* "Outcomes" of a request are all the states such a failure may leave.    *)
(* The database of the Team is "team", that of an App is the App; the name *)
(* of the latter has in it the namespace the registry gave to the Team,    *)
(* which goes with the principal: what exists of an earlier namespace is   *)
(* orphaned, in nobody's way and within nobody's reach.                    *)
(***************************************************************************)
EXTENDS Naturals, FiniteSets

CONSTANT App

Database == App \cup {"team"}
Registry == [principal : {"none", "active", "retired"},
             registered : SUBSET Database, existing : SUBSET Database,
             orphaned : SUBSET App]

Unprovisioned == [principal |-> "none", registered |-> {}, existing |-> {}, orphaned |-> {}]

\* create_db_and_role: a database that exists must be registered, and the reverse.
Creatable(r, d) == d \in r.existing <=> d \in r.registered

\* register: the principal is new or rotated, with one database.
Register(r) == [r EXCEPT !.principal = "active", !.registered = {"team"}]
AddDatabase(r, d) == [r EXCEPT !.registered = @ \cup {d}]
RemoveDatabases(r, ds) == [r EXCEPT !.registered = @ \ ds]

CreateDatabase(r, d) == [r EXCEPT !.existing = @ \cup {d}]
DropDatabases(r, ds) == [r EXCEPT !.existing = @ \ ds]

\* _provision_team
MayProvision(r) == Creatable(r, "team")
Provision(r) == Register(CreateDatabase(r, "team"))
ProvisionOutcomes(r) ==
  {r} \cup IF MayProvision(r) THEN {CreateDatabase(r, "team"), Provision(r)} ELSE {}

\* _create_app
MayCreateApp(r, a) == r.principal = "active" /\ Creatable(r, a)
CreateApp(r, a) == AddDatabase(CreateDatabase(r, a), a)
CreateAppOutcomes(r, a) ==
  {r} \cup IF MayCreateApp(r, a) THEN {CreateDatabase(r, a), CreateApp(r, a)} ELSE {}

\* _drop_app: an unregistered database that exists is refused, an absent one is done.
MayDropApp(r, a) == r.principal = "active" /\ (a \in r.existing => a \in r.registered)
DropApp(r, a) == RemoveDatabases(DropDatabases(r, {a}), {a})
\* Mutant of DropAppOutcomes: the registry forgets the database first.
ForgetAppOutcomes(r, a) ==
  {r} \cup IF MayDropApp(r, a) THEN {RemoveDatabases(r, {a}), DropApp(r, a)} ELSE {}

DropAppOutcomes(r, a) ==
  {r} \cup IF MayDropApp(r, a) THEN {DropDatabases(r, {a} \cap r.registered), DropApp(r, a)} ELSE {}

\* Mutant of MayDropTeam: a principal that is retired is refused like any other request of it.
MayDropActive(r) == r.principal = "active"

\* _drop_team: the databases of the Apps, then that of the Team, then retirement.
MayDropTeam(r) == r.principal # "none"
DropTeam(r) == [RemoveDatabases(DropDatabases(r, r.registered), r.registered) EXCEPT !.principal = "retired"]
DropTeamOutcomes(r) ==
  {r} \cup IF ~MayDropTeam(r) THEN {} ELSE
    {DropTeam(r)} \cup
    {RemoveDatabases(DropDatabases(r, p[1] \cup p[2]), p[1]) :
      p \in {p \in (SUBSET r.registered) \X (SUBSET r.registered) :
        /\ Cardinality(p[2]) <= 1 /\ p[1] \cap p[2] = {}
        /\ "team" \in p[1] \cup p[2] => r.registered \ {"team"} \subseteq p[1]}}

\* finalize deletes the record of the principal and nothing else: a database of
\* an App that had been created and never registered stays in Postgres, under a
\* namespace that no record names any more.  The name of the Team's has none.
MayFinalize(r) == r.principal # "active" /\ r.registered = {}
Finalize(r) == [r EXCEPT !.principal = "none", !.existing = @ \cap {"team"},
                         !.orphaned = @ \cup (r.existing \ {"team"})]
===============================================================================

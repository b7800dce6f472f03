------------------------------ MODULE Deployment ------------------------------
(***************************************************************************)
(* Scripts that prepare the database: releases, which create it, apply the *)
(* migrations they were built with and verify the result, and the two      *)
(* seeds, each one transaction that makes a tenant with all it needs.      *)
(* They are started by hand and by pipelines, more than one at a time, and *)
(* may be killed anywhere.                                                 *)
(*                                                                         *)
(* A migration is a number, in the order of file names; the first makes    *)
(* the tables the seeds and the verification need.                         *)
(***************************************************************************)
EXTENDS Integers, FiniteSets

CONSTANTS
    Releases,
    Migrations,     \* [Releases -> sets of numbers]: what each has on disk
    Seeds,          \* runs of the seed scripts
    Tenants, Providers,  \* the codes in their environments
    Free            \* a lock nobody holds

ASSUME MigrationAssumption ==
    \A r \in Releases : 1 \in Migrations[r] /\ Migrations[r] \subseteq Nat \ {0}

ASSUME FreeAssumption == Free \notin Seeds \cup Releases

VARIABLES
    database,   \* whether it exists
    schema,     \* migrations whose changes are in it
    journal,    \* the rows of schema_migrations
    latch,      \* the session that has the advisory lock
    release,    \* what each release is doing
    rows,       \* committed fixtures
    held,       \* the seed that has locked a tenant's or a provider's row
    seed        \* what each seed is doing, and what it has inserted

deployVars == <<database, schema, journal, latch, release, rows, held, seed>>

Migrating == <<database, schema, journal, latch, release>>
Seeding   == <<rows, held, seed>>

DeployInit ==
    /\ database = FALSE /\ schema = {} /\ journal = {} /\ latch = Free
    /\ release = [r \in Releases |-> [pc |-> "look", file |-> 0]]
    /\ rows = {}
    /\ held = [k \in Tenants \cup Providers |-> Free]
    /\ seed \in [Seeds -> [ script : {"local", "staging"}, tenant : Tenants,
                            provider : Providers, pc : {"tenant"}, work : {{}} ]]

-----------------------------------------------------------------------------
Release(r, pc) == release' = [release EXCEPT ![r].pc = pc]

(* ensureDatabaseExists: a SELECT, then CREATE DATABASE, which fails if    *)
(* another release has created it in between.  A release that may not      *)
(* create it (createIfMissing) gives up.                                   *)
LookForDatabase(r) ==
    /\ release[r].pc = "look"
    /\ \/ database /\ Release(r, "connect")
       \/ ~database /\ \E may \in BOOLEAN : Release(r, IF may THEN "create" ELSE "absent")
    /\ UNCHANGED <<database, schema, journal, latch, Seeding>>

CreateDatabase(r) ==
    /\ release[r].pc = "create"
    /\ database' = TRUE
    /\ Release(r, IF database THEN "outrun" ELSE "connect")
    /\ UNCHANGED <<schema, journal, latch, Seeding>>

(* pg_advisory_lock waits; the session that has the lock is the release's. *)
LockMigrations(r) ==
    /\ release[r].pc = "connect" /\ latch = Free
    /\ latch' = r
    /\ Release(r, "pick")
    /\ UNCHANGED <<database, schema, journal, Seeding>>

Pending(r) == {m \in Migrations[r] : m > release[r].file /\ m \notin journal}

(* The next file that is not in the journal, in the order of the names.    *)
PickMigration(r) ==
    /\ release[r].pc = "pick"
    /\ IF Pending(r) = {} THEN Release(r, "verify")
       ELSE \E m \in Pending(r) :
              /\ \A n \in Pending(r) : m <= n
              /\ release' = [release EXCEPT ![r] = [pc |-> "apply", file |-> m]]
    /\ UNCHANGED <<database, schema, journal, latch, Seeding>>

(* A plausible slip: the lock is given back only when all went well.       *)
StillLatched(r) == IF latch = r /\ release[r].pc = "verify" THEN Free ELSE latch

Unlatched(r) == IF latch = r THEN Free ELSE latch

(* One transaction: the file, and its row in the journal.  What is there   *)
(* already cannot be created again.                                        *)
ApplyMigration(r) ==
    /\ release[r].pc = "apply"
    /\ IF release[r].file \in schema
       THEN Release(r, "clashed") /\ latch' = Unlatched(r) /\ UNCHANGED <<schema, journal>>
       ELSE /\ schema' = schema \cup {release[r].file}
            /\ journal' = journal \cup {release[r].file}
            /\ Release(r, "pick") /\ UNCHANGED latch
    /\ UNCHANGED <<database, Seeding>>

(* The lock is given back, whatever happened, and the schema is checked    *)
(* through another connection.                                             *)
VerifySchema(r) ==
    /\ release[r].pc = "verify"
    /\ latch' = Unlatched(r)
    /\ Release(r, IF 1 \in schema THEN "ready" ELSE "incomplete")
    /\ UNCHANGED <<database, schema, journal, Seeding>>

Ended == {"ready", "incomplete", "absent", "outrun", "clashed", "killed"}

(* A session that ends gives its locks back and its transaction up.        *)
KillRelease(r) ==
    /\ release[r].pc \notin Ended
    /\ latch' = Unlatched(r)
    /\ Release(r, "killed")
    /\ UNCHANGED <<database, schema, journal, Seeding>>

ReleaseStep(r) ==
    \/ LookForDatabase(r) \/ CreateDatabase(r) \/ LockMigrations(r)
    \/ PickMigration(r) \/ ApplyMigration(r) \/ VerifySchema(r)

-----------------------------------------------------------------------------
(* What a seed sees: what is committed, and what it has inserted itself.   *)
Visible(s) == rows \cup seed[s].work

(* A tenant, its wallet and a provider are known by their codes, the rest  *)
(* by names and marks of the script's own.                                 *)
Mark(s, kind) ==
    IF kind \in {"tenant", "wallet", "provider"} THEN "code" ELSE seed[s].script

Fixture(s, kind, owner) ==
    [kind |-> kind, owner |-> owner, mark |-> Mark(s, kind), by |-> s]

SameFixture(a, b) == a.kind = b.kind /\ a.owner = b.owner /\ a.mark = b.mark

Sown(s, pc, kind, owner) ==
    /\ seed[s].pc = kind
    /\ seed' = [seed EXCEPT ![s].pc = pc,
          ![s].work = IF \E x \in Visible(s) : SameFixture(x, Fixture(s, kind, owner))
                      THEN @ ELSE @ \cup {Fixture(s, kind, owner)}]
    /\ UNCHANGED <<rows, Migrating>>

(* A plausible slip: these are looked for first too, and nothing is locked.*)
LookForFirst(s, pc, kind, owner) == Sown(s, pc, kind, owner) /\ UNCHANGED held

(* INSERT ... ON CONFLICT DO UPDATE: inserted or updated, the row is       *)
(* locked until the seed ends, and waits for whoever has it.               *)
Upsert(s, pc, kind, owner) ==
    /\ held[owner] \in {Free, s}
    /\ held' = [held EXCEPT ![owner] = s]
    /\ Sown(s, pc, kind, owner)

UpsertTenant(s, pc) == Upsert(s, pc, "tenant", seed[s].tenant)

(* SELECT ... LIMIT 1, then UPDATE or INSERT.  No index makes these unique.*)
Ensure(s, pc, kind, owner) == Sown(s, pc, kind, owner) /\ UNCHANGED held

(* A row with a unique key that begins with the tenant, whose row is locked*)
(* by then: nobody is in the way.                                          *)
UpsertOwned(s, pc, kind) == Ensure(s, pc, kind, seed[s].tenant)

Local(s) == seed[s].script = "local"

(* 42P01: without the first migration there is no tenants table.           *)
SchemaMissing(s) ==
    /\ seed[s].pc = "tenant" /\ 1 \notin schema
    /\ seed' = [seed EXCEPT ![s].pc = "too early"]
    /\ UNCHANGED <<rows, held, Migrating>>

(* The functions of seed-local-admin.mjs, in the order main calls them.    *)
LocalTenant(s)   == UpsertTenant(s, "wallet")
LocalWallet(s)   == UpsertOwned(s, "user", "wallet")
LocalUser(s)     == UpsertOwned(s, "provider", "user")
LocalProvider(s) == Upsert(s, "sender", "provider", seed[s].provider)
LocalSender(s)   == UpsertOwned(s, "template", "sender")
LocalTemplate(s) == Ensure(s, "group", "template", seed[s].tenant)
LocalGroup(s)    == UpsertOwned(s, "contact", "group")
LocalContact(s)  == UpsertOwned(s, "member", "contact")
LocalMember(s)   == UpsertOwned(s, "route", "member")
LocalRoute(s)    == Ensure(s, "sell", "route", seed[s].tenant)
LocalPrices(s)   == \/ Ensure(s, "cost", "sell", seed[s].tenant)
                    \/ Ensure(s, "commit", "cost", seed[s].provider)

LocalStep(s) ==
    \/ LocalTenant(s) \/ LocalWallet(s) \/ LocalUser(s) \/ LocalProvider(s)
    \/ LocalSender(s) \/ LocalTemplate(s) \/ LocalGroup(s) \/ LocalContact(s)
    \/ LocalMember(s) \/ LocalRoute(s) \/ LocalPrices(s)

(* Those of seed-staging-test-users.mjs: a user for every role, and an     *)
(* entry in the audit log for each of them.                                *)
StagingTenant(s)   == UpsertTenant(s, "wallet")
StagingWallet(s)   == UpsertOwned(s, "users", "wallet")
StagingUsers(s)    == UpsertOwned(s, "provider", "users")
StagingProvider(s) == Upsert(s, "sender", "provider", seed[s].provider)
StagingSender(s)   == UpsertOwned(s, "template", "sender")
StagingTemplate(s) == Ensure(s, "group", "template", seed[s].tenant)
StagingGroup(s)    == UpsertOwned(s, "contact", "group")
StagingContact(s)  == UpsertOwned(s, "member", "contact")
StagingMember(s)   == UpsertOwned(s, "route", "member")
StagingRoute(s)    == Ensure(s, "sell", "route", seed[s].tenant)
StagingPrices(s)   == \/ Ensure(s, "cost", "sell", seed[s].tenant)
                      \/ Ensure(s, "audit", "cost", seed[s].provider)

StagingAudit(s) ==
    /\ seed[s].pc = "audit"
    /\ seed' = [seed EXCEPT ![s].pc = "commit",
                            ![s].work = @ \cup {Fixture(s, "audit", s)}]
    /\ UNCHANGED <<rows, held, Migrating>>

StagingStep(s) ==
    \/ StagingTenant(s) \/ StagingWallet(s) \/ StagingUsers(s) \/ StagingProvider(s)
    \/ StagingSender(s) \/ StagingTemplate(s) \/ StagingGroup(s) \/ StagingContact(s)
    \/ StagingMember(s) \/ StagingRoute(s) \/ StagingPrices(s) \/ StagingAudit(s)

Unheld(s) == [k \in DOMAIN held |-> IF held[k] = s THEN Free ELSE held[k]]

CommitSeed(s) ==
    /\ seed[s].pc = "commit"
    /\ rows' = rows \cup seed[s].work
    /\ held' = Unheld(s)
    /\ seed' = [seed EXCEPT ![s].pc = "seeded", ![s].work = {}]
    /\ UNCHANGED Migrating

SeedEnded == {"seeded", "rolled back", "too early"}

KillSeed(s) ==
    /\ seed[s].pc \notin SeedEnded
    /\ held' = Unheld(s)
    /\ seed' = [seed EXCEPT ![s].pc = "rolled back", ![s].work = {}]
    /\ UNCHANGED <<rows, Migrating>>

SeedStep(s) ==
    \/ SchemaMissing(s) \/ CommitSeed(s)
    \/ 1 \in schema /\ Local(s) /\ LocalStep(s)
    \/ 1 \in schema /\ ~Local(s) /\ StagingStep(s)

DeployNext ==
    \/ \E r \in Releases : ReleaseStep(r) \/ KillRelease(r)
    \/ \E s \in Seeds : SeedStep(s) \/ KillSeed(s)

(* A script that is not killed goes on.                                    *)
DeployFairness ==
    /\ \A r \in Releases : WF_deployVars(ReleaseStep(r))
    /\ \A s \in Seeds : WF_deployVars(SeedStep(s))

DeploySpec == DeployInit /\ [][DeployNext]_deployVars /\ DeployFairness

-----------------------------------------------------------------------------
(* Seeds may be run again, by two people at once, and for tenants that     *)
(* share a provider: nothing is seeded twice, not even what no index makes  *)
(* unique.  ("The local seed script is idempotent.")                       *)
FixturesOnce == \A a, b \in rows : SameFixture(a, b) => a = b

(* A release that reports the database ready has all its migrations in it, *)
(* whichever other release was under way or was killed half way, and even  *)
(* if a newer migration was applied before an older one.                   *)
ReadyMeansMigrated ==
    \A r \in Releases : release[r].pc = "ready" => Migrations[r] \subseteq schema

(* Releases do not make each other fail once there is a database: the lock *)
(* makes them wait.  (Two that find none both try to create it.)           *)
NoneClashes == \A r \in Releases : release[r].pc # "clashed"

(* Scripts started together leave the database as each alone would: the    *)
(* three above (seed-local-admin.mjs, migration-runner.mjs).               *)
DeploymentSound == FixturesOnce /\ ReadyMeansMigrated /\ NoneClashes

UnderWay ==
    \/ \E r \in Releases : release[r].pc # "look"
    \/ \E s \in Seeds : seed[s].pc # "tenant"

AllEnded ==
    /\ \A r \in Releases : release[r].pc \in Ended
    /\ \A s \in Seeds : seed[s].pc \in SeedEnded

(* Once a script is under way all of them end, whatever they wait for and  *)
(* whoever is killed.                                                      *)
ScriptsEnd == UnderWay ~> AllEnded
=============================================================================

------------------------------ MODULE Migrations ------------------------------
(***************************************************************************)
(* The database of the platform under its migrations: `at' is the revision *)
(* stamped in alembic_version (0 is an empty database, PhantomStamp the    *)
(* 20261108_0030 that production once carried and no file defines), `head' *)
(* the last revision of the code deployed, `db' what the database holds.   *)
(*                                                                         *)
(* A command is one transaction (transaction_per_migration is not set in   *)
(* env.py): it runs its revisions in order, and if one of them raises, the *)
(* database is left as it was.                                             *)
(*                                                                         *)
(* Rows of the business that a revision reads or trips over are facts in   *)
(* db.rows: a sale without a user, a dictionary row two companies use, its *)
(* copies, trained models, and the name of each table where two companies  *)
(* have a row with the same code.                                          *)
(***************************************************************************)
EXTENDS Revisions

CONSTANTS Stops,      \* the revisions that commands name
          Twins       \* tables in which two companies come to share a code

VARIABLES at, head, db

migrationVars == <<at, head, db>>

MigrationsAssumption ==
    /\ Stops \subseteq 0..Position.last
    /\ Twins \subseteq {"branches", "products", "commerce_promotions", "roles"}
                       \union Dictionaries

Empty == [objects |-> {}, keys |-> {}, permissions |-> {}, grants |-> {}, links |-> {},
          roles |-> {}, modules |-> {}, rows |-> {}]

-----------------------------------------------------------------------------
\* Revisions that look for a table or a column before they create it.
LooksFirst == {31} \union 33..39

\* Revisions that look for a permission, or ignore a conflict, before they insert it.
SeedsIfMissing == {23, 26} \union 30..35 \union {38, 40}

\* From 0040 on, and in 0031, a link is inserted only if it is not there.
LinksIfMissing == {31, 38}

\* The revision would insert what is already there.
Clashes(i, d) ==
    \/ i \notin LooksFirst /\ Chain[i].objects \intersect d.objects # {}
    \/ i \notin SeedsIfMissing /\ Chain[i].permissions \intersect d.permissions # {}
    \/ i \notin LinksIfMissing /\ Chain[i].links \intersect d.links # {}

Add(i, d) ==
    [d EXCEPT !.objects     = @ \union Chain[i].objects,
              !.keys        = @ \union Chain[i].keys,
              !.permissions = @ \union Chain[i].permissions,
              !.grants      = @ \union Chain[i].grants,
              !.links       = @ \union Chain[i].links,
              !.roles       = @ \union Chain[i].roles,
              !.modules     = @ \union Chain[i].modules]

\* 0019 gives each company its own copy of a dictionary row they shared.
Copied(d) ==
    IF "shared" \in d.rows THEN [d EXCEPT !.rows = @ \union {"copies"}] ELSE d

-----------------------------------------------------------------------------
\* 0031: what it refuses to convert by itself.
FilePath == <<"ml_models", "file_path">>

CopiesTable == <<"_rs_catalog_copies", "*">>

Unconvertible(d) ==
    \/ "copies" \in d.rows
    \/ /\ "models" \in d.rows
       /\ ~ Rev0031Models \subseteq d.objects \/ FilePath \in d.objects

\* _ensure_permissions ends by taking the platform's permissions from every
\* role that is not the platform's.
WithoutPlatformScope(grants) ==
    {g \in grants : g[1] \in PLATFORM_ROLES \/ g[2] \notin PlatformScope}

\* Mutant: a table that exists is taken to have all its columns.
ReconciledTablesOnly(d) ==
    LET added == Add(Position.r0031, d)
    IN  [added EXCEPT !.objects = {o \in @ : o \in d.objects \/ o[2] = "*"}
                                      \ {FilePath, CopiesTable},
                      !.grants  = WithoutPlatformScope(@)]

Reconciled(d) ==
    LET added == Add(Position.r0031, d)
    IN  [added EXCEPT !.objects = @ \ {FilePath, CopiesTable},
                      !.grants  = WithoutPlatformScope(@)]

-----------------------------------------------------------------------------
\* A step of a command over [db, refused]: a revision is not tried once one refused.
Upgraded(s, i) ==
    LET refuse(why) == [s EXCEPT !.refused = why]
        next(d)     == [s EXCEPT !.db = d]
    IN  IF s.refused # "no" THEN s
        ELSE IF Clashes(i, s.db) THEN refuse("residue")
        ELSE IF i = Position.r0031
             THEN IF Unconvertible(s.db) THEN refuse("rows")
                                         ELSE next(Reconciled(s.db))
        ELSE IF i = Position.r0019 THEN next(Copied(Add(i, s.db)))
        ELSE next(Add(i, s.db))

\* Deleting a permission or a role deletes its grants and its links with it.
Remove(i, d) ==
    LET r == Chain[i]
    IN  [d EXCEPT !.objects     = @ \ r.objects,
                  !.keys        = @ \ r.keys,
                  !.permissions = @ \ r.permissions,
                  !.grants      = {g \in @ : /\ g[1] \notin r.roles
                                             /\ g[2] \notin r.permissions},
                  !.links       = {l \in @ : /\ l[1] \notin r.modules
                                             /\ l[2] \notin r.permissions},
                  !.roles       = @ \ r.roles,
                  !.modules     = @ \ r.modules,
                  !.rows        = @ \ CASE i = Position.r0016 -> {"shared"}
                                        [] i = Position.r0019 -> {"copies"}
                                        [] i = Position.r0024 -> {"models"}
                                        [] OTHER -> {}]

\* 0028 drops its table and leaves its permissions and their links; 0031
\* takes nothing back but the table of copies.
RemoveDevices(d) == [d EXCEPT !.objects = @ \ Rev0028.objects]

RemoveNothing(d) == [d EXCEPT !.objects = @ \union {CopiesTable}]

\* Two companies have the same code in a table that is about to be unique again.
Collides(i, d) == Chain[i].keys \intersect d.rows # {}

Downgraded(s, i) ==
    LET refuse(why) == [s EXCEPT !.refused = why]
        next(d)     == [s EXCEPT !.db = d]
    IN  IF s.refused # "no" THEN s
        ELSE IF i = Position.r0008 /\ "guests" \in s.db.rows THEN refuse("rows")
        ELSE IF Collides(i, s.db) THEN refuse("rows")
        ELSE IF i = Position.r0031 THEN next(RemoveNothing(s.db))
        ELSE IF i = Position.r0028 THEN next(RemoveDevices(s.db))
        ELSE next(Remove(i, s.db))

\* upgrades[i]: the revisions from `from' + 1 to i over d; downgrades[i] mirrors it.
UpTo(d, from, to) ==
    LET run[i \in from..to] ==
            IF i = from THEN [db |-> d, refused |-> "no"]
                        ELSE Upgraded(run[i - 1], i)
    IN  run[to]

DownTo(d, from, to) ==
    LET run[i \in to..from] ==
            IF i = from THEN [db |-> d, refused |-> "no"]
                        ELSE Downgraded(run[i + 1], i + 1)
    IN  run[to]

\* The database a straight upgrade of an empty one ends in.
Reference == [i \in {Position.r0028, Position.r0031} \union Stops |->
                 UpTo(Empty, 0, i).db]

-----------------------------------------------------------------------------
\* Production before 0031: the schema of 0028 without some of what other
\* branches of the code had added, and with the old shape of ml_models.
PhantomStamp == Position.last + 1

Gaps == {"models", "requests", "storefront", "passwords"}

Phantom(gaps) ==
    LET d     == Reference[Position.r0028]
        lacks == (IF "models" \in gaps THEN Rev0031Models ELSE {})
                 \union (IF "requests" \in gaps THEN Rev0031Requests ELSE {})
                 \union (IF "passwords" \in gaps THEN Rev0031Users ELSE {})
                 \union (IF "storefront" \in gaps
                         THEN Rev0031Tenants \union Rev0031Storefront ELSE {})
        seeds == (IF "requests" \in gaps THEN Chain[28].permissions ELSE {})
                 \union (IF "storefront" \in gaps THEN Rev0030.permissions ELSE {})
    IN  [d EXCEPT !.objects = (@ \ lacks)
                              \union (IF "models" \in gaps THEN {FilePath} ELSE {}),
                  !.permissions = @ \ seeds,
                  !.grants = {g \in @ : g[2] \notin seeds},
                  !.links  = {l \in @ : l[2] \notin seeds}]

\* A new database, or production with the code of the day 0031 was written.
MigrationInit ==
    /\ head \in {Position.r0031, Position.last}
    /\ \/ at = 0 /\ db = Empty
       \/ at = PhantomStamp /\ \E gaps \in SUBSET Gaps : db = Phantom(gaps)

-----------------------------------------------------------------------------
\* A command that is refused changes nothing.
Ended(result, place) ==
    /\ result.refused = "no"
    /\ db' = result.db
    /\ at' = place
    /\ UNCHANGED head

\* alembic upgrade <revision>
Upgrade(k) ==
    /\ at \in 0..(k - 1) /\ k <= head
    /\ Ended(UpTo(db, at, k), k)

\* alembic downgrade <revision>
Downgrade(k) ==
    /\ at \in (k + 1)..Position.last
    /\ Ended(DownTo(db, at, k), k)

\* scripts/reconciliar_produccion.py: _verificar_post.
Verified(d, place) ==
    /\ place = Position.r0031
    /\ Rev0031Requests \union Rev0031Storefront \union Rev0031Tenants
           \union Rev0031Models \subseteq d.objects
    /\ {FilePath, CopiesTable} \intersect d.objects = {}
    /\ Rev0031Seed \subseteq d.permissions

\* main: the stamp, the upgrade to head and the verification are one transaction.
ReconcilePlace == IF at = Position.r0031 THEN at ELSE head

ReconcileResult ==
    LET base   == IF at = Position.r0031 THEN at ELSE Position.r0028
        result == UpTo(db, base, ReconcilePlace)
    IN  IF result.refused = "no" /\ ~ Verified(result.db, ReconcilePlace)
        THEN [result EXCEPT !.refused = "verification"] ELSE result

Reconcile ==
    /\ at \in {PhantomStamp, Position.r0028, Position.r0031}
    /\ Ended(ReconcileResult, ReconcilePlace)

\* The code of a later day is deployed.
Release ==
    /\ head' = Position.last
    /\ head # Position.last
    /\ UNCHANGED <<at, db>>

-----------------------------------------------------------------------------
\* The business between the commands.
HasTable(t) == <<t, "*">> \in db.objects

Fact(f) ==
    /\ f \notin db.rows
    /\ db' = [db EXCEPT !.rows = @ \union {f}]
    /\ UNCHANGED <<at, head>>

SellToGuest == <<"commerce_orders", "sales_channel">> \in db.objects /\ Fact("guests")

\* Before 0019 the companies share the rows of the dictionaries.
ShareDictionary ==
    HasTable("tenants") /\ "colors" \notin db.keys /\ Fact("shared")

TrainModel == HasTable("ml_models") /\ Fact("models")

SameCode(t) == t \in db.keys /\ Fact(t)

MigrationNext ==
    \/ \E k \in Stops : Upgrade(k) \/ Downgrade(k)
    \/ Reconcile
    \/ Release
    \/ SellToGuest \/ ShareDictionary \/ TrainModel
    \/ \E t \in Twins : SameCode(t)

MigrationSpec == MigrationInit /\ [][MigrationNext]_migrationVars

-----------------------------------------------------------------------------
\* What a deployment with the code of today stands on.
Schema(d) == [d EXCEPT !.rows = {}]

Deployed == at \in Position.r0031..Position.last

\* A table that its migrations left standing has the columns they add to it,
\* a grant, a link, a role and a module refer to rows that are there: however
\* often the commands go up and down, and where they stopped.
MigrationTypeOK ==
    /\ at \in 0..PhantomStamp
    /\ head \in {Position.r0031, Position.last}
    /\ db.grants \subseteq db.roles \X db.permissions
    /\ db.links \subseteq db.modules \X db.permissions
    /\ \A o \in db.objects : HasTable(o[1])

\* Whatever way a database took to 0031 or beyond (from empty, through any
\* downgrades, or repaired by the reconciliation), it has the tables, the
\* permissions and the grants that a straight upgrade gives: no path leaves a
\* company without a permission, or with one too many.
OneSchema == Deployed /\ at \in DOMAIN Reference => Schema(db) = Schema(Reference[at])

\* From 0031 on no role of a company holds a permission of the platform: 0024
\* granted one, and the revision that takes it back runs on every path.
PlatformOnly ==
    Deployed => \A g \in db.grants : g[2] \in PlatformScope => g[1] \in PLATFORM_ROLES

\* Between 0031 and the last revision a deployment can go back and forward
\* again whatever way it came and whatever its companies have done meanwhile:
\* no revision trips over a row, a table or a link that another one left.
BackAndForth ==
    Deployed => \A k \in Stops :
        /\ k \in at..Position.last => UpTo(db, at, k).refused = "no"
        /\ k \in Position.r0031..at => DownTo(db, at, k).refused = "no"

\* With the code of its day, the reconciliation repairs every production it
\* was written for, unless a trained model would have to be converted.
Repaired ==
    at = PhantomStamp /\ head = Position.r0031 /\ ~ Unconvertible(db)
        => ReconcileResult.refused = "no"

\* The docstring of the script: `ejecuta alembic upgrade head' and verifies
\* that the final version is 20261109_0031.  With a later head it never is.
ReconciliationVerifies ==
    at = PhantomStamp /\ ~ Unconvertible(db) => ReconcileResult.refused = "no"

=============================================================================

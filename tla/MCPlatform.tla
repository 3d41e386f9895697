------------------------------ MODULE MCPlatform ------------------------------
(***************************************************************************)
(* What the platform keeps of its companies and of itself: the             *)
(* subscription of a company, the branches it opens under its limit, the   *)
(* modules it may use, its shop, what the fitting room shows of a garment,  *)
(* and the database under its migrations.                                  *)
(* They share no state; `part' names the one that moves.                   *)
(*                                                                         *)
(* Subscriptions: two rows, one Stripe subscription and days of grace, of  *)
(* read only and of each plan cut to one or two: every stage and every     *)
(* late event fits in the days of the clock.  Branches: two of them and a   *)
(* cash point, under a limit of one or two.  Modules: a basic one and two   *)
(* more, in two plans.  Both with two calls that overlap.  What sets the   *)
(* limit reads no cash point and what moves a cash point reads no limit:   *)
(* one part opens no cash point, the other leaves room for every branch.   *)
(* The shop: its public page, its offers, its catalogue and what a device  *)
(* copies of it, each with two calls that overlap.  Two sales under two    *)
(* offers of three kinds; once a sale is tried the offers are only         *)
(* switched off or lapse.  Four stamps of the clock make up a change, a    *)
(* snapshot, and both again.                                               *)
(* The fitting room: two colours, two preparations that overlap, of which   *)
(* one may be a batch, and one reviewer; three calls in all.               *)
(* The imports: two files of up to two rows and a form, on a name with a    *)
(* season and without.                                                     *)
(* Migrations: the commands stop at the revisions where something changes  *)
(* hands.                                                                  *)
(***************************************************************************)
EXTENDS Subscriptions, TLC

CONSTANTS c1, Stops, Twins,
          BranchIds, CashIds, CallIds, NoCall, NoLimit, MaxLimit,
          Modules, BaseModules, Plans, MaxUpdates,
          Methods, Enough, MaxReady,
          Garments, OfferPrice, OfferDeals, MaxSales, MaxClock,
          Preparers, Batchers, Reviewers, MaxAsked

VARIABLES part, at, head, db,
          places, planLimit, override, lock, calls, excused, astray,
          lifecycle, previewed, dependsOn, includes, planOf, grant, updates, lost,
          crossed, begun,
          store, method, storeCalls, word,
          offer, rows, online, sale, guard, raced, attempts,
          category, placed, image, asset, chosen, locks, requests, clashed,
          clock, product, variant, edit, device, asks, untold, refused, overlapped,
          cutout, prep, screen, asked, cuts, passed, approved, mixed,
          open, collections, file, stage, line, step, held, errors, valid, since, together

Database == INSTANCE OrmSchema

Company == INSTANCE Branches WITH row <- places

Sold == INSTANCE Entitlements WITH UpdateCalls <- CallIds

\* The prices and the deals of the instance: a garment costs 1.00 and the others
\* 0.40; a percentage that may be used once, a clearance between the two prices,
\* and a coupon for each buyer.
MCPrice == [g \in Garments |-> IF g = CHOOSE x \in Garments : TRUE THEN 100 ELSE 40]

Deal(kind, value, coupon, max, perUser) ==
    [kind |-> kind, value |-> value, coupon |-> coupon, max |-> max,
     perUser |-> perUser, channels |-> {"ONLINE", "POS"},
     reach |-> {g \in Garments : kind = "fixed" => MCPrice[g] = 100}]

MCDeals == {Deal("percent", 15, FALSE, 1, None),
            Deal("clearance", 60, FALSE, None, None),
            Deal("fixed", 30, TRUE, None, 1)}

Page == INSTANCE Storefront WITH StoreCalls <- CallIds

Sales == INSTANCE Promotions WITH
             Offers <- BranchIds, Buyers <- CallIds, SaleCalls <- CallIds,
             Price <- OfferPrice, Deals <- OfferDeals

Products == INSTANCE Catalog WITH
                Categories <- BranchIds, Products <- CashIds, Images <- BranchIds,
                Assets <- BranchIds, CatalogCalls <- CallIds, Nowhere <- NoCall

Copies == INSTANCE DeviceCopies WITH
              Variants <- CashIds, DeviceCalls <- CallIds, Editors <- BranchIds,
              NoVariant <- NoCall

Fitting == INSTANCE GarmentAssets WITH
               Colours <- BranchIds, asset <- cutout, NoColour <- NoCall, Nobody <- NoLimit

Files == INSTANCE BulkImports WITH
             Names <- Methods, Seasons <- Cards, NoSeason <- NoCall, at <- line,
             Imports <- CallIds, Forms <- Reviewers, MaxRows <- MaxLimit

ASSUME Database!MigrationsAssumption

\* Rows of two kinds have different ids, what stands for none is none of them,
\* a limit that counts is a number, and there are finitely many to add up.
ASSUME BranchesAssumption ==
    /\ IsFiniteSet(BranchIds) /\ BranchIds \intersect CashIds = {}
    /\ NoCall \notin CallIds /\ NoLimit \notin Nat /\ MaxLimit \in Nat

ASSUME FittingAssumption == NoCall \notin BranchIds /\ NoLimit \notin Reviewers

ASSUME PageAssumption == "page" \notin Methods /\ Enough \in Nat

ASSUME OffersAssumption == Sales!PromotionsAssumption

ASSUME CatalogAssumption == NoCall \notin BranchIds /\ IsFiniteSet(BranchIds)

ASSUME CopiesAssumption == NoCall \notin CashIds /\ MaxClock \in Nat

databaseVars == <<at, head, db>>

branchVars == <<places, planLimit, override, lock, calls, excused, astray>>

entitlementVars == <<lifecycle, previewed, dependsOn, includes, planOf, grant,
                     updates, lost, crossed, begun>>

pageVars == <<store, method, storeCalls, word>>

saleVars == <<offer, rows, online, sale, guard, raced, attempts>>

catalogVars == <<category, placed, image, asset, chosen, locks, requests, clashed>>

copyVars == <<clock, product, variant, edit, device, asks, untold, refused, overlapped>>

fittingVars == <<cutout, prep, screen, asked, cuts, passed, approved, mixed>>

fileVars == <<open, collections, file, stage, line, step, held, errors, valid, since,
              together>>

saasVars == <<vars, databaseVars, branchVars, entitlementVars>>

shopVars == <<pageVars, saleVars, catalogVars, copyVars, fittingVars, fileVars>>

\* A part that does not move keeps nothing.
NoBranches ==
    /\ places = NoCall /\ planLimit = NoCall /\ override = NoCall /\ lock = NoCall
    /\ calls = NoCall /\ excused = NoCall /\ astray = NoCall

NoModules ==
    /\ lifecycle = NoCall /\ previewed = NoCall /\ dependsOn = NoCall
    /\ includes = NoCall /\ planOf = NoCall /\ grant = NoCall /\ updates = NoCall
    /\ lost = NoCall /\ crossed = NoCall /\ begun = NoCall

NoPage ==
    /\ store = NoCall /\ method = NoCall /\ storeCalls = NoCall /\ word = NoCall

NoOffers ==
    /\ offer = NoCall /\ rows = NoCall /\ online = NoCall /\ sale = NoCall
    /\ guard = NoCall /\ raced = NoCall /\ attempts = NoCall

NoCatalog ==
    /\ category = NoCall /\ placed = NoCall /\ image = NoCall /\ asset = NoCall
    /\ chosen = NoCall /\ locks = NoCall /\ requests = NoCall /\ clashed = NoCall

NoCopies ==
    /\ clock = NoCall /\ product = NoCall /\ variant = NoCall /\ edit = NoCall
    /\ device = NoCall /\ asks = NoCall /\ untold = NoCall /\ refused = NoCall
    /\ overlapped = NoCall

NoFitting ==
    /\ cutout = NoCall /\ prep = NoCall /\ screen = NoCall /\ asked = NoCall
    /\ cuts = NoCall /\ passed = NoCall /\ approved = NoCall /\ mixed = NoCall

NoFiles ==
    /\ open = NoCall /\ collections = NoCall /\ file = NoCall /\ stage = NoCall
    /\ line = NoCall /\ step = NoCall /\ held = NoCall /\ errors = NoCall
    /\ valid = NoCall /\ since = NoCall /\ together = NoCall

NoDatabase ==
    /\ at = NoCall /\ head = NoCall /\ db = NoCall

PlatformInit ==
    /\ part \in {"subscriptions", "migrations", "branches", "cash points",
                  "modules", "page", "offers", "categories", "gallery",
                  "assets", "copies", "refusals", "fitting", "imports"}
    /\ Init
    /\ IF part \in {"branches", "cash points"} THEN Company!BranchInit ELSE NoBranches
    /\ IF part = "modules" THEN Sold!EntitlementInit ELSE NoModules
    /\ IF part = "page" THEN Page!StorefrontInit ELSE NoPage
    /\ IF part = "offers" THEN Sales!PromotionInit ELSE NoOffers
    /\ IF part \in {"categories", "gallery", "assets"} THEN Products!CatalogInit ELSE NoCatalog
    /\ IF part \in {"copies", "refusals"} THEN Copies!DeviceInit ELSE NoCopies
    /\ IF part = "fitting" THEN Fitting!GarmentInit ELSE NoFitting
    /\ IF part = "imports" THEN Files!BulkInit ELSE NoFiles
    /\ IF part = "migrations" THEN Database!MigrationInit ELSE NoDatabase
    /\ part = "branches" => planLimit = 1
    /\ part = "cash points" => planLimit = MaxLimit
    /\ part = "modules" => planOf = CHOOSE p \in Plans : TRUE     \* the plans are alike

Subscribing ==
    /\ part = "subscriptions"
    /\ Next
    /\ UNCHANGED <<part, databaseVars, branchVars, entitlementVars, shopVars>>

Migrating ==
    /\ part = "migrations"
    /\ Database!MigrationNext
    /\ UNCHANGED <<part, vars, branchVars, entitlementVars, shopVars>>

Organizing ==
    /\ part = "branches"
    /\ Company!BranchNext
    /\ \A c \in CallIds : \A w \in calls'[c].writes : w[1] \notin CashIds
    /\ UNCHANGED <<part, vars, databaseVars, entitlementVars, shopVars>>

Cashing ==
    /\ part = "cash points"
    /\ Company!BranchNext
    /\ \A c \in CallIds : calls'[c].op \notin {"setLimit", "changePlan"}
    /\ UNCHANGED <<part, planLimit, override, vars, databaseVars, entitlementVars,
                   shopVars>>

Entitling ==
    /\ part = "modules"
    /\ Sold!EntitlementNext
    /\ UNCHANGED <<part, vars, databaseVars, branchVars, shopVars>>

Showing ==
    /\ part = "page"
    /\ Page!StorefrontNext
    /\ UNCHANGED <<part, saasVars, saleVars, catalogVars, copyVars, fittingVars, fileVars>>

\* Each call has its buyer.
Selling ==
    /\ part = "offers"
    /\ Sales!PromotionNext
    /\ \A c \in CallIds : sale'[c].stage # "idle" => sale'[c].buyer = c
    /\ \/ attempts = 0
       \/ \A o \in BranchIds : /\ offer'[o].on => offer[o].on
                               /\ offer[o].past => offer'[o].past
    /\ UNCHANGED <<part, saasVars, pageVars, catalogVars, copyVars, fittingVars, fileVars>>

Cataloguing ==
    /\ \/ part = "categories" /\ Products!CategoryNext
       \/ part = "gallery" /\ Products!GalleryNext
       \/ part = "assets" /\ Products!AssetNext
    /\ UNCHANGED <<part, saasVars, pageVars, saleVars, copyVars, fittingVars, fileVars>>

Copying ==
    /\ part = "copies"
    /\ Copies!DeviceNext
    /\ device'.status # "blocked"
    /\ \A c \in CallIds : asks'[c].stage # "idle" => asks'[c].op = "snapshot"
    /\ UNCHANGED <<part, saasVars, pageVars, saleVars, catalogVars, fittingVars, fileVars>>

Refusing ==
    /\ part = "refusals"
    /\ Copies!DeviceNext
    /\ clock' = clock /\ refused' <= 2
    /\ UNCHANGED <<part, saasVars, pageVars, saleVars, catalogVars, fittingVars, fileVars>>

Fitted ==
    /\ part = "fitting"
    /\ Fitting!GarmentNext
    /\ UNCHANGED <<part, saasVars, pageVars, saleVars, catalogVars, copyVars, fileVars>>

Importing ==
    /\ part = "imports"
    /\ Files!BulkNext
    /\ Cardinality({c \in Files!Calls : stage'[c] # "new"}) <= 2
    /\ UNCHANGED <<part, saasVars, pageVars, saleVars, catalogVars, copyVars, fittingVars>>

PlatformNext ==
    \/ Subscribing \/ Migrating \/ Organizing \/ Cashing \/ Entitling
    \/ Showing \/ Selling \/ Cataloguing \/ Copying \/ Refusing \/ Fitted \/ Importing

\* The branches are alike, the modules that may be taken away too, and the calls.
Symmetry == Permutations(BranchIds) \union Permutations(CallIds)

platformVars == <<part, saasVars, shopVars>>

PlatformSpec == PlatformInit /\ [][PlatformNext]_platformVars

-----------------------------------------------------------------------------
\* Whatever way a database took to 0031 or beyond, from empty, up and down or
\* repaired, it is the one a straight upgrade gives, it is what the models of
\* the code expect, and no role of a company holds what is the platform's.  No
\* command trips over what another one or the companies left: from 0031 on a
\* deployment can always go back and forward again, and the script repairs the
\* production it was written for.
DatabaseKept ==
    part = "migrations" =>
        /\ Database!MigrationTypeOK
        /\ Database!OneSchema
        /\ Database!SchemaIsOrm
        /\ Database!PlatformOnly
        /\ Database!BackAndForth
        /\ Database!Repaired

\* A company has the branches its limit lets it have, its cash points work
\* where its branches do, and a module leaves it only when somebody said so;
\* what else can happen, the definitions of the two modules name.
CompanyKept ==
    /\ part \in {"branches", "cash points"} =>
           Company!WithinLimit /\ Company!CashWhereOpen
    /\ part = "modules" => Sold!NoneLostUnasked /\ Sold!NoCircle

\* The shop is what it says it is: a page goes up whole and an answer about it
\* stands, an offer is counted and makes nothing dearer, the catalogue stays in
\* order, a device misses no change, and a file goes in whole or not at all; each
\* but for the calls that overlapped, as the definitions of the modules say.
ShopKept ==
    /\ part = "page" => Page!UpOnlyWhole /\ Page!AnswerStands
    /\ part = "offers" => Sales!UsesCounted /\ Sales!PaysNoMore
    /\ part \in {"categories", "gallery", "assets"} =>
           Products!TreeKept /\ Products!GalleryKept
    /\ part \in {"copies", "refusals"} =>
           Copies!NothingMissed /\ Copies!RefusalsCounted
    /\ part = "imports" =>
           Files!WholeFile /\ Files!OneForEachKey /\ Files!PreviewTold

\* What the camera shows of a garment was vetted, by the test or by the person
\* who signs it, but for the calls that overlapped.
CameraShowsVetted == part = "fitting" => Fitting!CameraShowsVetted

-----------------------------------------------------------------------------
\* The subscriptions alone.
SubscriptionsSpec == PlatformInit /\ part = "subscriptions" /\ [][Subscribing]_platformVars

\* The offers alone.
OffersSpec == PlatformInit /\ part = "offers" /\ [][Selling]_platformVars

\* Two reductions of the season do not pile up (`dos rebajas de temporada no se
\* apilan', promotions.py:305): whoever brings no coupon pays the prices that
\* PricingService gives.
NothingPiledUp == part = "offers" => Sales!NothingPiledUp

=============================================================================

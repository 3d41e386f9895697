--------------------------- MODULE GarmentAssets ---------------------------
(***************************************************************************)
(* What the camera of the fitting room shows of a garment                  *)
(* (src/src/probador_virtual): one row for each colour, prepared from the  *)
(* photo by the administrator, alone or in a batch, and reviewed or        *)
(* adjusted by hand when the silhouette is doubtful.                       *)
(*                                                                         *)
(* A preparation reads the row, works for as long as two services take and *)
(* writes what it changed.  SQLAlchemy names in the UPDATE the columns     *)
(* whose value differs from the one read, so two writers can leave a row   *)
(* neither of them wrote.  A cut is a number.  Reviews are one step; 3D    *)
(* models, disabled rows, files lost with a deployment and photos loaded   *)
(* by hand are left out.                                                   *)
(***************************************************************************)
EXTENDS Naturals, FiniteSets

CONSTANTS Colours,      \* the colours with active variants
          Preparers, Reviewers,
          Batchers,     \* the preparers that may prepare in a batch
          MaxAsked,     \* bound of the preparations and decisions begun
          NoColour, Nobody

VARIABLES asset,        \* the row of each colour
          prep,         \* the preparation each call is in
          screen,       \* what each reviewer has in front
          asked,        \* how many calls there have been
          cuts,         \* how many cuts were made
          passed,       \* ghost: the cuts whose test allowed publishing them
          approved,     \* ghost: the cuts somebody looked at and accepted
          mixed         \* ghost: colours whose row two calls wrote at once

garmentVars == <<asset, prep, screen, asked, cuts, passed, approved, mixed>>

NoCut == 0
NoRow == [status |-> "none", cut |-> NoCut, fit |-> NoCut, signer |-> Nobody]
Blank == [colour |-> NoColour, cut |-> NoCut]
Pending == [NoRow EXCEPT !.status = "pending"]

Resting == [kind |-> "none", only |-> FALSE, todo |-> {}, on |-> NoColour,
            read |-> NoRow, left |-> {}]

\* puntuar: what is taken off a full score for the share of the photo, of its
\* own box and of the body that the silhouette takes.
Score(coverage, fill, odd) ==
    100 - (CASE coverage = "little" -> 20 [] coverage = "much" -> 25 [] OTHER -> 0)
        - (CASE fill = "solid" -> 20 [] fill = "broken" -> 45 [] OTHER -> 0)
        - (IF odd THEN 25 ELSE 0)

Scores == {Score(coverage, fill, odd) : coverage \in {"little", "fair", "much"},
                                        fill \in {"solid", "fair", "broken"}, odd \in BOOLEAN}

UmbralPublicar == 60

\* _clasificar: whether the photo is of the colour, as the model sees it, when
\* there is one and it answers.
Answers == {"yes", "no", "unknown", "unasked"}

\* _elegir_fuente: another photo is taken when it matches and the main one does
\* not.
Match(main, another) == IF main \notin {"yes", "unasked"} /\ another THEN "yes" ELSE main

\* The end of PrepararPrenda.execute: one photo serves every colour, so with
\* several the colour has to be verified.
Verdict(cut, score, match) ==
    IF ~cut THEN "failed"
    ELSE IF score >= UmbralPublicar /\ match # "no" /\ (Cardinality(Colours) > 1 => match = "yes")
         THEN "ready" ELSE "review"

Verdicts == {Verdict(cut, score, Match(main, another)) :
                 cut \in BOOLEAN, score \in Scores, main \in Answers, another \in BOOLEAN}

\* TryOnAssetModel.usable.
Usable(row) == row.cut # NoCut /\ row.status \in {"ready", "manual"}

\* resolve_asset for a colour: its own cut, and never the one of another.
Shown(c) == IF Usable(asset[c]) THEN asset[c].cut ELSE NoCut

\* The columns of `new' that differ from the ones read, over the row of now.
Merge(row, read, new) ==
    [f \in DOMAIN row |-> IF new[f] # read[f] THEN new[f] ELSE row[f]]

Asked == asked < MaxAsked /\ asked' = asked + 1

-----------------------------------------------------------------------------
\* prepare_asset: the row is read first.
Start(p, c) ==
    /\ Asked
    /\ prep[p] = Resting
    /\ prep' = [prep EXCEPT ![p] = [Resting EXCEPT !.kind = "one", !.on = c, !.read = asset[c]]]
    /\ UNCHANGED <<asset, screen, cuts, passed, approved, mixed>>

\* retry_asset, of a row there is.
Retry(p, c) == asset[c] # NoRow /\ Start(p, c)

\* bulk_prepare: every colour, or the ones that are not ready.
StartBatch(p, only) ==
    /\ Asked
    /\ p \in Batchers /\ prep[p] = Resting
    /\ prep' = [prep EXCEPT ![p] =
           [Resting EXCEPT !.kind = "batch", !.only = only, !.todo = Colours]]
    /\ UNCHANGED <<asset, screen, cuts, passed, approved, mixed>>

YaListo(c) == asset[c].status \in {"ready", "manual"}

\* The next colour of the batch.
Take(p, c) ==
    /\ prep[p].kind = "batch" /\ prep[p].on = NoColour /\ c \in prep[p].todo
    /\ prep' = [prep EXCEPT ![p].todo = @ \ {c},
           ![p].on = IF prep[p].only /\ YaListo(c) THEN NoColour ELSE c,
           ![p].read = asset[c]]
    /\ UNCHANGED <<asked, asset, screen, cuts, passed, approved, mixed>>

\* The rows a commit inserts: the new one and what the batch left unfinished.
New(p) == prep[p].left \union (IF prep[p].on # NoColour /\ prep[p].read = NoRow
                               THEN {prep[p].on} ELSE {})

\* One of them exists by now: the insert fails, and with it the session of the
\* batch, which nobody rolls back.
Clashes(p) == \E c \in New(p) : asset[c] # NoRow

\* A call goes on with its batch, or is over.
Onwards(p, left) ==
    prep' = [prep EXCEPT ![p] = IF @.kind = "one" THEN Resting
                                ELSE [@ EXCEPT !.on = NoColour, !.left = left]]

\* The commit of a preparation that leaves `new' in the row it read.
Save(p, new) ==
    LET c == prep[p].on
    IN  /\ asset' = [x \in Colours |->
              IF x = c THEN IF asset[c] = NoRow THEN new ELSE Merge(asset[c], prep[p].read, new)
              ELSE IF x \in prep[p].left THEN Pending ELSE asset[x]]
        /\ Onwards(p, {})
        /\ UNCHANGED <<screen, approved>>

Written(p, c) == IF asset[c] = prep[p].read THEN mixed \ {c} ELSE mixed \union {c}

\* Mutant: the preparation keeps whoever had reviewed the cut before.
FinishKeepingSigner(p, verdict) ==
    /\ prep[p].on # NoColour /\ ~Clashes(p)
    /\ cuts' = cuts + 1
    /\ passed' = IF verdict = "ready" THEN passed \union {cuts'} ELSE passed
    /\ Save(p, [status |-> verdict, cut |-> cuts', fit |-> cuts',
                signer |-> prep[p].read.signer])
    /\ mixed' = Written(p, prep[p].on)
    /\ UNCHANGED asked

\* The photo was cut, classified and tested.
Finish(p, verdict) ==
    /\ prep[p].on # NoColour /\ ~Clashes(p)
    /\ cuts' = cuts + 1
    /\ passed' = IF verdict = "ready" THEN passed \union {cuts'} ELSE passed
    /\ Save(p, [status |-> verdict, cut |-> cuts', fit |-> cuts', signer |-> Nobody])
    /\ mixed' = Written(p, prep[p].on)
    /\ UNCHANGED asked

\* The photo cannot be read: the row fails and keeps the cut it had.
Break(p) ==
    /\ prep[p].on # NoColour /\ ~Clashes(p)
    /\ Save(p, [prep[p].read EXCEPT !.status = "failed"])
    /\ mixed' = IF asset[prep[p].on] = prep[p].read THEN mixed ELSE mixed \union {prep[p].on}
    /\ UNCHANGED <<asked, cuts, passed>>

\* The points the model suggested cannot be computed with: the row fails with
\* the new cut, the anchors and the reviewer of the one before.
BreakAtAnchors(p) ==
    /\ prep[p].on # NoColour /\ ~Clashes(p)
    /\ cuts' = cuts + 1
    /\ Save(p, [prep[p].read EXCEPT !.status = "failed", !.cut = cuts'])
    /\ mixed' = IF asset[prep[p].on] = prep[p].read THEN mixed ELSE mixed \union {prep[p].on}
    /\ UNCHANGED <<asked, passed>>

\* A photo is missing, or cannot be downloaded.  The call is refused; a batch
\* goes on, with the row it had added still in its session in the second case.
Refuse(p, added) ==
    /\ prep[p].on # NoColour
    /\ added \subseteq New(p) /\ prep[p].left \subseteq added
    /\ Onwards(p, added)
    /\ UNCHANGED <<asked, asset, screen, cuts, passed, approved, mixed>>

\* The insert fails: the call ends, and the batch does too, at the next thing
\* it asks of its session.
Clash(p) ==
    /\ prep[p].on # NoColour \/ prep[p].todo = {}
    /\ Clashes(p)
    /\ prep' = [prep EXCEPT ![p] = Resting]
    /\ UNCHANGED <<asked, asset, screen, cuts, passed, approved, mixed>>

\* The audit event of the batch is committed, with the rows left behind.
EndBatch(p) ==
    /\ prep[p].kind = "batch" /\ prep[p].on = NoColour /\ prep[p].todo = {}
    /\ ~Clashes(p)
    /\ asset' = [c \in Colours |-> IF c \in prep[p].left THEN Pending ELSE asset[c]]
    /\ prep' = [prep EXCEPT ![p] = Resting]
    /\ UNCHANGED <<asked, screen, cuts, passed, approved, mixed>>

-----------------------------------------------------------------------------
\* list_assets: what a reviewer decides about.
Look(a, c) ==
    /\ Asked
    /\ screen[a] = Blank /\ asset[c] # NoRow
    /\ screen' = [screen EXCEPT ![a] = [colour |-> c, cut |-> asset[c].cut]]
    /\ UNCHANGED <<asset, prep, cuts, passed, approved, mixed>>

Watching(a) == screen[a] # Blank

\* The decision carries the row and not the cut it is about.
Decided(a) ==
    LET c == screen[a].colour
    IN  /\ approved' = approved \union {screen[a].cut}
        /\ mixed' = IF asset[c].cut = screen[a].cut THEN mixed \ {c} ELSE mixed \union {c}
        /\ screen' = [screen EXCEPT ![a] = Blank]
        /\ UNCHANGED <<asked, prep, cuts, passed>>

Approve(a) ==
    /\ Watching(a)
    /\ asset[screen[a].colour].status \in {"review", "ready", "failed"}
    /\ asset[screen[a].colour].cut # NoCut
    /\ asset' = [asset EXCEPT ![screen[a].colour].status = "ready",
                              ![screen[a].colour].signer = a]
    /\ Decided(a)

Reject(a) ==
    /\ Watching(a)
    /\ asset[screen[a].colour].status \in {"review", "ready", "failed"}
    /\ asset' = [asset EXCEPT ![screen[a].colour].status = "failed",
                              ![screen[a].colour].signer = a]
    /\ screen' = [screen EXCEPT ![a] = Blank]
    /\ UNCHANGED <<asked, prep, cuts, passed, approved, mixed>>

\* adjust_asset of the region or the anchors, which any row admits.
Adjust(a) ==
    /\ Watching(a)
    /\ asset' = [asset EXCEPT ![screen[a].colour].status = "manual",
                              ![screen[a].colour].signer = a,
                              ![screen[a].colour].fit = screen[a].cut]
    /\ Decided(a)

-----------------------------------------------------------------------------
GarmentInit ==
    /\ asset = [c \in Colours |-> NoRow]
    /\ prep = [p \in Preparers |-> Resting]
    /\ screen = [a \in Reviewers |-> Blank]
    /\ asked = 0 /\ cuts = 0
    /\ passed = {} /\ approved = {} /\ mixed = {}

Preparing(p) ==
    \/ \E c \in Colours : Start(p, c) \/ Retry(p, c) \/ Take(p, c)
    \/ \E only \in BOOLEAN : StartBatch(p, only)
    \/ \E verdict \in Verdicts : Finish(p, verdict)
    \/ \E added \in SUBSET Colours : Refuse(p, added)
    \/ Break(p) \/ BreakAtAnchors(p) \/ Clash(p) \/ EndBatch(p)

Reviewing(a) ==
    (\E c \in Colours : Look(a, c)) \/ Approve(a) \/ Reject(a) \/ Adjust(a)

GarmentNext == (\E p \in Preparers : Preparing(p)) \/ (\E a \in Reviewers : Reviewing(a))

GarmentSpec == GarmentInit /\ [][GarmentNext]_garmentVars

-----------------------------------------------------------------------------
\* What the camera shows under somebody's name is what they looked at, and what
\* it shows under nobody's passed the test, with the anchors of that very cut;
\* until the next preparation or review, two calls that wrote the row at once,
\* or a decision about a cut already replaced, may have left it otherwise.
CameraShowsVetted ==
    \A c \in Colours \ mixed : Shown(c) # NoCut =>
        IF asset[c].signer = Nobody
        THEN Shown(c) \in passed /\ asset[c].fit = Shown(c)
        ELSE Shown(c) \in approved

=============================================================================

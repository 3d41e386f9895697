---------------------------- MODULE BulkImports ----------------------------
(***************************************************************************)
(* The Excel imports (src/src/shared/bulk), on the collections: a file is  *)
(* previewed, which tries every row and undoes them all, and then          *)
(* confirmed, which tries them again and saves all or none.  Each row is   *)
(* in a savepoint, and the commits of CatalogService only flush.           *)
(*                                                                         *)
(* A key is a name and a season.  The database holds to one collection for *)
(* each where there is a season and, a NULL being equal to nothing, to     *)
(* nothing where there is none.  The rest of the columns, and the other    *)
(* resources, whose keys are all unique, are left out.                     *)
(***************************************************************************)
EXTENDS Naturals, Sequences, FiniteSets

CONSTANTS Names, Seasons, NoSeason,
          Imports,      \* the files: each is previewed and confirmed once
          Forms,        \* the collections created or updated by hand
          MaxRows       \* of a file

VARIABLES open,         \* whether each season is active
          collections,  \* of each key: who created each, and who wrote in it
          file,         \* the rows of each call, and its mode
          stage,        \* where each call is
          at, step,     \* the row it is at, and whether it has been checked
          held,         \* the keys it has written, not committed
          errors,       \* whether a row failed
          valid,        \* whether the preview of a file found no error
          since,        \* ghost: something changed since the preview began
          together      \* ghost: keys two calls were creating at once

bulkVars == <<open, collections, file, stage, at, step, held, errors, valid, since, together>>

Calls == Imports \union Forms
Keys == Names \X (Seasons \union {NoSeason})
SeasonOf(k) == k[2]
Unique(k) == SeasonOf(k) # NoSeason

\* read_rows.
Files == UNION {[1 .. n -> Keys] : n \in 1 .. MaxRows}

Row(c) == file[c].rows[at[c]]
Working(c) == stage[c] \in {"previewing", "importing", "saving"}
Creating(c) == Working(c) /\ file[c].mode = "create"

\* Whose preview has begun, and may be believed.
Announced == {c \in Imports : stage[c] \in {"previewing", "previewed", "importing"}}

\* ImportSession: a commit of the service is a flush, and the call goes on.
Onwards(c) == at' = [at EXCEPT ![c] = @ + 1] /\ step' = [step EXCEPT ![c] = "check"]

-----------------------------------------------------------------------------
Begin(c, to) ==
    /\ stage' = [stage EXCEPT ![c] = to]
    /\ at' = [at EXCEPT ![c] = 1]
    /\ UNCHANGED <<open, collections, step, held, errors, valid, together>>

\* preview, of a file in a mode.
Preview(c, rows, mode) ==
    /\ c \in Imports /\ stage[c] = "new"
    /\ file' = [file EXCEPT ![c] = [rows |-> rows, mode |-> mode]]
    /\ Begin(c, "previewing")
    /\ since' = since \ {c}

\* import_excel: the digest says that it is the file that was previewed.
Confirm(c) ==
    /\ stage[c] = "previewed"
    /\ Begin(c, "importing")
    /\ UNCHANGED <<file, since>>

\* create_collection and update_collection, from their forms.
Fill(c, k, mode) ==
    /\ c \in Forms /\ stage[c] = "new"
    /\ file' = [file EXCEPT ![c] = [rows |-> <<k>>, mode |-> mode]]
    /\ Begin(c, "saving")
    /\ UNCHANGED since

\* What a row finds: what is committed, and what its own file has written.
Found(c, k) ==
    Cardinality(collections[k]) + (IF Creating(c) /\ k \in held[c] THEN 1 ELSE 0)

\* reference_map: what no file of any resource may refer to.
Ambiguous == {k \in Keys : Cardinality(collections[k]) > 1}

\* _convert, and the checks of the service.
RowOk(c, k) ==
    /\ Found(c, k) = (IF file[c].mode = "create" THEN 0 ELSE 1)
    /\ Unique(k) => open[SeasonOf(k)]
    /\ \A i \in 1 .. at[c] - 1 : file[c].rows[i] # k

Check(c) ==
    /\ Working(c) /\ at[c] <= Len(file[c].rows) /\ step[c] = "check"
    /\ LET k == Row(c)
           rivals == {d \in Calls \ {c} : Creating(d) /\
                        (k \in held[d] \/ (at[d] <= Len(file[d].rows) /\ Row(d) = k
                                           /\ step[d] = "write"))}
       IN  IF RowOk(c, k)
           THEN /\ step' = [step EXCEPT ![c] = "write"]
                /\ together' = IF Creating(c) /\ rivals # {} THEN together \union {k}
                               ELSE together
                /\ UNCHANGED <<at, errors>>
           ELSE /\ errors' = [errors EXCEPT ![c] = TRUE]
                /\ Onwards(c)
                /\ UNCHANGED together
    /\ UNCHANGED <<open, collections, file, stage, held, valid, since>>

\* Whoever wrote the row, or a row with its key, keeps the others waiting.
Busy(c, k) ==
    \E d \in Calls \ {c} : k \in held[d] /\ (file[d].mode = "update" \/ Unique(k))

\* The flush of the row.  A key that somebody committed meanwhile undoes its
\* savepoint, and the next row follows.
Write(c) ==
    /\ Working(c) /\ step[c] = "write" /\ ~Busy(c, Row(c))
    /\ IF Creating(c) /\ Unique(Row(c)) /\ collections[Row(c)] # {}
       THEN errors' = [errors EXCEPT ![c] = TRUE] /\ UNCHANGED held
       ELSE held' = [held EXCEPT ![c] = @ \union {Row(c)}] /\ UNCHANGED errors
    /\ Onwards(c)
    /\ UNCHANGED <<open, collections, file, stage, valid, since, together>>

\* What there is of a call before its file arrives, and after it is refused.
NoFile == [rows |-> <<>>, mode |-> "create"]

\* The end of a call: its savepoints and its locks go.
End(c, to) ==
    /\ stage' = [stage EXCEPT ![c] = to]
    /\ file' = IF to = "refused" THEN [file EXCEPT ![c] = NoFile] ELSE file
    /\ at' = [at EXCEPT ![c] = 1]
    /\ held' = [held EXCEPT ![c] = {}]
    /\ errors' = [errors EXCEPT ![c] = FALSE]
    /\ step' = [step EXCEPT ![c] = "check"]
    /\ UNCHANGED <<open, together>>

Tried(c) == Working(c) /\ at[c] > Len(file[c].rows)

\* The batch is rolled back: of a preview, always, and of an import that found
\* an error.
Rollback(c) ==
    /\ Tried(c) /\ (stage[c] = "previewing" \/ errors[c])
    /\ valid' = IF stage[c] = "previewing" THEN [valid EXCEPT ![c] = ~errors[c]] ELSE valid
    /\ End(c, IF stage[c] = "previewing" THEN "previewed" ELSE "refused")
    /\ UNCHANGED <<collections, since>>

Written(c, k) ==
    IF file[c].mode = "create" THEN collections[k] \union {[by |-> c, wrote |-> {c}]}
    ELSE {[r EXCEPT !.wrote = @ \union {c}] : r \in collections[k]}

\* Every row and the audit event, with one commit.
Commit(c) ==
    /\ Tried(c) /\ stage[c] # "previewing" /\ ~errors[c]
    /\ collections' = [k \in Keys |-> IF k \in held[c] THEN Written(c, k) ELSE collections[k]]
    /\ since' = since \union Announced
    /\ End(c, "imported")
    /\ UNCHANGED valid

\* The database ends a call that waits in a circle, or goes away.
Lose(c) ==
    /\ Working(c)
    /\ End(c, "refused")
    /\ since' = since \union {c}
    /\ UNCHANGED <<collections, valid>>

\* set_reference_active of a season, which nothing may be using to be closed.
SetSeason(s) ==
    /\ open[s] => \A n \in Names : collections[<<n, s>>] = {}
    /\ open' = [open EXCEPT ![s] = ~@]
    /\ since' = since \union Announced
    /\ UNCHANGED <<collections, file, stage, at, step, held, errors, valid, together>>

-----------------------------------------------------------------------------
BulkInit ==
    /\ open = [s \in Seasons |-> TRUE]
    /\ \E old \in {{}, {[by |-> NoSeason, wrote |-> {}]}} : collections = [k \in Keys |-> old]
    /\ file = [c \in Calls |-> NoFile]
    /\ stage = [c \in Calls |-> "new"]
    /\ at = [c \in Calls |-> 1]
    /\ step = [c \in Calls |-> "check"]
    /\ held = [c \in Calls |-> {}]
    /\ errors = [c \in Calls |-> FALSE]
    /\ valid = [c \in Calls |-> FALSE]
    /\ since = {} /\ together = {}

BulkNext ==
    \/ \E c \in Calls :
        \/ \E mode \in {"create", "update"} :
            (\E rows \in Files : Preview(c, rows, mode)) \/ (\E k \in Keys : Fill(c, k, mode))
        \/ Confirm(c) \/ Check(c) \/ Write(c) \/ Rollback(c) \/ Commit(c) \/ Lose(c)
    \/ \E s \in Seasons : SetSeason(s)

BulkSpec == BulkInit /\ [][BulkNext]_bulkVars

-----------------------------------------------------------------------------
RowsOf(c) == {file[c].rows[i] : i \in 1 .. Len(file[c].rows)}

\* A file is imported whole or leaves nothing: whoever was told that it was
\* imported has all of its rows in, whatever was saved beside it, and nobody
\* else, previews included, has written anything.
WholeFile ==
    \A c \in Calls, k \in Keys :
        (\E r \in collections[k] : c \in r.wrote)
            <=> (stage[c] = "imported" /\ k \in RowsOf(c))

\* A key names one collection, so that the files that refer to it are read; two
\* calls that create it at once, where there is no season, may leave two.
OneForEachKey == \A k \in Ambiguous : ~Unique(k) /\ k \in together

\* `La vista previa prueba las mismas reglas': an import that a valid preview
\* announced is refused only if somebody saved something, or it was lost.
PreviewTold == \A c \in Imports : stage[c] = "refused" /\ valid[c] => c \in since

=============================================================================

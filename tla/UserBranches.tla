----------------------------- MODULE UserBranches -----------------------------
(***************************************************************************)
(* The branches one member of the staff is given: UserBranchService.       *)
(* asignar deletes the rows it sees and inserts its own; the rows another  *)
(* request inserted meanwhile it does not see.                             *)
(***************************************************************************)
EXTENDS Naturals, FiniteSets

CONSTANTS GivenIds,     \* the branches of the company
          AssignCalls   \* requests to asignar

VARIABLES assigned,     \* the rows of the user: <<branch, is_default>>
          assigning,    \* per request: the rows it deletes and inserts
          mixed         \* the last request overlapped another one

assignVars == <<assigned, assigning, mixed>>

NotAssigning == [gone |-> {}, new |-> {}, busy |-> FALSE, overtaken |-> FALSE]

\* One of the branches given is the default: the one asked for, or the first
\* by code.
Rows(given, default) == {<<b, b = default>> : b \in given}

\* The DELETE has chosen its rows.
Assign(c, given, default) ==
    /\ ~ assigning[c].busy
    /\ default \in given
    /\ assigning' = [assigning EXCEPT ![c] =
           [NotAssigning EXCEPT !.gone = assigned, !.new = Rows(given, default),
                                !.busy = TRUE]]
    /\ UNCHANGED <<assigned, mixed>>

AssignNone(c) ==
    /\ ~ assigning[c].busy
    /\ assigning' = [assigning EXCEPT ![c] =
           [NotAssigning EXCEPT !.gone = assigned, !.busy = TRUE]]
    /\ UNCHANGED <<assigned, mixed>>

\* One row for a branch that is already there breaks uq_user_branches_user_branch.
CommitAssign(c) ==
    /\ assigning[c].busy
    /\ LET call == assigning[c]
           kept == assigned \ call.gone
       IN  IF \E r \in kept, s \in call.new : r[1] = s[1]
           THEN /\ assigning' = [assigning EXCEPT ![c] = NotAssigning]
                /\ UNCHANGED <<assigned, mixed>>
           ELSE /\ assigned' = kept \union call.new
                /\ assigning' = [x \in AssignCalls |->
                       IF x = c THEN NotAssigning
                       ELSE [assigning[x] EXCEPT !.overtaken = assigning[x].busy]]
                /\ mixed' = call.overtaken

AssignInit ==
    /\ assigned = {}
    /\ assigning = [c \in AssignCalls |-> NotAssigning]
    /\ mixed = FALSE

AssignNext ==
    \E c \in AssignCalls :
        \/ AssignNone(c)
        \/ CommitAssign(c)
        \/ \E given \in SUBSET GivenIds, default \in GivenIds : Assign(c, given, default)

-----------------------------------------------------------------------------
\* Whoever has branches has one of them by default, and only one, unless two
\* requests gave them at once: asignar (user_branch_service.py:88) replaces
\* what it saw, and no index holds the default to one row.
OneDefault ==
    assigned # {} /\ ~ mixed =>
        Cardinality({r \in assigned : r[2]}) = 1

=============================================================================

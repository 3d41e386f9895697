----------------------------- MODULE Entitlements -----------------------------
(***************************************************************************)
(* The modules of the platform, the plans that include them, the modules   *)
(* granted to one company or taken from it, and what the company may use   *)
(* in the end: ModuleService, PlanService, TenantModuleService and         *)
(* modulos_efectivos.                                                      *)
(*                                                                         *)
(* An update reads, decides and commits later; the others take one         *)
(* transaction whose reads nothing else depends on.  BORRADOR counts as    *)
(* BETA: no rule tells them apart.  Prices, names and permissions are left *)
(* out, and the limits of a plan are in Branches.                          *)
(***************************************************************************)
EXTENDS Naturals

CONSTANTS Modules, BaseModules, Plans, UpdateCalls,
          MaxUpdates    \* bound on the operations begun

VARIABLES lifecycle,    \* of each module
          previewed,    \* the modules with last_preview_at
          dependsOn,    \* what each module asks for
          includes,     \* the modules each plan has enabled
          planOf,       \* the plan of the company
          grant,        \* its row in tenant_modules for each module
          updates,      \* the update in progress of each request
          lost,         \* modules its plan took from it and nobody confirmed
          crossed,      \* two updates of modules overlapped
          begun         \* operations so far

entitlementVars == <<lifecycle, previewed, dependsOn, includes, planOf, grant,
                     updates, lost, crossed, begun>>

Addons == Modules \ BaseModules

NoGrant == [mode |-> "none", over |-> FALSE]

NoUpdate == [op |-> "none", on |-> "none", to |-> {}, confirm |-> FALSE,
             overtaken |-> {}]

-----------------------------------------------------------------------------
\* What a grant that has not expired says.
Says(m, mode) == grant[m].mode = mode /\ ~ grant[m].over

\* modulos_efectivos, of a company whose plan includes `plan'.
Effective(plan) ==
    LET given   == {m \in plan : lifecycle[m] = "GA"}
        granted == {m \in Modules : Says(m, "EXTRA") \/ Says(m, "TRIAL")}
        blocked == {m \in Addons : Says(m, "BLOQUEADO")}
    IN  ((given \union granted \union BaseModules) \ blocked)
            \ {m \in Modules : lifecycle[m] = "RETIRADO"}

\* With a plan alone, and no grant.
PlanAlone(plan) ==
    {m \in BaseModules : lifecycle[m] # "RETIRADO"} \union {m \in plan : lifecycle[m] = "GA"}

Has == Effective(includes[planOf])

\* puede_pasar_a.
MayBecome(m, new) ==
    \/ lifecycle[m] = new
    \/ lifecycle[m] # "RETIRADO" /\ (new = "GA" => m \in previewed)

\* visit: what the module asks for, and so on, never ends.
GoesRound(graph, m) ==
    \E round \in SUBSET Modules :
        m \in round /\ \A x \in round : graph[x] \intersect round # {}

-----------------------------------------------------------------------------
MayStart(c) == updates[c] = NoUpdate /\ begun < MaxUpdates

Start(c, update) ==
    /\ MayStart(c)
    /\ begun' = begun + 1
    /\ updates' = [updates EXCEPT ![c] = update]
    /\ UNCHANGED <<lifecycle, previewed, dependsOn, includes, planOf, grant, lost,
                   crossed>>

\* ModuleService.actualizar, of the life of a module.
ChangeLife(c, m, new) ==
    /\ new # lifecycle[m] /\ MayBecome(m, new)
    /\ Start(c, [NoUpdate EXCEPT !.op = "life", !.on = m, !.to = {new}])

\* The same, of what it depends on.
ChangeDependencies(c, m, deps) ==
    /\ deps # dependsOn[m]
    /\ ~ GoesRound([dependsOn EXCEPT ![m] = deps], m)
    /\ Start(c, [NoUpdate EXCEPT !.op = "deps", !.on = m, !.to = deps])

\* _validar_limites: the modules of a plan are out already, and it has the
\* basic ones.
Allowed(modules) ==
    BaseModules \subseteq modules /\ \A m \in modules : lifecycle[m] = "GA"

\* impacto_plan: the plan loses a module, and some company of it changes.
Hurts(p, modules) ==
    /\ PlanAlone(includes[p]) \ PlanAlone(modules) # {}
           \/ (planOf = p /\ Has \ Effective(modules) # {})
    /\ planOf = p /\ Has # Effective(modules)

\* PlanService.actualizar.
ChangeIncluded(c, p, modules, confirm) ==
    /\ modules # includes[p] /\ Allowed(modules)
    /\ Hurts(p, modules) => confirm
    /\ Start(c, [op |-> "plan", on |-> p, to |-> modules, confirm |-> confirm,
                 overtaken |-> {}])

\* habilitar: what a module asks for must be there, but to block it.
Grant(c, m, mode) ==
    /\ mode = "BLOQUEADO" => m \notin BaseModules
    /\ mode # "BLOQUEADO" => dependsOn[m] \subseteq Has
    /\ Start(c, [NoUpdate EXCEPT !.op = "grant", !.on = m, !.to = {mode}])

-----------------------------------------------------------------------------
\* `calls' commit a change of this kind; whoever is deciding has not read it.
Committing(calls, op, on) ==
    updates' = [x \in UpdateCalls |->
        IF x \in calls \/ updates[x] = NoUpdate THEN NoUpdate
        ELSE [updates[x] EXCEPT !.overtaken = @ \union {<<op, on>>}]]

\* An operation of one transaction.
AtOnce(op, on) ==
    /\ begun < MaxUpdates
    /\ begun' = begun + 1
    /\ Committing({}, op, on)

CommitLife(c) ==
    /\ updates[c].op = "life" /\ Committing({c}, "life", updates[c].on)
    /\ lifecycle' = [lifecycle EXCEPT ![updates[c].on] = CHOOSE l \in updates[c].to : TRUE]
    /\ UNCHANGED <<previewed, dependsOn, includes, planOf, grant, lost, crossed, begun>>

CommitDependencies(c) ==
    /\ updates[c].op = "deps" /\ Committing({c}, "deps", updates[c].on)
    /\ dependsOn' = [dependsOn EXCEPT ![updates[c].on] = updates[c].to]
    /\ crossed' = (crossed \/ \E o \in updates[c].overtaken : o[1] = "deps")
    /\ UNCHANGED <<lifecycle, previewed, includes, planOf, grant, lost, begun>>

\* Its features are deleted and inserted again: of two that overlap, the
\* second finds the rows of the first.
CommitPlan(c) ==
    LET call == updates[c]
    IN  /\ call.op = "plan" /\ <<"plan", call.on>> \notin call.overtaken
        /\ Committing({c}, "plan", call.on)
        /\ includes' = [includes EXCEPT ![call.on] = call.to]
        /\ lost' = IF call.confirm \/ call.overtaken # {} \/ planOf # call.on THEN lost
                   ELSE lost \union (Has \ Effective(call.to))
        /\ UNCHANGED <<lifecycle, previewed, dependsOn, planOf, grant, crossed, begun>>

\* The row it found is revoked and its own inserted; the unique index refuses
\* it if another row came meanwhile.
CommitGrant(c) ==
    LET call == updates[c]
    IN  /\ call.op = "grant"
        /\ <<"grant", call.on>> \in call.overtaken => grant[call.on] = NoGrant
        /\ Committing({c}, "grant", call.on)
        /\ grant' = [grant EXCEPT ![call.on] =
               [mode |-> CHOOSE m \in call.to : TRUE, over |-> FALSE]]
        /\ UNCHANGED <<lifecycle, previewed, dependsOn, includes, planOf, lost, crossed, begun>>

GiveUp(c) ==
    /\ updates[c] # NoUpdate
    /\ updates' = [updates EXCEPT ![c] = NoUpdate]
    /\ UNCHANGED <<lifecycle, previewed, dependsOn, includes, planOf, grant, lost,
                   crossed, begun>>

-----------------------------------------------------------------------------
\* vista_previa: the module is there in the demo company, which has all.
Preview(m) ==
    /\ lifecycle[m] # "RETIRADO" /\ m \notin previewed
    /\ previewed' = previewed \union {m}
    /\ AtOnce("preview", m)
    /\ UNCHANGED <<lifecycle, dependsOn, includes, planOf, grant, lost, crossed>>

\* revocar.
Revoke(m) ==
    /\ grant[m] # NoGrant
    /\ grant' = [grant EXCEPT ![m] = NoGrant]
    /\ AtOnce("revoke", m)
    /\ UNCHANGED <<lifecycle, previewed, dependsOn, includes, planOf, lost, crossed>>

\* The days of a grant are over; a block, or an extra, may have none.
Expire(m) ==
    /\ grant[m] # NoGrant /\ ~ grant[m].over
    /\ grant' = [grant EXCEPT ![m].over = TRUE]
    /\ AtOnce("expire", m)
    /\ UNCHANGED <<lifecycle, previewed, dependsOn, includes, planOf, lost, crossed>>

\* The job modules.trials.
ExpireTrials ==
    LET old == {m \in Modules : grant[m].mode = "TRIAL" /\ grant[m].over}
    IN  /\ old # {}
        /\ grant' = [m \in Modules |-> IF m \in old THEN NoGrant ELSE grant[m]]
        /\ AtOnce("expire", "trials")
        /\ UNCHANGED <<lifecycle, previewed, dependsOn, includes, planOf, lost, crossed>>

\* cambiar_plan, for what matters here.
MoveToPlan(p) ==
    /\ planOf # p
    /\ planOf' = p
    /\ AtOnce("move", p)
    /\ UNCHANGED <<lifecycle, previewed, dependsOn, includes, grant, lost, crossed>>

-----------------------------------------------------------------------------
EntitlementInit ==
    /\ lifecycle = [m \in Modules |-> "GA"]
    /\ previewed = {}
    /\ dependsOn = [m \in Modules |-> {}]
    /\ includes = [p \in Plans |-> Modules]
    /\ planOf \in Plans
    /\ grant = [m \in Modules |-> NoGrant]
    /\ updates = [c \in UpdateCalls |-> NoUpdate]
    /\ lost = {}
    /\ crossed = FALSE
    /\ begun = 0

EntitlementNext ==
    \/ \E c \in UpdateCalls :
        \/ CommitLife(c) \/ CommitDependencies(c) \/ CommitPlan(c) \/ CommitGrant(c)
        \/ GiveUp(c)
        \/ /\ MayStart(c)
           /\ \/ \E m \in Modules :
                  \/ \E new \in {"BETA", "GA", "RETIRADO"} : ChangeLife(c, m, new)
                  \/ \E deps \in SUBSET Modules : ChangeDependencies(c, m, deps)
                  \/ \E mode \in {"EXTRA", "TRIAL", "BLOQUEADO"} : Grant(c, m, mode)
              \/ \E p \in Plans, modules \in SUBSET Modules, confirm \in BOOLEAN :
                     ChangeIncluded(c, p, modules, confirm)
    \/ \E m \in Modules : Preview(m) \/ Revoke(m) \/ Expire(m)
    \/ ExpireTrials
    \/ \E p \in Plans : MoveToPlan(p)

-----------------------------------------------------------------------------
\* No module leaves a company because its plan was saved without confirming
\* the impact (plan_service.py:147), unless something else was begun while
\* the update was deciding.
NoneLostUnasked == lost = {}

\* Modules never depend on each other in a circle, which visit
\* (module_service.py:176) would refuse to leave, unless two updates crossed.
NoCircle == (\E m \in Modules : GoesRound(dependsOn, m)) => crossed

=============================================================================

------------------------------ MODULE Storefront ------------------------------
(***************************************************************************)
(* The public page of a company: StorefrontService and                     *)
(* PaymentMethodsService.  A page may go up when the company has a logo,   *)
(* an open branch, products with a photo and a way to be paid; publicar    *)
(* reads them one after the other and commits.  A request writes the       *)
(* columns that differ from what it loaded, and no others.                 *)
(*                                                                         *)
(* The texts, colours and links of the page and the status of the company, *)
(* which hides it whatever the page says, are left out.                    *)
(***************************************************************************)
EXTENDS Naturals, Sequences

CONSTANTS StoreCalls,
          Methods,      \* the ways to be paid
          Enough,       \* products with a photo that a page needs
          MaxReady      \* products there may be

VARIABLES store,        \* the page, the logo, a branch, ready products
          method,       \* per way to be paid: none, on or off
          storeCalls,   \* the requests under way
          word          \* what was answered last of the page and of each
                        \* method; none when requests overlapped

storefrontVars == <<store, method, storeCalls, word>>

Requirements == <<"logo", "branch", "products", "payment">>

Things == {"page"} \union Methods

NoStoreRequest == [op |-> "none"]

Serving(c) == storeCalls[c].op # "none"

-----------------------------------------------------------------------------
\* requisitos_publicacion, each as its query reads it; the logo comes with the
\* row of the company.
Meets(requirement) ==
    CASE requirement = "logo" -> store.logo
      [] requirement = "branch" -> store.branch
      [] requirement = "products" -> store.ready >= Enough
      [] requirement = "payment" -> \E m \in Methods : method[m] = "on"

\* What stands after a call that says `value' and had loaded `was'.
Written(now, was, value) == IF was = value THEN now ELSE value

\* A request loads the row it is about and will set it to `value'.
Begin(c, op, thing, was, value) ==
    /\ ~ Serving(c)
    /\ storeCalls' = [storeCalls EXCEPT ![c] =
           [op |-> op, thing |-> thing, was |-> was, value |-> value,
            step |-> 1, lost |-> {}, mixed |-> \E x \in StoreCalls :
                Serving(x) /\ storeCalls[x].thing = thing]]
    /\ UNCHANGED <<store, method, word>>

\* It answers: the others about the same thing have met it.
Answer(c) ==
    LET call == storeCalls[c]
        met(x) == storeCalls[x].thing = call.thing
    IN  /\ storeCalls' = [x \in StoreCalls |->
               IF x = c THEN NoStoreRequest
               ELSE IF ~ Serving(x) THEN storeCalls[x]
               ELSE [storeCalls[x] EXCEPT
                        !.mixed = @ \/ met(x),
                        !.lost = IF call.thing # "page" /\ call.value = "off"
                                    THEN @ \union {"payment"} ELSE @]]
        /\ word' = [word EXCEPT ![call.thing] =
               IF call.mixed THEN "none" ELSE call.value]

Publicar(c) == store.logo /\ Begin(c, "publicar", "page", store.page, "on")

Despublicar(c) == Begin(c, "despublicar", "page", store.page, "off")

\* _evaluar_requisitos: the next query; one that is not met ends the request.
Evaluar(c) ==
    /\ storeCalls[c].op = "publicar" /\ storeCalls[c].step < Len(Requirements)
    /\ LET next == storeCalls[c].step + 1
       IN  storeCalls' = [storeCalls EXCEPT ![c] =
               IF Meets(Requirements[next]) THEN [@ EXCEPT !.step = next]
                                            ELSE NoStoreRequest]
    /\ UNCHANGED <<store, method, word>>

Commit(c) ==
    /\ Serving(c)
    /\ LET call == storeCalls[c]
       IN  /\ call.op = "publicar" => call.step = Len(Requirements)
           /\ IF call.thing = "page"
              THEN /\ store' = [store EXCEPT !.page = Written(@, call.was, call.value)]
                   /\ UNCHANGED method
              ELSE /\ method' = [method EXCEPT ![call.thing] =
                                     Written(@, call.was, call.value)]
                   /\ UNCHANGED store
    /\ Answer(c)

-----------------------------------------------------------------------------
\* What the page is read from changes under the requests: `lost' keeps what
\* went while publicar was deciding.
Lose(requirement) ==
    storeCalls' = [c \in StoreCalls |->
        IF storeCalls[c].op = "publicar"
        THEN [storeCalls[c] EXCEPT !.lost = @ \union {requirement}]
        ELSE storeCalls[c]]

SubirLogo ==
    /\ ~ store.logo
    /\ store' = [store EXCEPT !.logo = TRUE]
    /\ UNCHANGED <<method, storeCalls, word>>

OpenBranch ==
    /\ ~ store.branch
    /\ store' = [store EXCEPT !.branch = TRUE]
    /\ UNCHANGED <<method, storeCalls, word>>

CloseBranch ==
    /\ store.branch
    /\ store' = [store EXCEPT !.branch = FALSE]
    /\ Lose("branch")
    /\ UNCHANGED <<method, word>>

ShowProduct ==
    /\ store.ready < MaxReady
    /\ store' = [store EXCEPT !.ready = @ + 1]
    /\ UNCHANGED <<method, storeCalls, word>>

HideProduct ==
    /\ store.ready > 0
    /\ store' = [store EXCEPT !.ready = @ - 1]
    /\ Lose("products")
    /\ UNCHANGED <<method, word>>

Crear(m, value) ==
    /\ method[m] = "none"
    /\ method' = [method EXCEPT ![m] = value]
    /\ word' = [word EXCEPT ![m] = value]
    /\ UNCHANGED <<store, storeCalls>>

Actualizar(c, m, value) ==
    method[m] # "none" /\ Begin(c, "actualizar", m, method[m], value)

Desactivar(c, m) ==
    method[m] # "none" /\ Begin(c, "desactivar", m, method[m], "off")

StorefrontInit ==
    /\ store = [page |-> "off", logo |-> FALSE, branch |-> FALSE, ready |-> 0]
    /\ method = [m \in Methods |-> "none"]
    /\ storeCalls = [c \in StoreCalls |-> NoStoreRequest]
    /\ word = [t \in Things |-> "none"]

StorefrontNext ==
    \/ \E c \in StoreCalls :
          \/ Publicar(c)
          \/ Despublicar(c)
          \/ Evaluar(c)
          \/ Commit(c)
          \/ \E m \in Methods :
                \/ Desactivar(c, m)
                \/ \E value \in {"on", "off"} : Actualizar(c, m, value)
    \/ \E m \in Methods, value \in {"on", "off"} : Crear(m, value)
    \/ SubirLogo
    \/ OpenBranch
    \/ CloseBranch
    \/ ShowProduct
    \/ HideProduct

-----------------------------------------------------------------------------
\* A page that is about to go up has all it needs, but for what was taken away
\* while publicar (storefront_service.py:195) was deciding: its four queries
\* see four moments.
UpOnlyWhole ==
    \A c \in StoreCalls :
        LET call == storeCalls[c]
            kept(requirement) == requirement \notin call.lost
        IN  call.op = "publicar" /\ call.step = Len(Requirements) =>
                /\ store.logo
                /\ kept("branch") => store.branch
                /\ kept("products") => store.ready >= Enough
                /\ kept("payment") => \E m \in Methods : method[m] = "on"

\* What was answered last of the page, or of a way to be paid, is so, unless
\* requests about it overlapped: a publicar that found the page up writes
\* nothing, and a despublicar between its load and its commit stands.
AnswerStands ==
    \A t \in Things : word[t] # "none" =>
        word[t] = IF t = "page" THEN store.page ELSE method[t]

=============================================================================

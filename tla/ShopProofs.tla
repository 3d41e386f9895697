------------------------------ MODULE ShopProofs -----------------------------
(***************************************************************************)
(* Proofs about the shop of a company: its public page, its offers and the *)
(* sales under them, its catalogue, what a device copies of it, what its   *)
(* fitting room shows and the files it imports; for any number of each and *)
(* any number of calls that overlap.                                       *)
(***************************************************************************)
EXTENDS MCPlatform, Sums, SequenceTheorems

-----------------------------------------------------------------------------
(* The public page.                                                        *)

\* A request under way.
PageCall == [op : {"publicar", "despublicar", "actualizar", "desactivar"}, thing : Page!Things,
             was : {"on", "off"}, value : {"on", "off"}, step : 1..4,
             lost : SUBSET {"branch", "products", "payment"}, mixed : BOOLEAN]

\* The types of the part.
PageTypeOK ==
    /\ store \in [page : {"on", "off"}, logo : BOOLEAN, branch : BOOLEAN, ready : Nat]
    /\ method \in [Methods -> {"none", "on", "off"}]
    /\ DOMAIN storeCalls = CallIds
    /\ word \in [Page!Things -> {"none", "on", "off"}]

\* How a thing stands.
Standing(t) == IF t = "page" THEN store.page ELSE method[t]

\* What a request knows: what its queries saw is so but for what was lost, and
\* what it loaded is still so unless it met another about the same thing.
PageKnows(u) ==
    \/ u = Page!NoStoreRequest
    \/ /\ u \in PageCall
       /\ u.op \in {"publicar", "despublicar"} <=> u.thing = "page"
       /\ u.op = "publicar" =>
              /\ u.value = "on" /\ store.logo
              /\ u.step >= 2 /\ "branch" \notin u.lost => store.branch
              /\ u.step >= 3 /\ "products" \notin u.lost => store.ready >= Enough
              /\ u.step >= 4 /\ "payment" \notin u.lost => \E m \in Methods : method[m] = "on"
       /\ ~ u.mixed => u.was = Standing(u.thing)

\* The inductive invariant.
PageInv ==
    /\ PageTypeOK
    /\ \A c \in CallIds : PageKnows(storeCalls[c])
    /\ Page!AnswerStands

\* A page that is not up, and nobody asking.
LEMMA PageStarts == Page!StorefrontInit => PageInv
BY DEF Page!StorefrontInit, PageInv, PageTypeOK, PageKnows, Page!AnswerStands, Page!Things

\* No request is under way where there is none.
LEMMA NoRequestIsOne ==
    /\ Page!NoStoreRequest.op = "none"
    /\ \A u \in PageCall : u.op # "none" /\ u # Page!NoStoreRequest
BY DEF Page!NoStoreRequest, PageCall

\* A request that is under way is one.
LEMMA PageServing ==
    ASSUME PageInv, NEW c \in CallIds, Page!Serving(c)
    PROVE  storeCalls[c] \in PageCall
BY DEF PageInv, PageKnows, Page!Serving, Page!NoStoreRequest

\* A page that goes up is whole.
LEMMA PageWhole == PageInv => Page!UpOnlyWhole
<1> SUFFICES ASSUME PageInv, NEW c \in CallIds, NEW u, u = storeCalls[c],
                    u.op = "publicar", u.step = 4
             PROVE  /\ store.logo
                    /\ "branch" \notin u.lost => store.branch
                    /\ "products" \notin u.lost => store.ready >= Enough
                    /\ "payment" \notin u.lost => \E m \in Methods : method[m] = "on"
  BY DEF Page!UpOnlyWhole, Page!Requirements
<1> QED
  BY DEF PageInv, PageKnows, Page!NoStoreRequest

\* A request starts: it knows what it loaded.
LEMMA PageBegins ==
    ASSUME PageInv, NEW c \in CallIds, NEW t \in Page!Things,
           NEW op \in {"publicar", "despublicar", "actualizar", "desactivar"},
           op \in {"publicar", "despublicar"} <=> t = "page",
           NEW value \in {"on", "off"}, op = "publicar" => value = "on" /\ store.logo,
           Standing(t) # "none", Page!Begin(c, op, t, Standing(t), value)
    PROVE  PageInv'
<1>1. UNCHANGED <<store, method, word>>
  BY DEF Page!Begin
<1>2. PICK met \in BOOLEAN : met = \E x \in CallIds :
                                   Page!Serving(x) /\ storeCalls[x].thing = t
  OBVIOUS
<1>3. PICK was : was = Standing(t)
  OBVIOUS
<1>4. PICK u : u = [op |-> op, thing |-> t, was |-> was, value |-> value,
                    step |-> 1, lost |-> {}, mixed |-> met]
  OBVIOUS
<1>5. storeCalls' = [storeCalls EXCEPT ![c] = u]
  BY <1>2, <1>3, <1>4 DEF Page!Begin
<1>6. was \in {"on", "off"}
  BY <1>3 DEF PageInv, PageTypeOK, Standing, Page!Things
<1>7. PageKnows(u)
  BY <1>3, <1>4, <1>6 DEF PageKnows, PageCall
<1>8. ASSUME NEW x \in CallIds PROVE PageKnows(storeCalls[x])'
  <2>1. PICK v : v = storeCalls'[x]
    OBVIOUS
  <2>2. PageKnows(v)
    BY <1>5, <1>7, <2>1 DEF PageInv, PageTypeOK
  <2>3. PageKnows(v)'
    BY <1>1, <2>2 DEF PageKnows, Standing
  <2> QED
    BY <2>1, <2>3
<1>9. PageTypeOK' /\ Page!AnswerStands'
  BY <1>1, <1>5 DEF PageInv, PageTypeOK, Page!AnswerStands
<1> QED
  BY <1>8, <1>9 DEF PageInv

\* A request begins.
LEMMA BeginsKeep ==
    ASSUME PageInv, NEW c \in CallIds,
           \/ Page!Publicar(c) \/ Page!Despublicar(c)
           \/ \E m \in Methods :
                  Page!Desactivar(c, m) \/ \E v \in {"on", "off"} : Page!Actualizar(c, m, v)
    PROVE  PageInv'
<1>1. "page" \in Page!Things /\ Standing("page") = store.page /\ store.page # "none"
  BY DEF Page!Things, Standing, PageInv, PageTypeOK
<1>2. \A m \in Methods : m \in Page!Things /\ m # "page" /\ Standing(m) = method[m]
  BY PageAssumption DEF Page!Things, Standing
<1>3. CASE Page!Publicar(c)
  BY <1>1, <1>3, PageBegins DEF Page!Publicar
<1>4. CASE Page!Despublicar(c)
  BY <1>1, <1>4, PageBegins DEF Page!Despublicar
<1>5. ASSUME NEW m \in Methods, Page!Desactivar(c, m) PROVE PageInv'
  BY <1>2, <1>5, PageBegins DEF Page!Desactivar
<1>6. ASSUME NEW m \in Methods, NEW v \in {"on", "off"}, Page!Actualizar(c, m, v)
      PROVE  PageInv'
  BY <1>2, <1>6, PageBegins DEF Page!Actualizar
<1> QED
  BY <1>3, <1>4, <1>5, <1>6

\* The next query of publicar.
LEMMA EvaluarKeeps ==
    ASSUME PageInv, NEW c \in CallIds, Page!Evaluar(c)
    PROVE  PageInv'
<1>1. PICK u \in PageCall : u = storeCalls[c] /\ PageKnows(u) /\ u.op = "publicar" /\ u.step < 4
  <2>1. Page!Serving(c) /\ storeCalls[c].op = "publicar" /\ storeCalls[c].step < 4
    BY DEF Page!Evaluar, Page!Serving, Page!Requirements
  <2> QED
    BY <2>1, PageServing DEF PageInv
<1>2. PICK next : next = u.step + 1
  OBVIOUS
<1>3. next \in 1..4 /\ next > u.step /\ next >= 2
  BY <1>1, <1>2 DEF PageCall
<1>4. PICK met \in BOOLEAN : met <=> Page!Meets(Page!Requirements[next])
  OBVIOUS
<1>5. /\ next = 2 => (met => store.branch)
      /\ next = 3 => (met => store.ready >= Enough)
      /\ next = 4 => (met => \E m \in Methods : method[m] = "on")
  <2>1. /\ Page!Requirements[2] = "branch" /\ Page!Requirements[3] = "products"
        /\ Page!Requirements[4] = "payment"
    BY DEF Page!Requirements
  <2>2. /\ Page!Meets("branch") <=> store.branch
        /\ Page!Meets("products") <=> store.ready >= Enough
        /\ Page!Meets("payment") <=> \E m \in Methods : method[m] = "on"
    BY DEF Page!Meets
  <2> QED
    BY <1>4, <2>1, <2>2
<1>6. UNCHANGED <<store, method, word>>
  BY DEF Page!Evaluar
<1>7. PICK v : v = IF met THEN [u EXCEPT !.step = next] ELSE Page!NoStoreRequest
  OBVIOUS
<1>8. storeCalls' = [storeCalls EXCEPT ![c] = v]
  BY <1>1, <1>2, <1>4, <1>7 DEF Page!Evaluar
<1>9. PageKnows(v)
  <2>1. CASE ~ met
    BY <1>7, <2>1 DEF PageKnows
  <2>2. CASE met
    <3>1. /\ v \in PageCall /\ v.op = u.op /\ v.thing = u.thing /\ v.was = u.was
          /\ v.value = u.value /\ v.step = next /\ v.lost = u.lost /\ v.mixed = u.mixed
      BY <1>3, <1>7, <2>2 DEF PageCall
    <3>2. PageKnows(u) /\ u # Page!NoStoreRequest /\ u.step \in 1..4
      BY <1>1 DEF Page!NoStoreRequest, PageCall
    <3>3. /\ v.op \in {"publicar", "despublicar"} <=> v.thing = "page"
          /\ v.value = "on" /\ store.logo
          /\ ~ v.mixed => v.was = Standing(v.thing)
      BY <1>1, <3>1, <3>2 DEF PageKnows
    <3>4. /\ v.step >= 2 /\ "branch" \notin v.lost => store.branch
          /\ v.step >= 3 /\ "products" \notin v.lost => store.ready >= Enough
          /\ v.step >= 4 /\ "payment" \notin v.lost => \E m \in Methods : method[m] = "on"
      BY <1>1, <1>2, <1>3, <1>5, <2>2, <3>1, <3>2 DEF PageKnows
    <3> QED
      BY <3>1, <3>3, <3>4 DEF PageKnows
  <2> QED
    BY <2>1, <2>2
<1>10. ASSUME NEW x \in CallIds PROVE PageKnows(storeCalls[x])'
  <2>1. PICK w : w = storeCalls'[x]
    OBVIOUS
  <2>2. PageKnows(w)
    BY <1>8, <1>9, <2>1 DEF PageInv, PageTypeOK
  <2>3. PageKnows(w)'
    BY <1>6, <2>2 DEF PageKnows, Standing
  <2> QED
    BY <2>1, <2>3
<1>11. PageTypeOK' /\ Page!AnswerStands'
  BY <1>6, <1>8 DEF PageInv, PageTypeOK, Page!AnswerStands
<1> QED
  BY <1>10, <1>11 DEF PageInv

\* What the page is read from changes: a request is told what went.
LEMMA StoreMoves ==
    ASSUME PageInv, UNCHANGED word, store.logo => store'.logo, store'.page = store.page,
           store' \in [page : {"on", "off"}, logo : BOOLEAN, branch : BOOLEAN, ready : Nat],
           method' \in [Methods -> {"none", "on", "off"}], UNCHANGED method,
           \/ UNCHANGED storeCalls /\ (store.branch => store'.branch) /\ store'.ready >= store.ready
           \/ Page!Lose("branch") /\ store'.ready = store.ready
           \/ Page!Lose("products") /\ store'.branch = store.branch
    PROVE  PageInv'
<1>1. PICK gone \in {"none", "branch", "products"} :
          /\ gone # "none" => Page!Lose(gone)
          /\ gone = "none" => UNCHANGED storeCalls
          /\ gone # "branch" => (store.branch => store'.branch)
          /\ gone # "products" => store'.ready >= store.ready
  BY DEF PageInv, PageTypeOK
<1>2. store.ready \in Nat /\ store'.ready \in Nat
  BY DEF PageInv, PageTypeOK
<1>3. ASSUME NEW x \in CallIds PROVE PageKnows(storeCalls[x])'
  <2>1. PICK u : u = storeCalls[x]
    OBVIOUS
  <2>2. PICK v : v = storeCalls'[x]
    OBVIOUS
  <2>3. PageKnows(u)
    BY <2>1 DEF PageInv
  <2>4. CASE u.op # "publicar"
    <3>1. v = u
      BY <1>1, <2>1, <2>2, <2>4 DEF Page!Lose
    <3>2. PageKnows(v)'
      BY <2>3, <2>4, <3>1 DEF PageKnows, Standing
    <3> QED
      BY <2>2, <3>2
  <2>5. CASE u.op = "publicar"
    <3>1. u # Page!NoStoreRequest /\ u \in PageCall
      <4>1. u # Page!NoStoreRequest
        BY <2>5, NoRequestIsOne
      <4> QED
        BY <2>3, <4>1 DEF PageKnows
    <3>2. v = IF gone = "none" THEN u ELSE [u EXCEPT !.lost = @ \union {gone}]
      BY <1>1, <2>1, <2>2, <2>5 DEF Page!Lose
    <3>3. /\ v \in PageCall /\ v.op = u.op /\ v.thing = u.thing /\ v.was = u.was
          /\ v.value = u.value /\ v.step = u.step /\ v.mixed = u.mixed
          /\ u.lost \subseteq v.lost /\ (gone # "none" => gone \in v.lost)
      BY <3>1, <3>2 DEF PageCall
    <3>4. PageKnows(u) /\ u # Page!NoStoreRequest
      BY <2>3, <3>1
    <3>5. /\ u.op \in {"publicar", "despublicar"} <=> u.thing = "page"
          /\ u.value = "on" /\ store.logo
          /\ ~ u.mixed => u.was = Standing(u.thing)
          /\ u.step >= 2 /\ "branch" \notin u.lost => store.branch
          /\ u.step >= 3 /\ "products" \notin u.lost => store.ready >= Enough
          /\ u.step >= 4 /\ "payment" \notin u.lost => \E m \in Methods : method[m] = "on"
      BY <2>5, <3>4 DEF PageKnows
    <3>6. /\ v.step >= 2 /\ "branch" \notin v.lost => store'.branch
          /\ v.step >= 3 /\ "products" \notin v.lost => store'.ready >= Enough
      <4>1. v.step >= 2 /\ "branch" \notin v.lost => store'.branch
        BY <1>1, <3>3, <3>5
      <4>2. v.step >= 3 /\ "products" \notin v.lost => store'.ready >= Enough
        <5>1. ASSUME v.step >= 3, "products" \notin v.lost
              PROVE  store.ready >= Enough /\ store'.ready >= store.ready
          BY <1>1, <3>3, <3>5, <5>1
        <5> QED
          BY <1>2, <5>1, PageAssumption
      <4> QED
        BY <4>1, <4>2
    <3>7. ~ v.mixed => v.was = Standing(v.thing)'
      BY <3>3, <3>5 DEF Standing
    <3>8. PageKnows(v)'
      BY <2>5, <3>3, <3>5, <3>6, <3>7 DEF PageKnows
    <3> QED
      BY <2>2, <3>8
  <2> QED
    BY <2>4, <2>5
<1>4. PageTypeOK'
  BY <1>1 DEF PageInv, PageTypeOK, Page!Lose
<1>5. Page!AnswerStands'
  BY DEF PageInv, Page!AnswerStands
<1> QED
  BY <1>3, <1>4, <1>5 DEF PageInv

\* What the page is made of comes and goes.
LEMMA StoreKeeps ==
    ASSUME PageInv,
           \/ Page!SubirLogo \/ Page!OpenBranch \/ Page!CloseBranch
           \/ Page!ShowProduct \/ Page!HideProduct
    PROVE  PageInv'
<1>1. store \in [page : {"on", "off"}, logo : BOOLEAN, branch : BOOLEAN, ready : Nat]
      /\ method \in [Methods -> {"none", "on", "off"}]
  BY DEF PageInv, PageTypeOK
<1>2. CASE Page!SubirLogo
  <2>1. store' = [store EXCEPT !.logo = TRUE] /\ UNCHANGED <<method, storeCalls, word>>
    BY <1>2 DEF Page!SubirLogo
  <2>2. /\ store' \in [page : {"on", "off"}, logo : BOOLEAN, branch : BOOLEAN, ready : Nat]
        /\ store'.page = store.page /\ store'.ready = store.ready
        /\ store.logo => store'.logo
        /\ store.branch => store'.branch
    BY <1>1, <2>1
  <2>3. store'.ready >= store.ready
    BY <1>1, <2>2
  <2> QED
    BY <1>1, <2>1, <2>2, <2>3, StoreMoves
<1>3. CASE Page!OpenBranch
  <2>1. store' = [store EXCEPT !.branch = TRUE] /\ UNCHANGED <<method, storeCalls, word>>
    BY <1>3 DEF Page!OpenBranch
  <2>2. /\ store' \in [page : {"on", "off"}, logo : BOOLEAN, branch : BOOLEAN, ready : Nat]
        /\ store'.page = store.page /\ store'.ready = store.ready
        /\ store.logo => store'.logo
        /\ store.branch => store'.branch
    BY <1>1, <2>1
  <2>3. store'.ready >= store.ready
    BY <1>1, <2>2
  <2> QED
    BY <1>1, <2>1, <2>2, <2>3, StoreMoves
<1>4. CASE Page!CloseBranch
  BY <1>1, <1>4, StoreMoves DEF Page!CloseBranch
<1>5. CASE Page!ShowProduct
  BY <1>1, <1>5, StoreMoves DEF Page!ShowProduct
<1>6. CASE Page!HideProduct
  BY <1>1, <1>6, StoreMoves DEF Page!HideProduct
<1> QED
  BY <1>2, <1>3, <1>4, <1>5, <1>6

\* A way to be paid is new: no request is about it.
LEMMA MethodCreated ==
    ASSUME PageInv, NEW m \in Methods, NEW value \in {"on", "off"}, Page!Crear(m, value)
    PROVE  PageInv'
<1>1. /\ method[m] = "none" /\ method' = [method EXCEPT ![m] = value]
      /\ word' = [word EXCEPT ![m] = value] /\ UNCHANGED <<store, storeCalls>>
  BY DEF Page!Crear
<1>2. m \in Page!Things /\ m # "page"
  BY PageAssumption DEF Page!Things
<1>3. PageTypeOK'
  BY <1>1, <1>2 DEF PageInv, PageTypeOK
<1>4. Page!AnswerStands'
  BY <1>1, <1>2 DEF PageInv, PageTypeOK, Page!AnswerStands, Page!Things
<1>5. ASSUME NEW x \in CallIds PROVE PageKnows(storeCalls[x])'
  <2>1. PICK u : u = storeCalls[x]
    OBVIOUS
  <2>2. PageKnows(u)
    BY <2>1 DEF PageInv
  <2>3. CASE u = Page!NoStoreRequest
    BY <1>1, <2>1, <2>3 DEF PageKnows
  <2>4. CASE u \in PageCall /\ u # Page!NoStoreRequest
    <3>1. /\ u.op \in {"publicar", "despublicar"} <=> u.thing = "page"
          /\ u.op = "publicar" =>
                 /\ u.value = "on" /\ store.logo
                 /\ u.step >= 2 /\ "branch" \notin u.lost => store.branch
                 /\ u.step >= 3 /\ "products" \notin u.lost => store.ready >= Enough
                 /\ u.step >= 4 /\ "payment" \notin u.lost => \E y \in Methods : method[y] = "on"
          /\ ~ u.mixed => u.was = Standing(u.thing)
      BY <2>2, <2>4 DEF PageKnows
    <3>2. (\E y \in Methods : method[y] = "on") => \E y \in Methods : method'[y] = "on"
      BY <1>1 DEF PageInv, PageTypeOK
    <3>3. ~ u.mixed => u.was = Standing(u.thing)'
      <4>1. ~ u.mixed => u.thing # m
        BY <1>1, <1>2, <2>4, <3>1 DEF Standing, PageCall
      <4>2. u.thing \in Page!Things
        BY <2>4 DEF PageCall
      <4> QED
        BY <1>1, <3>1, <4>1, <4>2 DEF Standing, PageInv, PageTypeOK, Page!Things
    <3>4. PageKnows(u)'
      BY <1>1, <2>4, <3>1, <3>2, <3>3 DEF PageKnows
    <3> QED
      BY <1>1, <2>1, <3>4
  <2> QED
    BY <2>2, <2>3, <2>4 DEF PageKnows
<1> QED
  BY <1>3, <1>4, <1>5 DEF PageInv

\* A request commits what it decided, and tells the others.
LEMMA PageCommits ==
    ASSUME PageInv, NEW c \in CallIds, Page!Commit(c)
    PROVE  PageInv'
<1>1. PICK u \in PageCall : u = storeCalls[c] /\ PageKnows(u) /\ u # Page!NoStoreRequest
  BY PageServing, NoRequestIsOne DEF Page!Commit, PageInv
<1>2. /\ u.op \in {"publicar", "despublicar"} <=> u.thing = "page"
      /\ ~ u.mixed => u.was = Standing(u.thing)
      /\ u.thing \in Page!Things /\ u.was \in {"on", "off"} /\ u.value \in {"on", "off"}
  BY <1>1 DEF PageKnows, PageCall
<1>3. PICK after : after = Page!Written(Standing(u.thing), u.was, u.value)
  OBVIOUS
<1>4. /\ u.thing = "page" => store' = [store EXCEPT !.page = after] /\ UNCHANGED method
      /\ u.thing # "page" => method' = [method EXCEPT ![u.thing] = after] /\ UNCHANGED store
  BY <1>1, <1>3 DEF Page!Commit, Standing
<1>5. /\ word' = [word EXCEPT ![u.thing] = IF u.mixed THEN "none" ELSE u.value]
      /\ storeCalls' = [x \in CallIds |->
             IF x = c THEN Page!NoStoreRequest
             ELSE IF ~ Page!Serving(x) THEN storeCalls[x]
             ELSE [storeCalls[x] EXCEPT
                      !.mixed = @ \/ storeCalls[x].thing = u.thing,
                      !.lost = IF u.thing # "page" /\ u.value = "off"
                                  THEN @ \union {"payment"} ELSE @]]
  BY <1>1 DEF Page!Commit, Page!Answer
<1>6. /\ after \in {Standing(u.thing), u.value}
      /\ ~ u.mixed => after = u.value
      /\ Standing(u.thing) \in {"none", "on", "off"}
  BY <1>2, <1>3 DEF Page!Written, Standing, PageInv, PageTypeOK, Page!Things
<1>7. /\ \A t \in Page!Things : t # u.thing => Standing(t)' = Standing(t)
      /\ Standing(u.thing)' = after
  BY <1>2, <1>4 DEF Standing, PageInv, PageTypeOK, Page!Things
<1>8. /\ store'.logo = store.logo /\ store'.branch = store.branch /\ store'.ready = store.ready
      /\ store' \in [page : {"on", "off"}, logo : BOOLEAN, branch : BOOLEAN, ready : Nat]
      /\ method' \in [Methods -> {"none", "on", "off"}]
  <2>1. u.thing = "page" => after \in {"on", "off"}
    BY <1>2, <1>6 DEF Standing, PageInv, PageTypeOK
  <2>2. after \in {"none", "on", "off"}
    BY <1>2, <1>6
  <2> QED
    BY <1>4, <2>1, <2>2 DEF PageInv, PageTypeOK
<1>9. ASSUME NEW x \in CallIds PROVE PageKnows(storeCalls[x])'
  <2>1. PICK v : v = storeCalls[x]
    OBVIOUS
  <2>2. PICK w : w = storeCalls'[x]
    OBVIOUS
  <2>3. CASE x = c \/ v = Page!NoStoreRequest
    <3>1. w = Page!NoStoreRequest
      BY <1>5, <2>1, <2>2, <2>3, NoRequestIsOne DEF Page!Serving
    <3>2. PageKnows(w)'
      BY <3>1 DEF PageKnows
    <3> QED
      BY <2>2, <3>2
  <2>4. CASE x # c /\ v # Page!NoStoreRequest
    <3> DEFINE met == v.mixed \/ v.thing = u.thing
               missing == IF u.thing # "page" /\ u.value = "off"
                          THEN v.lost \union {"payment"} ELSE v.lost
               w1 == [v EXCEPT !.mixed = met]
    <3>1. PageKnows(v) /\ v \in PageCall
      BY <2>1, <2>4 DEF PageInv, PageKnows
    <3>2. w = [w1 EXCEPT !.lost = missing]
      BY <1>5, <2>1, <2>2, <2>4, <3>1, NoRequestIsOne DEF Page!Serving, PageCall
    <3>3. /\ met \in BOOLEAN /\ (v.mixed \/ v.thing = u.thing => met)
          /\ missing \in SUBSET {"branch", "products", "payment"} /\ v.lost \subseteq missing
          /\ u.thing # "page" /\ u.value = "off" => "payment" \in missing
      BY <3>1 DEF PageCall
    <3> HIDE DEF met, missing
    <3>4. /\ w1 \in PageCall /\ w1.op = v.op /\ w1.thing = v.thing /\ w1.was = v.was
          /\ w1.value = v.value /\ w1.step = v.step /\ w1.mixed = met
      BY <3>1, <3>3 DEF PageCall
    <3> HIDE DEF w1
    <3>5. /\ w \in PageCall /\ w.op = v.op /\ w.thing = v.thing /\ w.was = v.was
          /\ w.value = v.value /\ w.step = v.step /\ w.mixed = met /\ w.lost = missing
      BY <3>2, <3>3, <3>4 DEF PageCall
    <3>6. /\ v.op \in {"publicar", "despublicar"} <=> v.thing = "page"
          /\ v.op = "publicar" =>
                 /\ v.value = "on" /\ store.logo
                 /\ v.step >= 2 /\ "branch" \notin v.lost => store.branch
                 /\ v.step >= 3 /\ "products" \notin v.lost => store.ready >= Enough
                 /\ v.step >= 4 /\ "payment" \notin v.lost => \E y \in Methods : method[y] = "on"
          /\ ~ v.mixed => v.was = Standing(v.thing)
      BY <2>4, <3>1 DEF PageKnows
    <3>7. "payment" \notin missing =>
              ((\E y \in Methods : method[y] = "on") => \E y \in Methods : method'[y] = "on")
      <4>1. CASE u.thing = "page"
        BY <1>4, <4>1
      <4>2. CASE u.thing # "page" /\ u.value = "on"
        <5>1. u.thing \in Methods /\ after \in {method[u.thing], "on"}
          BY <1>2, <1>6, <4>2 DEF Page!Things, Standing
        <5> QED
          BY <1>4, <4>2, <5>1 DEF PageInv, PageTypeOK
      <4> QED
        BY <1>2, <3>3, <4>1, <4>2
    <3>8. ~ w.mixed => w.was = Standing(w.thing)'
      BY <1>7, <3>1, <3>3, <3>5, <3>6 DEF PageCall
    <3>9. w.op = "publicar" =>
              /\ w.value = "on" /\ store'.logo
              /\ w.step >= 2 /\ "branch" \notin w.lost => store'.branch
              /\ w.step >= 3 /\ "products" \notin w.lost => store'.ready >= Enough
              /\ w.step >= 4 /\ "payment" \notin w.lost => \E y \in Methods : method'[y] = "on"
      BY <1>8, <3>3, <3>5, <3>6, <3>7
    <3>10. PageKnows(w)'
      BY <3>5, <3>6, <3>8, <3>9 DEF PageKnows
    <3> QED
      BY <2>2, <3>10
  <2> QED
    BY <2>3, <2>4
<1>10. PageTypeOK'
  BY <1>2, <1>5, <1>8 DEF PageInv, PageTypeOK
<1>11. Page!AnswerStands'
  <2>1. \A t \in Page!Things : word[t] # "none" => word[t] = Standing(t)
    BY DEF PageInv, Page!AnswerStands, Standing
  <2>2. \A t \in Page!Things : word'[t] # "none" => word'[t] = Standing(t)'
    BY <1>2, <1>5, <1>6, <1>7, <2>1 DEF PageInv, PageTypeOK
  <2> QED
    BY <2>2 DEF Page!AnswerStands, Standing
<1> QED
  BY <1>9, <1>10, <1>11 DEF PageInv

\* Every step of the page.
LEMMA PageKeeps == PageInv /\ [Page!StorefrontNext]_pageVars => PageInv'
<1> SUFFICES ASSUME PageInv, [Page!StorefrontNext]_pageVars PROVE PageInv'
  OBVIOUS
<1>1. CASE UNCHANGED pageVars
  <2>1. UNCHANGED <<store, method, storeCalls, word>>
    BY <1>1 DEF pageVars
  <2> QED
    BY <2>1 DEF PageInv, PageTypeOK, PageKnows, Standing, Page!AnswerStands
<1>2. CASE Page!StorefrontNext
  BY <1>2, BeginsKeep, EvaluarKeeps, PageCommits, MethodCreated, StoreKeeps
     DEF Page!StorefrontNext
<1> QED
  BY <1>1, <1>2

-----------------------------------------------------------------------------
(* The offers, and the sales under them.                                   *)

\* An offer that was made.
MadeOffer ==
    {o \in [kind : {"percent", "fixed", "clearance"}, value : Nat, coupon : BOOLEAN,
            reach : SUBSET Garments, channels : SUBSET {"ONLINE", "POS"},
            max : Nat \union {None}, perUser : Nat \union {None},
            made : {TRUE}, on : BOOLEAN, past : BOOLEAN, uses : Nat] :
        o.kind = "percent" => o.value <= 90}

\* What a session knows of the offers.
KnownOffers == UNION {[some -> MadeOffer] : some \in SUBSET BranchIds}

\* An amount for each of some garments.
Amounts == UNION {[some -> Nat] : some \in SUBSET Garments}

\* A cart that has its prices.
CartSale == [stage : {"cart"}, buyer : CallIds, known : KnownOffers,
             coupon : BranchIds \union {None}, units : Amounts]

\* A cart that was quoted, with what its offers take off.
QuotedSale == [stage : {"quoted"}, buyer : CallIds, known : KnownOffers,
               coupon : BranchIds \union {None}, units : Amounts,
               discounts : UNION {[some -> Nat] : some \in SUBSET BranchIds}]

\* A sale of the till, with the offer of each line.
TillSale == [stage : {"till"}, buyer : CallIds, known : KnownOffers,
             pick : UNION {[some -> BranchIds \union {None}] : some \in SUBSET Garments}]

\* A sale under way.
SaleShape == CartSale \union QuotedSale \union TillSale

\* The types of the part.
OffersTypeOK ==
    /\ offer \in [BranchIds -> MadeOffer \union {Sales!NoOffer}]
    /\ rows \in [BranchIds -> Nat]
    /\ online \in [BranchIds -> [CallIds -> Nat]]
    /\ sale \in [CallIds -> SaleShape \union {Sales!NotSelling}]

\* An offer that is there is what a session knows of it, but for its uses, and
\* those only grow.
StillTheOffer(known, o) ==
    /\ offer[o] \in MadeOffer
    /\ offer[o].kind = known.kind /\ offer[o].value = known.value
    /\ offer[o].max = known.max /\ offer[o].perUser = known.perUser
    /\ known.uses <= rows[o]

\* A clearance above the price of a garment.
Dearer(g) ==
    \E o \in BranchIds : /\ offer[o].made /\ offer[o].kind = "clearance"
                         /\ offer[o].value > OfferPrice[g]

\* What a step does to no offer: it is the same offer after it, and none of its
\* rows has gone.
OffersLast ==
    \A o \in BranchIds :
        /\ offer[o] \in MadeOffer =>
              /\ offer'[o] \in MadeOffer
              /\ offer'[o].kind = offer[o].kind /\ offer'[o].value = offer[o].value
              /\ offer'[o].max = offer[o].max /\ offer'[o].perUser = offer[o].perUser
        /\ rows'[o] \in Nat /\ rows[o] <= rows'[o]

\* What a sale under way may rely on.
SaleKnows(u) ==
    /\ u.stage # "idle" => \A o \in DOMAIN u.known : StillTheOffer(u.known[o], o)
    /\ u.stage \in {"cart", "quoted"} =>
           \A g \in DOMAIN u.units : u.units[g] <= OfferPrice[g] \/ Dearer(g)
    /\ u.stage = "cart" /\ u.coupon # None =>
           u.coupon \in DOMAIN u.known /\ u.known[u.coupon].coupon
    /\ u.stage = "quoted" =>
           /\ DOMAIN u.discounts \subseteq DOMAIN u.known
           /\ \A o \in DOMAIN u.discounts : u.known[o].max # None =>
                  u.known[o].uses < u.known[o].max
           /\ Sales!Off(u.discounts) <= Sales!Subtotal(u.units)
    /\ u.stage = "till" =>
           \A g \in DOMAIN u.pick : u.pick[g] # None => u.pick[g] \in DOMAIN u.known

\* The uses of an offer: the rows, of which some are of the web.
UsesOK(o) ==
    /\ o \notin raced => offer[o].uses = rows[o]
    /\ offer[o].uses <= rows[o]
    /\ SumFunction(online[o]) <= rows[o]
    /\ ~ offer[o].made => \A b \in CallIds : online[o][b] = 0
    /\ offer[o].made =>
          /\ offer[o].max # None /\ o \notin raced => SumFunction(online[o]) <= offer[o].max
          /\ offer[o].perUser # None => \A b \in CallIds : online[o][b] <= offer[o].perUser

\* The inductive invariant.
OffersInv ==
    /\ OffersTypeOK
    /\ \A c \in CallIds : SaleKnows(sale[c])
    /\ \A o \in BranchIds : UsesOK(o)

\* What an offer that was made says.
LEMMA MadeSays ==
    ASSUME NEW o \in MadeOffer
    PROVE  /\ o.kind \in {"percent", "fixed", "clearance"} /\ o.value \in Nat
           /\ o.coupon \in BOOLEAN /\ o.reach \subseteq Garments
           /\ o.max \in Nat \union {None} /\ o.perUser \in Nat \union {None}
           /\ o.made = TRUE /\ o.on \in BOOLEAN /\ o.past \in BOOLEAN /\ o.uses \in Nat
           /\ o.kind = "percent" => o.value <= 90
BY DEF MadeOffer

\* An offer that is switched, that lapses or that is used is still the offer.
LEMMA MadeStays ==
    ASSUME NEW o \in MadeOffer, NEW b \in BOOLEAN, NEW n \in Nat
    PROVE  /\ [o EXCEPT !.on = b] \in MadeOffer /\ [o EXCEPT !.past = b] \in MadeOffer
           /\ [o EXCEPT !.uses = n] \in MadeOffer
           /\ \A p \in {[o EXCEPT !.on = b], [o EXCEPT !.past = b], [o EXCEPT !.uses = n]} :
                 /\ p.kind = o.kind /\ p.value = o.value /\ p.max = o.max
                 /\ p.perUser = o.perUser /\ p.coupon = o.coupon
           /\ \A p \in {[o EXCEPT !.on = b], [o EXCEPT !.past = b]} : p.uses = o.uses
           /\ [o EXCEPT !.uses = n].uses = n
BY DEF MadeOffer

\* The offers and their counts, one by one.
LEMMA OffersTyped ==
    ASSUME OffersTypeOK, NEW o \in BranchIds
    PROVE  /\ offer[o] \in MadeOffer \/ offer[o] = Sales!NoOffer
           /\ offer[o].made => offer[o] \in MadeOffer
           /\ offer[o].on => offer[o] \in MadeOffer
           /\ offer[o] \in MadeOffer => offer[o].made
           /\ offer[o].made \in BOOLEAN /\ offer[o].on \in BOOLEAN
           /\ offer[o].uses \in Nat /\ rows[o] \in Nat
           /\ online[o] \in [CallIds -> Nat]
<1>1. /\ offer[o] \in MadeOffer \/ offer[o] = Sales!NoOffer
      /\ rows[o] \in Nat /\ online[o] \in [CallIds -> Nat]
  BY DEF OffersTypeOK
<1>2. CASE offer[o] \in MadeOffer
  BY <1>1, <1>2, MadeSays
<1>3. CASE offer[o] = Sales!NoOffer
  <2>1. PICK v : v = offer[o]
    OBVIOUS
  <2>2. v.made = FALSE /\ v.on = FALSE /\ v.uses = 0
    BY <1>3, <2>1 DEF Sales!NoOffer
  <2>3. v \notin MadeOffer
    BY <2>2, MadeSays
  <2>4. v.made \in BOOLEAN /\ v.on \in BOOLEAN /\ ~ v.made /\ ~ v.on
    BY <2>2
  <2>5. v.uses \in Nat
    BY <2>2
  <2> QED
    BY <1>1, <1>3, <2>1, <2>3, <2>4, <2>5
<1> QED
  BY <1>1, <1>2, <1>3

\* What a session knows, as a function on some of the offers.
LEMMA KnownIs ==
    ASSUME NEW k
    PROVE  k \in KnownOffers <=>
             /\ DOMAIN k \subseteq BranchIds /\ k \in [DOMAIN k -> MadeOffer]
BY DEF KnownOffers

\* The sum of the instance is the sum of Sums.
LEMMA SalesSums ==
    ASSUME NEW f, NEW D
    PROVE  /\ Sales!SumFunction(f) = SumFunction(f)
           /\ Sales!SumFunctionOnSet(f, D) = SumFunctionOnSet(f, D)
<1>1. Sales!SumFunction(f) = SumFunction(f)
  BY Zenon DEF Sales!SumFunction, SumFunction, Sales!SumFunctionOnSet, SumFunctionOnSet,
           Sales!FoldFunctionOnSet, FoldFunctionOnSet, Sales!MapThenFoldSet, MapThenFoldSet
<1>2. Sales!SumFunctionOnSet(f, D) = SumFunctionOnSet(f, D)
  BY Zenon DEF Sales!SumFunctionOnSet, SumFunctionOnSet,
           Sales!FoldFunctionOnSet, FoldFunctionOnSet, Sales!MapThenFoldSet, MapThenFoldSet
<1> QED
  BY <1>1, <1>2

\* The least of a set of amounts is one of them, and no more than any.
LEMMA LeastAmount ==
    ASSUME NEW S \in SUBSET Nat, S # {}
    PROVE  Sales!Min(S) \in S /\ \A n \in S : Sales!Min(S) <= n
<1>1. PICK m \in S : \A n \in S : ~(<<n, m>> \in OpToRel(<, Nat))
  BY WFMin, NatLessThanWellFounded
<1>2. ASSUME NEW n \in S, ~ (m <= n) PROVE FALSE
  <2>1. <<n, m>> \in Nat \X Nat
    OBVIOUS
  <2>2. <<n, m>>[1] < <<n, m>>[2]
    BY <1>2
  <2>3. <<n, m>> \in OpToRel(<, Nat)
    BY <2>1, <2>2 DEF OpToRel
  <2> QED
    BY <1>1, <2>3
<1>3. \E x \in S : \A y \in S : x <= y
  BY <1>2
<1> QED
  BY <1>3 DEF Sales!Min

\* What is given of the shop: its garments, their prices, and the deals it may
\* make.
LEMMA OffersSay ==
    /\ None \notin BranchIds
    /\ IsFiniteSet(Garments) /\ IsFiniteSet(CallIds)
    /\ OfferPrice \in [Garments -> Nat]
<1>1. \A S : Sales!IsFiniteSet(S) <=> IsFiniteSet(S)
  BY Zenon DEF Sales!IsFiniteSet, IsFiniteSet
<1> QED
  BY <1>1, OffersAssumption DEF Sales!PromotionsAssumption

\* A deal that is valid makes an offer.
LEMMA DealsMakeOffers ==
    ASSUME NEW deal \in OfferDeals, Sales!Valid(deal)
    PROVE  Sales!NewOffer(deal) \in MadeOffer
<1>1. PICK cp, mx, pu, kd, ch, re, va :
          /\ cp = deal.coupon /\ mx = deal.max /\ pu = deal.perUser /\ kd = deal.kind
          /\ ch = deal.channels /\ re = deal.reach /\ va = deal.value
  OBVIOUS
<1>2. kd \in {"percent", "fixed", "clearance"} /\ va \in Nat
  BY <1>1, OffersAssumption DEF Sales!PromotionsAssumption
<1>3. cp \in BOOLEAN
  BY Zenon, <1>1, OffersAssumption DEF Sales!PromotionsAssumption
<1>4. re \subseteq Garments /\ ch \subseteq {"ONLINE", "POS"}
  BY <1>1, OffersAssumption DEF Sales!PromotionsAssumption
<1>5. mx \in Nat \union {None} /\ pu \in Nat \union {None}
  BY <1>1, OffersAssumption DEF Sales!PromotionsAssumption
<1>6. kd = "percent" => va <= 90
  BY <1>1 DEF Sales!Valid
<1>7. Sales!NewOffer(deal) =
          [kind |-> kd, value |-> va, coupon |-> cp, reach |-> re, channels |-> ch,
           max |-> mx, perUser |-> pu, made |-> TRUE, on |-> TRUE, past |-> FALSE, uses |-> 0]
  BY <1>1 DEF Sales!NewOffer
<1> QED
  BY <1>2, <1>3, <1>4, <1>5, <1>6, <1>7 DEF MadeOffer

\* A percentage of an amount.
LEMMA HalfUpIsNat ==
    ASSUME NEW amount \in Nat, NEW percent \in Nat
    PROVE  Sales!HalfUp(amount, percent) \in Nat
<1>1. PICK p \in Nat : p = amount * percent
  OBVIOUS
<1>2. (p + 50) \div 100 \in Nat
  OBVIOUS
<1> QED
  BY <1>1, <1>2 DEF Sales!HalfUp

\* What an offer leaves of a price, and what it takes off a base.
LEMMA WhatAnOfferLeaves ==
    ASSUME NEW o \in MadeOffer, NEW regular \in Nat
    PROVE  /\ Sales!Final(regular, o) \in Nat
           /\ o.kind = "clearance" => Sales!Final(regular, o) = o.value
<1>1. PICK v \in Nat : v = o.value /\ (o.kind = "percent" => v <= 90)
  BY MadeSays
<1>5. 100 - v \in Nat \/ o.kind # "percent"
  BY <1>1
<1>2. CASE o.kind = "percent"
  BY <1>1, <1>2, <1>5, HalfUpIsNat DEF Sales!Final
<1>3. CASE o.kind = "fixed"
  BY <1>1, <1>3 DEF Sales!Final
<1>4. CASE o.kind = "clearance"
  BY <1>1, <1>4 DEF Sales!Final
<1> QED
  BY <1>2, <1>3, <1>4, MadeSays

\* No offer takes more off than there is to pay.
LEMMA AmountWithin ==
    ASSUME NEW o \in MadeOffer, NEW base \in Nat
    PROVE  Sales!Amount(o, base) \in 0 .. base
<1>1. CASE o.kind = "percent"
  <2>1. PICK h \in Nat : h = Sales!HalfUp(base, o.value)
    BY MadeSays, HalfUpIsNat
  <2>2. Sales!Min({base, h}) \in {base, h} /\ Sales!Min({base, h}) <= base
    BY LeastAmount
  <2>3. Sales!Amount(o, base) = Sales!Min({base, h})
    BY <1>1, <2>1 DEF Sales!Amount
  <2> QED
    BY <2>2, <2>3
<1>2. CASE o.kind = "fixed"
  <2>1. o.value \in Nat
    BY MadeSays
  <2>2. Sales!Min({base, o.value}) \in {base, o.value} /\ Sales!Min({base, o.value}) <= base
    BY <2>1, LeastAmount
  <2>3. Sales!Amount(o, base) = Sales!Min({base, o.value})
    BY <1>2 DEF Sales!Amount
  <2> QED
    BY <2>1, <2>2, <2>3
<1>3. CASE o.kind = "clearance"
  BY <1>3 DEF Sales!Amount
<1> QED
  BY <1>1, <1>2, <1>3, MadeSays

\* The first of the best and the coupon together take off no more than the base.
LEMMA OffWithin ==
    ASSUME NEW known \in KnownOffers, NEW base \in Nat,
           NEW first \in BranchIds \union {None}, NEW coupon \in BranchIds \union {None},
           first # None => first \in DOMAIN known,
           coupon # None => coupon \in DOMAIN known,
           coupon = None \/ first # coupon
    PROVE  LET off == Sales!Discounts(known, base, first, coupon)
           IN  /\ DOMAIN off \subseteq DOMAIN known
               /\ DOMAIN off \subseteq {first, coupon} \ {None}
               /\ off \in [DOMAIN off -> Nat]
               /\ Sales!Off(off) \in Nat /\ Sales!Off(off) <= base
<1>1. PICK f \in Nat : f = (IF first = None THEN 0 ELSE Sales!Amount(known[first], base)) /\ f <= base
  BY AmountWithin, KnownIs
<1>2. PICK r \in Nat : r = (IF coupon = None THEN 0 ELSE Sales!Amount(known[coupon], base - f)) /\ r <= base - f
  BY <1>1, AmountWithin, KnownIs
<1> DEFINE D == {p \in {first} : f > 0} \union {p \in {coupon} : r > 0}
           d == [o \in D |-> IF o = first THEN f ELSE r]
<1>3. Sales!Discounts(known, base, first, coupon) = d
  BY <1>1, <1>2 DEF Sales!Discounts
<1>4. D \subseteq {first, coupon} \ {None} /\ D \subseteq DOMAIN known
  BY <1>1, <1>2
<1>5. d \in [D -> Nat] /\ DOMAIN d = D
  OBVIOUS
<1>6. IsFiniteSet({first}) /\ IsFiniteSet({coupon}) /\ IsFiniteSet({})
  BY FS_Singleton, FS_EmptySet
<1>7. SumFunctionOnSet(d, D) \in Nat /\ SumFunctionOnSet(d, D) <= base
  <2>1. CASE f > 0 /\ r > 0
    <3>1. D = {first} \union {coupon} /\ first # coupon /\ coupon \notin {first}
      BY <1>2, <2>1
    <3>2. d[first] = f /\ d[coupon] = r
      BY <3>1
    <3> HIDE DEF d, D
    <3>3. \A x \in {first} \union {coupon} : d[x] \in Int
      BY <3>2
    <3>4. SumFunctionOnSet(d, {first} \union {coupon}) = d[coupon] + SumFunctionOnSet(d, {first})
      BY <1>6, <3>1, <3>3, SumWith
    <3>8. d[first] \in Int
      BY <3>3
    <3>5. SumFunctionOnSet(d, {first}) = d[first]
      BY <3>8, SumOfOne
    <3>6. SumFunctionOnSet(d, D) = r + f
      BY <3>1, <3>2, <3>4, <3>5
    <3>7. r + f \in Nat /\ r + f <= base
      BY <1>1, <1>2
    <3> QED
      BY <3>6, <3>7
  <2>2. CASE f > 0 /\ ~ (r > 0)
    <3>1. D = {first} /\ d[first] = f
      BY <2>2
    <3> HIDE DEF d, D
    <3>3. d[first] \in Int
      BY <3>1
    <3>2. SumFunctionOnSet(d, {first}) = d[first]
      BY <3>3, SumOfOne
    <3> QED
      BY <1>1, <3>1, <3>2
  <2>3. CASE ~ (f > 0) /\ r > 0
    <3>1. D = {coupon} /\ (coupon # first => d[coupon] = r)
      BY <2>3
    <3>2. coupon # None
      BY <1>2, <2>3
    <3>3. d[coupon] = r /\ r <= base /\ r \in Nat
      BY <1>1, <1>2, <3>1, <3>2
    <3>5. D = {coupon}
      BY <3>1
    <3> HIDE DEF d, D
    <3>4. SumFunctionOnSet(d, {coupon}) = d[coupon]
      BY <3>3, SumOfOne
    <3> QED
      BY <3>3, <3>4, <3>5
  <2>4. CASE ~ (f > 0) /\ ~ (r > 0)
    <3>1. D = {}
      BY <2>4
    <3> HIDE DEF d, D
    <3> QED
      BY <3>1, SumOfNone
  <2> QED
    BY <2>1, <2>2, <2>3, <2>4
<1>8. Sales!Off(d) = SumFunctionOnSet(d, D)
  BY <1>5, SalesSums, SumOfAll DEF Sales!Off
<1> HIDE DEF d, D
<1> QED
  BY <1>3, <1>4, <1>5, <1>7, <1>8

\* A price is a natural number.
LEMMA PriceIs == \A g \in Garments : OfferPrice[g] \in Nat
BY OffersSay

\* The sales under way, one by one.
LEMMA SaleIs ==
    ASSUME OffersInv, NEW c \in CallIds
    PROVE  /\ sale[c] \in SaleShape \/ sale[c] = Sales!NotSelling
           /\ SaleKnows(sale[c])
BY DEF OffersInv, OffersTypeOK

\* A sale that is not under way.
LEMMA NotSellingIs ==
    /\ Sales!NotSelling.stage = "idle"
    /\ SaleKnows(Sales!NotSelling)
    /\ \A u \in SaleShape : u.stage # "idle"
<1>1. Sales!NotSelling.stage = "idle"
  BY DEF Sales!NotSelling
<1>2. \A u \in SaleShape : u.stage # "idle"
  BY DEF SaleShape, CartSale, QuotedSale, TillSale
<1>3. SaleKnows(Sales!NotSelling)
  BY <1>1 DEF SaleKnows
<1> QED
  BY <1>1, <1>2, <1>3

\* Each stage, and what there is in it.
LEMMA StagesAre ==
    ASSUME NEW u \in SaleShape
    PROVE  /\ u.stage = "cart" => u \in CartSale
           /\ u.stage = "quoted" => u \in QuotedSale
           /\ u.stage = "till" => u \in TillSale
           /\ u.stage \in {"cart", "quoted", "till"}
           /\ u.buyer \in CallIds /\ u.known \in KnownOffers
<1>1. CASE u \in CartSale
  BY <1>1 DEF CartSale
<1>2. CASE u \in QuotedSale
  BY <1>2 DEF QuotedSale
<1>3. CASE u \in TillSale
  BY <1>3 DEF TillSale
<1> QED
  BY <1>1, <1>2, <1>3 DEF SaleShape

\* The offer that a session knows still is, and so is a clearance above a price.
LEMMA StillStays ==
    ASSUME OffersTypeOK, OffersLast, NEW o \in BranchIds, NEW k \in MadeOffer, StillTheOffer(k, o)
    PROVE  StillTheOffer(k, o)'
<1>1. k.uses \in Nat /\ rows[o] \in Nat /\ rows'[o] \in Nat /\ rows[o] <= rows'[o] /\ k.uses <= rows[o]
  BY MadeSays, OffersTyped DEF OffersLast, StillTheOffer
<1>2. k.uses <= rows'[o]
  BY <1>1
<1> QED
  BY <1>2 DEF OffersLast, StillTheOffer

\* A clearance above a price stays one.
LEMMA DearerStays ==
    ASSUME OffersTypeOK, OffersLast, NEW g \in Garments, Dearer(g)
    PROVE  Dearer(g)'
<1>1. PICK o \in BranchIds : /\ offer[o].made /\ offer[o].kind = "clearance"
                            /\ offer[o].value > OfferPrice[g]
  BY DEF Dearer
<1>2. offer[o] \in MadeOffer
  BY <1>1, OffersTyped
<1>3. /\ offer'[o] \in MadeOffer /\ offer'[o].kind = offer[o].kind
      /\ offer'[o].value = offer[o].value
  BY <1>2 DEF OffersLast
<1>4. offer'[o].made = TRUE
  <2>1. PICK v : v = offer'[o]
    OBVIOUS
  <2> QED
    BY <1>3, <2>1, MadeSays
<1>5. offer'[o].value > OfferPrice[g]
  BY <1>1, <1>3
<1> QED
  BY <1>1, <1>3, <1>4, <1>5 DEF Dearer

\* What a sale relies on stays so while the offers last.
LEMMA SaleStillKnows ==
    ASSUME OffersTypeOK, OffersLast, NEW u \in SaleShape \union {Sales!NotSelling}, SaleKnows(u)
    PROVE  SaleKnows(u)'
<1>1. CASE u = Sales!NotSelling
  BY <1>1, NotSellingIs DEF SaleKnows
<1>2. CASE u \in SaleShape
  <2>1. u.known \in KnownOffers /\ u.stage # "idle"
    BY <1>2, StagesAre, NotSellingIs
  <2>2. ASSUME NEW o \in DOMAIN u.known PROVE StillTheOffer(u.known[o], o)'
    <3>1. o \in BranchIds /\ u.known[o] \in MadeOffer /\ StillTheOffer(u.known[o], o)
      BY <2>1, <2>2, KnownIs DEF SaleKnows
    <3>2. PICK k : k = u.known[o]
      OBVIOUS
    <3> QED
      BY <3>1, <3>2, StillStays
  <2>3. ASSUME u.stage \in {"cart", "quoted"}, NEW g \in DOMAIN u.units
        PROVE  u.units[g] <= OfferPrice[g] \/ Dearer(g)'
    <3>1. g \in Garments
      <4>1. u \in CartSale \/ u \in QuotedSale
        BY <1>2, <2>3, StagesAre
      <4> QED
        BY <2>3, <4>1 DEF CartSale, QuotedSale, Amounts
    <3>2. u.units[g] <= OfferPrice[g] \/ Dearer(g)
      BY <2>3 DEF SaleKnows
    <3> QED
      BY <3>1, <3>2, DearerStays
  <2> QED
    BY <2>2, <2>3 DEF SaleKnows
<1> QED
  BY <1>1, <1>2

\* What is left to show of a step by which the offers last.
LEMMA OffersKeepBy ==
    ASSUME OffersInv, OffersTypeOK', OffersLast,
           \A o \in BranchIds : UsesOK(o)',
           \A c \in CallIds : \/ sale'[c] = sale[c]
                             \/ sale'[c] = Sales!NotSelling
                             \/ SaleKnows(sale[c])'
    PROVE  OffersInv'
<1>1. ASSUME NEW c \in CallIds PROVE SaleKnows(sale[c])'
  <2>1. CASE sale'[c] = sale[c]
    <3>1. PICK u : u = sale[c]
      OBVIOUS
    <3>2. u \in SaleShape \union {Sales!NotSelling} /\ SaleKnows(u)
      BY <3>1, SaleIs
    <3>3. SaleKnows(u)'
      BY <3>2, SaleStillKnows DEF OffersInv
    <3> QED
      BY <2>1, <3>1, <3>3
  <2>2. CASE sale'[c] = Sales!NotSelling
    BY <2>2, NotSellingIs DEF SaleKnows
  <2> QED
    BY <2>1, <2>2
<1> QED
  BY <1>1 DEF OffersInv

\* The uses of an offer that none is added to.
LEMMA UsesStay ==
    ASSUME NEW o \in BranchIds, UsesOK(o), raced \subseteq raced',
           rows'[o] = rows[o], online'[o] = online[o],
           offer'[o].made = offer[o].made, offer'[o].uses = offer[o].uses,
           offer[o].made => offer'[o].max = offer[o].max /\ offer'[o].perUser = offer[o].perUser
    PROVE  UsesOK(o)'
BY DEF UsesOK

\* Nothing is made, nothing is sold.
LEMMA OffersStart == Sales!PromotionInit => OffersInv
<1> SUFFICES ASSUME Sales!PromotionInit PROVE OffersInv
  OBVIOUS
<1>1. \A o \in BranchIds : /\ offer[o] = Sales!NoOffer /\ rows[o] = 0
                          /\ online[o] = [b \in CallIds |-> 0] /\ o \notin raced
  BY DEF Sales!PromotionInit
<1>2. \A c \in CallIds : sale[c] = Sales!NotSelling
  BY DEF Sales!PromotionInit
<1>3. OffersTypeOK
  BY DEF Sales!PromotionInit, OffersTypeOK
<1>4. ASSUME NEW o \in BranchIds PROVE UsesOK(o)
  <2>1. PICK f : f = online[o]
    OBVIOUS
  <2>2. f = [b \in CallIds |-> 0] /\ DOMAIN f = CallIds /\ \A b \in CallIds : f[b] = 0
    BY <1>1, <2>1
  <2>3. SumFunction(f) = 0
    BY <2>2, OffersSay, SumOfAll, SumOfZeros
  <2>4. offer[o].uses = 0 /\ offer[o].made = FALSE
    BY <1>1 DEF Sales!NoOffer
  <2> QED
    BY <1>1, <2>1, <2>2, <2>3, <2>4 DEF UsesOK
<1>5. ASSUME NEW c \in CallIds PROVE SaleKnows(sale[c])
  BY <1>2, NotSellingIs
<1> QED
  BY <1>3, <1>4, <1>5 DEF OffersInv

\* What a session loads is what there is of the active offers.
LEMMA LoadedKnows ==
    ASSUME OffersInv
    PROVE  /\ Sales!Loaded \in KnownOffers
           /\ \A o \in DOMAIN Sales!Loaded :
                 /\ o \in BranchIds /\ Sales!Loaded[o] = offer[o]
                 /\ StillTheOffer(Sales!Loaded[o], o)
<1>1. DOMAIN Sales!Loaded = {p \in BranchIds : offer[p].on}
  BY DEF Sales!Loaded
<1>2. ASSUME NEW o \in DOMAIN Sales!Loaded
      PROVE  /\ o \in BranchIds /\ Sales!Loaded[o] = offer[o] /\ offer[o] \in MadeOffer
             /\ StillTheOffer(Sales!Loaded[o], o)
  <2>1. o \in BranchIds /\ offer[o].on
    BY <1>1, <1>2
  <2>2. Sales!Loaded[o] = offer[o]
    BY <1>1, <1>2 DEF Sales!Loaded
  <2>3. offer[o] \in MadeOffer /\ offer[o].uses <= rows[o]
    BY <2>1, OffersTyped DEF OffersInv, UsesOK
  <2> QED
    BY <2>1, <2>2, <2>3 DEF StillTheOffer
<1>3. Sales!Loaded = [o \in DOMAIN Sales!Loaded |-> Sales!Loaded[o]]
  BY DEF Sales!Loaded
<1>4. Sales!Loaded \in KnownOffers
  BY <1>1, <1>2, <1>3, KnownIs
<1> QED
  BY <1>2, <1>4

\* The price of a garment is the regular one or less, but for a clearance above it.
LEMMA UnitWithin ==
    ASSUME NEW known \in KnownOffers, \A o \in DOMAIN known : known[o] = offer[o],
           NEW g \in Garments, NEW channel
    PROVE  /\ Sales!Unit(known, g, channel) \in Nat
           /\ Sales!Unit(known, g, channel) <= OfferPrice[g] \/ Dearer(g)
<1> DEFINE finals == {Sales!Final(OfferPrice[g], known[o]) : o \in Sales!Automatic(known, g, channel)}
<1>1. Sales!Unit(known, g, channel) = IF finals = {} THEN OfferPrice[g] ELSE Sales!Min(finals)
  BY DEF Sales!Unit
<1>2. OfferPrice[g] \in Nat
  BY PriceIs
<1>3. ASSUME NEW o \in Sales!Automatic(known, g, channel)
      PROVE  /\ Sales!Final(OfferPrice[g], known[o]) \in Nat
             /\ Sales!Final(OfferPrice[g], known[o]) <= OfferPrice[g] \/ Dearer(g)
  <2>1. /\ o \in DOMAIN known
        /\ \/ known[o].kind = "clearance"
           \/ Sales!Final(OfferPrice[g], known[o]) < OfferPrice[g]
    BY <1>3 DEF Sales!Automatic
  <2>2. PICK k : k = known[o]
    OBVIOUS
  <2>3. k \in MadeOffer /\ o \in BranchIds /\ k = offer[o]
    BY <2>1, <2>2, KnownIs
  <2>4. /\ Sales!Final(OfferPrice[g], k) \in Nat /\ k.made = TRUE /\ k.value \in Nat
        /\ k.kind = "clearance" => Sales!Final(OfferPrice[g], k) = k.value
    BY <1>2, <2>3, WhatAnOfferLeaves, MadeSays
  <2>5. ASSUME k.kind = "clearance", ~ (k.value <= OfferPrice[g]) PROVE Dearer(g)
    BY <1>2, <2>3, <2>4, <2>5 DEF Dearer
  <2> QED
    BY <1>2, <2>1, <2>2, <2>4, <2>5
<1>4. CASE finals = {}
  BY <1>1, <1>2, <1>4
<1>5. CASE finals # {}
  <2>1. finals \in SUBSET Nat
    BY <1>3
  <2>2. PICK m : m = Sales!Min(finals) /\ m \in finals
    <3> HIDE DEF finals
    <3> QED
      BY <1>5, <2>1, LeastAmount
  <2>3. m \in Nat /\ (m <= OfferPrice[g] \/ Dearer(g))
    BY <1>3, <2>2
  <2> QED
    BY <1>1, <1>5, <2>2, <2>3
<1> QED
  BY <1>4, <1>5

\* A step that leaves the offers and their counts as they are.
LEMMA OffersRest ==
    ASSUME OffersInv, UNCHANGED <<offer, rows, online, raced>>
    PROVE  OffersLast /\ \A o \in BranchIds : UsesOK(o)'
<1>1. OffersLast
  BY OffersTyped DEF OffersInv, OffersLast
<1>2. ASSUME NEW o \in BranchIds PROVE UsesOK(o)'
  BY DEF OffersInv, UsesOK
<1> QED
  BY <1>1, <1>2

\* A sale begins, goes on or ends.
LEMMA SaleMoves ==
    ASSUME OffersInv, UNCHANGED <<offer, rows, online, raced>>,
           NEW c \in CallIds, NEW u \in SaleShape \union {Sales!NotSelling}, SaleKnows(u),
           sale' = [sale EXCEPT ![c] = u]
    PROVE  OffersInv'
<1>1. OffersTypeOK'
  BY DEF OffersInv, OffersTypeOK
<1>2. SaleKnows(u)'
  BY OffersRest, SaleStillKnows DEF OffersInv
<1>3. \A d \in CallIds : sale'[d] = IF d = c THEN u ELSE sale[d]
  BY DEF OffersInv, OffersTypeOK
<1>4. ASSUME NEW d \in CallIds PROVE sale'[d] = sale[d] \/ SaleKnows(sale[d])'
  BY <1>2, <1>3
<1> QED
  BY <1>1, <1>4, OffersRest, OffersKeepBy

\* A cart knows the prices that there are.
LEMMA FillCartKeeps ==
    ASSUME OffersInv, NEW c \in CallIds,
           \E b \in CallIds, basket \in SUBSET Garments \ {{}}, coupon \in BranchIds \union {None} :
               Sales!FillCart(c, b, basket, coupon)
    PROVE  OffersInv'
<1>1. PICK b \in CallIds, basket \in SUBSET Garments, coupon \in BranchIds \union {None} :
          Sales!FillCart(c, b, basket, coupon)
  OBVIOUS
<1>2. PICK known : known = Sales!Loaded /\ known \in KnownOffers
                   /\ \A o \in DOMAIN known : /\ o \in BranchIds /\ known[o] = offer[o]
                                              /\ StillTheOffer(known[o], o)
  BY LoadedKnows
<1>3. PICK fares : fares = [g \in basket |-> Sales!Unit(known, g, "ONLINE")]
  OBVIOUS
<1>4. /\ fares \in Amounts /\ DOMAIN fares = basket
      /\ \A g \in basket : fares[g] <= OfferPrice[g] \/ Dearer(g)
  <2>1. ASSUME NEW g \in basket
        PROVE  fares[g] \in Nat /\ (fares[g] <= OfferPrice[g] \/ Dearer(g))
    BY <1>2, <1>3, UnitWithin
  <2>2. DOMAIN fares = basket /\ fares \in [basket -> Nat]
    BY <1>3, <2>1
  <2> QED
    BY <2>1, <2>2 DEF Amounts
<1>5. PICK u : u = [stage |-> "cart", buyer |-> b, known |-> known, coupon |-> coupon, units |-> fares]
  OBVIOUS
<1>6. /\ u.stage = "cart" /\ u.known = known /\ u.coupon = coupon /\ u.units = fares
      /\ u \in SaleShape
  BY <1>1, <1>2, <1>4, <1>5 DEF SaleShape, CartSale
<1>7. coupon # None => coupon \in DOMAIN known /\ known[coupon].coupon
  BY <1>1, <1>2 DEF Sales!FillCart, Sales!QuoteOk
<1>8. SaleKnows(u)
  BY <1>2, <1>4, <1>6, <1>7 DEF SaleKnows
<1>9. sale' = [sale EXCEPT ![c] = u] /\ UNCHANGED <<offer, rows, online, raced>>
  BY <1>1, <1>2, <1>3, <1>5 DEF Sales!FillCart
<1> QED
  BY <1>6, <1>8, <1>9, SaleMoves

\* A till remembers offers that it knows.
LEMMA PriceAtTillKeeps ==
    ASSUME OffersInv, NEW c \in CallIds,
           \E b \in CallIds, basket \in SUBSET Garments \ {{}} : Sales!PriceAtTill(c, b, basket)
    PROVE  OffersInv'
<1>1. PICK b \in CallIds, basket \in SUBSET Garments : Sales!PriceAtTill(c, b, basket)
  OBVIOUS
<1>2. PICK known : known = Sales!Loaded /\ known \in KnownOffers
                   /\ \A o \in DOMAIN known : /\ o \in BranchIds /\ known[o] = offer[o]
                                              /\ StillTheOffer(known[o], o)
  BY LoadedKnows
<1>3. PICK pick \in [basket -> BranchIds \union {None}] :
        /\ \A g \in basket :
              IF Sales!Unit(known, g, "POS") < OfferPrice[g]
              THEN pick[g] \in Sales!Automatic(known, g, "POS") ELSE pick[g] = None
        /\ sale' = [sale EXCEPT ![c] =
                       [stage |-> "till", buyer |-> b, known |-> known, pick |-> pick]]
  BY <1>1, <1>2 DEF Sales!PriceAtTill
<1>4. \A g \in basket : pick[g] # None => pick[g] \in DOMAIN known
  BY <1>3 DEF Sales!Automatic
<1>5. PICK u : u = [stage |-> "till", buyer |-> b, known |-> known, pick |-> pick]
  OBVIOUS
<1>6. /\ u.stage = "till" /\ u.known = known /\ u.pick = pick /\ DOMAIN pick = basket
      /\ u \in SaleShape
  BY <1>1, <1>2, <1>3, <1>5 DEF SaleShape, TillSale
<1>7. SaleKnows(u)
  BY <1>2, <1>4, <1>6 DEF SaleKnows
<1>8. sale' = [sale EXCEPT ![c] = u] /\ UNCHANGED <<offer, rows, online, raced>>
  BY <1>1, <1>3, <1>5 DEF Sales!PriceAtTill
<1> QED
  BY <1>6, <1>7, <1>8, SaleMoves

\* A total of amounts.
LEMMA SubtotalIs ==
    ASSUME NEW fares \in Amounts
    PROVE  /\ IsFiniteSet(DOMAIN fares) /\ DOMAIN fares \subseteq Garments
           /\ \A g \in DOMAIN fares : fares[g] \in Nat
           /\ Sales!Subtotal(fares) = SumFunctionOnSet(fares, DOMAIN fares)
           /\ Sales!Subtotal(fares) \in Nat
<1>1. DOMAIN fares \subseteq Garments /\ \A g \in DOMAIN fares : fares[g] \in Nat
  BY DEF Amounts
<1>2. IsFiniteSet(DOMAIN fares)
  BY <1>1, OffersSay, FS_Subset
<1>3. Sales!Subtotal(fares) = SumFunctionOnSet(fares, DOMAIN fares)
  BY SalesSums, SumOfAll DEF Sales!Subtotal
<1> QED
  BY <1>1, <1>2, <1>3, SumIsNat

\* The second quote of a cart.
LEMMA QuoteAgainKeeps ==
    ASSUME OffersInv, NEW c \in CallIds, Sales!QuoteAgain(c)
    PROVE  OffersInv'
<1>1. PICK call : call = sale[c] /\ call.stage = "cart"
  BY DEF Sales!QuoteAgain
<1>2. call \in CartSale /\ call \in SaleShape /\ SaleKnows(call)
  BY <1>1, SaleIs, NotSellingIs, StagesAre
<1>3. PICK loaded : loaded = Sales!Loaded /\ loaded \in KnownOffers
                    /\ \A o \in DOMAIN loaded : /\ o \in BranchIds /\ loaded[o] = offer[o]
                                               /\ StillTheOffer(loaded[o], o)
  BY LoadedKnows
<1>4. PICK known : known = [o \in DOMAIN loaded |-> IF o \in DOMAIN call.known
                                                    THEN call.known[o] ELSE offer[o]]
  OBVIOUS
<1>5. /\ known \in KnownOffers /\ DOMAIN known = DOMAIN loaded
      /\ \A o \in DOMAIN known : StillTheOffer(known[o], o)
  <2>1. call.known \in KnownOffers
    BY <1>2 DEF CartSale
  <2>2. ASSUME NEW o \in DOMAIN loaded
        PROVE  known[o] \in MadeOffer /\ o \in BranchIds /\ StillTheOffer(known[o], o)
    <3>1. CASE o \in DOMAIN call.known
      <4>1. known[o] = call.known[o]
        BY <1>4, <2>2, <3>1
      <4>2. call.known[o] \in MadeOffer /\ StillTheOffer(call.known[o], o)
        BY <1>1, <1>2, <2>1, <3>1, KnownIs DEF SaleKnows
      <4> QED
        BY <1>3, <2>2, <4>1, <4>2
    <3>2. CASE o \notin DOMAIN call.known
      <4>1. known[o] = loaded[o]
        BY <1>3, <1>4, <2>2, <3>2
      <4>2. loaded[o] \in MadeOffer
        BY <1>3, <2>2, KnownIs
      <4> QED
        BY <1>3, <2>2, <4>1, <4>2
    <3> QED
      BY <3>1, <3>2
  <2>3. DOMAIN known = DOMAIN loaded /\ known \in [DOMAIN loaded -> MadeOffer]
    BY <1>4, <2>2
  <2> QED
    BY <1>3, <2>2, <2>3, KnownIs
<1>6. PICK base : base = Sales!Subtotal(call.units) /\ base \in Nat
  BY <1>2, SubtotalIs DEF CartSale
<1>7. UNCHANGED <<offer, rows, online, raced>>
  BY DEF Sales!QuoteAgain
<1>8. \/ sale' = [sale EXCEPT ![c] = Sales!NotSelling]
      \/ /\ Sales!QuoteOk(known, call.coupon)
         /\ \E first \in IF Sales!Chosen(known, base) = {} THEN {None} ELSE Sales!Chosen(known, base) :
               sale' = [sale EXCEPT ![c] =
                   [stage |-> "quoted", buyer |-> call.buyer, known |-> known,
                    coupon |-> call.coupon, units |-> call.units,
                    discounts |-> Sales!Discounts(known, base, first, call.coupon)]]
  <2> DEFINE k == [o \in DOMAIN Sales!Loaded |-> IF o \in DOMAIN sale[c].known
                                                THEN sale[c].known[o] ELSE offer[o]]
             b == Sales!Subtotal(sale[c].units)
  <2>1. \/ sale' = [sale EXCEPT ![c] = Sales!NotSelling]
        \/ /\ Sales!QuoteOk(k, sale[c].coupon)
           /\ \E first \in IF Sales!Chosen(k, b) = {} THEN {None} ELSE Sales!Chosen(k, b) :
                 sale' = [sale EXCEPT ![c] =
                   [stage |-> "quoted", buyer |-> sale[c].buyer, known |-> k,
                    coupon |-> sale[c].coupon, units |-> sale[c].units,
                    discounts |-> Sales!Discounts(k, b, first, sale[c].coupon)]]
    BY Zenon DEF Sales!QuoteAgain
  <2>2. k = known /\ b = base
    BY <1>1, <1>3, <1>4, <1>6
  <2> HIDE DEF k, b
  <2> QED
    BY <1>1, <2>1, <2>2
<1>9. CASE sale' = [sale EXCEPT ![c] = Sales!NotSelling]
  BY <1>7, <1>9, NotSellingIs, SaleMoves
<1>10. CASE /\ Sales!QuoteOk(known, call.coupon)
            /\ \E first \in IF Sales!Chosen(known, base) = {} THEN {None} ELSE Sales!Chosen(known, base) :
                  sale' = [sale EXCEPT ![c] =
                      [stage |-> "quoted", buyer |-> call.buyer, known |-> known,
                       coupon |-> call.coupon, units |-> call.units,
                       discounts |-> Sales!Discounts(known, base, first, call.coupon)]]
  <2>1. PICK first \in IF Sales!Chosen(known, base) = {} THEN {None} ELSE Sales!Chosen(known, base) :
               sale' = [sale EXCEPT ![c] =
                   [stage |-> "quoted", buyer |-> call.buyer, known |-> known,
                    coupon |-> call.coupon, units |-> call.units,
                    discounts |-> Sales!Discounts(known, base, first, call.coupon)]]
    BY <1>10
  <2>2. first = None \/ (first \in DOMAIN known /\ ~ known[first].coupon /\ Sales!Eligible(known[first]))
    BY <2>1 DEF Sales!Chosen
  <2>3. call.coupon # None =>
            /\ call.coupon \in DOMAIN known /\ known[call.coupon].coupon
            /\ Sales!Eligible(known[call.coupon])
    <3>1. SUFFICES ASSUME call.coupon # None
                   PROVE  /\ call.coupon \in DOMAIN known /\ known[call.coupon].coupon
                          /\ Sales!Eligible(known[call.coupon])
      OBVIOUS
    <3>2. call.coupon \in DOMAIN known /\ Sales!Eligible(known[call.coupon])
      BY <1>10, <3>1 DEF Sales!QuoteOk
    <3>3. call.coupon \in DOMAIN call.known /\ call.known[call.coupon].coupon
      BY <1>1, <1>2, <3>1 DEF SaleKnows
    <3>4. known[call.coupon] = call.known[call.coupon]
      BY <1>4, <1>5, <3>2, <3>3
    <3> QED
      BY <3>2, <3>3, <3>4
  <2>4. /\ first \in BranchIds \union {None} /\ call.coupon \in BranchIds \union {None}
        /\ first # None => first \in DOMAIN known
        /\ call.coupon = None \/ first # call.coupon
    BY <1>2, <1>3, <1>5, <2>2, <2>3 DEF CartSale
  <2>5. PICK off : /\ off = Sales!Discounts(known, base, first, call.coupon)
                   /\ DOMAIN off \subseteq DOMAIN known
                   /\ DOMAIN off \subseteq {first, call.coupon} \ {None}
                   /\ off \in [DOMAIN off -> Nat]
                   /\ Sales!Off(off) \in Nat /\ Sales!Off(off) <= base
    BY <1>5, <1>6, <2>3, <2>4, OffWithin
  <2>6. PICK u : u = [stage |-> "quoted", buyer |-> call.buyer, known |-> known,
                      coupon |-> call.coupon, units |-> call.units, discounts |-> off]
    OBVIOUS
  <2>7. /\ u.stage = "quoted" /\ u.known = known /\ u.coupon = call.coupon
        /\ u.units = call.units /\ u.discounts = off
    BY <2>6
  <2>8. u \in SaleShape
    <3>1. DOMAIN off \subseteq BranchIds
      BY <1>3, <1>5, <2>5
    <3>2. off \in UNION {[some -> Nat] : some \in SUBSET BranchIds}
      BY <2>5, <3>1
    <3>3. call.buyer \in CallIds /\ call.units \in Amounts
      BY <1>2 DEF CartSale
    <3> QED
      BY <1>5, <2>4, <2>6, <3>2, <3>3 DEF SaleShape, QuotedSale
  <2>9. \A o \in DOMAIN off : known[o].max # None => known[o].uses < known[o].max
    BY <2>2, <2>3, <2>5 DEF Sales!Eligible
  <2>10. \A g \in DOMAIN call.units : call.units[g] <= OfferPrice[g] \/ Dearer(g)
    BY <1>1, <1>2 DEF SaleKnows
  <2>11. SaleKnows(u)
    BY <1>5, <1>6, <2>5, <2>7, <2>9, <2>10 DEF SaleKnows
  <2>12. sale' = [sale EXCEPT ![c] = u]
    BY <2>1, <2>5, <2>6
  <2> QED
    BY <1>7, <2>8, <2>11, <2>12, SaleMoves
<1> QED
  BY <1>8, <1>9, <1>10

\* What a sale adds to the counts of the offers it applies.
LEMMA CountAdds ==
    ASSUME OffersInv, NEW known \in KnownOffers, NEW applied \in SUBSET DOMAIN known,
           \A o \in DOMAIN known : StillTheOffer(known[o], o),
           Sales!Count(applied, known)
    PROVE  /\ OffersLast
           /\ offer' \in [BranchIds -> MadeOffer \union {Sales!NoOffer}]
           /\ rows' \in [BranchIds -> Nat]
           /\ raced \subseteq raced'
           /\ \A o \in BranchIds \ applied : offer'[o] = offer[o] /\ rows'[o] = rows[o]
           /\ \A o \in applied :
                 /\ offer[o] \in MadeOffer /\ offer'[o] \in MadeOffer
                 /\ offer'[o].max = known[o].max /\ offer'[o].perUser = known[o].perUser
                 /\ offer'[o].uses = known[o].uses + 1 /\ rows'[o] = rows[o] + 1
                 /\ known[o].uses \in Nat /\ known[o].uses <= rows[o]
                 /\ o \notin raced' => o \notin raced /\ known[o].uses = offer[o].uses
<1>1. \A o \in BranchIds \ applied : offer'[o] = offer[o] /\ rows'[o] = rows[o]
  BY DEF Sales!Count
<1>2. ASSUME NEW o \in applied
      PROVE  /\ o \in BranchIds /\ offer[o] \in MadeOffer /\ offer'[o] \in MadeOffer
             /\ offer'[o].kind = offer[o].kind /\ offer'[o].value = offer[o].value
             /\ offer'[o].max = offer[o].max /\ offer'[o].perUser = offer[o].perUser
             /\ offer'[o].max = known[o].max /\ offer'[o].perUser = known[o].perUser
             /\ offer'[o].uses = known[o].uses + 1 /\ rows'[o] = rows[o] + 1
             /\ known[o].uses \in Nat /\ known[o].uses <= rows[o]
             /\ o \notin raced' => o \notin raced /\ known[o].uses = offer[o].uses
  <2>1. o \in BranchIds /\ known[o] \in MadeOffer /\ StillTheOffer(known[o], o)
    BY <1>2, KnownIs
  <2>2. PICK k, w : k = known[o] /\ w = offer[o]
    OBVIOUS
  <2>3. /\ k.uses \in Nat /\ w \in MadeOffer /\ w.max = k.max /\ w.perUser = k.perUser
        /\ k.uses <= rows[o]
    BY <2>1, <2>2, MadeSays DEF StillTheOffer
  <2>4. PICK n \in Nat : n = k.uses + 1
    BY <2>3
  <2>5. offer'[o] = [w EXCEPT !.uses = n] /\ rows'[o] = rows[o] + 1
    BY <1>2, <2>1, <2>2, <2>4 DEF Sales!Count
  <2>6. PICK p : p = [w EXCEPT !.uses = n]
    OBVIOUS
  <2>7. /\ p \in MadeOffer /\ p.kind = w.kind /\ p.value = w.value /\ p.max = w.max
        /\ p.perUser = w.perUser /\ p.uses = n
    BY <2>3, <2>4, <2>6, MadeStays
  <2>8. o \notin raced' => o \notin raced /\ k.uses = w.uses
    BY <1>2, <2>2 DEF Sales!Count
  <2> QED
    BY <2>1, <2>2, <2>3, <2>4, <2>5, <2>6, <2>7, <2>8
<1>3. \A o \in BranchIds : /\ offer'[o] \in MadeOffer \union {Sales!NoOffer}
                          /\ rows[o] \in Nat /\ rows'[o] \in Nat /\ rows[o] <= rows'[o]
  <2> TAKE o \in BranchIds
  <2>1. rows[o] \in Nat /\ offer[o] \in MadeOffer \union {Sales!NoOffer}
    BY OffersTyped DEF OffersInv
  <2> QED
    BY <1>1, <1>2, <2>1
<1>4. OffersLast
  BY <1>1, <1>2, <1>3 DEF OffersLast
<1>5. offer' = [o \in BranchIds |-> offer'[o]] /\ rows' = [o \in BranchIds |-> rows'[o]]
  BY DEF Sales!Count
<1>6. /\ offer' \in [BranchIds -> MadeOffer \union {Sales!NoOffer}]
      /\ rows' \in [BranchIds -> Nat]
  BY <1>3, <1>5
<1>7. raced \subseteq raced'
  BY DEF Sales!Count
<1> QED
  BY <1>1, <1>2, <1>4, <1>6, <1>7

\* The uses of a buyer more or less change the total of the offer.
LEMMA TotalGrows ==
    ASSUME NEW f \in [CallIds -> Nat], NEW b \in CallIds
    PROVE  LET g == [f EXCEPT ![b] = @ + 1]
           IN  /\ g \in [CallIds -> Nat]
               /\ g[b] = f[b] + 1 /\ \A a \in CallIds : a # b => g[a] = f[a]
               /\ SumFunction(f) \in Nat
               /\ SumFunction(g) = SumFunction(f) + 1
<1>1. PICK g : g = [f EXCEPT ![b] = @ + 1]
  OBVIOUS
<1>2. /\ g \in [CallIds -> Nat] /\ DOMAIN g = CallIds /\ DOMAIN f = CallIds
      /\ g[b] = f[b] + 1 /\ f[b] \in Nat /\ \A a \in CallIds : a # b => g[a] = f[a]
  BY <1>1
<1>3. /\ SumFunctionOnSet(g, CallIds) = SumFunctionOnSet(f, CallIds) - f[b] + g[b]
      /\ SumFunctionOnSet(f, CallIds) \in Nat
  <2>1. IsFiniteSet(CallIds) /\ \A x \in CallIds : f[x] \in Int /\ g[x] \in Int /\ f[x] \in Nat
    BY <1>2, OffersSay
  <2> QED
    BY <1>2, <2>1, SumChanged, SumIsNat
<1>4. SumFunction(g) = SumFunctionOnSet(g, CallIds) /\ SumFunction(f) = SumFunctionOnSet(f, CallIds)
  BY <1>2, SumOfAll
<1> QED
  BY <1>1, <1>2, <1>3, <1>4

\* An order is placed, unless the buyer has had an offer often enough.
LEMMA PlaceOrderKeeps ==
    ASSUME OffersInv, NEW c \in CallIds, Sales!PlaceOrder(c)
    PROVE  OffersInv'
<1>1. PICK call : call = sale[c] /\ call.stage = "quoted"
  BY DEF Sales!PlaceOrder
<1>2. call \in QuotedSale /\ SaleKnows(call)
  BY <1>1, SaleIs, NotSellingIs, StagesAre
<1> DEFINE applied == DOMAIN call.discounts
<1>3. /\ call.known \in KnownOffers /\ applied \in SUBSET DOMAIN call.known
      /\ \A o \in DOMAIN call.known : StillTheOffer(call.known[o], o)
      /\ \A o \in applied : call.known[o].max # None => call.known[o].uses < call.known[o].max
      /\ call.buyer \in CallIds
  BY <1>1, <1>2 DEF SaleKnows, QuotedSale
<1>4. /\ sale' = [sale EXCEPT ![c] = Sales!NotSelling]
      /\ \/ UNCHANGED <<offer, rows, online, raced>>
         \/ /\ \A o \in applied : ~ (/\ call.known[o].perUser # None
                                     /\ online[o][call.buyer] >= call.known[o].perUser)
            /\ Sales!Count(applied, call.known)
            /\ online' = [o \in BranchIds |-> IF o \in applied
                              THEN [online[o] EXCEPT ![call.buyer] = @ + 1] ELSE online[o]]
  BY <1>1, Zenon DEF Sales!PlaceOrder
<1>5. CASE UNCHANGED <<offer, rows, online, raced>>
  BY <1>4, <1>5, NotSellingIs, SaleMoves
<1>6. CASE /\ \A o \in applied : ~ (/\ call.known[o].perUser # None
                                    /\ online[o][call.buyer] >= call.known[o].perUser)
           /\ Sales!Count(applied, call.known)
           /\ online' = [o \in BranchIds |-> IF o \in applied
                             THEN [online[o] EXCEPT ![call.buyer] = @ + 1] ELSE online[o]]
  <2> HIDE DEF applied
  <2>1. /\ OffersLast
        /\ offer' \in [BranchIds -> MadeOffer \union {Sales!NoOffer}]
        /\ rows' \in [BranchIds -> Nat]
        /\ raced \subseteq raced'
        /\ \A o \in BranchIds \ applied : offer'[o] = offer[o] /\ rows'[o] = rows[o]
        /\ \A o \in applied :
              /\ offer[o] \in MadeOffer /\ offer'[o] \in MadeOffer
              /\ offer'[o].max = call.known[o].max /\ offer'[o].perUser = call.known[o].perUser
              /\ offer'[o].uses = call.known[o].uses + 1 /\ rows'[o] = rows[o] + 1
              /\ call.known[o].uses \in Nat /\ call.known[o].uses <= rows[o]
              /\ o \notin raced' => o \notin raced /\ call.known[o].uses = offer[o].uses
    BY <1>3, <1>6, CountAdds
  <2>2. ASSUME NEW o \in BranchIds PROVE online'[o] \in [CallIds -> Nat] /\ UsesOK(o)'
    <3>0. /\ UsesOK(o) /\ online[o] \in [CallIds -> Nat] /\ rows[o] \in Nat
          /\ offer[o].made = TRUE \/ offer[o] \notin MadeOffer
      BY OffersTyped, MadeSays DEF OffersInv
    <3>1. CASE o \notin applied
      <4>1. online'[o] = online[o] /\ offer'[o] = offer[o] /\ rows'[o] = rows[o]
        BY <1>6, <2>1, <2>2, <3>1
      <4> QED
        BY <2>1, <3>0, <4>1, UsesStay
    <3>2. CASE o \in applied
      <4>1. PICK f, g, n, k : /\ f = online[o] /\ g = [f EXCEPT ![call.buyer] = @ + 1]
                              /\ n = SumFunction(f) /\ k = call.known[o]
        OBVIOUS
      <4>2. online'[o] = g
        BY <1>6, <2>2, <3>2, <4>1
      <4>3. /\ g \in [CallIds -> Nat] /\ g[call.buyer] = f[call.buyer] + 1
            /\ \A a \in CallIds : a # call.buyer => g[a] = f[a]
            /\ n \in Nat /\ SumFunction(g) = n + 1
        BY <1>3, <3>0, <4>1, TotalGrows
      <4>4. /\ offer'[o] \in MadeOffer /\ offer[o] \in MadeOffer
            /\ offer'[o].max = k.max /\ offer'[o].perUser = k.perUser
            /\ offer'[o].uses = k.uses + 1 /\ rows'[o] = rows[o] + 1
            /\ k.uses \in Nat /\ k.uses <= rows[o]
            /\ o \notin raced' => o \notin raced /\ k.uses = offer[o].uses
        BY <2>1, <3>2, <4>1
      <4>5. k \in MadeOffer /\ StillTheOffer(k, o)
        BY <1>3, <3>2, <4>1, KnownIs
      <4>6. k.max \in Nat \union {None} /\ k.perUser \in Nat \union {None}
        BY <4>5, MadeSays
      <4>7. offer'[o].made = TRUE
        <5>1. PICK p : p = offer'[o]
          OBVIOUS
        <5> QED
          BY <4>4, <5>1, MadeSays
      <4>8. /\ o \notin raced => offer[o].uses = rows[o]
            /\ n <= rows[o]
            /\ offer[o].made
            /\ offer[o].perUser = k.perUser
            /\ k.perUser # None => \A a \in CallIds : f[a] <= k.perUser
        <5>1. offer[o].perUser = k.perUser /\ offer[o].made
          BY <3>0, <4>4, <4>5 DEF StillTheOffer
        <5> QED
          BY <3>0, <4>1, <5>1 DEF UsesOK
      <4>9. (o \notin raced' => offer'[o].uses = rows'[o]) /\ offer'[o].uses <= rows'[o]
        BY <3>0, <4>4, <4>8
      <4>10. SumFunction(g) <= rows'[o]
        BY <3>0, <4>3, <4>4, <4>8
      <4>11. ASSUME offer'[o].max # None, o \notin raced' PROVE SumFunction(g) <= offer'[o].max
        <5>1. k.uses < k.max /\ k.max \in Nat
          BY <1>3, <3>2, <4>1, <4>4, <4>6, <4>11
        <5>2. k.uses = rows[o]
          BY <4>4, <4>8, <4>11
        <5> QED
          BY <4>3, <4>4, <4>8, <5>1, <5>2
      <4>12. ASSUME offer'[o].perUser # None, NEW a \in CallIds PROVE g[a] <= offer'[o].perUser
        <5>1. k.perUser \in Nat /\ f[a] <= k.perUser /\ offer'[o].perUser = k.perUser
          BY <4>4, <4>6, <4>8, <4>12
        <5>2. ~ (f[call.buyer] >= k.perUser)
          BY <1>6, <3>2, <4>1, <5>1, <4>12
        <5>3. f[a] \in Nat /\ f[call.buyer] \in Nat
          BY <1>3, <3>0, <4>1
        <5> QED
          BY <4>3, <5>1, <5>2, <5>3
      <4> QED
        BY <4>2, <4>3, <4>7, <4>9, <4>10, <4>11, <4>12 DEF UsesOK
    <3> QED
      BY <3>1, <3>2
  <2>3. online' = [o \in BranchIds |-> online'[o]]
    BY <1>6
  <2>4. OffersTypeOK'
    <3>1. online' \in [BranchIds -> [CallIds -> Nat]]
      BY <2>2, <2>3
    <3>2. sale' \in [CallIds -> SaleShape \union {Sales!NotSelling}]
      BY <1>4 DEF OffersInv, OffersTypeOK
    <3> QED
      BY <2>1, <3>1, <3>2 DEF OffersTypeOK
  <2>5. \A d \in CallIds : sale'[d] = sale[d] \/ sale'[d] = Sales!NotSelling
    BY <1>4 DEF OffersInv, OffersTypeOK
  <2> QED
    BY <2>1, <2>2, <2>4, <2>5, OffersKeepBy
<1> QED
  BY <1>4, <1>5, <1>6

\* A sale of the till adds a use that no buyer of the web has had.
LEMMA SellAtTillKeeps ==
    ASSUME OffersInv, NEW c \in CallIds, Sales!SellAtTill(c)
    PROVE  OffersInv'
<1>1. PICK call : call = sale[c] /\ call.stage = "till"
  BY DEF Sales!SellAtTill
<1>2. call \in TillSale /\ SaleKnows(call)
  BY <1>1, SaleIs, NotSellingIs, StagesAre
<1>3. PICK applied : applied = {call.pick[g] : g \in DOMAIN call.pick} \ {None}
  OBVIOUS
<1>4. /\ call.known \in KnownOffers /\ applied \in SUBSET DOMAIN call.known
      /\ \A o \in DOMAIN call.known : StillTheOffer(call.known[o], o)
  <2>1. call.known \in KnownOffers
    BY <1>2 DEF TillSale
  <2>2. /\ \A g \in DOMAIN call.pick : call.pick[g] # None => call.pick[g] \in DOMAIN call.known
        /\ \A o \in DOMAIN call.known : StillTheOffer(call.known[o], o)
    BY <1>1, <1>2 DEF SaleKnows
  <2> QED
    BY <1>3, <2>1, <2>2
<1>5. /\ sale' = [sale EXCEPT ![c] = Sales!NotSelling] /\ online' = online
      /\ UNCHANGED <<offer, rows, raced>> \/ Sales!Count(applied, call.known)
  BY <1>1, <1>3 DEF Sales!SellAtTill
<1>6. CASE UNCHANGED <<offer, rows, raced>>
  BY <1>5, <1>6, NotSellingIs, SaleMoves
<1>7. CASE Sales!Count(applied, call.known)
  <2>1. /\ OffersLast
        /\ offer' \in [BranchIds -> MadeOffer \union {Sales!NoOffer}]
        /\ rows' \in [BranchIds -> Nat]
        /\ raced \subseteq raced'
        /\ \A o \in BranchIds \ applied : offer'[o] = offer[o] /\ rows'[o] = rows[o]
        /\ \A o \in applied :
              /\ offer[o] \in MadeOffer /\ offer'[o] \in MadeOffer
              /\ offer'[o].max = call.known[o].max /\ offer'[o].perUser = call.known[o].perUser
              /\ offer'[o].uses = call.known[o].uses + 1 /\ rows'[o] = rows[o] + 1
              /\ call.known[o].uses \in Nat /\ call.known[o].uses <= rows[o]
              /\ o \notin raced' => o \notin raced /\ call.known[o].uses = offer[o].uses
    BY <1>4, <1>7, CountAdds
  <2>2. ASSUME NEW o \in BranchIds PROVE UsesOK(o)'
    <3>0. UsesOK(o) /\ online[o] \in [CallIds -> Nat] /\ rows[o] \in Nat
      BY OffersTyped DEF OffersInv
    <3>1. CASE o \notin applied
      BY <1>5, <2>1, <2>2, <3>0, <3>1, UsesStay
    <3>2. CASE o \in applied
      <4>1. PICK f, n, k : f = online[o] /\ n = SumFunction(f) /\ k = call.known[o]
        OBVIOUS
      <4>2. n \in Nat
        <5>1. DOMAIN f = CallIds /\ \A b \in CallIds : f[b] \in Nat
          BY <3>0, <4>1
        <5> QED
          BY <4>1, <5>1, OffersSay, SumOfAll, SumIsNat
      <4>3. /\ offer'[o] \in MadeOffer /\ offer[o] \in MadeOffer
            /\ offer'[o].max = k.max /\ offer'[o].perUser = k.perUser
            /\ offer'[o].uses = k.uses + 1 /\ rows'[o] = rows[o] + 1
            /\ k.uses \in Nat /\ k.uses <= rows[o]
            /\ o \notin raced' => o \notin raced /\ k.uses = offer[o].uses
        BY <2>1, <3>2, <4>1
      <4>4. offer'[o].made = TRUE /\ offer[o].made = TRUE
        <5>1. PICK p, q : p = offer'[o] /\ q = offer[o]
          OBVIOUS
        <5> QED
          BY <4>3, <5>1, MadeSays
      <4>5. offer[o].max = k.max /\ offer[o].perUser = k.perUser
        BY <1>4, <3>2, <4>1 DEF StillTheOffer
      <4>6. /\ o \notin raced => offer[o].uses = rows[o]
            /\ n <= rows[o]
            /\ k.max # None /\ o \notin raced => n <= k.max
            /\ k.perUser # None => \A b \in CallIds : f[b] <= k.perUser
        BY <3>0, <4>1, <4>4, <4>5 DEF UsesOK
      <4>7. (o \notin raced' => offer'[o].uses = rows'[o]) /\ offer'[o].uses <= rows'[o]
        BY <3>0, <4>3, <4>6
      <4>8. n <= rows'[o]
        BY <3>0, <4>2, <4>3, <4>6
      <4>9. online'[o] = f
        BY <1>5, <4>1
      <4> QED
        BY <4>1, <4>3, <4>4, <4>6, <4>7, <4>8, <4>9 DEF UsesOK
    <3> QED
      BY <3>1, <3>2
  <2>3. OffersTypeOK'
    BY <1>5, <2>1 DEF OffersInv, OffersTypeOK
  <2>4. \A d \in CallIds : sale'[d] = sale[d] \/ sale'[d] = Sales!NotSelling
    BY <1>5 DEF OffersInv, OffersTypeOK
  <2> QED
    BY <2>1, <2>2, <2>3, <2>4, OffersKeepBy
<1> QED
  BY <1>5, <1>6, <1>7

\* A new offer, that nobody has used.
LEMMA CrearKeeps ==
    ASSUME OffersInv, NEW o \in BranchIds, NEW deal \in OfferDeals, Sales!Crear(o, deal)
    PROVE  OffersInv'
<1>1. /\ ~ offer[o].made /\ offer' = [offer EXCEPT ![o] = Sales!NewOffer(deal)]
      /\ UNCHANGED <<rows, online, sale, raced>>
  BY DEF Sales!Crear
<1>0. Sales!Valid(deal)
  BY DEF Sales!Crear
<1>2. PICK p : /\ p = Sales!NewOffer(deal) /\ p \in MadeOffer
               /\ p.max \in Nat \union {None} /\ p.perUser \in Nat \union {None} /\ p.made = TRUE
  BY <1>0, DealsMakeOffers, MadeSays
<1>3. p.uses = 0
  BY <1>2 DEF Sales!NewOffer
<1>4. \A q \in BranchIds : offer'[q] = IF q = o THEN p ELSE offer[q]
  BY <1>1, <1>2 DEF OffersInv, OffersTypeOK
<1>5. /\ offer[o] = Sales!NoOffer /\ offer[o] \notin MadeOffer
      /\ rows[o] \in Nat /\ online[o] \in [CallIds -> Nat] /\ offer[o].uses \in Nat /\ UsesOK(o)
  BY <1>1, OffersTyped DEF OffersInv
<1>6. offer[o].uses = 0
  BY <1>5 DEF Sales!NoOffer
<1>7. OffersLast
  BY <1>1, <1>4, <1>5, OffersTyped DEF OffersLast, OffersInv
<1>8. OffersTypeOK'
  BY <1>1, <1>2 DEF OffersInv, OffersTypeOK
<1>9. ASSUME NEW q \in BranchIds PROVE UsesOK(q)'
  <2>1. CASE q # o
    BY <1>1, <1>4, <2>1, UsesStay DEF OffersInv
  <2>2. CASE q = o
    <3>1. PICK f : f = online[o]
      OBVIOUS
    <3>2. \A b \in CallIds : f[b] = 0
      BY <1>1, <1>5, <3>1 DEF UsesOK
    <3>3. SumFunction(f) = 0
      BY <1>5, <3>1, <3>2, OffersSay, SumOfAll, SumOfZeros
    <3>4. o \notin raced => rows[o] = 0
      BY <1>5, <1>6 DEF UsesOK
    <3>5. p.max # None => 0 <= p.max
      BY <1>2
    <3>6. p.perUser # None => 0 <= p.perUser
      BY <1>2
    <3>7. offer'[o] = p /\ online'[o] = f /\ rows'[o] = rows[o] /\ raced' = raced /\ 0 <= rows[o]
      BY <1>1, <1>4, <1>5, <3>1
    <3> QED
      BY <1>2, <1>3, <2>2, <3>2, <3>3, <3>4, <3>5, <3>6, <3>7 DEF UsesOK
  <2> QED
    BY <2>1, <2>2
<1> QED
  BY <1>1, <1>7, <1>8, <1>9, OffersKeepBy

\* An offer that is switched or lapses keeps its counts.
LEMMA SwitchKeepsCounts ==
    ASSUME OffersInv, NEW o \in BranchIds, offer[o] \in MadeOffer,
           NEW p \in MadeOffer, p.kind = offer[o].kind, p.value = offer[o].value,
           p.max = offer[o].max, p.perUser = offer[o].perUser, p.uses = offer[o].uses,
           offer' = [offer EXCEPT ![o] = p], UNCHANGED <<rows, online, raced>>
    PROVE  /\ OffersLast /\ \A q \in BranchIds : UsesOK(q)'
           /\ offer' \in [BranchIds -> MadeOffer \union {Sales!NoOffer}]
<1>1. \A q \in BranchIds : offer'[q] = IF q = o THEN p ELSE offer[q]
  BY DEF OffersInv, OffersTypeOK
<1>2. OffersLast
  BY <1>1, OffersTyped DEF OffersLast, OffersInv
<1>3. p.made = TRUE
  BY MadeSays
<1>4. offer[o].made = TRUE
  <2>1. PICK w : w = offer[o]
    OBVIOUS
  <2> QED
    BY <2>1, MadeSays
<1>5. ASSUME NEW q \in BranchIds PROVE UsesOK(q)'
  <2>1. CASE q # o
    BY <1>1, <2>1, UsesStay DEF OffersInv
  <2>2. CASE q = o
    BY <1>1, <1>3, <1>4, <2>2, UsesStay DEF OffersInv
  <2> QED
    BY <2>1, <2>2
<1>6. offer' \in [BranchIds -> MadeOffer \union {Sales!NoOffer}]
  BY DEF OffersInv, OffersTypeOK
<1> QED
  BY <1>2, <1>5, <1>6

\* What the shop does with an offer that there is.
LEMMA SwitchKeeps ==
    ASSUME OffersInv, NEW o \in BranchIds,
           Sales!Actualizar(o) \/ Sales!Activar(o) \/ Sales!Desactivar(o)
    PROVE  OffersInv'
<1>1. offer[o] \in MadeOffer
  BY OffersTyped DEF OffersInv, Sales!Actualizar, Sales!Activar, Sales!Desactivar
<1>2. PICK w, yes : w = offer[o] /\ yes = ~ w.past
  OBVIOUS
<1>3. w \in MadeOffer /\ yes \in BOOLEAN
  BY <1>1, <1>2
<1>4. /\ offer \in [BranchIds -> MadeOffer \union {Sales!NoOffer}]
      /\ UNCHANGED <<rows, online, sale, raced>>
  BY DEF OffersInv, OffersTypeOK, Sales!Actualizar, Sales!Activar, Sales!Desactivar
<1>5. \/ offer' = [offer EXCEPT ![o] = [w EXCEPT !.past = yes]]
      \/ offer' = [offer EXCEPT ![o] = [w EXCEPT !.on = TRUE]]
      \/ offer' = [offer EXCEPT ![o] = [w EXCEPT !.on = FALSE]]
  BY <1>2, <1>4 DEF Sales!Actualizar, Sales!Activar, Sales!Desactivar
<1>6. PICK p \in MadeOffer : /\ p.kind = w.kind /\ p.value = w.value /\ p.max = w.max
                            /\ p.perUser = w.perUser /\ p.uses = w.uses
                            /\ offer' = [offer EXCEPT ![o] = p]
  <2>1. w.uses \in Nat
    BY <1>3, MadeSays
  <2>2. CASE offer' = [offer EXCEPT ![o] = [w EXCEPT !.past = yes]]
    BY <1>3, <2>1, <2>2, MadeStays
  <2>3. CASE offer' = [offer EXCEPT ![o] = [w EXCEPT !.on = TRUE]]
    BY <1>3, <2>1, <2>3, MadeStays
  <2>4. CASE offer' = [offer EXCEPT ![o] = [w EXCEPT !.on = FALSE]]
    BY <1>3, <2>1, <2>4, MadeStays
  <2> QED
    BY <1>5, <2>2, <2>3, <2>4
<1>7. /\ OffersLast /\ \A q \in BranchIds : UsesOK(q)'
      /\ offer' \in [BranchIds -> MadeOffer \union {Sales!NoOffer}]
  BY <1>1, <1>2, <1>4, <1>6, SwitchKeepsCounts
<1>8. OffersTypeOK'
  BY <1>4, <1>7 DEF OffersInv, OffersTypeOK
<1> QED
  BY <1>4, <1>7, <1>8, OffersKeepBy

\* A sale that knows an offer whose time is over knows it so.
LEMMA SaleLapses ==
    ASSUME NEW u \in SaleShape, SaleKnows(u), NEW o \in DOMAIN u.known
    PROVE  LET over == [u EXCEPT !.known[o].past = TRUE]
           IN  over \in SaleShape /\ SaleKnows(over)
<1>1. PICK k, w : k = u.known /\ w = [k[o] EXCEPT !.past = TRUE]
  OBVIOUS
<1>2. k \in KnownOffers /\ DOMAIN k \subseteq BranchIds /\ k[o] \in MadeOffer /\ k \in [DOMAIN k -> MadeOffer]
  BY <1>1, StagesAre, KnownIs
<1>3. PICK j : j = k[o]
  OBVIOUS
<1>4. /\ w \in MadeOffer /\ w.kind = j.kind /\ w.value = j.value /\ w.max = j.max
      /\ w.perUser = j.perUser /\ w.uses = j.uses /\ w.coupon = j.coupon
  <2>1. j \in MadeOffer /\ j.uses \in Nat /\ w = [j EXCEPT !.past = TRUE]
    BY <1>1, <1>2, <1>3, MadeSays
  <2> QED
    BY <2>1, MadeStays
<1>5. PICK m : m = [k EXCEPT ![o] = w]
  OBVIOUS
<1>6. /\ DOMAIN m = DOMAIN k /\ \A p \in DOMAIN k : m[p] = IF p = o THEN w ELSE k[p]
      /\ m \in [DOMAIN k -> MadeOffer]
  BY <1>1, <1>2, <1>4, <1>5
<1>7. m \in KnownOffers
  BY <1>2, <1>6, KnownIs
<1>8. PICK over : over = [u EXCEPT !.known = m]
  OBVIOUS
<1>9. over = [u EXCEPT !.known[o].past = TRUE]
  BY <1>1, <1>5, <1>8
<1>10. over \in SaleShape /\ over.known = m /\ over.stage = u.stage
  BY <1>7, <1>8 DEF SaleShape, CartSale, QuotedSale, TillSale
<1>11. /\ u.stage \in {"cart", "quoted"} => over.units = u.units /\ over.coupon = u.coupon
       /\ u.stage = "quoted" => over.discounts = u.discounts
       /\ u.stage = "till" => over.pick = u.pick
  BY <1>8 DEF SaleShape, CartSale, QuotedSale, TillSale
<1>12. u.stage # "idle" /\ \A p \in DOMAIN k : StillTheOffer(k[p], p)
  BY <1>1, NotSellingIs DEF SaleKnows
<1>13. ASSUME NEW p \in DOMAIN m
       PROVE  StillTheOffer(m[p], p) /\ m[p].max = k[p].max /\ m[p].uses = k[p].uses
              /\ m[p].coupon = k[p].coupon
  <2>1. CASE p = o
    BY <1>3, <1>4, <1>6, <1>12, <1>13, <2>1 DEF StillTheOffer
  <2>2. CASE p # o
    BY <1>6, <1>12, <1>13, <2>2
  <2> QED
    BY <2>1, <2>2
<1>14. SaleKnows(over)
  <2>1. u.stage = "quoted" =>
           /\ DOMAIN u.discounts \subseteq DOMAIN m
           /\ \A p \in DOMAIN u.discounts : m[p].max # None => m[p].uses < m[p].max
    BY <1>1, <1>6, <1>13 DEF SaleKnows
  <2>2. u.stage = "cart" /\ u.coupon # None => u.coupon \in DOMAIN m /\ m[u.coupon].coupon
    BY <1>1, <1>6, <1>13 DEF SaleKnows
  <2>3. u.stage = "till" => \A g \in DOMAIN u.pick : u.pick[g] # None => u.pick[g] \in DOMAIN m
    BY <1>1, <1>6 DEF SaleKnows
  <2> QED
    BY <1>10, <1>11, <1>13, <2>1, <2>2, <2>3 DEF SaleKnows
<1> QED
  BY <1>9, <1>10, <1>14

\* The time of an offer is over.
LEMMA LapseKeeps ==
    ASSUME OffersInv, NEW o \in BranchIds, Sales!Lapse(o)
    PROVE  OffersInv'
<1>1. offer[o] \in MadeOffer
  BY OffersTyped DEF OffersInv, Sales!Lapse
<1>2. PICK w, p : w = offer[o] /\ p = [w EXCEPT !.past = TRUE]
  OBVIOUS
<1>3. /\ p \in MadeOffer /\ p.kind = w.kind /\ p.value = w.value /\ p.max = w.max
      /\ p.perUser = w.perUser /\ p.uses = w.uses
  <2>1. w \in MadeOffer /\ w.uses \in Nat
    BY <1>1, <1>2, MadeSays
  <2> QED
    BY <1>2, <2>1, MadeStays
<1>4. /\ offer' = [offer EXCEPT ![o] = p] /\ UNCHANGED <<rows, online, raced>>
      /\ sale' = [c \in CallIds |->
             IF sale[c].stage # "idle" /\ o \in DOMAIN sale[c].known
             THEN [sale[c] EXCEPT !.known[o].past = TRUE] ELSE sale[c]]
  BY <1>2 DEF Sales!Lapse, Sales!Selling, OffersInv, OffersTypeOK
<1>5. /\ OffersLast /\ \A q \in BranchIds : UsesOK(q)'
      /\ offer' \in [BranchIds -> MadeOffer \union {Sales!NoOffer}]
  BY <1>1, <1>2, <1>3, <1>4, SwitchKeepsCounts
<1>6. ASSUME NEW c \in CallIds
      PROVE  /\ sale'[c] \in SaleShape \union {Sales!NotSelling}
             /\ sale'[c] = sale[c] \/ SaleKnows(sale[c])'
  <2>1. PICK u : u = sale[c]
    OBVIOUS
  <2>2. u \in SaleShape \union {Sales!NotSelling} /\ SaleKnows(u)
    BY <2>1, SaleIs
  <2>3. CASE u.stage # "idle" /\ o \in DOMAIN u.known
    <3>1. u \in SaleShape
      BY <2>2, <2>3, NotSellingIs
    <3>2. PICK over : over = [u EXCEPT !.known[o].past = TRUE]
      OBVIOUS
    <3>3. over \in SaleShape /\ SaleKnows(over)
      BY <2>2, <2>3, <3>1, <3>2, SaleLapses
    <3>4. sale'[c] = over
      BY <1>4, <2>1, <2>3, <3>2
    <3>5. SaleKnows(over)'
      BY <1>5, <3>3, SaleStillKnows DEF OffersInv
    <3> QED
      BY <3>3, <3>4, <3>5
  <2>4. CASE ~ (u.stage # "idle" /\ o \in DOMAIN u.known)
    BY <1>4, <2>1, <2>2, <2>4
  <2> QED
    BY <2>3, <2>4
<1>7. OffersTypeOK'
  <2>1. sale' = [c \in CallIds |-> sale'[c]]
    BY <1>4
  <2>2. sale' \in [CallIds -> SaleShape \union {Sales!NotSelling}]
    BY <1>6, <2>1
  <2> QED
    BY <1>4, <1>5, <2>2 DEF OffersInv, OffersTypeOK
<1> QED
  BY <1>5, <1>6, <1>7, OffersKeepBy

\* Every step of the offers and of the sales under them.
LEMMA OffersKeep == OffersInv /\ [Sales!PromotionNext]_saleVars => OffersInv'
<1> SUFFICES ASSUME OffersInv, [Sales!PromotionNext]_saleVars PROVE OffersInv'
  OBVIOUS
<1>1. CASE UNCHANGED saleVars
  <2>1. OffersTypeOK'
    BY <1>1 DEF OffersInv, OffersTypeOK, saleVars
  <2>2. \A c \in CallIds : sale'[c] = sale[c]
    BY <1>1 DEF saleVars
  <2>3. UNCHANGED <<offer, rows, online, raced>>
    BY <1>1 DEF saleVars
  <2> QED
    BY <2>1, <2>2, <2>3, OffersRest, OffersKeepBy
<1>2. ASSUME NEW o \in BranchIds, NEW deal \in OfferDeals, Sales!Crear(o, deal) PROVE OffersInv'
  BY <1>2, CrearKeeps
<1>3. ASSUME NEW o \in BranchIds,
             \/ Sales!Actualizar(o) \/ Sales!Activar(o) \/ Sales!Desactivar(o) \/ Sales!Lapse(o)
      PROVE  OffersInv'
  BY <1>3, SwitchKeeps, LapseKeeps
<1>4. ASSUME NEW c \in CallIds, Sales!QuoteAgain(c) \/ Sales!PlaceOrder(c) \/ Sales!SellAtTill(c)
      PROVE  OffersInv'
  BY <1>4, QuoteAgainKeeps, PlaceOrderKeeps, SellAtTillKeeps
<1>5. ASSUME NEW c \in CallIds, NEW b \in CallIds, NEW basket \in SUBSET Garments \ {{}},
             \/ Sales!PriceAtTill(c, b, basket)
             \/ \E coupon \in BranchIds \union {None} : Sales!FillCart(c, b, basket, coupon)
      PROVE  OffersInv'
  BY <1>5, PriceAtTillKeeps, FillCartKeeps
<1> QED
  BY <1>1, <1>2, <1>3, <1>4, <1>5 DEF Sales!PromotionNext

\* The uses are counted, and nobody pays more because there is an offer.
LEMMA OffersInOrder == OffersInv => Sales!UsesCounted /\ Sales!PaysNoMore
<1> SUFFICES ASSUME OffersInv PROVE Sales!UsesCounted /\ Sales!PaysNoMore
  OBVIOUS
<1>1. Sales!UsesCounted
  BY SalesSums DEF OffersInv, UsesOK, Sales!UsesCounted
<1>2. ASSUME NEW c \in CallIds, sale[c].stage = "quoted"
      PROVE  /\ Sales!Off(sale[c].discounts) <= Sales!Subtotal(sale[c].units)
             /\ Sales!Subtotal(sale[c].units) > Sales!SumFunctionOnSet(OfferPrice, DOMAIN sale[c].units) =>
                    \E o \in BranchIds, g \in DOMAIN sale[c].units :
                       offer[o].made /\ offer[o].kind = "clearance"
                           /\ offer[o].value > OfferPrice[g]
  <2>1. PICK u, fares : u = sale[c] /\ fares = u.units
    OBVIOUS
  <2>2. u \in QuotedSale /\ SaleKnows(u) /\ u.stage = "quoted"
    BY <1>2, <2>1, SaleIs, NotSellingIs, StagesAre
  <2>3. /\ Sales!Off(u.discounts) <= Sales!Subtotal(fares)
        /\ \A g \in DOMAIN fares : fares[g] <= OfferPrice[g] \/ Dearer(g)
    BY <2>1, <2>2 DEF SaleKnows
  <2>4. /\ fares \in Amounts /\ IsFiniteSet(DOMAIN fares) /\ DOMAIN fares \subseteq Garments
        /\ \A g \in DOMAIN fares : fares[g] \in Nat
        /\ Sales!Subtotal(fares) = SumFunctionOnSet(fares, DOMAIN fares)
    BY <2>1, <2>2, SubtotalIs DEF QuotedSale
  <2>5. ASSUME \A g \in DOMAIN fares : ~ Dearer(g)
        PROVE  Sales!Subtotal(fares) <= Sales!SumFunctionOnSet(OfferPrice, DOMAIN fares)
    <3>1. \A g \in DOMAIN fares : fares[g] \in Nat /\ OfferPrice[g] \in Nat /\ fares[g] <= OfferPrice[g]
      BY <2>3, <2>4, <2>5, PriceIs
    <3>2. SumFunctionOnSet(fares, DOMAIN fares) <= SumFunctionOnSet(OfferPrice, DOMAIN fares)
      BY <2>4, <3>1, SumAtMost
    <3> QED
      BY <2>4, <3>2, SalesSums
  <2>6. Sales!Subtotal(fares) \in Nat /\ Sales!SumFunctionOnSet(OfferPrice, DOMAIN fares) \in Nat
    BY <2>4, SubtotalIs, PriceIs, SumIsNat, SalesSums
  <2>7. ASSUME Sales!Subtotal(fares) > Sales!SumFunctionOnSet(OfferPrice, DOMAIN fares)
        PROVE  \E g \in DOMAIN fares : Dearer(g)
    BY <2>5, <2>6, <2>7
  <2> QED
    BY <2>1, <2>3, <2>7 DEF Dearer
<1>3. Sales!PaysNoMore
  BY <1>2 DEF Sales!PaysNoMore
<1> QED
  BY <1>1, <1>3

-----------------------------------------------------------------------------
(* The catalogue: categories, gallery and files of the brand.              *)

\* What a category hangs from.
Above == BranchIds \union {NoCall}

\* A category.
CategoryRow == [state : {"none", "on", "off", "gone"}, parent : Above]

\* How an image stands.
ImageState == {"none", "plain", "main", "gone"}

\* How a file of the brand stands.
AssetState == {"none", "on", "off", "gone"}

\* What a request holds while it is under way.
CreateRequest == [op : {"create"}, k : BranchIds, parent : Above, about : {"creation"},
                  met : BOOLEAN]

MoveRequest == [op : {"move"}, k : BranchIds, parent : Above, was : Above, about : {"tree"},
                met : BOOLEAN]

SwitchRequest == [op : {"switch"}, k : BranchIds, value : {"on", "off"}, was : {"on", "off"},
                  about : BranchIds, met : BOOLEAN]

DeleteRequest == [op : {"delete"}, k : BranchIds, about : {"deletion"}, met : BOOLEAN]

PlaceRequest == [op : {"place"}, k : BranchIds, product : CashIds, about : BranchIds,
                 met : BOOLEAN]

GalleryRequest == [op : {"gallery"}, seen : [BranchIds -> ImageState],
                   becomes : [BranchIds -> ImageState], about : {"gallery"}, met : BOOLEAN]

AssetRequest == [op : {"asset"}, a : BranchIds, value : {"on", "off"}, was : {"on", "off"},
                 cleared : SUBSET BranchIds, step : {"read", "ready"}, about : {"assets"},
                 met : BOOLEAN]

\* The requests of the categories.
CategoryRequest ==
    CreateRequest \union MoveRequest \union SwitchRequest \union DeleteRequest
        \union PlaceRequest

\* A request under way.
WorkingRequest == CategoryRequest \union GalleryRequest \union AssetRequest

\* The types of the part.
CatalogTypeOK ==
    /\ category \in [BranchIds -> CategoryRow]
    /\ placed \in [CashIds -> Above]
    /\ image \in [BranchIds -> ImageState]
    /\ asset \in [BranchIds -> AssetState]
    /\ requests \in [CallIds -> WorkingRequest \union {Products!NoCatalogCall}]

\* A category is not on the way up from another one, which was there.
Apart(k, parent) ==
    parent # NoCall =>
        /\ category[parent].state # "none"
        /\ \E s \in SUBSET Above : parent \in s /\ k \notin s /\ Products!Upclosed(s)

\* No two images are the main one.
AtMostOneMain(images) ==
    \A i, j \in BranchIds : images[i] = "main" /\ images[j] = "main" => i = j

\* What a request may rely on when it commits, if it met no other.
CategoryKnows(u) ==
    /\ u.op = "create" => category[u.k].state = "none"
    /\ u.op = "move" => u.met \/ Apart(u.k, u.parent)
    /\ u.op = "switch" =>
           /\ u.about = u.k
           /\ u.met \/ u.value = "on" \/ \A p \in CashIds : placed[p] # u.k
    /\ u.op = "delete" => category[u.k].state # "none"
    /\ u.op = "place" =>
           /\ u.about = u.k
           /\ u.met \/ category[u.k].state \in {"on", "gone"}

\* What a request about the gallery may rely on.
GalleryKnows(u) ==
    u.op = "gallery" =>
        /\ AtMostOneMain(u.becomes)
        /\ u.met \/ \A i \in BranchIds : image[i] \in {u.seen[i], "gone"}

\* What a request about the files of the brand may rely on.
AssetKnows(u) ==
    u.op = "asset" =>
        /\ u.a \notin u.cleared
        /\ u.value = "off" => u.cleared = {} /\ u.step = "ready"
        /\ \/ u.met
           \/ /\ asset[u.a] = u.was
              /\ u.step = "ready" /\ u.value = "on" =>
                     \A b \in BranchIds \ {u.a} : b \in u.cleared \/ ~ Products!There(b)

\* What any request may rely on.
RequestKnows(u) == CategoryKnows(u) /\ GalleryKnows(u) /\ AssetKnows(u)

\* Each creation has a row of its own.
OneCreation ==
    \A x, y \in CallIds : requests[x].op = "create" /\ requests[y].op = "create"
                             /\ requests[x].k = requests[y].k => x = y

\* The parents are there, no set of categories holds the parents of all its own,
\* and the products are in active ones.
TreeOK ==
    /\ \A k \in BranchIds : category[k].parent # NoCall => Products!Exists(category[k].parent)
    /\ \/ "tree" \in clashed
       \/ \A s \in SUBSET BranchIds : Products!Upclosed(s) => s = {}
    /\ \A p \in CashIds : placed[p] # NoCall =>
           category[placed[p]].state = "on" \/ placed[p] \in clashed

\* The gallery has one main image at most, but for requests that clashed.
MainOK == "gallery" \in clashed \/ AtMostOneMain(image)

\* The file that was chosen is the one in use.
ChosenOK == chosen # NoCall => \A a \in BranchIds : (asset[a] = "on") = (a = chosen)

\* The inductive invariant.
CatalogInv ==
    /\ CatalogTypeOK
    /\ \A c \in CallIds : RequestKnows(requests[c])
    /\ OneCreation
    /\ TreeOK /\ MainOK /\ ChosenOK

\* A request that met another one stays the same request.
LEMMA MetTyped ==
    ASSUME NEW u \in WorkingRequest, NEW v, v = [u EXCEPT !.met = TRUE]
    PROVE  v \in WorkingRequest /\ v.met /\ v.op = u.op /\ v.about = u.about
<1>1. CASE u \in CategoryRequest
  <2>1. v \in CategoryRequest
    <3>1. CASE u \in CreateRequest
      BY <3>1 DEF CategoryRequest, CreateRequest
    <3>2. CASE u \in MoveRequest
      BY <3>2 DEF CategoryRequest, MoveRequest
    <3>3. CASE u \in SwitchRequest
      BY <3>3 DEF CategoryRequest, SwitchRequest
    <3>4. CASE u \in DeleteRequest
      BY <3>4 DEF CategoryRequest, DeleteRequest
    <3>5. CASE u \in PlaceRequest
      BY <3>5 DEF CategoryRequest, PlaceRequest
    <3> QED
      BY <1>1, <3>1, <3>2, <3>3, <3>4, <3>5 DEF CategoryRequest
  <2>2. v.met /\ v.op = u.op /\ v.about = u.about
    BY <1>1 DEF CategoryRequest, CreateRequest, MoveRequest, SwitchRequest, DeleteRequest,
                PlaceRequest
  <2> QED
    BY <2>1, <2>2 DEF WorkingRequest
<1>2. CASE u \in GalleryRequest
  BY <1>2 DEF WorkingRequest, GalleryRequest
<1>3. CASE u \in AssetRequest
  BY <1>3 DEF WorkingRequest, AssetRequest
<1> QED
  BY <1>1, <1>2, <1>3 DEF WorkingRequest

\* What a request is, its operation says.
LEMMA RequestKinds ==
    ASSUME NEW u \in WorkingRequest
    PROVE  /\ u.op \in {"create", "move", "switch", "delete", "place", "gallery", "asset"}
           /\ u.op = "create" => u \in CreateRequest
           /\ u.op = "move" => u \in MoveRequest
           /\ u.op = "switch" => u \in SwitchRequest
           /\ u.op = "delete" => u \in DeleteRequest
           /\ u.op = "place" => u \in PlaceRequest
           /\ u.op = "gallery" => u \in GalleryRequest
           /\ u.op = "asset" => u \in AssetRequest
           /\ u.op = "create" \/ u.op = "delete" \/ u.op \in {"move", "switch", "place",
                                                               "gallery", "asset"}
BY DEF WorkingRequest, CategoryRequest, CreateRequest, MoveRequest, SwitchRequest,
       DeleteRequest, PlaceRequest, GalleryRequest, AssetRequest

\* It relies on no more than before.
LEMMA MetKnows ==
    ASSUME NEW u \in WorkingRequest, RequestKnows(u), NEW v, v = [u EXCEPT !.met = TRUE]
    PROVE  RequestKnows(v) /\ (u.op = "create" => v.k = u.k)
<1>1. v.met /\ v.op = u.op /\ v.about = u.about
  BY MetTyped
<1>2. CategoryKnows(v) /\ (u.op = "create" => v.k = u.k)
  <2>1. CASE u.op = "create"
    BY <1>1, <2>1, RequestKinds DEF CreateRequest, RequestKnows, CategoryKnows
  <2>2. CASE u.op = "switch"
    BY <1>1, <2>2, RequestKinds DEF SwitchRequest, RequestKnows, CategoryKnows
  <2>3. CASE u.op = "delete"
    BY <1>1, <2>3, RequestKinds DEF DeleteRequest, RequestKnows, CategoryKnows
  <2>4. CASE u.op = "place"
    BY <1>1, <2>4, RequestKinds DEF PlaceRequest, RequestKnows, CategoryKnows
  <2> QED
    BY <1>1, <2>1, <2>2, <2>3, <2>4 DEF CategoryKnows
<1>3. GalleryKnows(v)
  <2>1. CASE u.op = "gallery"
    BY <1>1, <2>1, RequestKinds DEF GalleryRequest, RequestKnows, GalleryKnows
  <2> QED
    BY <1>1, <2>1 DEF GalleryKnows
<1>4. AssetKnows(v)
  <2>1. CASE u.op = "asset"
    BY <1>1, <2>1, RequestKinds DEF AssetRequest, RequestKnows, AssetKnows
  <2> QED
    BY <1>1, <2>1 DEF AssetKnows
<1> QED
  BY <1>2, <1>3, <1>4 DEF RequestKnows

\* A call with no request relies on nothing.
LEMMA IdleKnows ==
    ASSUME NEW v, v = Products!NoCatalogCall
    PROVE  RequestKnows(v) /\ v.op = "none" /\ v.op # "create"
BY DEF RequestKnows, CategoryKnows, GalleryKnows, AssetKnows, Products!NoCatalogCall

\* After a commit: whoever is under way about the same has met it, and relied
\* on what it relies on before.
LEMMA FinishedOnes ==
    ASSUME CatalogInv, NEW c \in CallIds, Products!Finish(c), NEW x \in CallIds,
           NEW v, v = requests'[x]
    PROVE  /\ v \in WorkingRequest \union {Products!NoCatalogCall}
           /\ RequestKnows(v)
           /\ v.op # "none" => x # c /\ (v.about = requests[c].about => v.met)
           /\ v.op = "create" => x # c /\ requests[x].op = "create" /\ requests[x].k = v.k
<1> PICK u : u = requests[x]
  OBVIOUS
<1>1. u \in WorkingRequest \union {Products!NoCatalogCall} /\ RequestKnows(u)
  BY DEF CatalogInv, CatalogTypeOK
<1>2. CASE x = c
  BY <1>2, IdleKnows DEF Products!Finish
<1>3. CASE x # c /\ u = Products!NoCatalogCall
  <2>1. v = u
    BY <1>3, IdleKnows DEF Products!Finish, Products!Working
  <2> QED
    BY <1>3, <2>1, IdleKnows
<1>4. CASE x # c /\ u \in WorkingRequest
  <2>1. u.op # "none"
    BY <1>4, RequestKinds
  <2>2. CASE u.about = requests[c].about
    <3>1. v = [u EXCEPT !.met = TRUE]
      BY <1>4, <2>1, <2>2 DEF Products!Finish, Products!Working
    <3> QED
      BY <1>1, <1>4, <3>1, MetTyped, MetKnows
  <2>3. CASE u.about # requests[c].about
    BY <1>1, <1>4, <2>3 DEF Products!Finish
  <2> QED
    BY <2>2, <2>3
<1> QED
  BY <1>1, <1>2, <1>3, <1>4

\* No creation begins with a commit.
LEMMA FinishedCreations ==
    ASSUME CatalogInv, NEW c \in CallIds, Products!Finish(c)
    PROVE  OneCreation'
<1> SUFFICES ASSUME NEW x \in CallIds, NEW y \in CallIds,
                    requests'[x].op = "create", requests'[y].op = "create",
                    requests'[x].k = requests'[y].k
             PROVE  x = y
  BY DEF OneCreation
<1>1. PICK v, w : v = requests'[x] /\ w = requests'[y]
  OBVIOUS
<1>2. /\ requests[x].op = "create" /\ requests[x].k = v.k
      /\ requests[y].op = "create" /\ requests[y].k = w.k
  BY <1>1, FinishedOnes
<1> QED
  BY <1>1, <1>2 DEF CatalogInv, OneCreation

\* A commit is as good as what it leaves the others to rely on.
LEMMA RequestFinishes ==
    ASSUME CatalogInv, NEW c \in CallIds, Products!Finish(c),
           category' \in [BranchIds -> CategoryRow], placed' \in [CashIds -> Above],
           image' \in [BranchIds -> ImageState], asset' \in [BranchIds -> AssetState],
           TreeOK', MainOK', ChosenOK',
           \A x \in CallIds : RequestKnows(requests[x])'
    PROVE  CatalogInv'
<1>1. requests' \in [CallIds -> WorkingRequest \union {Products!NoCatalogCall}]
  <2>1. \A x \in CallIds : requests'[x] \in WorkingRequest \union {Products!NoCatalogCall}
    BY FinishedOnes
  <2> QED
    BY <2>1 DEF Products!Finish
<1> QED
  BY <1>1, FinishedCreations DEF CatalogInv, CatalogTypeOK

\* A request begins, sure of what it has read.
LEMMA RequestStarts ==
    ASSUME CatalogInv, NEW c \in CallIds, NEW call \in WorkingRequest,
           Products!Start(c, call), RequestKnows(call),
           call.op = "create" =>
               \A x \in CallIds : requests[x].op = "create" => requests[x].k # call.k
    PROVE  CatalogInv'
<1>1. UNCHANGED <<category, placed, image, asset, chosen, locks, clashed>>
  BY DEF Products!Start
<1>2. requests' = [requests EXCEPT ![c] = call]
  BY DEF Products!Start
<1>3. CatalogTypeOK'
  BY <1>1, <1>2 DEF CatalogInv, CatalogTypeOK
<1>4. ASSUME NEW x \in CallIds PROVE RequestKnows(requests[x])'
  <2>1. PICK v : v = requests'[x]
    OBVIOUS
  <2>2. RequestKnows(v)
    BY <1>2, <2>1 DEF CatalogInv, CatalogTypeOK
  <2>3. RequestKnows(v)'
    BY <1>1, <2>2 DEF RequestKnows, CategoryKnows, GalleryKnows, AssetKnows, Apart,
                      Products!Upclosed, Products!There
  <2> QED
    BY <2>1, <2>3
<1>5. OneCreation'
  BY <1>2 DEF OneCreation, CatalogInv, CatalogTypeOK
<1>6. TreeOK' /\ MainOK' /\ ChosenOK'
  BY <1>1 DEF CatalogInv, TreeOK, MainOK, ChosenOK, AtMostOneMain, Products!Exists,
              Products!Upclosed
<1> QED
  BY <1>3, <1>4, <1>5, <1>6 DEF CatalogInv

\* A request that fails is as if it had never been.
LEMMA RefusedKeeps ==
    ASSUME CatalogInv, NEW c \in CallIds, Products!Refused(c)
    PROVE  CatalogInv'
<1>1. UNCHANGED <<category, placed, image, asset, chosen, clashed>>
  BY DEF Products!Refused
<1>2. requests' = [requests EXCEPT ![c] = Products!NoCatalogCall]
  BY DEF Products!Refused
<1>3. CatalogTypeOK'
  BY <1>1, <1>2 DEF CatalogInv, CatalogTypeOK
<1>4. ASSUME NEW x \in CallIds PROVE RequestKnows(requests[x])'
  <2>1. PICK v : v = requests'[x]
    OBVIOUS
  <2>2. RequestKnows(v)
    BY <1>2, <2>1, IdleKnows DEF CatalogInv, CatalogTypeOK
  <2>3. RequestKnows(v)'
    BY <1>1, <2>2 DEF RequestKnows, CategoryKnows, GalleryKnows, AssetKnows, Apart,
                      Products!Upclosed, Products!There
  <2> QED
    BY <2>1, <2>3
<1>5. OneCreation'
  <2>1. \A x \in CallIds : requests'[x].op = "create" => requests'[x] = requests[x]
    BY <1>2, IdleKnows DEF CatalogInv, CatalogTypeOK
  <2> QED
    BY <2>1 DEF OneCreation, CatalogInv
<1>6. TreeOK' /\ MainOK' /\ ChosenOK'
  BY <1>1 DEF CatalogInv, TreeOK, MainOK, ChosenOK, AtMostOneMain, Products!Exists,
              Products!Upclosed
<1> QED
  BY <1>3, <1>4, <1>5, <1>6 DEF CatalogInv

\* The catalogue is empty at first.
LEMMA CatalogStarts == Products!CatalogInit => CatalogInv
<1> SUFFICES ASSUME Products!CatalogInit PROVE CatalogInv
  OBVIOUS
<1>1. CatalogTypeOK
  BY DEF Products!CatalogInit, CatalogTypeOK, CategoryRow, Above, ImageState, AssetState
<1>2. \A c \in CallIds : RequestKnows(requests[c]) /\ requests[c].op # "create"
  BY IdleKnows DEF Products!CatalogInit
<1>3. OneCreation
  BY <1>2 DEF OneCreation
<1>4. TreeOK
  <2>1. \A k \in BranchIds : category[k].parent = NoCall
    BY DEF Products!CatalogInit
  <2>2. \A s \in SUBSET BranchIds : Products!Upclosed(s) => s = {}
    BY <2>1, CatalogAssumption DEF Products!Upclosed
  <2> QED
    BY <2>1, <2>2 DEF TreeOK, Products!CatalogInit
<1>5. MainOK /\ ChosenOK
  BY DEF MainOK, ChosenOK, AtMostOneMain, Products!CatalogInit
<1> QED
  BY <1>1, <1>2, <1>3, <1>4, <1>5 DEF CatalogInv

\* The requests about the tree begin: what they looked at is so.
LEMMA CategoryStartKeeps ==
    ASSUME CatalogInv, NEW c \in CallIds, NEW k \in BranchIds,
           \/ \E parent \in Above : \/ Products!CreateCategory(c, k, parent)
                                    \/ Products!UpdateCategory(c, k, parent)
           \/ \E value \in {"on", "off"} : Products!SetReferenceActive(c, k, value)
           \/ Products!DeleteReference(c, k)
           \/ \E p \in CashIds : Products!PlaceProduct(c, p, k)
    PROVE  CatalogInv'
<1>1. category[k] \in CategoryRow
  BY DEF CatalogInv, CatalogTypeOK
<1>2. ASSUME NEW parent \in Above, Products!CreateCategory(c, k, parent)
      PROVE  CatalogInv'
  <2> DEFINE call == [op |-> "create", k |-> k, parent |-> parent, about |-> "creation",
                      met |-> FALSE]
  <2>1. call \in CreateRequest
    BY DEF CreateRequest
  <2>2. RequestKnows(call)
    BY <1>2 DEF RequestKnows, CategoryKnows, GalleryKnows, AssetKnows,
                Products!CreateCategory
  <2>3. Products!Start(c, call)
    BY <1>2 DEF Products!CreateCategory
  <2>4. \A x \in CallIds : requests[x].op = "create" => requests[x].k # call.k
    BY <1>2 DEF Products!CreateCategory
  <2> QED
    BY <2>1, <2>2, <2>3, <2>4, RequestStarts DEF WorkingRequest, CategoryRequest
<1>3. ASSUME NEW parent \in Above, Products!UpdateCategory(c, k, parent)
      PROVE  CatalogInv'
  <2> DEFINE call == [op |-> "move", k |-> k, parent |-> parent, was |-> category[k].parent,
                      about |-> "tree", met |-> FALSE]
  <2>1. call \in MoveRequest
    BY <1>1 DEF MoveRequest, CategoryRow
  <2>5. Apart(k, parent)
    BY <1>3 DEF Apart, Products!UpdateCategory, Products!Upwards, Products!Exists, Above
  <2>2. RequestKnows(call)
    BY <2>5 DEF RequestKnows, CategoryKnows, GalleryKnows, AssetKnows
  <2>3. Products!Start(c, call)
    BY <1>3 DEF Products!UpdateCategory
  <2> QED
    BY <2>1, <2>2, <2>3, RequestStarts DEF WorkingRequest, CategoryRequest
<1>4. ASSUME NEW value \in {"on", "off"}, Products!SetReferenceActive(c, k, value)
      PROVE  CatalogInv'
  <2> DEFINE call == [op |-> "switch", k |-> k, value |-> value, was |-> category[k].state,
                      about |-> k, met |-> FALSE]
  <2>1. call \in SwitchRequest
    BY <1>4 DEF SwitchRequest, Products!SetReferenceActive, Products!Exists
  <2>2. RequestKnows(call)
    BY <1>4 DEF RequestKnows, CategoryKnows, GalleryKnows, AssetKnows,
                Products!SetReferenceActive, Products!Unused
  <2>3. Products!Start(c, call)
    BY <1>4 DEF Products!SetReferenceActive
  <2> QED
    BY <2>1, <2>2, <2>3, RequestStarts DEF WorkingRequest, CategoryRequest
<1>5. CASE Products!DeleteReference(c, k)
  <2> DEFINE call == [op |-> "delete", k |-> k, about |-> "deletion", met |-> FALSE]
  <2>1. call \in DeleteRequest
    BY DEF DeleteRequest
  <2>2. RequestKnows(call)
    BY <1>5 DEF RequestKnows, CategoryKnows, GalleryKnows, AssetKnows,
                Products!DeleteReference, Products!Exists
  <2>3. Products!Start(c, call)
    BY <1>5 DEF Products!DeleteReference
  <2> QED
    BY <2>1, <2>2, <2>3, RequestStarts DEF WorkingRequest, CategoryRequest
<1>6. ASSUME NEW p \in CashIds, Products!PlaceProduct(c, p, k)
      PROVE  CatalogInv'
  <2> DEFINE call == [op |-> "place", k |-> k, product |-> p, about |-> k, met |-> FALSE]
  <2>1. call \in PlaceRequest
    BY DEF PlaceRequest
  <2>2. RequestKnows(call)
    BY <1>6 DEF RequestKnows, CategoryKnows, GalleryKnows, AssetKnows,
                Products!PlaceProduct
  <2>3. Products!Start(c, call)
    BY <1>6 DEF Products!PlaceProduct
  <2> QED
    BY <2>1, <2>2, <2>3, RequestStarts DEF WorkingRequest, CategoryRequest
<1> QED
  BY <1>2, <1>3, <1>4, <1>5, <1>6

\* What has been committed about two requests that met stays so.
LEMMA ClashesStay ==
    ASSUME NEW c \in CallIds, Products!Finish(c)
    PROVE  clashed \subseteq clashed' /\ (requests[c].met => requests[c].about \in clashed')
BY DEF Products!Finish

\* A commit in the tree, or of a product in it, leaves the gallery alone.
LEMMA TreeCommitKeeps ==
    ASSUME CatalogInv, NEW c \in CallIds, Products!Finish(c),
           UNCHANGED <<image, asset, chosen>>,
           category' \in [BranchIds -> CategoryRow], placed' \in [CashIds -> Above], TreeOK',
           \A x \in CallIds : requests'[x] \in WorkingRequest => CategoryKnows(requests[x])'
    PROVE  CatalogInv'
<1>1. MainOK' /\ ChosenOK'
  BY ClashesStay DEF CatalogInv, MainOK, ChosenOK, AtMostOneMain
<1>2. ASSUME NEW x \in CallIds PROVE RequestKnows(requests[x])'
  <2>1. PICK v : v = requests'[x]
    OBVIOUS
  <2>2. RequestKnows(v) /\ v \in WorkingRequest \union {Products!NoCatalogCall}
    BY <2>1, FinishedOnes
  <2>3. GalleryKnows(v)' /\ AssetKnows(v)'
    BY <2>2 DEF RequestKnows, GalleryKnows, AssetKnows, AtMostOneMain, Products!There
  <2>4. CategoryKnows(v)'
    <3>1. CASE v = Products!NoCatalogCall
      BY <3>1, IdleKnows DEF CategoryKnows
    <3> QED
      BY <2>1, <2>2, <3>1
  <2> QED
    BY <2>1, <2>3, <2>4 DEF RequestKnows
<1> QED
  BY <1>1, <1>2, RequestFinishes DEF CatalogInv, CatalogTypeOK

\* A new category is below one that is there, and nothing is below it.
LEMMA CreateCommitKeeps ==
    ASSUME CatalogInv, NEW c \in CallIds, Products!CommitCategory(c),
           requests[c].op = "create"
    PROVE  CatalogInv'
<1> PICK call : call = requests[c]
  OBVIOUS
<1> DEFINE k == call.k
<1>1. call \in CreateRequest /\ RequestKnows(call)
  <2>1. call \in WorkingRequest
    BY IdleKnows DEF CatalogInv, CatalogTypeOK
  <2> QED
    BY <2>1, RequestKinds DEF CatalogInv
<1>2. k \in BranchIds /\ call.parent \in Above /\ category[k].state = "none"
  BY <1>1 DEF CreateRequest, RequestKnows, CategoryKnows
<1>3. /\ call.parent # NoCall => Products!Exists(call.parent)
      /\ category' = [category EXCEPT ![k] = [state |-> "on", parent |-> call.parent]]
      /\ Products!Finish(c) /\ UNCHANGED <<placed, image, asset, chosen>>
  BY DEF Products!CommitCategory
<1>4. /\ category' \in [BranchIds -> CategoryRow]
      /\ category'[k].state = "on" /\ category'[k].parent = call.parent
      /\ \A j \in BranchIds \ {k} : category'[j] = category[j]
  BY <1>2, <1>3 DEF CatalogInv, CatalogTypeOK, CategoryRow
<1> HIDE DEF k
<1>5. \A j \in BranchIds : category[j].parent # k
  BY <1>2, CatalogAssumption DEF CatalogInv, TreeOK, Products!Exists
<1>6. call.parent # k
  BY <1>2, <1>3, CatalogAssumption DEF Products!Exists
<1>7. ASSUME NEW s \in SUBSET Above, Products!Upclosed(s)
      PROVE  Products!Upclosed(s \ {k})
  BY <1>5, <1>7 DEF Products!Upclosed, Above
<1>8. ASSUME NEW s \in SUBSET Above, Products!Upclosed(s \ {k}), k \notin s
      PROVE  Products!Upclosed(s)'
  BY <1>4, <1>8 DEF Products!Upclosed, Above
<1>9. TreeOK'
  <2>1. \A j \in BranchIds : category'[j].parent # NoCall =>
            Products!Exists(category[j].parent)'
    <3> SUFFICES ASSUME NEW j \in BranchIds, category'[j].parent # NoCall
                 PROVE  Products!Exists(category[j].parent)'
      OBVIOUS
    <3>1. PICK up : up = category'[j].parent
      OBVIOUS
    <3>2. up \in BranchIds /\ Products!Exists(up) /\ up # k
      BY <1>2, <1>3, <1>4, <1>5, <1>6, <3>1 DEF CatalogInv, CatalogTypeOK, TreeOK, CategoryRow, Above
    <3>3. Products!Exists(up)'
      BY <1>4, <3>2 DEF Products!Exists
    <3> QED
      BY <3>1, <3>3
  <2>2. \/ "tree" \in clashed'
        \/ \A s \in SUBSET BranchIds : Products!Upclosed(s)' => s = {}
    <3>1. CASE "tree" \in clashed
      BY <1>3, <3>1, ClashesStay
    <3>2. CASE "tree" \notin clashed
      <4> SUFFICES ASSUME NEW s \in SUBSET BranchIds, Products!Upclosed(s)'
                   PROVE  s = {}
        OBVIOUS
      <4>1. Products!Upclosed(s \ {k})
        BY <1>4, <1>5 DEF Products!Upclosed
      <4>2. s \ {k} = {}
        BY <3>2, <4>1 DEF CatalogInv, TreeOK
      <4>3. k \notin s
        BY <1>2, <1>4, <1>6, <4>2, CatalogAssumption DEF Products!Upclosed
      <4> QED
        BY <4>2, <4>3
    <3> QED
      BY <3>1, <3>2
  <2>3. \A p \in CashIds : placed'[p] # NoCall =>
            category'[placed'[p]].state = "on" \/ placed'[p] \in clashed'
    BY <1>3, <1>4, ClashesStay DEF CatalogInv, CatalogTypeOK, TreeOK, Above
  <2> QED
    BY <2>1, <2>2, <2>3 DEF TreeOK
<1>10. ASSUME NEW x \in CallIds, requests'[x] \in WorkingRequest
       PROVE  CategoryKnows(requests[x])'
  <2>1. PICK v : v = requests'[x]
    OBVIOUS
  <2>2. /\ v \in WorkingRequest /\ CategoryKnows(v)
        /\ v.op = "create" => x # c /\ requests[x].op = "create" /\ requests[x].k = v.k
    BY <1>3, <1>10, <2>1, FinishedOnes DEF RequestKnows
  <2>3. v.op = "create" => category'[v.k].state = "none"
    <3>1. v.op = "create" => v.k # k /\ v.k \in BranchIds
      BY <2>2, RequestKinds DEF CatalogInv, OneCreation, CreateRequest, k
    <3> QED
      BY <1>4, <2>2, <3>1 DEF CategoryKnows
  <2>4. v.op = "move" => v.met \/ Apart(v.k, v.parent)'
    <3> SUFFICES ASSUME v.op = "move", ~ v.met, v.parent # NoCall
                 PROVE  /\ category'[v.parent].state # "none"
                        /\ \E s \in SUBSET Above :
                               v.parent \in s /\ v.k \notin s /\ Products!Upclosed(s)'
      BY DEF Apart
    <3>1. v.parent \in BranchIds /\ Apart(v.k, v.parent)
      BY <2>2, RequestKinds DEF MoveRequest, CategoryKnows, Above
    <3>2. v.parent # k /\ category'[v.parent].state # "none"
      BY <1>2, <1>4, <3>1 DEF Apart
    <3>3. PICK s \in SUBSET Above : v.parent \in s /\ v.k \notin s /\ Products!Upclosed(s)
      BY <3>1 DEF Apart
    <3>4. Products!Upclosed(s \ {k})'
      BY <1>7, <1>8, <3>3
    <3> QED
      BY <3>2, <3>3, <3>4
  <2>5. v.op = "switch" => /\ v.about = v.k
                           /\ v.met \/ v.value = "on" \/ \A p \in CashIds : placed'[p] # v.k
    BY <1>3, <2>2 DEF CategoryKnows
  <2>6. v.op = "delete" => category'[v.k].state # "none"
    BY <1>4, <2>2, RequestKinds DEF CategoryKnows, DeleteRequest
  <2>7. v.op = "place" => /\ v.about = v.k
                          /\ v.met \/ category'[v.k].state \in {"on", "gone"}
    BY <1>4, <2>2, RequestKinds DEF CategoryKnows, PlaceRequest
  <2>8. CategoryKnows(v)'
    BY <2>3, <2>4, <2>5, <2>6, <2>7 DEF CategoryKnows
  <2> QED
    BY <2>1, <2>8
<1> QED
  BY <1>3, <1>4, <1>9, <1>10, TreeCommitKeeps DEF CatalogInv, CatalogTypeOK

\* A category that was not above its new parent: what holds its parents holds
\* nothing more than before.
LEMMA MoveCommitKeeps ==
    ASSUME CatalogInv, NEW c \in CallIds, Products!CommitCategory(c),
           requests[c].op = "move"
    PROVE  CatalogInv'
<1> PICK call : call = requests[c]
  OBVIOUS
<1> DEFINE k == call.k
<1>1. call \in MoveRequest /\ RequestKnows(call)
  <2>1. call \in WorkingRequest
    BY IdleKnows DEF CatalogInv, CatalogTypeOK
  <2> QED
    BY <2>1, RequestKinds DEF CatalogInv
<1>2. /\ k \in BranchIds /\ call.parent \in Above /\ call.about = "tree"
      /\ call.met \/ Apart(k, call.parent)
  BY <1>1 DEF MoveRequest, RequestKnows, CategoryKnows
<1>3. /\ \/ category' = category
         \/ /\ Products!Exists(k)
            /\ call.parent # NoCall => Products!Exists(call.parent)
            /\ category' = [category EXCEPT ![k].parent = call.parent]
      /\ Products!Finish(c) /\ UNCHANGED <<placed, image, asset, chosen>>
  BY DEF Products!CommitCategory
<1>4. /\ category' \in [BranchIds -> CategoryRow]
      /\ \A j \in BranchIds : category'[j].state = category[j].state
      /\ \/ category' = category
         \/ /\ call.parent # NoCall => Products!Exists(call.parent)
            /\ category'[k].parent = call.parent
            /\ \A j \in BranchIds \ {k} : category'[j] = category[j]
  <2> DEFINE entry == [category[k] EXCEPT !.parent = call.parent]
  <2>1. entry \in CategoryRow /\ entry.state = category[k].state /\ entry.parent = call.parent
    BY <1>2 DEF CatalogInv, CatalogTypeOK, CategoryRow
  <2>2. \/ category' = category
        \/ category' = [category EXCEPT ![k] = entry]
    BY <1>3
  <2> HIDE DEF entry
  <2> QED
    BY <1>2, <1>3, <2>1, <2>2 DEF CatalogInv, CatalogTypeOK
<1> HIDE DEF k
<1>5. TreeOK'
  <2>1. \A j \in BranchIds : category'[j].parent # NoCall =>
            Products!Exists(category[j].parent)'
    <3> SUFFICES ASSUME NEW j \in BranchIds, category'[j].parent # NoCall
                 PROVE  Products!Exists(category[j].parent)'
      OBVIOUS
    <3>1. PICK up : up = category'[j].parent
      OBVIOUS
    <3>2. up \in BranchIds /\ Products!Exists(up)
      BY <1>2, <1>4, <3>1 DEF CatalogInv, CatalogTypeOK, TreeOK, CategoryRow, Above
    <3>3. Products!Exists(up)'
      BY <1>4, <3>2 DEF Products!Exists
    <3> QED
      BY <3>1, <3>3
  <2>2. \/ "tree" \in clashed'
        \/ \A s \in SUBSET BranchIds : Products!Upclosed(s)' => s = {}
    <3>1. CASE "tree" \in clashed \/ call.met
      BY <1>2, <1>3, <3>1, ClashesStay
    <3>2. CASE "tree" \notin clashed /\ ~ call.met
      <4> SUFFICES ASSUME NEW s \in SUBSET BranchIds, Products!Upclosed(s)'
                   PROVE  s = {}
        OBVIOUS
      <4>1. \A t \in SUBSET BranchIds : Products!Upclosed(t) => t = {}
        BY <3>2 DEF CatalogInv, TreeOK
      <4>2. CASE category' = category \/ k \notin s
        <5>1. Products!Upclosed(s)
          BY <1>4, <4>2 DEF Products!Upclosed
        <5> QED
          BY <4>1, <5>1
      <4>3. CASE category' # category /\ k \in s
        <5>1. call.parent \in s /\ call.parent # NoCall
          BY <1>2, <1>4, <4>3, CatalogAssumption DEF Products!Upclosed
        <5>2. PICK t \in SUBSET Above :
                  call.parent \in t /\ k \notin t /\ Products!Upclosed(t)
          BY <1>2, <3>2, <5>1 DEF Apart
        <5>3. Products!Upclosed(s \cap t)
          BY <1>4, <4>3, <5>2 DEF Products!Upclosed
        <5> QED
          BY <4>1, <5>1, <5>2, <5>3
      <4> QED
        BY <4>2, <4>3
    <3> QED
      BY <3>1, <3>2
  <2>3. \A p \in CashIds : placed'[p] # NoCall =>
            category'[placed'[p]].state = "on" \/ placed'[p] \in clashed'
    BY <1>3, <1>4, ClashesStay DEF CatalogInv, CatalogTypeOK, TreeOK, Above
  <2> QED
    BY <2>1, <2>2, <2>3 DEF TreeOK
<1>6. ASSUME NEW x \in CallIds, requests'[x] \in WorkingRequest
      PROVE  CategoryKnows(requests[x])'
  <2>1. PICK v : v = requests'[x]
    OBVIOUS
  <2>2. v \in WorkingRequest /\ CategoryKnows(v) /\ (v.about = "tree" => v.met)
    BY <1>2, <1>3, <1>6, <2>1, RequestKinds, FinishedOnes DEF RequestKnows
  <2>3. v.op = "create" => category'[v.k].state = "none"
    BY <1>4, <2>2, RequestKinds DEF CategoryKnows, CreateRequest
  <2>4. v.op = "move" => v.met
    BY <2>2, RequestKinds DEF MoveRequest
  <2>5. v.op = "switch" => /\ v.about = v.k
                           /\ v.met \/ v.value = "on" \/ \A p \in CashIds : placed'[p] # v.k
    BY <1>3, <2>2 DEF CategoryKnows
  <2>6. v.op = "delete" => category'[v.k].state # "none"
    BY <1>4, <2>2, RequestKinds DEF CategoryKnows, DeleteRequest
  <2>7. v.op = "place" => /\ v.about = v.k
                          /\ v.met \/ category'[v.k].state \in {"on", "gone"}
    BY <1>4, <2>2, RequestKinds DEF CategoryKnows, PlaceRequest
  <2>8. CategoryKnows(v)'
    BY <2>3, <2>4, <2>5, <2>6, <2>7 DEF CategoryKnows
  <2> QED
    BY <2>1, <2>8
<1> QED
  BY <1>3, <1>4, <1>5, <1>6, TreeCommitKeeps DEF CatalogInv, CatalogTypeOK

\* A category that is switched off had no product, unless one met it.
LEMMA SwitchCommitKeeps ==
    ASSUME CatalogInv, NEW c \in CallIds, Products!CommitCategory(c),
           requests[c].op = "switch"
    PROVE  CatalogInv'
<1> PICK call : call = requests[c]
  OBVIOUS
<1> DEFINE k == call.k
<1>1. call \in SwitchRequest /\ RequestKnows(call)
  <2>1. call \in WorkingRequest
    BY IdleKnows DEF CatalogInv, CatalogTypeOK
  <2> QED
    BY <2>1, RequestKinds DEF CatalogInv
<1>2. /\ k \in BranchIds /\ call.about = k /\ call.value \in {"on", "off"}
      /\ call.met \/ call.value = "on" \/ \A p \in CashIds : placed[p] # k
  BY <1>1 DEF SwitchRequest, RequestKnows, CategoryKnows
<1>3. /\ \/ category' = category
         \/ Products!Exists(k) /\ category' = [category EXCEPT ![k].state = call.value]
      /\ Products!Finish(c) /\ UNCHANGED <<placed, image, asset, chosen>>
  BY DEF Products!CommitCategory
<1>4. /\ category' \in [BranchIds -> CategoryRow]
      /\ \A j \in BranchIds : category'[j].parent = category[j].parent
      /\ \/ category' = category
         \/ /\ Products!Exists(k) /\ category'[k].state = call.value
            /\ \A j \in BranchIds \ {k} : category'[j] = category[j]
  <2> DEFINE entry == [category[k] EXCEPT !.state = call.value]
  <2>1. entry \in CategoryRow /\ entry.parent = category[k].parent /\ entry.state = call.value
    BY <1>2 DEF CatalogInv, CatalogTypeOK, CategoryRow
  <2>2. \/ category' = category
        \/ category' = [category EXCEPT ![k] = entry]
    BY <1>3
  <2> HIDE DEF entry
  <2> QED
    BY <1>2, <1>3, <2>1, <2>2 DEF CatalogInv, CatalogTypeOK
<1> HIDE DEF k
<1>5. /\ \A s \in SUBSET Above : Products!Upclosed(s)' <=> Products!Upclosed(s)
      /\ \A j \in BranchIds : Products!Exists(j)' <=> Products!Exists(j)
  <2>1. \A s \in SUBSET Above : Products!Upclosed(s)' <=> Products!Upclosed(s)
    BY <1>4 DEF Products!Upclosed, Above
  <2>2. \A j \in BranchIds : Products!Exists(j)' <=> Products!Exists(j)
    BY <1>2, <1>4 DEF Products!Exists
  <2> QED
    BY <2>1, <2>2
<1>6. TreeOK'
  <2>1. \A j \in BranchIds : category'[j].parent # NoCall =>
            Products!Exists(category[j].parent)'
    <3> SUFFICES ASSUME NEW j \in BranchIds, category'[j].parent # NoCall
                 PROVE  Products!Exists(category[j].parent)'
      OBVIOUS
    <3>1. PICK up : up = category'[j].parent
      OBVIOUS
    <3>2. up \in BranchIds /\ Products!Exists(up)
      BY <1>4, <3>1 DEF CatalogInv, TreeOK, CategoryRow, Above
    <3>3. Products!Exists(up)'
      BY <1>5, <3>2
    <3> QED
      BY <3>1, <3>3
  <2>2. \/ "tree" \in clashed'
        \/ \A s \in SUBSET BranchIds : Products!Upclosed(s)' => s = {}
    BY <1>3, <1>5, ClashesStay DEF CatalogInv, TreeOK, Above
  <2>3. \A p \in CashIds : placed'[p] # NoCall =>
            category'[placed'[p]].state = "on" \/ placed'[p] \in clashed'
    <3> SUFFICES ASSUME NEW p \in CashIds, placed[p] # NoCall, placed[p] \notin clashed'
                 PROVE  category'[placed[p]].state = "on"
      BY <1>3
    <3>1. category[placed[p]].state = "on" /\ placed[p] \in BranchIds
      BY <1>3, ClashesStay DEF CatalogInv, CatalogTypeOK, TreeOK, Above
    <3>2. placed[p] = k => call.value = "on"
      BY <1>2, <1>3, ClashesStay
    <3> QED
      BY <1>4, <3>1, <3>2
  <2> QED
    BY <2>1, <2>2, <2>3 DEF TreeOK
<1>7. ASSUME NEW x \in CallIds, requests'[x] \in WorkingRequest
      PROVE  CategoryKnows(requests[x])'
  <2>1. PICK v : v = requests'[x]
    OBVIOUS
  <2>2. v \in WorkingRequest /\ CategoryKnows(v) /\ (v.about = k => v.met)
    BY <1>2, <1>3, <1>7, <2>1, RequestKinds, FinishedOnes DEF RequestKnows
  <2>3. v.op = "create" => category'[v.k].state = "none"
    BY <1>2, <1>4, <2>2, RequestKinds DEF CategoryKnows, CreateRequest, Products!Exists
  <2>4. v.op = "move" => v.met \/ Apart(v.k, v.parent)'
    <3> SUFFICES ASSUME v.op = "move", ~ v.met, v.parent # NoCall
                 PROVE  /\ category'[v.parent].state # "none"
                        /\ \E s \in SUBSET Above :
                               v.parent \in s /\ v.k \notin s /\ Products!Upclosed(s)'
      BY DEF Apart
    <3>1. v.parent \in BranchIds /\ Apart(v.k, v.parent)
      BY <2>2, RequestKinds DEF MoveRequest, CategoryKnows, Above
    <3>2. category'[v.parent].state # "none"
      BY <1>2, <1>4, <3>1 DEF Apart
    <3> QED
      BY <1>5, <3>1, <3>2 DEF Apart
  <2>5. v.op = "switch" => /\ v.about = v.k
                           /\ v.met \/ v.value = "on" \/ \A p \in CashIds : placed'[p] # v.k
    BY <1>3, <2>2 DEF CategoryKnows
  <2>6. v.op = "delete" => category'[v.k].state # "none"
    BY <1>2, <1>4, <2>2, RequestKinds DEF CategoryKnows, DeleteRequest
  <2>7. v.op = "place" => /\ v.about = v.k
                          /\ v.met \/ category'[v.k].state \in {"on", "gone"}
    BY <1>4, <2>2, RequestKinds DEF CategoryKnows, PlaceRequest
  <2>8. CategoryKnows(v)'
    BY <2>3, <2>4, <2>5, <2>6, <2>7 DEF CategoryKnows
  <2> QED
    BY <2>1, <2>8
<1> QED
  BY <1>3, <1>4, <1>6, <1>7, TreeCommitKeeps DEF CatalogInv, CatalogTypeOK

\* A category that is deleted has nothing below it when it goes.
LEMMA DeleteCommitKeeps ==
    ASSUME CatalogInv, NEW c \in CallIds, Products!CommitCategory(c),
           requests[c].op = "delete"
    PROVE  CatalogInv'
<1> PICK call : call = requests[c]
  OBVIOUS
<1> DEFINE k == call.k
<1>1. call \in DeleteRequest /\ RequestKnows(call)
  <2>1. call \in WorkingRequest
    BY IdleKnows DEF CatalogInv, CatalogTypeOK
  <2> QED
    BY <2>1, RequestKinds DEF CatalogInv
<1>2. k \in BranchIds /\ category[k].state # "none"
  BY <1>1 DEF DeleteRequest, RequestKnows, CategoryKnows
<1>3. /\ Products!Unused(k)
      /\ category' = [category EXCEPT ![k] = [state |-> "gone", parent |-> NoCall]]
      /\ Products!Finish(c) /\ UNCHANGED <<placed, image, asset, chosen>>
  BY DEF Products!CommitCategory
<1>4. /\ category' \in [BranchIds -> CategoryRow]
      /\ category'[k].state = "gone" /\ category'[k].parent = NoCall
      /\ \A j \in BranchIds \ {k} : category'[j] = category[j]
  BY <1>2, <1>3 DEF CatalogInv, CatalogTypeOK, CategoryRow, Above
<1> HIDE DEF k
<1>5. TreeOK'
  <2>1. \A j \in BranchIds : category'[j].parent # NoCall =>
            Products!Exists(category[j].parent)'
    <3> SUFFICES ASSUME NEW j \in BranchIds, category'[j].parent # NoCall
                 PROVE  Products!Exists(category[j].parent)'
      OBVIOUS
    <3>1. PICK up : up = category'[j].parent
      OBVIOUS
    <3>2. up \in BranchIds /\ Products!Exists(up) /\ up # k
      BY <1>3, <1>4, <3>1 DEF CatalogInv, TreeOK, CategoryRow, Above, Products!Unused
    <3>3. Products!Exists(up)'
      BY <1>4, <3>2 DEF Products!Exists
    <3> QED
      BY <3>1, <3>3
  <2>2. \/ "tree" \in clashed'
        \/ \A s \in SUBSET BranchIds : Products!Upclosed(s)' => s = {}
    <3>1. CASE "tree" \in clashed
      BY <1>3, <3>1, ClashesStay
    <3>2. CASE "tree" \notin clashed
      <4> SUFFICES ASSUME NEW s \in SUBSET BranchIds, Products!Upclosed(s)'
                   PROVE  s = {}
        OBVIOUS
      <4>1. k \notin s
        BY <1>4, CatalogAssumption DEF Products!Upclosed
      <4>2. Products!Upclosed(s)
        BY <1>4, <4>1 DEF Products!Upclosed
      <4> QED
        BY <3>2, <4>2 DEF CatalogInv, TreeOK
    <3> QED
      BY <3>1, <3>2
  <2>3. \A p \in CashIds : placed'[p] # NoCall =>
            category'[placed'[p]].state = "on" \/ placed'[p] \in clashed'
    BY <1>3, <1>4, ClashesStay DEF CatalogInv, CatalogTypeOK, TreeOK, Above, Products!Unused
  <2> QED
    BY <2>1, <2>2, <2>3 DEF TreeOK
<1>6. ASSUME NEW x \in CallIds, requests'[x] \in WorkingRequest
      PROVE  CategoryKnows(requests[x])'
  <2>1. PICK v : v = requests'[x]
    OBVIOUS
  <2>2. v \in WorkingRequest /\ CategoryKnows(v)
    BY <1>3, <1>6, <2>1, FinishedOnes DEF RequestKnows
  <2>3. v.op = "create" => category'[v.k].state = "none"
    BY <1>2, <1>4, <2>2, RequestKinds DEF CategoryKnows, CreateRequest
  <2>4. v.op = "move" => v.met \/ Apart(v.k, v.parent)'
    <3> SUFFICES ASSUME v.op = "move", ~ v.met, v.parent # NoCall
                 PROVE  /\ category'[v.parent].state # "none"
                        /\ \E s \in SUBSET Above :
                               v.parent \in s /\ v.k \notin s /\ Products!Upclosed(s)'
      BY DEF Apart
    <3>1. v.parent \in BranchIds /\ v.k \in BranchIds /\ Apart(v.k, v.parent)
      BY <2>2, RequestKinds DEF MoveRequest, CategoryKnows, Above
    <3>2. category'[v.parent].state # "none"
      BY <1>4, <3>1 DEF Apart
    <3>3. PICK s \in SUBSET Above : v.parent \in s /\ v.k \notin s /\ Products!Upclosed(s)
      BY <3>1 DEF Apart
    <3>4. Products!Upclosed(s \union {NoCall})'
      BY <1>4, <3>3 DEF Products!Upclosed, Above
    <3> QED
      BY <3>1, <3>2, <3>3, <3>4, CatalogAssumption DEF Above
  <2>5. v.op = "switch" => /\ v.about = v.k
                           /\ v.met \/ v.value = "on" \/ \A p \in CashIds : placed'[p] # v.k
    BY <1>3, <2>2 DEF CategoryKnows
  <2>6. v.op = "delete" => category'[v.k].state # "none"
    BY <1>4, <2>2, RequestKinds DEF CategoryKnows, DeleteRequest
  <2>7. v.op = "place" => /\ v.about = v.k
                          /\ v.met \/ category'[v.k].state \in {"on", "gone"}
    BY <1>4, <2>2, RequestKinds DEF CategoryKnows, PlaceRequest
  <2>8. CategoryKnows(v)'
    BY <2>3, <2>4, <2>5, <2>6, <2>7 DEF CategoryKnows
  <2> QED
    BY <2>1, <2>8
<1> QED
  BY <1>3, <1>4, <1>5, <1>6, TreeCommitKeeps DEF CatalogInv, CatalogTypeOK

\* A product goes to a category that was active, unless one met it.
LEMMA ProductCommitKeeps ==
    ASSUME CatalogInv, NEW c \in CallIds, Products!CommitProduct(c)
    PROVE  CatalogInv'
<1> PICK call : call = requests[c]
  OBVIOUS
<1> DEFINE k == call.k
<1>1. call \in PlaceRequest /\ RequestKnows(call)
  <2>1. call \in WorkingRequest
    BY IdleKnows DEF CatalogInv, CatalogTypeOK, Products!CommitProduct
  <2> QED
    BY <2>1, RequestKinds DEF CatalogInv, Products!CommitProduct
<1>2. /\ k \in BranchIds /\ call.about = k /\ call.product \in CashIds
      /\ call.met \/ category[k].state \in {"on", "gone"}
  BY <1>1 DEF PlaceRequest, RequestKnows, CategoryKnows
<1>3. /\ Products!Exists(k) /\ placed' = [placed EXCEPT ![call.product] = k]
      /\ Products!Finish(c) /\ UNCHANGED <<category, image, asset, chosen>>
  BY DEF Products!CommitProduct
<1> HIDE DEF k
<1>4. placed' \in [CashIds -> Above] /\ \A p \in CashIds : placed'[p] \in {placed[p], k}
  BY <1>2, <1>3 DEF CatalogInv, CatalogTypeOK, Above
<1>5. TreeOK'
  <2>1. \A j \in BranchIds : category'[j].parent # NoCall =>
            Products!Exists(category[j].parent)'
    BY <1>3 DEF CatalogInv, TreeOK, Products!Exists
  <2>2. \/ "tree" \in clashed'
        \/ \A s \in SUBSET BranchIds : Products!Upclosed(s)' => s = {}
    BY <1>3, ClashesStay DEF CatalogInv, TreeOK, Products!Upclosed
  <2>3. k \in clashed' \/ category[k].state = "on"
    BY <1>2, <1>3, ClashesStay DEF Products!Exists
  <2>4. \A p \in CashIds : placed'[p] # NoCall =>
            category'[placed'[p]].state = "on" \/ placed'[p] \in clashed'
    BY <1>3, <1>4, <2>3, ClashesStay DEF CatalogInv, TreeOK
  <2> QED
    BY <2>1, <2>2, <2>4 DEF TreeOK
<1>6. ASSUME NEW x \in CallIds, requests'[x] \in WorkingRequest
      PROVE  CategoryKnows(requests[x])'
  <2>1. PICK v : v = requests'[x]
    OBVIOUS
  <2>2. v \in WorkingRequest /\ CategoryKnows(v) /\ (v.about = k => v.met)
    BY <1>2, <1>3, <1>6, <2>1, RequestKinds, FinishedOnes DEF RequestKnows
  <2>3. v.op = "switch" => /\ v.about = v.k
                           /\ v.met \/ v.value = "on" \/ \A p \in CashIds : placed'[p] # v.k
    BY <1>4, <2>2 DEF CategoryKnows
  <2>4. CategoryKnows(v)'
    BY <1>3, <2>2, <2>3 DEF CategoryKnows, Apart, Products!Upclosed
  <2> QED
    BY <2>1, <2>4
<1> QED
  BY <1>3, <1>4, <1>5, <1>6, TreeCommitKeeps DEF CatalogInv, CatalogTypeOK

\* No step of the tree breaks it.
LEMMA CategoryKeeps == CatalogInv /\ Products!CategoryNext => CatalogInv'
<1> SUFFICES ASSUME CatalogInv, NEW c \in CallIds,
                    \/ \E k \in BranchIds :
                          \/ \E parent \in Above :
                                \/ Products!CreateCategory(c, k, parent)
                                \/ Products!UpdateCategory(c, k, parent)
                          \/ \E value \in {"on", "off"} :
                                Products!SetReferenceActive(c, k, value)
                          \/ Products!DeleteReference(c, k)
                          \/ \E p \in CashIds : Products!PlaceProduct(c, p, k)
                    \/ Products!CommitCategory(c)
                    \/ Products!CommitProduct(c)
                    \/ Products!FailCategory(c)
             PROVE  CatalogInv'
  BY DEF Products!CategoryNext, Above
<1>1. CASE Products!CommitCategory(c)
  <2>1. requests[c].op \in {"create", "move", "switch", "delete"}
    BY <1>1 DEF Products!CommitCategory
  <2> QED
    BY <1>1, <2>1, CreateCommitKeeps, MoveCommitKeeps, SwitchCommitKeeps, DeleteCommitKeeps
<1>2. CASE Products!FailCategory(c)
  BY <1>2, RefusedKeeps DEF Products!FailCategory
<1> QED
  BY <1>1, <1>2, CategoryStartKeeps, ProductCommitKeeps

\* At most one of a finite set: no two of them.
LEMMA MainCounted ==
    ASSUME NEW images
    PROVE  Products!Cardinality({i \in BranchIds : images[i] = "main"}) <= 1
               <=> AtMostOneMain(images)
<1> DEFINE main == {i \in BranchIds : images[i] = "main"}
<1>1. \A S : Products!Cardinality(S) = Cardinality(S)
  BY Zenon DEF Products!Cardinality, Cardinality
<1>2. IsFiniteSet(main) /\ Cardinality(main) \in Nat
  BY CatalogAssumption, FS_Subset, FS_CardinalityType
<1>3. ASSUME Cardinality(main) <= 1, NEW i \in main, NEW j \in main, i # j PROVE FALSE
  <2>1. Cardinality({i, j}) = 2
    <3>1. IsFiniteSet({i}) /\ Cardinality({i}) = 1
      BY FS_Singleton
    <3>2. {i, j} = {i} \union {j} /\ j \notin {i}
      BY <1>3
    <3>3. Cardinality({i} \union {j}) = Cardinality({i}) + 1
      BY <3>1, <3>2, FS_AddElement
    <3> QED
      BY <3>1, <3>2, <3>3
  <2>2. {i, j} \subseteq main
    OBVIOUS
  <2>3. Cardinality({i, j}) <= Cardinality(main)
    BY <1>2, <2>2, FS_Subset
  <2> QED
    BY <1>2, <1>3, <2>1, <2>3
<1>4. ASSUME \A i, j \in main : i = j PROVE Cardinality(main) <= 1
  <2>1. CASE main = {}
    BY <2>1, FS_EmptySet
  <2>2. CASE main # {}
    <3>1. PICK i : i \in main
      BY <2>2
    <3>2. main = {i}
      BY <1>4, <3>1
    <3> QED
      BY <3>2, FS_Singleton
  <2> QED
    BY <2>1, <2>2
<1>5. (\A i, j \in main : i = j) <=> AtMostOneMain(images)
  BY DEF AtMostOneMain
<1>6. Cardinality(main) <= 1 <=> AtMostOneMain(images)
  BY <1>3, <1>4, <1>5
<1> QED
  BY <1>1, <1>6

\* A change of the gallery begins with what it saw.
LEMMA GalleryStartKeeps ==
    ASSUME CatalogInv, NEW c \in CallIds, NEW becomes \in [BranchIds -> ImageState],
           Products!StartGallery(c, becomes)
    PROVE  CatalogInv'
<1> DEFINE call == [op |-> "gallery", seen |-> image, becomes |-> becomes,
                    about |-> "gallery", met |-> FALSE]
<1>1. call \in GalleryRequest
  BY DEF GalleryRequest, CatalogInv, CatalogTypeOK
<1>2. AtMostOneMain(becomes)
  BY MainCounted DEF Products!StartGallery
<1>3. RequestKnows(call)
  BY <1>2 DEF RequestKnows, CategoryKnows, GalleryKnows, AssetKnows
<1>4. Products!Start(c, call)
  BY DEF Products!StartGallery
<1> QED
  BY <1>1, <1>3, <1>4, RequestStarts DEF WorkingRequest

\* The images of a request are as it saw them or gone, unless one met it.
LEMMA GalleryCommitKeeps ==
    ASSUME CatalogInv, NEW c \in CallIds, Products!CommitGallery(c)
    PROVE  CatalogInv'
<1> PICK call : call = requests[c]
  OBVIOUS
<1>1. call \in GalleryRequest /\ RequestKnows(call)
  <2>1. call \in WorkingRequest
    BY IdleKnows DEF CatalogInv, CatalogTypeOK, Products!CommitGallery
  <2> QED
    BY <2>1, RequestKinds DEF CatalogInv, Products!CommitGallery
<1> DEFINE written == {i \in BranchIds : call.becomes[i] # call.seen[i]}
<1>2. CASE Products!Refused(c)
  BY <1>2, RefusedKeeps
<1>3. CASE /\ image' = [i \in BranchIds |-> IF i \in written THEN call.becomes[i] ELSE image[i]]
           /\ Products!Finish(c) /\ UNCHANGED <<category, placed, asset, chosen>>
  <2>1. /\ call.about = "gallery" /\ call.becomes \in [BranchIds -> ImageState]
        /\ AtMostOneMain(call.becomes)
        /\ call.met \/ \A i \in BranchIds : image[i] \in {call.seen[i], "gone"}
    BY <1>1 DEF GalleryRequest, RequestKnows, GalleryKnows
  <2>2. image' \in [BranchIds -> ImageState]
    BY <1>3, <2>1 DEF CatalogInv, CatalogTypeOK
  <2>3. MainOK'
    <3>1. CASE call.met
      BY <1>3, <2>1, <3>1, ClashesStay DEF MainOK
    <3>2. CASE ~ call.met
      <4>1. \A i \in BranchIds : image'[i] = "main" => call.becomes[i] = "main"
        BY <1>3, <2>1, <3>2
      <4> QED
        BY <2>1, <4>1 DEF MainOK, AtMostOneMain
    <3> QED
      BY <3>1, <3>2
  <2>4. TreeOK' /\ ChosenOK'
    BY <1>3, ClashesStay DEF CatalogInv, TreeOK, ChosenOK, Products!Exists, Products!Upclosed
  <2>5. ASSUME NEW x \in CallIds PROVE RequestKnows(requests[x])'
    <3>1. PICK v : v = requests'[x]
      OBVIOUS
    <3>2. /\ v \in WorkingRequest \union {Products!NoCatalogCall} /\ RequestKnows(v)
          /\ v.op # "none" /\ v.about = "gallery" => v.met
      BY <1>3, <2>1, <3>1, FinishedOnes
    <3>3. v.op = "gallery" => v.met
      BY <3>2, RequestKinds, IdleKnows DEF GalleryRequest
    <3>4. RequestKnows(v)'
      BY <1>3, <3>2, <3>3 DEF RequestKnows, CategoryKnows, GalleryKnows, AssetKnows, Apart,
                              Products!Upclosed, Products!There
    <3> QED
      BY <3>1, <3>4
  <2> QED
    BY <1>3, <2>2, <2>3, <2>4, <2>5, RequestFinishes DEF CatalogInv, CatalogTypeOK
<1> QED
  BY <1>2, <1>3 DEF Products!CommitGallery

\* An image that goes is the main one no more.
LEMMA DeleteImageKeeps ==
    ASSUME CatalogInv, NEW i \in BranchIds, Products!DeleteImage(i)
    PROVE  CatalogInv'
<1>1. /\ UNCHANGED <<category, placed, asset, chosen, requests, clashed>>
      /\ image' \in [BranchIds -> ImageState]
      /\ \A j \in BranchIds : image'[j] \in {image[j], "gone"}
  BY DEF Products!DeleteImage, CatalogInv, CatalogTypeOK, ImageState
<1>2. CatalogTypeOK' /\ OneCreation'
  BY <1>1 DEF CatalogInv, CatalogTypeOK, OneCreation
<1>3. TreeOK' /\ MainOK' /\ ChosenOK'
  BY <1>1 DEF CatalogInv, TreeOK, MainOK, ChosenOK, AtMostOneMain, Products!Exists,
              Products!Upclosed
<1>4. ASSUME NEW x \in CallIds PROVE RequestKnows(requests[x])'
  <2>1. PICK v : v = requests'[x]
    OBVIOUS
  <2>2. RequestKnows(v)
    BY <1>1, <2>1 DEF CatalogInv
  <2>3. RequestKnows(v)'
    BY <1>1, <2>2 DEF RequestKnows, CategoryKnows, GalleryKnows, AssetKnows, Apart,
                      Products!Upclosed, Products!There
  <2> QED
    BY <2>1, <2>3
<1> QED
  BY <1>2, <1>3, <1>4 DEF CatalogInv

\* No step of the gallery gives a product two main images unseen.
LEMMA GalleryKeeps == CatalogInv /\ Products!GalleryNext => CatalogInv'
<1> SUFFICES ASSUME CatalogInv, Products!GalleryNext PROVE CatalogInv'
  OBVIOUS
<1>1. ASSUME NEW c \in CallIds, NEW i \in BranchIds, NEW flag \in {"plain", "main"},
             Products!AddImage(c, i, flag)
      PROVE  CatalogInv'
  <2> DEFINE becomes == [j \in BranchIds |->
                 IF j = i THEN flag
                 ELSE IF flag = "main" /\ image[j] = "main" THEN "plain" ELSE image[j]]
  <2>1. becomes \in [BranchIds -> ImageState]
    BY DEF CatalogInv, CatalogTypeOK, ImageState
  <2>2. Products!StartGallery(c, becomes)
    BY <1>1 DEF Products!AddImage
  <2> QED
    BY <2>1, <2>2, GalleryStartKeeps
<1>2. ASSUME NEW c \in CallIds, NEW kept \in SUBSET BranchIds, NEW new \in SUBSET BranchIds,
             NEW main \in BranchIds \union {NoCall}, Products!UpdateGallery(c, kept, new, main)
      PROVE  CatalogInv'
  <2> DEFINE becomes == [i \in BranchIds |-> IF i = main THEN "main"
                           ELSE IF i \in kept \union new THEN "plain"
                           ELSE IF i \in Products!Shown THEN "gone" ELSE image[i]]
  <2>1. becomes \in [BranchIds -> ImageState]
    BY DEF CatalogInv, CatalogTypeOK, ImageState
  <2>2. Products!StartGallery(c, becomes)
    BY <1>2 DEF Products!UpdateGallery
  <2> QED
    BY <2>1, <2>2, GalleryStartKeeps
<1> QED
  BY <1>1, <1>2, GalleryCommitKeeps, DeleteImageKeeps DEF Products!GalleryNext

\* Whoever changes an asset meets everybody who is changing one.
LEMMA MetAllOnes ==
    ASSUME CatalogInv, Products!MeetAll, NEW x \in CallIds, NEW v, v = requests'[x]
    PROVE  /\ v \in WorkingRequest \union {Products!NoCatalogCall}
           /\ RequestKnows(v) /\ (v.op = "asset" => v.met)
           /\ v.op = "create" => requests[x].op = "create" /\ requests[x].k = v.k
<1> PICK u : u = requests[x]
  OBVIOUS
<1>1. u \in WorkingRequest \union {Products!NoCatalogCall} /\ RequestKnows(u)
  BY DEF CatalogInv, CatalogTypeOK
<1>2. CASE u.op # "asset"
  BY <1>1, <1>2 DEF Products!MeetAll
<1>3. CASE u.op = "asset"
  <2>1. u \in WorkingRequest
    BY <1>1, <1>3, IdleKnows
  <2>2. v = [u EXCEPT !.met = TRUE]
    BY <1>3 DEF Products!MeetAll
  <2> QED
    BY <1>1, <1>3, <2>1, <2>2, MetTyped, MetKnows
<1> QED
  BY <1>2, <1>3

\* An asset that comes or goes by itself.
LEMMA AssetMoveKeeps ==
    ASSUME CatalogInv, NEW a \in BranchIds, Products!AddAsset(a) \/ Products!DeleteAsset(a)
    PROVE  CatalogInv'
<1>1. UNCHANGED <<category, placed, image, clashed>> /\ Products!MeetAll
  BY DEF Products!AddAsset, Products!DeleteAsset
<1>2. CatalogTypeOK'
  <2>1. asset' \in [BranchIds -> AssetState]
    BY DEF Products!AddAsset, Products!DeleteAsset, CatalogInv, CatalogTypeOK, AssetState
  <2>2. \A x \in CallIds : requests'[x] \in WorkingRequest \union {Products!NoCatalogCall}
    BY <1>1, MetAllOnes
  <2>3. requests' \in [CallIds -> WorkingRequest \union {Products!NoCatalogCall}]
    BY <1>1, <2>2 DEF Products!MeetAll
  <2> QED
    BY <1>1, <2>1, <2>3 DEF CatalogInv, CatalogTypeOK
<1>3. OneCreation'
  <2> SUFFICES ASSUME NEW x \in CallIds, NEW y \in CallIds,
                      requests'[x].op = "create", requests'[y].op = "create",
                      requests'[x].k = requests'[y].k
               PROVE  x = y
    BY DEF OneCreation
  <2>1. PICK v, w : v = requests'[x] /\ w = requests'[y]
    OBVIOUS
  <2>2. /\ requests[x].op = "create" /\ requests[x].k = v.k
        /\ requests[y].op = "create" /\ requests[y].k = w.k
    BY <1>1, <2>1, MetAllOnes
  <2> QED
    BY <2>1, <2>2 DEF CatalogInv, OneCreation
<1>4. TreeOK' /\ MainOK'
  BY <1>1 DEF CatalogInv, TreeOK, MainOK, AtMostOneMain, Products!Exists, Products!Upclosed
<1>5. ChosenOK'
  BY DEF Products!AddAsset, Products!DeleteAsset, CatalogInv, CatalogTypeOK, ChosenOK
<1>6. ASSUME NEW x \in CallIds PROVE RequestKnows(requests[x])'
  <2>1. PICK v : v = requests'[x]
    OBVIOUS
  <2>2. v \in WorkingRequest \union {Products!NoCatalogCall} /\ RequestKnows(v)
    BY <1>1, <2>1, MetAllOnes
  <2>3. v.op = "asset" => v.met
    BY <1>1, <2>1, MetAllOnes
  <2>4. RequestKnows(v)'
    BY <1>1, <2>2, <2>3 DEF RequestKnows, CategoryKnows, GalleryKnows, AssetKnows, Apart,
                            Products!Upclosed
  <2> QED
    BY <2>1, <2>4
<1> QED
  BY <1>2, <1>3, <1>4, <1>5, <1>6 DEF CatalogInv

\* A change of an asset begins with what it is.
LEMMA LoadAssetKeeps ==
    ASSUME CatalogInv, NEW c \in CallIds, NEW a \in BranchIds, NEW value \in {"on", "off"},
           Products!LoadAsset(c, a, value)
    PROVE  CatalogInv'
<1> DEFINE call == [op |-> "asset", a |-> a, value |-> value, was |-> asset[a],
                    cleared |-> {}, step |-> IF value = "on" THEN "read" ELSE "ready",
                    about |-> "assets", met |-> FALSE]
<1>1. call \in AssetRequest
  BY DEF AssetRequest, Products!LoadAsset, Products!There
<1>2. RequestKnows(call)
  BY DEF RequestKnows, CategoryKnows, GalleryKnows, AssetKnows
<1>3. Products!Start(c, call)
  BY DEF Products!LoadAsset
<1> QED
  BY <1>1, <1>2, <1>3, RequestStarts DEF WorkingRequest

\* An activation switches off every other asset that it sees.
LEMMA ClearOthersKeeps ==
    ASSUME CatalogInv, NEW c \in CallIds, Products!ClearOthers(c)
    PROVE  CatalogInv'
<1> PICK call : call = requests[c]
  OBVIOUS
<1>1. call \in AssetRequest /\ RequestKnows(call) /\ call.step = "read"
  <2>1. call \in WorkingRequest
    BY IdleKnows DEF CatalogInv, CatalogTypeOK, Products!ClearOthers
  <2> QED
    BY <2>1, RequestKinds DEF CatalogInv, Products!ClearOthers
<1> DEFINE others == {b \in BranchIds \ {call.a} : Products!There(b)}
           ready == [call EXCEPT !.step = "ready", !.cleared = others]
<1>2. UNCHANGED <<category, placed, image, asset, chosen, clashed>>
  BY DEF Products!ClearOthers
<1>3. requests' = [requests EXCEPT ![c] = ready]
  BY DEF Products!ClearOthers
<1>4. /\ ready \in AssetRequest /\ ready.op = "asset" /\ ready.a = call.a
      /\ ready.value = call.value /\ ready.was = call.was /\ ready.met = call.met
      /\ ready.step = "ready" /\ ready.cleared = others
  BY <1>1 DEF AssetRequest
<1>5. RequestKnows(ready)
  <2> HIDE DEF ready
  <2> QED
    BY <1>1, <1>4 DEF RequestKnows, CategoryKnows, GalleryKnows, AssetKnows, AssetRequest
<1> HIDE DEF ready, others
<1>6. CatalogTypeOK'
  BY <1>2, <1>3, <1>4 DEF CatalogInv, CatalogTypeOK, WorkingRequest
<1>7. OneCreation'
  BY <1>3, <1>4 DEF CatalogInv, CatalogTypeOK, OneCreation
<1>8. ASSUME NEW x \in CallIds PROVE RequestKnows(requests[x])'
  <2>1. PICK v : v = requests'[x]
    OBVIOUS
  <2>2. RequestKnows(v)
    BY <1>3, <1>5, <2>1 DEF CatalogInv, CatalogTypeOK
  <2>3. RequestKnows(v)'
    BY <1>2, <2>2 DEF RequestKnows, CategoryKnows, GalleryKnows, AssetKnows, Apart,
                      Products!Upclosed, Products!There
  <2> QED
    BY <2>1, <2>3
<1>9. TreeOK' /\ MainOK' /\ ChosenOK'
  BY <1>2 DEF CatalogInv, TreeOK, MainOK, ChosenOK, AtMostOneMain, Products!Exists,
              Products!Upclosed
<1> QED
  BY <1>6, <1>7, <1>8, <1>9 DEF CatalogInv

\* An asset that is made the default is alone, unless its request met another.
LEMMA AssetCommitKeeps ==
    ASSUME CatalogInv, NEW c \in CallIds, Products!CommitAsset(c)
    PROVE  CatalogInv'
<1> PICK call : call = requests[c]
  OBVIOUS
<1>1. call \in AssetRequest /\ RequestKnows(call) /\ call.step = "ready"
  <2>1. call \in WorkingRequest
    BY IdleKnows DEF CatalogInv, CatalogTypeOK, Products!CommitAsset
  <2> QED
    BY <2>1, RequestKinds DEF CatalogInv, Products!CommitAsset
<1> DEFINE writes == call.was # call.value
<1>2. CASE Products!Refused(c)
  BY <1>2, RefusedKeeps
<1>3. CASE /\ asset' = [b \in BranchIds |->
                  IF b \in call.cleared THEN "off"
                  ELSE IF b = call.a /\ writes THEN call.value ELSE asset[b]]
           /\ chosen' = IF call.value = "on"
                        THEN IF call.met THEN NoCall ELSE call.a
                        ELSE IF writes /\ chosen = call.a THEN NoCall ELSE chosen
           /\ Products!Finish(c) /\ UNCHANGED <<category, placed, image>>
  <2>1. /\ call.about = "assets" /\ call.a \in BranchIds /\ call.value \in {"on", "off"}
        /\ call.a \notin call.cleared
        /\ call.value = "off" => call.cleared = {}
        /\ \/ call.met
           \/ /\ asset[call.a] = call.was
              /\ call.value = "on" =>
                     \A b \in BranchIds \ {call.a} : b \in call.cleared \/ ~ Products!There(b)
    BY <1>1 DEF AssetRequest, RequestKnows, AssetKnows
  <2>2. asset' \in [BranchIds -> AssetState]
    BY <1>3, <2>1 DEF CatalogInv, CatalogTypeOK, AssetState
  <2>3. ChosenOK'
    <3>1. CASE call.value = "on"
      BY <1>3, <2>1, <3>1 DEF ChosenOK, Products!There
    <3>2. CASE call.value = "off"
      BY <1>3, <2>1, <3>2 DEF ChosenOK, CatalogInv
    <3> QED
      BY <2>1, <3>1, <3>2
  <2>4. TreeOK' /\ MainOK'
    BY <1>3, ClashesStay DEF CatalogInv, TreeOK, MainOK, AtMostOneMain, Products!Exists,
                             Products!Upclosed
  <2>5. ASSUME NEW x \in CallIds PROVE RequestKnows(requests[x])'
    <3>1. PICK v : v = requests'[x]
      OBVIOUS
    <3>2. /\ v \in WorkingRequest \union {Products!NoCatalogCall} /\ RequestKnows(v)
          /\ v.op # "none" /\ v.about = "assets" => v.met
      BY <1>3, <2>1, <3>1, FinishedOnes
    <3>3. v.op = "asset" => v.met
      BY <3>2, RequestKinds, IdleKnows DEF AssetRequest
    <3>4. RequestKnows(v)'
      BY <1>3, <3>2, <3>3 DEF RequestKnows, CategoryKnows, GalleryKnows, AssetKnows, Apart,
                              Products!Upclosed
    <3> QED
      BY <3>1, <3>4
  <2> QED
    BY <1>3, <2>2, <2>3, <2>4, <2>5, RequestFinishes DEF CatalogInv, CatalogTypeOK
<1> QED
  BY <1>2, <1>3 DEF Products!CommitAsset

\* No step of the assets leaves a default that is not alone.
LEMMA AssetKeeps == CatalogInv /\ Products!AssetNext => CatalogInv'
<1> SUFFICES ASSUME CatalogInv, Products!AssetNext PROVE CatalogInv'
  OBVIOUS
<1>1. ASSUME NEW c \in CallIds, NEW x \in CallIds, Products!Deadlock(c, x) PROVE CatalogInv'
  BY <1>1, RefusedKeeps DEF Products!Deadlock
<1> QED
  BY <1>1, LoadAssetKeeps, ClearOthersKeeps, AssetCommitKeeps, AssetMoveKeeps
     DEF Products!AssetNext

\* Steps that leave the catalogue alone.
LEMMA CatalogRests == CatalogInv /\ UNCHANGED catalogVars => CatalogInv'
<1> SUFFICES ASSUME CatalogInv, UNCHANGED catalogVars PROVE CatalogInv'
  OBVIOUS
<1>1. CatalogTypeOK' /\ OneCreation' /\ TreeOK' /\ MainOK' /\ ChosenOK'
  BY DEF catalogVars, CatalogInv, CatalogTypeOK, OneCreation, TreeOK, MainOK, ChosenOK,
         AtMostOneMain, Products!Exists, Products!Upclosed
<1>2. ASSUME NEW x \in CallIds PROVE RequestKnows(requests[x])'
  BY DEF catalogVars, CatalogInv, RequestKnows, CategoryKnows, GalleryKnows, AssetKnows,
         Apart, Products!Upclosed, Products!There
<1> QED
  BY <1>1, <1>2 DEF CatalogInv

\* The catalogue stays in order.
LEMMA CatalogInOrder == CatalogInv => Products!TreeKept /\ Products!GalleryKept
<1> SUFFICES ASSUME CatalogInv PROVE Products!TreeKept /\ Products!GalleryKept
  OBVIOUS
<1>1. "tree" \in clashed \/ \A k \in BranchIds : NoCall \in Products!Upwards(k)
  <2> SUFFICES ASSUME "tree" \notin clashed, NEW k \in BranchIds,
                      NEW s \in SUBSET Above, k \in s, Products!Upclosed(s)
               PROVE  NoCall \in s
    BY DEF Products!Upwards, Above
  <2>1. s \notin SUBSET BranchIds
    BY DEF CatalogInv, TreeOK
  <2> QED
    BY <2>1 DEF Above
<1>2. Products!TreeKept
  BY <1>1 DEF Products!TreeKept, CatalogInv, TreeOK
<1>3. Products!GalleryKept
  BY MainCounted DEF Products!GalleryKept, CatalogInv, MainOK, ChosenOK
<1> QED
  BY <1>2, <1>3

-----------------------------------------------------------------------------
(* What a device copies.                                                   *)

\* An edit of the product or of a variant.
CopyEdit == [item : CashIds \union {NoCall}, value : {"on", "off", "gone"}, stamp : Nat,
             silent : BOOLEAN]

\* A call whose device was looked up.
AskVerified == [stage : {"verified"}, op : {"snapshot", "sync"},
                found : {"none", "on", "blocked"}, attempts : Nat]

\* A call that the device was served.
AskServed == [stage : {"served"}, op : {"snapshot"}]

\* A snapshot that has its hour.
AskGenerated == [stage : {"generated"}, op : {"snapshot"}, at : Nat, since : Nat,
                 late : {{}}]

\* A snapshot that has read.
AskRead == [stage : {"read", "told"}, op : {"snapshot"}, at : Nat, since : Nat,
            late : SUBSET CashIds, included : BOOLEAN,
            put : SUBSET CashIds, removed : SUBSET CashIds]

\* A device and its copy.
DeviceRow == [status : {"none", "on", "blocked"}, attempts : Nat, since : Nat,
              known : SUBSET CashIds]

\* The types of the part.
CopyTypeOK ==
    /\ clock \in Nat /\ clock > 0
    /\ product \in [state : {"on", "off"}, stamp : Nat]
    /\ variant \in [CashIds -> [state : {"none", "on", "off", "gone"}, stamp : Nat]]
    /\ DOMAIN edit = BranchIds
    /\ device \in DeviceRow
    /\ DOMAIN asks = CallIds
    /\ untold \in SUBSET CashIds
    /\ refused \in Nat /\ overlapped \in BOOLEAN

\* What stamps and hours have been taken.
CopyClocked ==
    /\ product.stamp < clock /\ device.since < clock
    /\ \A v \in CashIds : /\ variant[v].stamp < clock
                          /\ variant[v].state \in {"on", "off"} => variant[v].stamp > 0

\* A flushed change has a stamp that no snapshot begins at.
EditKnows(w) ==
    \/ w = Copies!NoEdit
    \/ /\ w \in CopyEdit
       /\ w.stamp > 0 /\ w.stamp < clock /\ w.stamp # device.since
       /\ w.item = NoCall => w.value # "gone" /\ ~ w.silent
       /\ w.silent => w.value = "gone"

\* What the shop sells.
CopySold(v) == product.state = "on" /\ variant[v].state = "on"

\* What a snapshot that has read says of a variant is so, or it changed since:
\* with a later stamp, or late.
AskSays(u, v) ==
    \/ v \in u.late
    \/ variant[v].stamp > u.at
    \/ /\ variant[v].state \in {"on", "off"}
       /\ product.stamp <= u.at =>
              IF u.since > 0 /\ ~ u.included
              THEN /\ v \notin u.put \union u.removed
                   /\ v \in untold \/ (v \in device.known <=> CopySold(v))
              ELSE /\ v \in u.put <=> CopySold(v)
                   /\ v \in u.removed <=> u.since > 0 /\ ~ CopySold(v)
    \/ /\ variant[v].state = "gone" /\ v \notin u.put
       /\ u.since > 0 /\ u.stage = "told" /\ v \in device.known =>
              v \in u.removed \union untold
    \/ variant[v].state = "none"

\* The hours of a snapshot are those of no edit under way.
AskHours(u) ==
    /\ u.at < clock /\ u.at > device.since
    /\ u.since > 0 => u.since = device.since
    /\ \A e \in BranchIds : edit[e] # Copies!NoEdit => edit[e].stamp # u.at

\* What a call may rely on.
AskKnows(u) ==
    \/ u = Copies!NoAsk
    \/ u \in AskVerified /\ u.attempts <= refused
    \/ u \in AskServed
    \/ u \in AskGenerated /\ AskHours(u)
    \/ /\ u \in AskRead /\ AskHours(u)
       /\ \A v \in CashIds : /\ AskSays(u, v)
                             /\ variant[v].state = "none" => v \notin u.put

\* A call that copies.
AskCopies(u) == u # Copies!NoAsk /\ u.op = "snapshot"

\* The device copies once at a time.
OneCopy == \A c, x \in CallIds : AskCopies(asks[c]) /\ AskCopies(asks[x]) => c = x

\* What the device knows of a variant is so, or it changed since.
DeviceKnows(v) ==
    \/ v \in untold
    \/ variant[v].stamp > device.since
    \/ /\ variant[v].state \in {"on", "off"}
       /\ product.stamp <= device.since => (v \in device.known <=> CopySold(v))
    \/ variant[v].state \in {"none", "gone"} /\ v \notin device.known

\* The inductive invariant.
CopiesInv ==
    /\ CopyTypeOK /\ CopyClocked
    /\ \A e \in BranchIds : EditKnows(edit[e])
    /\ \A c \in CallIds : AskKnows(asks[c])
    /\ OneCopy
    /\ \A v \in CashIds : /\ device.since > 0 => DeviceKnows(v)
                          /\ variant[v].state = "none" => v \notin device.known
    /\ Copies!RefusalsCounted

\* A device that nobody has registered.
LEMMA CopiesStart == Copies!DeviceInit => CopiesInv
<1> SUFFICES ASSUME Copies!DeviceInit PROVE CopiesInv
  OBVIOUS
<1>1. CopyTypeOK /\ CopyClocked
  <2>1. /\ product \in [state : {"on", "off"}, stamp : Nat] /\ product.stamp = 0
        /\ device \in DeviceRow /\ device.since = 0
    BY DEF Copies!DeviceInit, DeviceRow
  <2>2. /\ variant \in [CashIds -> [state : {"none", "on", "off", "gone"}, stamp : Nat]]
        /\ \A v \in CashIds : variant[v].stamp = 0 /\ variant[v].state = "none"
    BY DEF Copies!DeviceInit
  <2>3. /\ clock = 1 /\ DOMAIN edit = BranchIds /\ DOMAIN asks = CallIds
        /\ untold = {} /\ refused = 0 /\ overlapped \in BOOLEAN
    BY DEF Copies!DeviceInit
  <2>4. CopyTypeOK
    BY <2>1, <2>2, <2>3 DEF CopyTypeOK
  <2>5. CopyClocked
    BY <2>1, <2>2, <2>3 DEF CopyClocked
  <2> QED
    BY <2>4, <2>5
<1>2. \A e \in BranchIds : EditKnows(edit[e])
  BY DEF Copies!DeviceInit, EditKnows
<1>3. \A c \in CallIds : AskKnows(asks[c]) /\ ~ AskCopies(asks[c])
  BY DEF Copies!DeviceInit, AskKnows, AskCopies
<1>4. device.since = 0 /\ device.known = {} /\ Copies!RefusalsCounted
  BY DEF Copies!DeviceInit, Copies!RefusalsCounted
<1> QED
  BY <1>1, <1>2, <1>3, <1>4 DEF CopiesInv, OneCopy

\* The later of two stamps.
LEMMA LaterStamp ==
    ASSUME NEW a \in Nat, NEW b \in Nat
    PROVE  Copies!Max({a, b}) >= a /\ Copies!Max({a, b}) >= b
<1>1. \E x \in {a, b} : \A y \in {a, b} : x >= y
  BY a >= b \/ b >= a
<1> QED
  BY <1>1 DEF Copies!Max

\* What the device knows is so, or a later snapshot tells it.
LEMMA CopiesMissNothing == CopiesInv => Copies!NothingMissed
<1> SUFFICES ASSUME CopiesInv, device.since > 0, NEW v \in CashIds
             PROVE  \/ (v \in device.known) = CopySold(v)
                    \/ Copies!Max({product.stamp, variant[v].stamp}) > device.since
                    \/ v \in untold
  BY DEF Copies!NothingMissed, CopySold
<1>1. DeviceKnows(v)
  BY DEF CopiesInv
<1>2. /\ product.stamp \in Nat /\ variant[v].stamp \in Nat /\ device.since \in Nat
  BY DEF CopiesInv, CopyTypeOK, DeviceRow
<1>3. PICK m : m = Copies!Max({product.stamp, variant[v].stamp})
  OBVIOUS
<1>4. m \in Nat /\ m >= product.stamp /\ m >= variant[v].stamp
  <2>1. \E x \in {product.stamp, variant[v].stamp} :
            \A y \in {product.stamp, variant[v].stamp} : x >= y
    BY <1>2
  <2>2. m \in {product.stamp, variant[v].stamp}
    BY <1>3, <2>1 DEF Copies!Max
  <2> QED
    BY <1>2, <1>3, <2>2, LaterStamp
<1>5. (v \in device.known <=> CopySold(v)) => (v \in device.known) = CopySold(v)
  BY DEF CopySold
<1>6. variant[v].state \in {"none", "gone"} => ~ CopySold(v)
  BY DEF CopySold
<1> QED
  BY <1>1, <1>2, <1>3, <1>4, <1>5, <1>6 DEF DeviceKnows

-----------------------------------------------------------------------------
\* No call, and the calls that are one.
LEMMA NoAskKnows ==
    /\ AskKnows(Copies!NoAsk) /\ ~ AskCopies(Copies!NoAsk) /\ Copies!NoAsk.stage = "idle"
    /\ \A u \in AskVerified \union AskServed \union AskGenerated \union AskRead :
           u # Copies!NoAsk /\ u.stage # "idle"
BY DEF AskKnows, AskCopies, Copies!NoAsk, AskVerified, AskServed, AskGenerated, AskRead

\* The product, its variants and what the device has of them stay, and so does
\* what a request knows of them.
LEMMA AskStays ==
    ASSUME NEW u, AskKnows(u), clock \in Nat, clock' \in Nat, clock' >= clock,
           refused \in Nat, refused' \in Nat, refused' >= refused,
           UNCHANGED <<product, variant, untold>>,
           device'.since = device.since, device'.known = device.known,
           \A e \in BranchIds : edit'[e] = edit[e] \/ edit'[e].stamp = clock
    PROVE  AskKnows(u)'
<1>1. ASSUME u \in AskGenerated \union AskRead, AskHours(u) PROVE AskHours(u)'
  <2>1. u.at \in Nat
    BY <1>1 DEF AskGenerated, AskRead
  <2> QED
    BY <1>1, <2>1 DEF AskHours
<1>2. \A v \in CashIds : AskSays(u, v) => AskSays(u, v)'
  BY DEF AskSays, CopySold
<1>3. CASE u = Copies!NoAsk \/ u \in AskServed
  BY <1>3 DEF AskKnows
<1>4. CASE u \in AskVerified /\ u.attempts <= refused
  BY <1>4 DEF AskKnows, AskVerified
<1>5. CASE u \in AskGenerated /\ AskHours(u)
  BY <1>1, <1>5 DEF AskKnows
<1>6. CASE /\ u \in AskRead /\ AskHours(u)
           /\ \A v \in CashIds : /\ AskSays(u, v)
                                 /\ variant[v].state = "none" => v \notin u.put
  BY <1>1, <1>2, <1>6 DEF AskKnows
<1> QED
  BY <1>3, <1>4, <1>5, <1>6 DEF AskKnows

\* A step that leaves them: of a request, of the status, or a change flushed.
LEMMA CopiesStay ==
    ASSUME CopiesInv, clock' \in Nat, clock' >= clock, refused' \in Nat, refused' >= refused,
           UNCHANGED <<product, variant, untold>>, overlapped' \in BOOLEAN,
           device' \in DeviceRow, device'.since = device.since, device'.known = device.known,
           DOMAIN edit' = BranchIds,
           \A e \in BranchIds :
               \/ edit'[e] = edit[e]
               \/ edit'[e].stamp = clock /\ EditKnows(edit[e])',
           DOMAIN asks' = CallIds,
           \A x \in CallIds : asks'[x] = asks[x] \/ AskKnows(asks[x])',
           OneCopy', Copies!RefusalsCounted'
    PROVE  CopiesInv'
<1>1. clock \in Nat /\ refused \in Nat
  BY DEF CopiesInv, CopyTypeOK
<1>2. ASSUME NEW x \in CallIds PROVE AskKnows(asks[x])'
  <2>1. PICK u : u = asks[x]
    OBVIOUS
  <2>2. AskKnows(u)'
    BY <1>1, <2>1, AskStays DEF CopiesInv
  <2> QED
    BY <2>1, <2>2
<1>3. ASSUME NEW e \in BranchIds PROVE EditKnows(edit[e])'
  <2>1. PICK w : w = edit[e]
    OBVIOUS
  <2>2. EditKnows(w)
    BY <2>1 DEF CopiesInv
  <2>3. EditKnows(w)'
    BY <1>1, <2>2 DEF EditKnows, CopyEdit
  <2> QED
    BY <2>1, <2>3
<1>4. CopyTypeOK' /\ CopyClocked'
  BY <1>1 DEF CopiesInv, CopyTypeOK, CopyClocked, DeviceRow
<1>5. \A v \in CashIds : /\ device'.since > 0 => DeviceKnows(v)'
                         /\ variant'[v].state = "none" => v \notin device'.known
  BY DEF CopiesInv, DeviceKnows, CopySold
<1> QED
  BY <1>2, <1>3, <1>4, <1>5 DEF CopiesInv

\* A request moves alone.
LEMMA AskMoves ==
    ASSUME CopiesInv, NEW c \in CallIds, NEW u, asks' = [asks EXCEPT ![c] = u],
           UNCHANGED <<clock, product, variant, edit, device, untold, refused, overlapped>>,
           AskKnows(u),
           AskCopies(u) => AskCopies(asks[c])
                              \/ \A x \in CallIds \ {c} : ~ AskCopies(asks[x])
    PROVE  CopiesInv'
<1>1. clock \in Nat /\ refused \in Nat /\ DOMAIN asks = CallIds /\ DOMAIN edit = BranchIds
      /\ device \in DeviceRow /\ overlapped \in BOOLEAN
  BY DEF CopiesInv, CopyTypeOK
<1>2. AskKnows(u)'
  BY <1>1, AskStays
<1>3. \A x \in CallIds : asks'[x] = IF x = c THEN u ELSE asks[x]
  BY <1>1
<1>4. ASSUME NEW x \in CallIds PROVE asks'[x] = asks[x] \/ AskKnows(asks[x])'
  <2>1. CASE x = c
    <3>1. asks'[x] = u
      BY <1>3, <2>1
    <3> QED
      BY <1>2, <3>1
  <2> QED
    BY <1>3, <2>1
<1>5. OneCopy'
  BY <1>3 DEF CopiesInv, OneCopy, AskCopies
<1>6. Copies!RefusalsCounted'
  BY DEF CopiesInv, Copies!RefusalsCounted
<1> QED
  BY <1>1, <1>4, <1>5, <1>6, CopiesStay

-----------------------------------------------------------------------------
\* A device is looked up.
LEMMA VerificarKeeps ==
    ASSUME CopiesInv, NEW c \in CallIds, NEW op \in {"snapshot", "sync"},
           Copies!Verificar(c, op)
    PROVE  CopiesInv'
<1>1. PICK u : u = [stage |-> "verified", op |-> op, found |-> device.status,
                    attempts |-> device.attempts]
  OBVIOUS
<1>2. /\ asks' = [asks EXCEPT ![c] = u]
      /\ UNCHANGED <<clock, product, variant, edit, device, untold, refused, overlapped>>
  BY <1>1 DEF Copies!Verificar
<1>3. AskKnows(u)
  BY <1>1 DEF AskKnows, AskVerified, CopiesInv, CopyTypeOK, DeviceRow, Copies!RefusalsCounted
<1>4. AskCopies(u) => \A x \in CallIds \ {c} : ~ AskCopies(asks[x])
  <2>1. ASSUME AskCopies(u), NEW x \in CallIds, AskCopies(asks[x]) PROVE FALSE
    <3>1. op = "snapshot"
      BY <1>1, <2>1 DEF AskCopies
    <3>2. AskKnows(asks[x]) /\ asks[x].op = "snapshot" /\ asks[x] # Copies!NoAsk
      BY <2>1 DEF AskCopies, CopiesInv
    <3>3. asks[x].stage # "idle"
      BY <3>2, NoAskKnows DEF AskKnows
    <3> QED
      BY <3>1, <3>2, <3>3 DEF Copies!Verificar, Copies!Asking
  <2> QED
    BY <2>1
<1> QED
  BY <1>2, <1>3, <1>4, AskMoves

\* What a request that is past the check does.
LEMMA PassKeeps ==
    ASSUME CopiesInv, NEW c \in CallIds, asks[c].stage = "verified"
    PROVE  \E u : /\ Copies!Pass(c) => asks' = [asks EXCEPT ![c] = u]
                  /\ AskKnows(u)
                  /\ AskCopies(u) => AskCopies(asks[c])
                  /\ u = Copies!NoAsk \/ u \in AskServed
<1>1. PICK u : u = IF asks[c].op = "sync" THEN Copies!NoAsk
                   ELSE [stage |-> "served", op |-> "snapshot"]
  OBVIOUS
<1>2. asks[c] # Copies!NoAsk /\ asks[c].op \in {"snapshot", "sync"}
  BY NoAskKnows DEF CopiesInv, AskKnows, AskVerified, AskServed, AskGenerated, AskRead
<1>3. u = Copies!NoAsk \/ u \in AskServed
  BY <1>1 DEF AskServed
<1>4. AskKnows(u)
  BY <1>3, NoAskKnows DEF AskKnows
<1>5. AskCopies(u) => AskCopies(asks[c])
  BY <1>1, <1>2, NoAskKnows DEF AskCopies
<1> QED
  BY <1>1, <1>3, <1>4, <1>5 DEF Copies!Pass

\* A device that may is served.
LEMMA UsarKeeps ==
    ASSUME CopiesInv, NEW c \in CallIds, Copies!Usar(c)
    PROVE  CopiesInv'
<1>1. asks[c].stage = "verified" /\ Copies!Pass(c)
      /\ UNCHANGED <<clock, product, variant, edit, device, untold, refused, overlapped>>
  BY DEF Copies!Usar
<1>2. PICK u : /\ asks' = [asks EXCEPT ![c] = u] /\ AskKnows(u)
               /\ AskCopies(u) => AskCopies(asks[c])
  BY <1>1, PassKeeps
<1> QED
  BY <1>1, <1>2, AskMoves

\* An answer is lost.
LEMMA LoseKeeps ==
    ASSUME CopiesInv, NEW c \in CallIds, Copies!Lose(c)
    PROVE  CopiesInv'
<1>1. asks' = [asks EXCEPT ![c] = Copies!NoAsk]
      /\ UNCHANGED <<clock, product, variant, edit, device, untold, refused, overlapped>>
  BY DEF Copies!Lose
<1>2. PICK u : u = Copies!NoAsk /\ AskKnows(u) /\ ~ AskCopies(u)
  BY NoAskKnows
<1> QED
  BY <1>1, <1>2, AskMoves

\* The row of the device changes, and maybe a request with it.
LEMMA DeviceMoves ==
    ASSUME CopiesInv, NEW c \in CallIds, NEW u, NEW d,
           asks' = [asks EXCEPT ![c] = u] \/ UNCHANGED asks, device' = d, d \in DeviceRow,
           d.since = device.since, d.known = device.known,
           UNCHANGED <<clock, product, variant, edit, untold>>,
           AskKnows(u), AskCopies(u) => AskCopies(asks[c]),
           refused' \in Nat, refused' >= refused, overlapped' \in BOOLEAN,
           Copies!RefusalsCounted'
    PROVE  CopiesInv'
<1>1. clock \in Nat /\ refused \in Nat /\ DOMAIN asks = CallIds /\ DOMAIN edit = BranchIds
  BY DEF CopiesInv, CopyTypeOK
<1>2. AskKnows(u)'
  BY <1>1, AskStays
<1>3. /\ DOMAIN asks' = CallIds
      /\ \A x \in CallIds : asks'[x] = asks[x] \/ (x = c /\ asks'[x] = u)
  BY <1>1
<1>4. ASSUME NEW x \in CallIds PROVE asks'[x] = asks[x] \/ AskKnows(asks[x])'
  BY <1>2, <1>3
<1>5. OneCopy'
  BY <1>3 DEF CopiesInv, OneCopy, AskCopies
<1> QED
  BY <1>1, <1>3, <1>4, <1>5, CopiesStay

\* A device is registered.
LEMMA RegistrarKeeps ==
    ASSUME CopiesInv, NEW c \in CallIds, Copies!Registrar(c)
    PROVE  CopiesInv'
<1>1. asks[c].stage = "verified" /\ UNCHANGED <<clock, product, variant, edit, untold, refused, overlapped>>
  BY DEF Copies!Registrar
<1>2. CASE device.status = "none"
  <2>1. device' = [device EXCEPT !.status = "on"] /\ Copies!Pass(c)
    BY <1>2 DEF Copies!Registrar
  <2>2. PICK u : /\ asks' = [asks EXCEPT ![c] = u] /\ AskKnows(u)
                 /\ AskCopies(u) => AskCopies(asks[c])
    BY <1>1, <2>1, PassKeeps
  <2>3. PICK d \in DeviceRow : /\ device' = d /\ d.since = device.since
                              /\ d.known = device.known /\ d.attempts = device.attempts
    BY <2>1 DEF CopiesInv, CopyTypeOK, DeviceRow
  <2>4. Copies!RefusalsCounted'
    BY <1>1, <2>3 DEF CopiesInv, Copies!RefusalsCounted
  <2>5. refused' \in Nat /\ refused' >= refused /\ overlapped' \in BOOLEAN
    BY <1>1 DEF CopiesInv, CopyTypeOK
  <2> QED
    BY <1>1, <2>2, <2>3, <2>4, <2>5, DeviceMoves
<1>3. CASE device.status # "none"
  <2>1. PICK u : u = Copies!NoAsk /\ AskKnows(u) /\ ~ AskCopies(u)
    BY NoAskKnows
  <2>2. asks' = [asks EXCEPT ![c] = u] /\ UNCHANGED device
    BY <1>3, <2>1 DEF Copies!Registrar
  <2> QED
    BY <1>1, <2>1, <2>2, AskMoves
<1> QED
  BY <1>2, <1>3

\* A refusal is counted on what was read.
LEMMA RechazarKeeps ==
    ASSUME CopiesInv, NEW c \in CallIds, Copies!Rechazar(c)
    PROVE  CopiesInv'
<1>1. PICK v \in AskVerified : v = asks[c] /\ v.attempts <= refused
  BY NoAskKnows DEF Copies!Rechazar, CopiesInv, AskKnows, AskServed, AskGenerated, AskRead
<1>2. /\ device' = [device EXCEPT !.attempts = v.attempts + 1]
      /\ asks' = [asks EXCEPT ![c] = Copies!NoAsk] /\ refused' = refused + 1
      /\ overlapped' = (overlapped \/ v.attempts # device.attempts)
      /\ UNCHANGED <<clock, product, variant, edit, untold>>
  BY <1>1 DEF Copies!Rechazar
<1>3. v.attempts \in Nat /\ refused \in Nat /\ overlapped \in BOOLEAN
  BY DEF AskVerified, CopiesInv, CopyTypeOK
<1>4. PICK d \in DeviceRow : /\ device' = d /\ d.since = device.since
                            /\ d.known = device.known /\ d.attempts = v.attempts + 1
  BY <1>2, <1>3 DEF CopiesInv, CopyTypeOK, DeviceRow
<1>5. Copies!RefusalsCounted'
  <2>1. d.attempts <= refused + 1
    BY <1>1, <1>3, <1>4
  <2>2. ~ overlapped' => d.attempts = refused + 1
    BY <1>2, <1>4 DEF CopiesInv, Copies!RefusalsCounted
  <2> QED
    BY <1>2, <1>4, <2>1, <2>2 DEF Copies!RefusalsCounted
<1>6. refused' \in Nat /\ refused' >= refused /\ overlapped' \in BOOLEAN
  BY <1>2, <1>3
<1>7. PICK u : u = Copies!NoAsk /\ AskKnows(u) /\ ~ AskCopies(u)
  BY NoAskKnows
<1> QED
  BY <1>2, <1>4, <1>5, <1>6, <1>7, DeviceMoves

\* Somebody blocks the device, or lets it in again.
LEMMA BlockingKeeps ==
    ASSUME CopiesInv, Copies!Bloquear \/ Copies!Desbloquear
    PROVE  CopiesInv'
<1>1. /\ device' = [device EXCEPT !.status = "blocked"] \/ device' = [device EXCEPT !.status = "on"]
      /\ UNCHANGED <<clock, product, variant, edit, asks, untold, refused, overlapped>>
  BY DEF Copies!Bloquear, Copies!Desbloquear
<1>2. device' \in DeviceRow /\ device'.since = device.since /\ device'.known = device.known
      /\ device'.attempts = device.attempts
  BY <1>1 DEF CopiesInv, CopyTypeOK, DeviceRow
<1>3. Copies!RefusalsCounted' /\ OneCopy'
  BY <1>1, <1>2 DEF CopiesInv, Copies!RefusalsCounted, OneCopy, AskCopies
<1>4. /\ refused' \in Nat /\ refused' >= refused /\ overlapped' \in BOOLEAN
      /\ clock' \in Nat /\ clock' >= clock /\ DOMAIN edit' = BranchIds /\ DOMAIN asks' = CallIds
  BY <1>1 DEF CopiesInv, CopyTypeOK
<1> QED
  BY <1>1, <1>2, <1>3, <1>4, CopiesStay

-----------------------------------------------------------------------------
\* A snapshot begins: at an hour no stamp has.
LEMMA GenerarKeeps ==
    ASSUME CopiesInv, NEW c \in CallIds, NEW full \in BOOLEAN, Copies!Generar(c, full)
    PROVE  CopiesInv'
<1>1. PICK u : u = [stage |-> "generated", op |-> "snapshot", at |-> clock,
                    since |-> IF full THEN 0 ELSE device.since, late |-> {}]
  OBVIOUS
<1>2. /\ asks' = [asks EXCEPT ![c] = u] /\ clock' = clock + 1 /\ asks[c].stage = "served"
      /\ UNCHANGED <<product, variant, edit, device, untold, refused, overlapped>>
  BY <1>1 DEF Copies!Generar
<1>3. /\ clock \in Nat /\ device \in DeviceRow /\ refused \in Nat /\ overlapped \in BOOLEAN
      /\ DOMAIN asks = CallIds /\ DOMAIN edit = BranchIds /\ device.since < clock
  BY DEF CopiesInv, CopyTypeOK, CopyClocked
<1>4. u \in AskGenerated /\ u.at = clock /\ (u.since = 0 \/ u.since = device.since)
  BY <1>1, <1>3 DEF AskGenerated, DeviceRow
<1>5. AskKnows(u)'
  <2>1. \A e \in BranchIds : edit[e] # Copies!NoEdit => edit[e].stamp # u.at
    BY <1>3, <1>4 DEF CopiesInv, EditKnows, CopyEdit
  <2>2. AskHours(u)'
    BY <1>2, <1>3, <1>4, <2>1 DEF AskHours
  <2> QED
    BY <1>4, <2>2 DEF AskKnows
<1>6. AskCopies(asks[c])
  BY <1>2, NoAskKnows DEF CopiesInv, AskKnows, AskCopies, AskVerified, AskServed, AskGenerated,
     AskRead
<1>7. \A x \in CallIds : asks'[x] = asks[x] \/ (x = c /\ asks'[x] = u)
  BY <1>2, <1>3
<1>8. OneCopy'
  BY <1>2, <1>3, <1>6, <1>7 DEF CopiesInv, OneCopy, AskCopies
<1>9. Copies!RefusalsCounted'
  BY <1>2 DEF CopiesInv, Copies!RefusalsCounted
<1>10. \A x \in CallIds : asks'[x] = asks[x] \/ AskKnows(asks[x])'
  BY <1>5, <1>7
<1>11. /\ clock' \in Nat /\ clock' >= clock /\ refused' \in Nat /\ refused' >= refused
       /\ overlapped' \in BOOLEAN /\ DOMAIN asks' = CallIds /\ DOMAIN edit' = BranchIds
       /\ device' \in DeviceRow
  BY <1>2, <1>3
<1> QED
  BY <1>2, <1>8, <1>9, <1>10, <1>11, CopiesStay

\* It reads the products whole.
LEMMA ReadProductsKeeps ==
    ASSUME CopiesInv, NEW c \in CallIds, Copies!ReadProducts(c)
    PROVE  CopiesInv'
<1>1. PICK v \in AskGenerated : v = asks[c] /\ AskHours(v)
  BY NoAskKnows DEF Copies!ReadProducts, CopiesInv, AskKnows, AskVerified, AskServed, AskRead
<1>2. PICK included \in BOOLEAN : included <=> Copies!Included(v.since)
  OBVIOUS
<1>3. PICK put : put = IF ~ included \/ product.state = "off" THEN {}
                       ELSE {x \in Copies!Rows : variant[x].state = "on"}
  OBVIOUS
<1>4. PICK removed : removed = IF ~ included \/ v.since = 0 THEN {}
                               ELSE {x \in Copies!Rows : variant[x].state = "off"
                                                            \/ product.state = "off"}
  OBVIOUS
<1>5. PICK u : u = [stage |-> "read", op |-> "snapshot", at |-> v.at, since |-> v.since,
                    late |-> {}, included |-> included, put |-> put, removed |-> removed]
  OBVIOUS
<1>6. /\ asks' = [asks EXCEPT ![c] = u]
      /\ UNCHANGED <<clock, product, variant, edit, device, untold, refused, overlapped>>
  BY <1>1, <1>2, <1>3, <1>4, <1>5 DEF Copies!ReadProducts, Copies!Included
<1>7. /\ v.at \in Nat /\ v.since \in Nat /\ device.since \in Nat /\ product.stamp \in Nat
      /\ product.state \in {"on", "off"}
      /\ \A x \in CashIds : variant[x].stamp \in Nat
                            /\ variant[x].state \in {"none", "on", "off", "gone"}
  BY DEF AskGenerated, CopiesInv, CopyTypeOK, DeviceRow
<1>8. u \in AskRead
  BY <1>3, <1>4, <1>5, <1>7 DEF AskRead, Copies!Rows
<1>9. ASSUME NEW x \in CashIds
      PROVE  AskSays(u, x) /\ (variant[x].state = "none" => x \notin u.put)
  <2>1. x \in Copies!Rows <=> variant[x].state \in {"on", "off"}
    BY DEF Copies!Rows
  <2>2. CASE variant[x].state \in {"none", "gone"}
    <3>1. x \notin u.put /\ u.stage = "read"
      BY <1>3, <1>5, <2>1, <2>2
    <3> QED
      BY <2>2, <3>1 DEF AskSays
  <2>3. CASE variant[x].state \in {"on", "off"} /\ included
    <3>1. x \in u.put <=> CopySold(x)
      BY <1>3, <1>5, <1>7, <2>1, <2>3 DEF CopySold
    <3>2. x \in u.removed <=> u.since > 0 /\ ~ CopySold(x)
      BY <1>4, <1>5, <1>7, <2>1, <2>3 DEF CopySold
    <3> QED
      BY <1>5, <2>3, <3>1, <3>2 DEF AskSays
  <2>4. CASE variant[x].state \in {"on", "off"} /\ ~ included
    <3>1. variant[x].stamp <= v.since /\ product.stamp <= v.since /\ variant[x].stamp > 0
      BY <1>2, <1>7, <2>1, <2>4 DEF Copies!Included, CopiesInv, CopyClocked
    <3>2. v.since > 0 /\ v.since = device.since
      BY <1>1, <1>7, <3>1 DEF AskHours
    <3>3. x \in untold \/ (x \in device.known <=> CopySold(x))
      BY <1>7, <2>4, <3>1, <3>2 DEF CopiesInv, DeviceKnows
    <3>4. x \notin u.put \union u.removed /\ ~ u.included /\ u.since > 0
      BY <1>3, <1>4, <1>5, <2>4, <3>2
    <3> QED
      BY <2>4, <3>3, <3>4 DEF AskSays
  <2> QED
    BY <1>7, <2>2, <2>3, <2>4
<1>10. AskKnows(u)
  <2>1. AskHours(u)
    BY <1>1, <1>5 DEF AskHours
  <2> QED
    BY <1>8, <1>9, <2>1 DEF AskKnows
<1>11. AskCopies(asks[c])
  BY <1>1, NoAskKnows DEF AskCopies, AskGenerated
<1> QED
  BY <1>6, <1>10, <1>11, AskMoves

\* It reads what was deleted.
LEMMA ReadDeletedKeeps ==
    ASSUME CopiesInv, NEW c \in CallIds, Copies!ReadDeleted(c)
    PROVE  CopiesInv'
<1>1. PICK v \in AskRead : /\ v = asks[c] /\ AskHours(v) /\ v.stage = "read"
                          /\ \A x \in CashIds : /\ AskSays(v, x)
                                                /\ variant[x].state = "none" => x \notin v.put
  BY NoAskKnows DEF Copies!ReadDeleted, CopiesInv, AskKnows, AskVerified, AskServed,
     AskGenerated
<1>2. PICK gone : gone = {x \in CashIds : variant[x].state = "gone"
                                             /\ variant[x].stamp > v.since}
  OBVIOUS
<1>3. PICK removed \in SUBSET CashIds : removed = IF v.since = 0 THEN v.removed
                                                  ELSE v.removed \union gone
  BY <1>2 DEF AskRead
<1>4. PICK u \in AskRead :
          /\ u = [[v EXCEPT !.stage = "told"] EXCEPT !.removed = removed]
          /\ u.stage = "told" /\ u.removed = removed /\ u.at = v.at /\ u.since = v.since
          /\ u.late = v.late /\ u.included = v.included /\ u.put = v.put
          /\ u.op = "snapshot"
  <2> DEFINE u1 == [v EXCEPT !.stage = "told"]
             u2 == [u1 EXCEPT !.removed = removed]
  <2>1. /\ u1 \in AskRead /\ u1.stage = "told" /\ u1.at = v.at /\ u1.since = v.since
        /\ u1.late = v.late /\ u1.included = v.included /\ u1.put = v.put
    BY DEF AskRead
  <2> HIDE DEF u1
  <2>2. /\ u2 \in AskRead /\ u2.stage = "told" /\ u2.at = v.at /\ u2.since = v.since
        /\ u2.late = v.late /\ u2.included = v.included /\ u2.put = v.put
        /\ u2.removed = removed /\ u2.op = "snapshot"
    BY <2>1 DEF AskRead
  <2> HIDE DEF u2
  <2>3. u2 = [[v EXCEPT !.stage = "told"] EXCEPT !.removed = removed]
    BY DEF u1, u2
  <2> QED
    BY <2>2, <2>3
<1>5. /\ asks' = [asks EXCEPT ![c] = u]
      /\ UNCHANGED <<clock, product, variant, edit, device, untold, refused, overlapped>>
  BY <1>1, <1>2, <1>3, <1>4 DEF Copies!ReadDeleted
<1>6. ASSUME NEW x \in CashIds PROVE AskSays(u, x)
  <2>1. AskSays(v, x)
    BY <1>1
  <2>2. CASE x \in v.late \/ variant[x].stamp > v.at \/ variant[x].state = "none"
    BY <1>4, <2>2 DEF AskSays
  <2>3. CASE variant[x].state \in {"on", "off"}
    <3>1. x \in removed <=> x \in v.removed
      BY <1>2, <1>3, <2>3
    <3> QED
      BY <1>4, <2>1, <2>3, <3>1 DEF AskSays
  <2>4. CASE variant[x].state = "gone" /\ ~ (x \in v.late \/ variant[x].stamp > v.at)
    <3>1. x \notin v.put
      BY <2>1, <2>4 DEF AskSays
    <3>2. ASSUME v.since > 0, x \in device.known PROVE x \in removed \union untold
      <4>1. v.since = device.since /\ DeviceKnows(x)
        BY <1>1, <3>2 DEF AskHours, CopiesInv
      <4>2. x \in untold \/ variant[x].stamp > v.since
        BY <2>4, <3>2, <4>1 DEF DeviceKnows
      <4> QED
        BY <1>2, <1>3, <2>4, <3>2, <4>2
    <3> QED
      BY <1>4, <2>4, <3>1, <3>2 DEF AskSays
  <2> QED
    BY <2>1, <2>2, <2>3, <2>4 DEF AskSays
<1>7. AskKnows(u)
  <2>1. AskHours(u)
    BY <1>1, <1>4 DEF AskHours
  <2> QED
    BY <1>1, <1>4, <1>6, <2>1 DEF AskKnows
<1>8. AskCopies(asks[c])
  BY <1>1, NoAskKnows DEF AskCopies, AskRead
<1> QED
  BY <1>5, <1>7, <1>8, AskMoves

\* A change is flushed, with a stamp no snapshot began at.
LEMMA FlushKeeps ==
    ASSUME CopiesInv, NEW e \in BranchIds, NEW item \in CashIds \union {NoCall},
           NEW value \in {"on", "off", "gone"}, NEW silent \in BOOLEAN,
           item = NoCall => value # "gone" /\ ~ silent, silent => value = "gone",
           Copies!Flush(e, item, value, silent)
    PROVE  CopiesInv'
<1>1. PICK w : w = [item |-> item, value |-> value, stamp |-> clock, silent |-> silent]
  OBVIOUS
<1>2. /\ edit' = [edit EXCEPT ![e] = w] /\ clock' = clock + 1
      /\ UNCHANGED <<product, variant, device, asks, untold, refused, overlapped>>
  BY <1>1 DEF Copies!Flush
<1>3. /\ clock \in Nat /\ clock > 0 /\ device \in DeviceRow /\ refused \in Nat
      /\ overlapped \in BOOLEAN /\ DOMAIN asks = CallIds /\ DOMAIN edit = BranchIds
      /\ device.since < clock /\ device.since \in Nat
  BY DEF CopiesInv, CopyTypeOK, CopyClocked, DeviceRow
<1>4. w \in CopyEdit /\ w.stamp = clock /\ w.item = item /\ w.value = value /\ w.silent = silent
  BY <1>1, <1>3 DEF CopyEdit
<1>5. EditKnows(w)'
  BY <1>2, <1>3, <1>4 DEF EditKnows
<1>6. \A x \in BranchIds : \/ edit'[x] = edit[x]
                           \/ edit'[x].stamp = clock /\ EditKnows(edit[x])'
  <2> SUFFICES ASSUME NEW x \in BranchIds
               PROVE  \/ edit'[x] = edit[x]
                      \/ edit'[x].stamp = clock /\ EditKnows(edit[x])'
    OBVIOUS
  <2>1. edit'[x] = edit[x] \/ edit'[x] = w
    BY <1>2, <1>3
  <2> QED
    BY <1>4, <1>5, <2>1
<1>7. OneCopy' /\ Copies!RefusalsCounted'
  BY <1>2 DEF CopiesInv, OneCopy, AskCopies, Copies!RefusalsCounted
<1>8. /\ clock' \in Nat /\ clock' >= clock /\ refused' \in Nat /\ refused' >= refused
      /\ overlapped' \in BOOLEAN /\ DOMAIN asks' = CallIds /\ DOMAIN edit' = BranchIds
      /\ device' \in DeviceRow
  BY <1>2, <1>3
<1> QED
  BY <1>2, <1>6, <1>7, <1>8, CopiesStay

\* An edit begins.
LEMMA EditsKeep ==
    ASSUME CopiesInv, NEW e \in BranchIds,
           \/ \E value \in {"on", "off"} :
                  \/ Copies!EditProduct(e, value)
                  \/ \E v \in CashIds : Copies!UpdateVariant(e, v, value)
           \/ \E v \in CashIds :
                  \/ Copies!AddVariant(e, v)
                  \/ \E silent \in BOOLEAN : Copies!DeleteVariant(e, v, silent)
    PROVE  CopiesInv'
<1>1. \A v \in CashIds : v # NoCall /\ v \in CashIds \union {NoCall}
  BY CopiesAssumption
<1>2. ASSUME NEW value \in {"on", "off"}, Copies!EditProduct(e, value) PROVE CopiesInv'
  BY <1>2, FlushKeeps DEF Copies!EditProduct
<1>3. ASSUME NEW value \in {"on", "off"}, NEW v \in CashIds, Copies!UpdateVariant(e, v, value)
      PROVE  CopiesInv'
  BY <1>1, <1>3, FlushKeeps DEF Copies!UpdateVariant
<1>4. ASSUME NEW v \in CashIds, Copies!AddVariant(e, v) PROVE CopiesInv'
  BY <1>1, <1>4, FlushKeeps DEF Copies!AddVariant
<1>5. ASSUME NEW v \in CashIds, NEW silent \in BOOLEAN, Copies!DeleteVariant(e, v, silent)
      PROVE  CopiesInv'
  BY <1>1, <1>5, FlushKeeps DEF Copies!DeleteVariant
<1> QED
  BY <1>2, <1>3, <1>4, <1>5

\* It is committed: what a snapshot had read, or the device, is behind it or
\* before its stamp.
LEMMA CommitEditKeeps ==
    ASSUME CopiesInv, NEW e \in BranchIds, Copies!CommitEdit(e)
    PROVE  CopiesInv'
<1>1. PICK w \in CopyEdit : w = edit[e] /\ EditKnows(w) /\ w # Copies!NoEdit
  BY DEF Copies!CommitEdit, Copies!NoEdit, CopiesInv, EditKnows
<1>2. /\ w.stamp > 0 /\ w.stamp < clock /\ w.stamp # device.since /\ w.stamp \in Nat
      /\ w.item = NoCall => w.value # "gone" /\ ~ w.silent
      /\ w.silent => w.value = "gone"
      /\ w.item \in CashIds \union {NoCall} /\ w.value \in {"on", "off", "gone"}
      /\ w.silent \in BOOLEAN
  BY <1>1 DEF EditKnows, CopyEdit
<1>3. PICK touched \in SUBSET CashIds : touched = IF w.item = NoCall THEN CashIds ELSE {w.item}
  BY <1>2
<1>4. PICK stamp \in Nat : stamp = IF w.silent THEN 0 ELSE w.stamp
  BY <1>2
<1>5. /\ w.item = NoCall => /\ product' = [state |-> w.value, stamp |-> w.stamp]
                            /\ UNCHANGED variant
      /\ w.item # NoCall => /\ variant' = [variant EXCEPT ![w.item] =
                                              [state |-> w.value, stamp |-> stamp]]
                            /\ UNCHANGED product
      /\ untold' = untold \union
             (IF device.since > w.stamp \/ w.silent THEN touched ELSE {})
      /\ asks' = [c \in CallIds |->
             IF asks[c].stage \in {"read", "told"}
             THEN [asks[c] EXCEPT !.late = @ \union
                       (IF asks[c].at > w.stamp \/ w.silent THEN touched ELSE {})]
             ELSE asks[c]]
      /\ edit' = [edit EXCEPT ![e] = Copies!NoEdit]
      /\ UNCHANGED <<clock, device, refused, overlapped>>
  BY <1>1, <1>3, <1>4 DEF Copies!CommitEdit
<1>6. /\ clock \in Nat /\ product \in [state : {"on", "off"}, stamp : Nat]
      /\ variant \in [CashIds -> [state : {"none", "on", "off", "gone"}, stamp : Nat]]
      /\ DOMAIN edit = BranchIds /\ device \in DeviceRow /\ device.since \in Nat
      /\ DOMAIN asks = CallIds /\ untold \in SUBSET CashIds
  BY DEF CopiesInv, CopyTypeOK, DeviceRow
<1>7. CopyTypeOK'
  <2>1. product' \in [state : {"on", "off"}, stamp : Nat]
    BY <1>2, <1>5, <1>6
  <2>2. variant' \in [CashIds -> [state : {"none", "on", "off", "gone"}, stamp : Nat]]
    BY <1>2, <1>5, <1>6
  <2>3. untold' \in SUBSET CashIds
    BY <1>5, <1>6
  <2>4. DOMAIN edit' = BranchIds /\ DOMAIN asks' = CallIds
    BY <1>5, <1>6
  <2> QED
    BY <1>5, <2>1, <2>2, <2>3, <2>4 DEF CopiesInv, CopyTypeOK
<1>8. /\ w.item = NoCall => product'.stamp = w.stamp /\ product'.state = w.value
      /\ \A v \in CashIds : v # w.item => variant'[v] = variant[v]
      /\ \A v \in CashIds : v = w.item => variant'[v].state = w.value /\ variant'[v].stamp = stamp
                                          /\ w.item # NoCall
      /\ \A v \in CashIds : v \notin touched => v # w.item /\ product' = product
  BY <1>3, <1>5, <1>6, CopiesAssumption
<1>9. CopyClocked'
  <2>1. product'.stamp < clock /\ device'.since < clock
    BY <1>2, <1>5, <1>8 DEF CopiesInv, CopyClocked
  <2>2. \A v \in CashIds : /\ variant'[v].stamp < clock
                           /\ variant'[v].state \in {"on", "off"} => variant'[v].stamp > 0
    BY <1>2, <1>4, <1>6, <1>8 DEF CopiesInv, CopyClocked
  <2> QED
    BY <1>5, <2>1, <2>2 DEF CopyClocked
<1>10. ASSUME NEW x \in BranchIds PROVE EditKnows(edit[x])'
  <2>1. PICK y : y = edit'[x]
    OBVIOUS
  <2>2. EditKnows(y)
    <3>1. y = edit[x] \/ y = Copies!NoEdit
      BY <1>5, <1>6, <2>1
    <3> QED
      BY <3>1 DEF CopiesInv, EditKnows
  <2>3. EditKnows(y)'
    BY <1>5, <2>2 DEF EditKnows
  <2> QED
    BY <2>1, <2>3
<1>11. ASSUME NEW x \in CallIds PROVE AskKnows(asks[x])'
  <2>1. PICK u : u = asks[x] /\ AskKnows(u)
    BY DEF CopiesInv
  <2>2. PICK z : z = asks'[x]
    OBVIOUS
  <2>3. ASSUME AskHours(u) PROVE AskHours(u)' /\ u.at # w.stamp
    <3>1. \A y \in BranchIds : edit'[y] # Copies!NoEdit => edit'[y] = edit[y]
      BY <1>5, <1>6
    <3> QED
      BY <1>1, <1>5, <2>3, <3>1 DEF AskHours
  <2>4. CASE u \notin AskRead
    <3>1. u.stage \notin {"read", "told"}
      BY <2>1, <2>4, NoAskKnows DEF AskKnows, AskVerified, AskServed, AskGenerated
    <3>2. z = u
      BY <1>5, <2>1, <2>2, <3>1
    <3>3. AskKnows(u)'
      BY <1>5, <2>1, <2>3, <2>4 DEF AskKnows
    <3> QED
      BY <2>2, <3>2, <3>3
  <2>5. CASE u \in AskRead
    <3>1. /\ AskHours(u)
          /\ \A v \in CashIds : /\ AskSays(u, v)
                                /\ variant[v].state = "none" => v \notin u.put
      BY <2>1, <2>5, NoAskKnows DEF AskKnows, AskVerified, AskServed, AskGenerated, AskRead
    <3>2. PICK late \in SUBSET CashIds :
              late = u.late \union (IF u.at > w.stamp \/ w.silent THEN touched ELSE {})
      BY <2>5 DEF AskRead
    <3>3. z = [u EXCEPT !.late = late]
      BY <1>5, <2>1, <2>2, <2>5, <3>2 DEF AskRead
    <3>4. /\ z \in AskRead /\ z.at = u.at /\ z.since = u.since /\ z.stage = u.stage
          /\ z.included = u.included /\ z.put = u.put /\ z.removed = u.removed /\ z.late = late
      BY <2>5, <3>2, <3>3 DEF AskRead
    <3>5. AskHours(z)' /\ u.at # w.stamp /\ u.at \in Nat
      BY <2>3, <2>5, <3>1, <3>4 DEF AskHours, AskRead
    <3>6. ASSUME NEW v \in CashIds PROVE AskSays(z, v)'
      <4>1. CASE v \in late
        BY <3>4, <4>1 DEF AskSays
      <4>2. CASE v \notin late /\ v \notin touched
        <5>1. variant'[v] = variant[v] /\ product' = product /\ v \notin u.late
              /\ (v \in untold => v \in untold') /\ device' = device
          BY <1>5, <1>8, <3>2, <4>2
        <5>2. AskSays(u, v)
          BY <3>1
        <5> QED
          BY <3>4, <4>2, <5>1, <5>2 DEF AskSays, CopySold
      <4>3. CASE v \notin late /\ v \in touched
        <5>1. w.stamp > u.at /\ ~ w.silent /\ v \notin u.late
          BY <1>2, <3>2, <3>5, <4>3
        <5>2. CASE w.item = v
          <6>1. variant'[v].stamp > z.at
            BY <1>4, <1>8, <3>4, <5>1, <5>2
          <6> QED
            BY <6>1 DEF AskSays
        <5>3. CASE w.item # v
          <6>1. w.item = NoCall /\ product'.stamp > z.at /\ variant'[v] = variant[v]
            BY <1>3, <1>8, <3>4, <4>3, <5>1, <5>3
          <6>2. product'.stamp \in Nat /\ AskSays(u, v) /\ UNCHANGED device
                /\ untold \subseteq untold'
            BY <1>5, <1>7, <3>1 DEF CopyTypeOK
          <6> QED
            BY <3>4, <3>5, <5>1, <6>1, <6>2 DEF AskSays
        <5> QED
          BY <5>2, <5>3
      <4> QED
        BY <4>1, <4>2, <4>3
    <3>7. \A v \in CashIds : variant'[v].state = "none" => v \notin z.put
      BY <1>2, <1>8, <3>1, <3>4
    <3>8. AskKnows(z)'
      BY <3>4, <3>5, <3>6, <3>7 DEF AskKnows
    <3> QED
      BY <2>2, <3>8
  <2> QED
    BY <2>4, <2>5
<1>12. OneCopy'
  <2>1. ASSUME NEW x \in CallIds, AskCopies(asks'[x]) PROVE AskCopies(asks[x])
    <3>1. PICK u : u = asks[x] /\ AskKnows(u)
      BY DEF CopiesInv
    <3>2. CASE u \in AskRead
      BY <3>1, <3>2, NoAskKnows DEF AskCopies, AskRead
    <3>3. CASE u \notin AskRead
      <4>1. u.stage \notin {"read", "told"}
        BY <3>1, <3>3, NoAskKnows DEF AskKnows, AskVerified, AskServed, AskGenerated
      <4>2. asks'[x] = asks[x]
        BY <1>5, <3>1, <4>1
      <4> QED
        BY <2>1, <4>2
    <3> QED
      BY <3>2, <3>3
  <2> QED
    BY <2>1 DEF CopiesInv, OneCopy, AskCopies
<1>13. ASSUME NEW v \in CashIds
       PROVE  /\ device'.since > 0 => DeviceKnows(v)'
              /\ variant'[v].state = "none" => v \notin device'.known
  <2>1. variant'[v].state = "none" => v \notin device'.known
    BY <1>2, <1>5, <1>8 DEF CopiesInv
  <2>2. ASSUME device'.since > 0 PROVE DeviceKnows(v)'
    <3>1. DeviceKnows(v) /\ UNCHANGED device /\ untold \subseteq untold'
      BY <1>5, <2>2 DEF CopiesInv
    <3>2. CASE v \notin touched
      BY <1>8, <3>1, <3>2 DEF DeviceKnows, CopySold
    <3>3. CASE v \in touched /\ (device.since > w.stamp \/ w.silent)
      BY <1>5, <3>3 DEF DeviceKnows
    <3>4. CASE v \in touched /\ w.stamp > device.since /\ ~ w.silent
      <4>1. CASE w.item = v
        <5>1. variant'[v].stamp > device'.since
          BY <1>4, <1>8, <3>1, <3>4, <4>1
        <5> QED
          BY <5>1 DEF DeviceKnows
      <4>2. CASE w.item # v
        <5>1. w.item = NoCall /\ product'.stamp > device'.since /\ variant'[v] = variant[v]
              /\ product'.stamp \in Nat
          BY <1>2, <1>3, <1>8, <3>1, <3>4, <4>2
        <5> QED
          BY <1>6, <3>1, <5>1 DEF DeviceKnows
      <4> QED
        BY <4>1, <4>2
    <3> QED
      BY <1>2, <1>6, <3>2, <3>3, <3>4
  <2> QED
    BY <2>1, <2>2
<1>14. Copies!RefusalsCounted'
  BY <1>5 DEF CopiesInv, Copies!RefusalsCounted
<1> QED
  BY <1>7, <1>9, <1>10, <1>11, <1>12, <1>13, <1>14 DEF CopiesInv

\* The device has the snapshot.
LEMMA DeliverKeeps ==
    ASSUME CopiesInv, NEW c \in CallIds, Copies!Deliver(c)
    PROVE  CopiesInv'
<1>1. PICK u \in AskRead : /\ u = asks[c] /\ AskHours(u) /\ u.stage = "told"
                          /\ \A v \in CashIds : /\ AskSays(u, v)
                                                /\ variant[v].state = "none" => v \notin u.put
  BY NoAskKnows DEF Copies!Deliver, CopiesInv, AskKnows, AskVerified, AskServed, AskGenerated
<1>2. /\ u.at \in Nat /\ u.since \in Nat /\ u.late \in SUBSET CashIds
      /\ u.put \in SUBSET CashIds /\ u.removed \in SUBSET CashIds /\ u.included \in BOOLEAN
      /\ u.op = "snapshot"
  BY DEF AskRead
<1>3. PICK known \in SUBSET CashIds :
          known = ((IF u.since = 0 THEN {} ELSE device.known) \union u.put) \ u.removed
  BY <1>2 DEF CopiesInv, CopyTypeOK, DeviceRow
<1>4. /\ device' = [[device EXCEPT !.since = u.at] EXCEPT !.known = known]
      /\ untold' = u.late \union (IF u.since = 0 THEN {}
                                  ELSE IF u.included THEN untold \ Copies!Rows ELSE untold)
      /\ asks' = [asks EXCEPT ![c] = Copies!NoAsk]
      /\ UNCHANGED <<clock, product, variant, edit, refused, overlapped>>
  BY <1>1, <1>3 DEF Copies!Deliver
<1>5. /\ device' \in DeviceRow /\ device'.since = u.at /\ device'.known = known
      /\ device'.attempts = device.attempts
  <2> DEFINE d1 == [device EXCEPT !.since = u.at]
             d2 == [d1 EXCEPT !.known = known]
  <2>1. d1 \in DeviceRow /\ d1.since = u.at /\ d1.attempts = device.attempts
    BY <1>2 DEF CopiesInv, CopyTypeOK, DeviceRow
  <2> HIDE DEF d1
  <2>2. d2 \in DeviceRow /\ d2.since = u.at /\ d2.attempts = device.attempts /\ d2.known = known
    BY <2>1 DEF DeviceRow
  <2> QED
    BY <1>4, <2>2 DEF d1
<1>6. /\ u.at < clock /\ u.at > device.since /\ device.since \in Nat
      /\ u.since > 0 => u.since = device.since
      /\ \A e \in BranchIds : edit[e] # Copies!NoEdit => edit[e].stamp # u.at
  BY <1>1 DEF AskHours, CopiesInv, CopyTypeOK, DeviceRow
<1>7. CopyTypeOK' /\ CopyClocked'
  <2>1. untold' \in SUBSET CashIds /\ DOMAIN asks' = CallIds
    BY <1>2, <1>4 DEF CopiesInv, CopyTypeOK
  <2> QED
    BY <1>4, <1>5, <1>6, <2>1 DEF CopiesInv, CopyTypeOK, CopyClocked
<1>8. ASSUME NEW e \in BranchIds PROVE EditKnows(edit[e])'
  <2>1. PICK w : w = edit[e] /\ EditKnows(w)
    BY DEF CopiesInv
  <2>2. EditKnows(w)'
    BY <1>4, <1>5, <1>6, <2>1 DEF EditKnows
  <2> QED
    BY <1>4, <2>1, <2>2
<1>9. \A x \in CallIds : asks'[x] = IF x = c THEN Copies!NoAsk ELSE asks[x]
  BY <1>4 DEF CopiesInv, CopyTypeOK
<1>10. ASSUME NEW x \in CallIds PROVE AskKnows(asks[x])' /\ ~ AskCopies(asks'[x])
  <2>1. PICK z : z = asks'[x]
    OBVIOUS
  <2>2. CASE x = c
    <3>1. z = Copies!NoAsk
      BY <1>9, <2>1, <2>2
    <3>2. AskKnows(z)' /\ ~ AskCopies(z)
      BY <3>1, NoAskKnows DEF AskKnows
    <3> QED
      BY <2>1, <3>2
  <2>3. CASE x # c
    <3>1. z = asks[x] /\ AskKnows(z)
      BY <1>9, <2>1, <2>3 DEF CopiesInv
    <3>2. ~ AskCopies(z)
      BY <1>1, <1>2, <2>3, <3>1, NoAskKnows DEF CopiesInv, OneCopy, AskCopies
    <3>3. z = Copies!NoAsk \/ (z \in AskVerified /\ z.attempts <= refused)
      BY <3>1, <3>2, NoAskKnows DEF AskKnows, AskCopies, AskServed, AskGenerated, AskRead
    <3>4. AskKnows(z)'
      BY <1>4, <3>3 DEF AskKnows
    <3> QED
      BY <2>1, <3>2, <3>4
  <2> QED
    BY <2>2, <2>3
<1>11. OneCopy'
  BY <1>10 DEF OneCopy, AskCopies
<1>12. ASSUME NEW v \in CashIds
       PROVE  /\ DeviceKnows(v)'
              /\ variant'[v].state = "none" => v \notin device'.known
  <2>1. variant[v].state = "none" => v \notin known
    BY <1>1, <1>3 DEF CopiesInv
  <2>2. AskSays(u, v)
    BY <1>1
  <2>3. /\ v \in u.late => v \in untold'
        /\ u.since > 0 /\ v \in untold /\ ~ (u.included /\ variant[v].state \in {"on", "off"})
               => v \in untold'
    BY <1>2, <1>4 DEF Copies!Rows
  <2>4. CASE v \in u.late \/ variant[v].stamp > u.at
    <3>1. variant' = variant /\ device'.since = u.at /\ device'.known = known
      BY <1>4, <1>5
    <3>2. v \in untold' \/ variant'[v].stamp > device'.since
      BY <2>3, <2>4, <3>1
    <3> QED
      BY <2>1, <3>1, <3>2 DEF DeviceKnows
  <2>5. CASE variant[v].state = "none"
    BY <1>4, <1>5, <2>1, <2>5 DEF DeviceKnows
  <2>6. CASE variant[v].state = "gone" /\ ~ (v \in u.late \/ variant[v].stamp > u.at)
    <3>1. /\ v \notin u.put
          /\ u.since > 0 /\ v \in device.known => v \in u.removed \union untold
      BY <1>1, <2>2, <2>6 DEF AskSays
    <3>2. v \in known => v \in untold'
      BY <1>2, <1>3, <2>3, <2>6, <3>1
    <3> QED
      BY <1>4, <1>5, <2>6, <3>2 DEF DeviceKnows
  <2>7. CASE variant[v].state \in {"on", "off"} /\ ~ (v \in u.late \/ variant[v].stamp > u.at)
    <3>1. product.stamp <= u.at =>
              IF u.since > 0 /\ ~ u.included
              THEN /\ v \notin u.put \union u.removed
                   /\ v \in untold \/ (v \in device.known <=> CopySold(v))
              ELSE /\ v \in u.put <=> CopySold(v)
                   /\ v \in u.removed <=> u.since > 0 /\ ~ CopySold(v)
      BY <2>2, <2>7 DEF AskSays
    <3>2. product.stamp <= u.at => v \in untold' \/ (v \in known <=> CopySold(v))
      <4>1. CASE u.since > 0 /\ ~ u.included
        BY <1>2, <1>3, <2>3, <3>1, <4>1
      <4>2. CASE ~ (u.since > 0 /\ ~ u.included)
        BY <1>2, <1>3, <3>1, <4>2
      <4> QED
        BY <4>1, <4>2
    <3>3. CopySold(v)' <=> CopySold(v)
      BY <1>4 DEF CopySold
    <3> QED
      BY <1>4, <1>5, <2>7, <3>2, <3>3 DEF DeviceKnows
  <2>8. variant[v].state \in {"none", "on", "off", "gone"}
    BY DEF CopiesInv, CopyTypeOK
  <2> QED
    BY <1>4, <1>5, <2>1, <2>4, <2>5, <2>6, <2>7, <2>8
<1>13. Copies!RefusalsCounted'
  BY <1>4, <1>5 DEF CopiesInv, Copies!RefusalsCounted
<1> QED
  BY <1>7, <1>8, <1>10, <1>11, <1>12, <1>13 DEF CopiesInv

\* Every step of the copies.
LEMMA CopiesKeep == CopiesInv /\ [Copies!DeviceNext]_copyVars => CopiesInv'
<1> SUFFICES ASSUME CopiesInv, [Copies!DeviceNext]_copyVars PROVE CopiesInv'
  OBVIOUS
<1>1. CASE UNCHANGED copyVars
  <2>1. UNCHANGED <<clock, product, variant, edit, device, asks, untold, refused, overlapped>>
    BY <1>1 DEF copyVars
  <2>2. OneCopy' /\ Copies!RefusalsCounted'
    BY <2>1 DEF CopiesInv, OneCopy, AskCopies, Copies!RefusalsCounted
  <2>3. /\ clock' \in Nat /\ clock' >= clock /\ refused' \in Nat /\ refused' >= refused
        /\ overlapped' \in BOOLEAN /\ DOMAIN asks' = CallIds /\ DOMAIN edit' = BranchIds
        /\ device' \in DeviceRow
    BY <2>1 DEF CopiesInv, CopyTypeOK
  <2> QED
    BY <2>1, <2>2, <2>3, CopiesStay
<1>2. ASSUME NEW c \in CallIds,
             \/ \E op \in {"snapshot", "sync"} : Copies!Verificar(c, op)
             \/ Copies!Registrar(c) \/ Copies!Usar(c) \/ Copies!Rechazar(c)
             \/ \E full \in BOOLEAN : Copies!Generar(c, full)
             \/ Copies!ReadProducts(c) \/ Copies!ReadDeleted(c) \/ Copies!Deliver(c)
             \/ Copies!Lose(c)
      PROVE  CopiesInv'
  BY <1>2, VerificarKeeps, RegistrarKeeps, UsarKeeps, RechazarKeeps, GenerarKeeps,
     ReadProductsKeeps, ReadDeletedKeeps, DeliverKeeps, LoseKeeps
<1>3. CASE Copies!Bloquear \/ Copies!Desbloquear
  BY <1>3, BlockingKeeps
<1> QED
  BY <1>1, <1>2, <1>3, EditsKeep, CommitEditKeeps DEF Copies!DeviceNext

-----------------------------------------------------------------------------
(* The fitting room.                                                       *)

\* A row of a colour.
GarmentRow == [status : {"none", "pending", "ready", "review", "failed", "manual"},
               cut : Nat, fit : Nat, signer : Reviewers \union {NoLimit}]

\* The preparation a call is in.
Preparation == [kind : {"none", "one", "batch"}, only : BOOLEAN, todo : SUBSET BranchIds,
                on : BranchIds \union {NoCall}, read : GarmentRow, left : SUBSET BranchIds]

\* What a reviewer has in front is a row that was there.
FittingTypeOK ==
    /\ cutout \in [BranchIds -> GarmentRow]
    /\ prep \in [Preparers -> Preparation]
    /\ screen \in [Reviewers -> [colour : BranchIds, cut : Nat] \union {Fitting!Blank}]
    /\ cuts \in Nat

\* The inductive invariant.
FittingInv == FittingTypeOK /\ Fitting!CameraShowsVetted

\* A row that is not there, and one that waits.
LEMMA RowsTyped == Fitting!NoRow \in GarmentRow /\ Fitting!Pending \in GarmentRow
<1>1. Fitting!NoRow \in GarmentRow
  BY DEF Fitting!NoRow, GarmentRow, Fitting!NoCut
<1> QED
  BY <1>1 DEF Fitting!Pending, GarmentRow

\* A call at rest is one.
LEMMA RestingTyped == Fitting!Resting \in Preparation
BY RowsTyped DEF Fitting!Resting, Preparation

\* Nothing is shown at first.
LEMMA FittingStarts == Fitting!GarmentInit => FittingInv
<1> SUFFICES ASSUME Fitting!GarmentInit PROVE FittingInv
  OBVIOUS
<1>1. FittingTypeOK
  BY RowsTyped, RestingTyped DEF Fitting!GarmentInit, FittingTypeOK
<1>2. \A c \in BranchIds : Fitting!Shown(c) = Fitting!NoCut
  BY DEF Fitting!GarmentInit, Fitting!Shown, Fitting!Usable, Fitting!NoRow
<1> QED
  BY <1>1, <1>2 DEF FittingInv, Fitting!CameraShowsVetted

\* A row that is as the camera may show it.
Vetted(entry, ok, signed) ==
    Fitting!Usable(entry) =>
        IF entry.signer = NoLimit THEN entry.cut \in ok /\ entry.fit = entry.cut ELSE entry.cut \in signed

\* The property, row by row.
LEMMA VettedRows ==
    Fitting!CameraShowsVetted <=> \A c \in BranchIds \ mixed : Vetted(cutout[c], passed, approved)
BY DEF Fitting!CameraShowsVetted, Vetted, Fitting!Shown, Fitting!Usable

\* What was vetted stays so.
LEMMA VettedStays ==
    ASSUME NEW entry, NEW ok, NEW ok2, NEW signed, NEW signed2,
           ok \subseteq ok2, signed \subseteq signed2, Vetted(entry, ok, signed)
    PROVE  Vetted(entry, ok2, signed2)
BY DEF Vetted

\* Over the row that was read, the columns that differ make the new one.
LEMMA RowMerged ==
    ASSUME NEW entry \in GarmentRow, NEW read \in GarmentRow, NEW new \in GarmentRow
    PROVE  /\ Fitting!Merge(entry, read, new) \in GarmentRow
           /\ entry = read => Fitting!Merge(entry, read, new) = new
<1>1. DOMAIN entry = {"status", "cut", "fit", "signer"} /\ DOMAIN new = DOMAIN entry
  BY DEF GarmentRow
<1> DEFINE m == Fitting!Merge(entry, read, new)
<1>2. m = [f \in DOMAIN entry |-> IF new[f] # read[f] THEN new[f] ELSE entry[f]]
  BY DEF Fitting!Merge
<1>3. m = [status |-> m.status, cut |-> m.cut, fit |-> m.fit, signer |-> m.signer]
  BY <1>1, <1>2
<1>4. /\ m.status \in {"none", "pending", "ready", "review", "failed", "manual"}
      /\ m.cut \in Nat /\ m.fit \in Nat /\ m.signer \in Reviewers \union {NoLimit}
  BY <1>1, <1>2 DEF GarmentRow
<1>5. m \in GarmentRow
  BY <1>3, <1>4 DEF GarmentRow
<1>6. ASSUME entry = read PROVE m = new
  BY <1>1, <1>2, <1>6 DEF GarmentRow
<1> QED
  BY <1>5, <1>6

\* A call that goes on, or is over, has its type.
LEMMA OnwardsTyped ==
    ASSUME FittingInv, NEW p \in Preparers, NEW left \in SUBSET BranchIds,
           Fitting!Onwards(p, left)
    PROVE  prep' \in [Preparers -> Preparation]
<1>1. prep[p] \in Preparation
  BY DEF FittingInv, FittingTypeOK
<1>2. [prep[p] EXCEPT !.on = NoCall, !.left = left] \in Preparation
  BY <1>1 DEF Preparation
<1> QED
  BY <1>2, RestingTyped DEF Fitting!Onwards, FittingInv, FittingTypeOK

\* The commit of a preparation: the row it began with becomes the new one, and
\* the rest is as it was or has only begun.
LEMMA SaveKeeps ==
    ASSUME FittingInv, NEW p \in Preparers, NEW new \in GarmentRow,
           prep[p].on # NoCall, Fitting!Save(p, new), cuts' \in Nat,
           passed \subseteq passed',
           mixed \ {prep[p].on} \subseteq mixed',
           prep[p].on \notin mixed' => cutout[prep[p].on] = prep[p].read,
           prep[p].on \notin mixed' => Vetted(new, passed', approved')
    PROVE  FittingInv'
<1> DEFINE c == prep[p].on
<1>1. c \in BranchIds /\ prep[p].read \in GarmentRow /\ prep[p].left \subseteq BranchIds
  BY DEF FittingInv, FittingTypeOK, Preparation
<1>2. approved' = approved /\ screen' = screen
  BY DEF Fitting!Save
<1>3. cutout' \in [BranchIds -> GarmentRow]
  BY <1>1, RowsTyped, RowMerged DEF Fitting!Save, FittingInv, FittingTypeOK
<1>4. FittingTypeOK'
  <2>1. prep' \in [Preparers -> Preparation]
    BY OnwardsTyped DEF Fitting!Save
  <2> QED
    BY <1>2, <1>3, <2>1 DEF FittingInv, FittingTypeOK
<1>5. ASSUME NEW x \in BranchIds \ mixed' PROVE Vetted(cutout'[x], passed', approved')
  <2>1. CASE x = c
    <3>1. cutout'[c] = new
      BY <1>1, <2>1, <1>5, RowMerged DEF Fitting!Save, FittingInv, FittingTypeOK
    <3> QED
      BY <2>1, <3>1, <1>5
  <2>2. CASE x # c /\ x \in prep[p].left
    BY <2>2, <1>5 DEF Fitting!Save, Fitting!Pending, Fitting!NoRow, Vetted, Fitting!Usable
  <2>3. CASE x # c /\ x \notin prep[p].left
    <3>1. cutout'[x] = cutout[x] /\ x \notin mixed
      BY <2>3, <1>5 DEF Fitting!Save
    <3> QED
      BY <3>1, <1>2, <1>5, VettedRows, VettedStays DEF FittingInv
  <2> QED
    BY <2>1, <2>2, <2>3
<1> QED
  BY <1>4, <1>5, VettedRows DEF FittingInv, Fitting!CameraShowsVetted, Vetted, Fitting!Shown, Fitting!Usable

\* What the test says of a cut.
LEMMA VerdictsTyped == Fitting!Verdicts \subseteq {"failed", "ready", "review"}
<1>1. ASSUME NEW cut, NEW score, NEW match
      PROVE  Fitting!Verdict(cut, score, match) \in {"failed", "ready", "review"}
  BY Zenon DEF Fitting!Verdict
<1> SUFFICES ASSUME NEW v \in Fitting!Verdicts PROVE v \in {"failed", "ready", "review"}
  OBVIOUS
<1>2. PICK cut \in BOOLEAN, score \in Fitting!Scores, main \in Fitting!Answers,
           another \in BOOLEAN : v = Fitting!Verdict(cut, score, Fitting!Match(main, another))
  BY DEF Fitting!Verdicts
<1> QED
  BY <1>1, <1>2

\* The photo was cut, and shows only if its test allows it.
LEMMA PreparationFinishes ==
    ASSUME FittingInv, NEW p \in Preparers, NEW verdict \in Fitting!Verdicts,
           Fitting!Finish(p, verdict)
    PROVE  FittingInv'
<1> DEFINE new == [status |-> verdict, cut |-> cuts', fit |-> cuts', signer |-> NoLimit]
<1>1. cuts' \in Nat
  BY DEF Fitting!Finish, FittingInv, FittingTypeOK
<1>2. new \in GarmentRow
  BY <1>1, VerdictsTyped DEF GarmentRow
<1>3. verdict # "manual"
  BY VerdictsTyped
<1>4. Vetted(new, passed', approved')
  BY <1>3 DEF Vetted, Fitting!Usable, Fitting!Finish
<1> HIDE DEF new
<1>5. /\ Fitting!Save(p, new) /\ passed \subseteq passed' /\ prep[p].on # NoCall
      /\ mixed \ {prep[p].on} \subseteq mixed'
      /\ prep[p].on \notin mixed' => cutout[prep[p].on] = prep[p].read
  BY DEF Fitting!Finish, Fitting!Written, new
<1> QED
  BY <1>1, <1>2, <1>4, <1>5, SaveKeeps

\* A preparation that broke leaves the row failed.
LEMMA BreakKeeps ==
    ASSUME FittingInv, NEW p \in Preparers, Fitting!Break(p) \/ Fitting!BreakAtAnchors(p)
    PROVE  FittingInv'
<1> DEFINE broken == [prep[p].read EXCEPT !.status = "failed"]
           cutAgain == [prep[p].read EXCEPT !.status = "failed", !.cut = cuts']
           new == IF Fitting!Break(p) THEN broken ELSE cutAgain
<1>1. cuts' \in Nat
  BY DEF Fitting!Break, Fitting!BreakAtAnchors, FittingInv, FittingTypeOK
<1>5. prep[p].read \in GarmentRow
  BY DEF FittingInv, FittingTypeOK, Preparation
<1>6. broken \in GarmentRow /\ broken.status = "failed"
  BY <1>5 DEF GarmentRow
<1>7. cutAgain \in GarmentRow /\ cutAgain.status = "failed"
  BY <1>1, <1>5 DEF GarmentRow
<1>2. new \in GarmentRow /\ new.status = "failed"
  BY <1>6, <1>7
<1>3. /\ Fitting!Save(p, new) /\ passed \subseteq passed' /\ prep[p].on # NoCall
      /\ mixed \ {prep[p].on} \subseteq mixed'
      /\ prep[p].on \notin mixed' => cutout[prep[p].on] = prep[p].read
  BY DEF Fitting!Break, Fitting!BreakAtAnchors
<1> HIDE DEF new
<1>4. Vetted(new, passed', approved')
  BY <1>2 DEF Vetted, Fitting!Usable
<1> QED
  BY <1>1, <1>2, <1>3, <1>4, SaveKeeps

\* A review or an adjustment: what is shown under a name was looked at by it.
LEMMA ReviewKeeps ==
    ASSUME FittingInv, NEW a \in Reviewers,
           Fitting!Approve(a) \/ Fitting!Reject(a) \/ Fitting!Adjust(a)
    PROVE  FittingInv'
<1> DEFINE c == screen[a].colour
           k == screen[a].cut
<1>1. screen[a] \in [colour : BranchIds, cut : Nat]
  BY DEF Fitting!Approve, Fitting!Reject, Fitting!Adjust, Fitting!Watching, FittingInv,
         FittingTypeOK
<1>a. c \in BranchIds /\ k \in Nat
  BY <1>1
<1>2. /\ UNCHANGED <<prep, cuts, passed>> /\ approved \subseteq approved'
      /\ screen' = [screen EXCEPT ![a] = Fitting!Blank]
      /\ mixed \ {c} \subseteq mixed'
  BY DEF Fitting!Approve, Fitting!Reject, Fitting!Adjust, Fitting!Decided
<1> DEFINE entry == cutout[c]
           approved1 == [entry EXCEPT !.status = "ready", !.signer = a]
           rejected1 == [entry EXCEPT !.status = "failed", !.signer = a]
           adjusted1 == [entry EXCEPT !.status = "manual", !.signer = a, !.fit = k]
<1>7. entry \in GarmentRow
  BY <1>a DEF FittingInv, FittingTypeOK
<1>8. {approved1, rejected1, adjusted1} \subseteq GarmentRow
  BY <1>a, <1>7 DEF GarmentRow
<1>9. \/ Fitting!Approve(a) /\ cutout' = [cutout EXCEPT ![c] = approved1]
      \/ Fitting!Reject(a) /\ cutout' = [cutout EXCEPT ![c] = rejected1]
      \/ Fitting!Adjust(a) /\ cutout' = [cutout EXCEPT ![c] = adjusted1]
  BY <1>a DEF Fitting!Approve, Fitting!Reject, Fitting!Adjust
<1>3. /\ cutout' \in [BranchIds -> GarmentRow]
      /\ \A x \in BranchIds : x # c => cutout'[x] = cutout[x]
  BY <1>8, <1>9 DEF FittingInv, FittingTypeOK
<1>4. FittingTypeOK'
  BY <1>2, <1>3 DEF FittingInv, FittingTypeOK
<1>5. c \notin mixed' => Vetted(cutout'[c], passed', approved')
  <2>1. CASE cutout' = [cutout EXCEPT ![c] = rejected1]
    <3>1. rejected1.status = "failed"
      BY <1>7 DEF GarmentRow
    <3>2. cutout'[c].status = "failed"
      BY <1>a, <2>1, <3>1 DEF FittingInv, FittingTypeOK, GarmentRow
    <3> QED
      BY <3>2 DEF Vetted, Fitting!Usable
  <2>2. CASE /\ Fitting!Approve(a) \/ Fitting!Adjust(a)
             /\ cutout' \in {[cutout EXCEPT ![c] = approved1], [cutout EXCEPT ![c] = adjusted1]}
    <3>3. /\ approved1.signer = a /\ approved1.cut = entry.cut
          /\ adjusted1.signer = a /\ adjusted1.cut = entry.cut
      BY <1>7 DEF GarmentRow
    <3>1. cutout'[c].signer = a /\ cutout'[c].cut = cutout[c].cut
      BY <1>a, <2>2, <3>3 DEF FittingInv, FittingTypeOK
    <3>2. /\ approved' = approved \union {k}
          /\ c \notin mixed' => cutout[c].cut = k
      BY <2>2 DEF Fitting!Approve, Fitting!Adjust, Fitting!Decided
    <3> QED
      BY <3>1, <3>2, FittingAssumption DEF Vetted
  <2> QED
    BY <1>9, <2>1, <2>2
<1>6. ASSUME NEW x \in BranchIds \ mixed' PROVE Vetted(cutout'[x], passed', approved')
  <2>1. CASE x = c
    BY <1>5, <1>6, <2>1
  <2>2. CASE x # c
    <3>1. cutout'[x] = cutout[x] /\ x \notin mixed
      BY <1>2, <1>3, <1>6, <2>2
    <3> QED
      BY <3>1, <1>2, <1>6, VettedRows, VettedStays DEF FittingInv
  <2> QED
    BY <2>1, <2>2
<1> QED
  BY <1>4, <1>6, VettedRows DEF FittingInv, Fitting!CameraShowsVetted, Vetted, Fitting!Shown, Fitting!Usable

\* A step that writes no row.
LEMMA ReadingKeeps ==
    ASSUME FittingInv, UNCHANGED <<cutout, cuts, passed, approved, mixed>>,
           FittingTypeOK'
    PROVE  FittingInv'
BY DEF FittingInv, Fitting!CameraShowsVetted, Fitting!Shown

\* The calls begin, take, are refused, clash or look.
LEMMA LookingKeeps ==
    ASSUME FittingInv, NEW p \in Preparers,
           \/ \E c \in BranchIds : Fitting!Start(p, c) \/ Fitting!Take(p, c)
           \/ \E only \in BOOLEAN : Fitting!StartBatch(p, only)
           \/ \E added \in SUBSET BranchIds : Fitting!Refuse(p, added)
           \/ Fitting!Clash(p)
    PROVE  FittingInv'
<1>1. UNCHANGED <<cutout, cuts, passed, approved, mixed, screen>>
  BY DEF Fitting!Start, Fitting!Take, Fitting!StartBatch, Fitting!Refuse, Fitting!Clash,
         Fitting!Asked
<1>2. prep' \in [Preparers -> Preparation]
  <2>1. ASSUME NEW c \in BranchIds, Fitting!Start(p, c)
        PROVE  prep' \in [Preparers -> Preparation]
    <3>1. [Fitting!Resting EXCEPT !.kind = "one", !.on = c, !.read = cutout[c]] \in Preparation
      BY RestingTyped DEF Preparation, FittingInv, FittingTypeOK
    <3> QED
      BY <2>1, <3>1 DEF Fitting!Start, FittingInv, FittingTypeOK
  <2>2. ASSUME NEW c \in BranchIds, Fitting!Take(p, c)
        PROVE  prep' \in [Preparers -> Preparation]
    <3> DEFINE on == IF prep[p].only /\ Fitting!YaListo(c) THEN NoCall ELSE c
    <3>1. prep[p] \in Preparation /\ cutout[c] \in GarmentRow /\ on \in BranchIds \union {NoCall}
      BY DEF FittingInv, FittingTypeOK
    <3>2. prep' = [prep EXCEPT ![p] = [prep[p] EXCEPT !.todo = prep[p].todo \ {c}, !.on = on,
                                                      !.read = cutout[c]]]
      BY <2>2 DEF Fitting!Take
    <3> HIDE DEF on
    <3>3. [prep[p] EXCEPT !.todo = prep[p].todo \ {c}, !.on = on, !.read = cutout[c]]
              \in Preparation
      BY <3>1 DEF Preparation
    <3> QED
      BY <3>2, <3>3 DEF FittingInv, FittingTypeOK
  <2>3. ASSUME NEW only \in BOOLEAN, Fitting!StartBatch(p, only)
        PROVE  prep' \in [Preparers -> Preparation]
    <3>1. [Fitting!Resting EXCEPT !.kind = "batch", !.only = only, !.todo = BranchIds]
              \in Preparation
      BY RestingTyped DEF Preparation
    <3> QED
      BY <2>3, <3>1 DEF Fitting!StartBatch, FittingInv, FittingTypeOK
  <2>4. ASSUME NEW added \in SUBSET BranchIds, Fitting!Refuse(p, added)
        PROVE  prep' \in [Preparers -> Preparation]
    BY <2>4, OnwardsTyped DEF Fitting!Refuse
  <2>5. CASE Fitting!Clash(p)
    BY <2>5, RestingTyped DEF Fitting!Clash, FittingInv, FittingTypeOK
  <2> QED
    BY <2>1, <2>2, <2>3, <2>4, <2>5
<1> QED
  BY <1>1, <1>2, ReadingKeeps DEF FittingInv, FittingTypeOK

\* A reviewer looks.
LEMMA LookKeeps ==
    ASSUME FittingInv, NEW a \in Reviewers, NEW c \in BranchIds, Fitting!Look(a, c)
    PROVE  FittingInv'
<1>1. cutout[c].cut \in Nat
  BY DEF FittingInv, FittingTypeOK, GarmentRow
<1> QED
  BY <1>1, ReadingKeeps DEF Fitting!Look, Fitting!Asked, FittingInv, FittingTypeOK

\* The batch ends, with the rows it had begun.
LEMMA EndBatchKeeps ==
    ASSUME FittingInv, NEW p \in Preparers, Fitting!EndBatch(p)
    PROVE  FittingInv'
<1>1. UNCHANGED <<screen, cuts, passed, approved, mixed>>
  BY DEF Fitting!EndBatch
<1>2. prep' \in [Preparers -> Preparation]
  BY RestingTyped DEF Fitting!EndBatch, FittingInv, FittingTypeOK
<1>3. cutout' = [c \in BranchIds |-> IF c \in prep[p].left THEN Fitting!Pending ELSE cutout[c]]
  BY DEF Fitting!EndBatch
<1>4. cutout' \in [BranchIds -> GarmentRow]
  BY <1>3, RowsTyped DEF FittingInv, FittingTypeOK
<1>5. ASSUME NEW x \in BranchIds \ mixed' PROVE Vetted(cutout'[x], passed', approved')
  <2>1. CASE x \in prep[p].left
    BY <1>3, <2>1, <1>5 DEF Fitting!Pending, Fitting!NoRow, Vetted, Fitting!Usable
  <2>2. CASE x \notin prep[p].left
    BY <1>1, <1>3, <2>2, <1>5, VettedRows DEF FittingInv
  <2> QED
    BY <2>1, <2>2
<1> QED
  BY <1>1, <1>2, <1>4, <1>5, VettedRows
     DEF FittingInv, FittingTypeOK, Fitting!CameraShowsVetted, Vetted, Fitting!Shown, Fitting!Usable

\* No step of the fitting room shows what nobody vetted.
LEMMA FittingKeeps == FittingInv /\ [Fitting!GarmentNext]_fittingVars => FittingInv'
<1> SUFFICES ASSUME FittingInv, [Fitting!GarmentNext]_fittingVars PROVE FittingInv'
  OBVIOUS
<1>1. CASE UNCHANGED fittingVars
  BY <1>1 DEF fittingVars, FittingInv, FittingTypeOK, Fitting!CameraShowsVetted, Fitting!Shown
<1>2. ASSUME NEW p \in Preparers, Fitting!Preparing(p) PROVE FittingInv'
  <2>1. ASSUME NEW c \in BranchIds, Fitting!Start(p, c) \/ Fitting!Retry(p, c) \/ Fitting!Take(p, c)
        PROVE  FittingInv'
    BY <2>1, LookingKeeps DEF Fitting!Retry
  <2>2. ASSUME NEW only \in BOOLEAN, Fitting!StartBatch(p, only) PROVE FittingInv'
    BY <2>2, LookingKeeps
  <2>3. ASSUME NEW added \in SUBSET BranchIds, Fitting!Refuse(p, added) PROVE FittingInv'
    BY <2>3, LookingKeeps
  <2>4. ASSUME Fitting!Clash(p) PROVE FittingInv'
    BY <2>4, LookingKeeps
  <2> QED
    BY <1>2, <2>1, <2>2, <2>3, <2>4, PreparationFinishes, BreakKeeps, EndBatchKeeps
       DEF Fitting!Preparing
<1>3. ASSUME NEW a \in Reviewers, Fitting!Reviewing(a) PROVE FittingInv'
  BY <1>3, LookKeeps, ReviewKeeps DEF Fitting!Reviewing
<1> QED
  BY <1>1, <1>2, <1>3 DEF Fitting!GarmentNext

-----------------------------------------------------------------------------
(* The imports.                                                            *)

\* A collection: who created it, by hand before or in a file, and who wrote in it.
Collection == [by : Files!Calls \union {NoCall}, wrote : SUBSET Files!Calls]

\* What a call brings.
FileShape == [rows : Seq(Files!Keys), mode : {"create", "update"}]

\* The stages of a call.
FileStages == {"new", "previewing", "previewed", "importing", "saving", "imported", "refused"}

\* The types of the part.
FilesTypeOK ==
    /\ collections \in [Files!Keys -> SUBSET Collection]
    /\ \A k \in Files!Keys : IsFiniteSet(collections[k])
    /\ file \in [Files!Calls -> FileShape]
    /\ stage \in [Files!Calls -> FileStages]
    /\ line \in [Files!Calls -> Nat \ {0}]
    /\ step \in [Files!Calls -> {"check", "write"}]
    /\ held \in [Files!Calls -> SUBSET Files!Keys]
    /\ errors \in [Files!Calls -> BOOLEAN]
    /\ valid \in [Files!Calls -> BOOLEAN]

\* A call holds the rows that it has written, all of those behind it unless one
\* failed, and nothing when it rests.
HeldOK(c) ==
    IF Files!Working(c)
    THEN /\ line[c] <= Len(file[c].rows) + 1
         /\ step[c] = "write" => line[c] <= Len(file[c].rows)
         /\ \A k \in held[c] : \E i \in 1 .. line[c] - 1 : file[c].rows[i] = k
         /\ errors[c] \/ \A i \in 1 .. line[c] - 1 : file[c].rows[i] \in held[c]
    ELSE held[c] = {} /\ ~ errors[c] /\ step[c] = "check"

\* It has found a key fit to be written.
Engaged(c, k) == k \in held[c] \/ (step[c] = "write" /\ Files!Row(c) = k)

\* An update has what it changes, and a creation is the first, unless two were
\* creating it at once.
EngagedOK ==
    \A c \in Files!Calls, k \in Files!Keys :
        Files!Working(c) /\ Engaged(c, k) =>
            IF file[c].mode = "update" THEN collections[k] # {}
            ELSE k \in together \/ collections[k] = {}

\* Two that are about to create the same key are marked as overlapping.
RivalsOK ==
    \A c, d \in Files!Calls, k \in Files!Keys :
        c # d /\ Files!Creating(c) /\ Files!Creating(d) /\ Engaged(c, k) /\ Engaged(d, k)
            => k \in together

\* Where there is a season the database lets one at a time write the key, and
\* create it only if it is not there.
UniqueOK ==
    \A c \in Files!Calls, k \in Files!Keys :
        k \in held[c] /\ Files!Unique(k) =>
            /\ \A d \in Files!Calls : k \in held[d] => d = c
            /\ Files!Creating(c) => collections[k] = {}

\* A key with two collections has no season, and its calls overlapped.
SingleOK ==
    \A k \in Files!Keys : \A r, s \in collections[k] :
        r # s => ~ Files!Unique(k) /\ k \in together

\* A row that passes: what is committed is what its mode asks for.
Good(c, k) ==
    /\ Files!Cardinality(collections[k]) = (IF file[c].mode = "create" THEN 0 ELSE 1)
    /\ Files!Unique(k) => open[Files!SeasonOf(k)]

\* The rows up to one of them pass.
GoodUpTo(c, n) ==
    \A i \in 1 .. n : /\ Good(c, file[c].rows[i])
                      /\ \A j \in 1 .. i - 1 : file[c].rows[j] # file[c].rows[i]

\* While nothing has changed since its preview began, the rows that passed would
\* pass again.
ToldOK(c) ==
    /\ stage[c] \in {"new", "previewing", "saving"} => ~ valid[c]
    /\ c \in since \/
         /\ stage[c] = "previewing" /\ ~ errors[c] =>
                GoodUpTo(c, IF step[c] = "write" THEN line[c] ELSE line[c] - 1)
         /\ stage[c] \in {"previewed", "importing"} /\ valid[c] =>
                GoodUpTo(c, Len(file[c].rows)) /\ ~ errors[c]
         /\ stage[c] = "refused" => ~ valid[c]

\* The inductive invariant.
FilesInv ==
    /\ FilesTypeOK
    /\ \A c \in Files!Calls : HeldOK(c)
    /\ EngagedOK /\ RivalsOK /\ UniqueOK /\ SingleOK
    /\ Files!WholeFile
    /\ \A c \in CallIds : ToldOK(c)

\* How many a set holds, as the properties count it.
LEMMA CollectionsCounted ==
    ASSUME NEW S, IsFiniteSet(S)
    PROVE  /\ Files!Cardinality(S) = 0 <=> S = {}
           /\ Files!Cardinality(S) = 1 => S # {}
           /\ Files!Cardinality(S) > 1 => \E r, s \in S : r # s
<1>1. Files!Cardinality(S) = Cardinality(S)
  BY Zenon DEF Files!Cardinality, Cardinality
<1>2. Cardinality(S) \in Nat /\ (Cardinality(S) = 0 <=> S = {})
  BY FS_CardinalityType, FS_EmptySet
<1>3. ASSUME Cardinality(S) > 1 PROVE \E r, s \in S : r # s
  <2>1. PICK r : r \in S
    BY <1>2, <1>3
  <2>2. S # {r}
    <3>1. Cardinality({r}) = 1
      BY FS_Singleton
    <3> QED
      BY <1>3, <3>1
  <2> QED
    BY <2>1, <2>2
<1> QED
  BY <1>1, <1>2, <1>3

\* Before its file arrives a call has no row.
LEMMA NoFileTyped == Files!NoFile \in FileShape /\ Len(Files!NoFile.rows) = 0
<1>1. <<>> \in Seq(Files!Keys) /\ Len(<<>>) = 0
  BY EmptySeq
<1> QED
  BY <1>1 DEF Files!NoFile, FileShape

\* The row that a call is at is a key.
LEMMA RowTyped ==
    ASSUME FilesInv, NEW c \in Files!Calls
    PROVE  /\ Len(file[c].rows) \in Nat
           /\ \A i \in 1 .. Len(file[c].rows) : file[c].rows[i] \in Files!Keys
           /\ line[c] <= Len(file[c].rows) => Files!Row(c) \in Files!Keys
<1>1. file[c].rows \in Seq(Files!Keys) /\ line[c] \in Nat \ {0}
  BY DEF FilesInv, FilesTypeOK, FileShape
<1>2. /\ Len(file[c].rows) \in Nat
      /\ \A i \in 1 .. Len(file[c].rows) : file[c].rows[i] \in Files!Keys
  BY <1>1, LenProperties, ElementOfSeq
<1> QED
  BY <1>1, <1>2 DEF Files!Row

\* Nothing has been imported at first.
LEMMA FilesStart == Files!BulkInit => FilesInv
<1> SUFFICES ASSUME Files!BulkInit PROVE FilesInv
  OBVIOUS
<1>1. PICK old \in {{}, {[by |-> NoCall, wrote |-> {}]}} :
          collections = [k \in Files!Keys |-> old]
  BY DEF Files!BulkInit
<1>2. IsFiniteSet(old) /\ old \in SUBSET Collection /\ \A r \in old : r.wrote = {}
  <2> DEFINE first == [by |-> NoCall, wrote |-> {}]
  <2>1. first \in Collection /\ first.wrote = {}
    BY DEF Collection
  <2> HIDE DEF first
  <2>2. IsFiniteSet({}) /\ IsFiniteSet({first})
    BY FS_EmptySet, FS_Singleton
  <2>3. old = {} \/ old = {first}
    BY DEF first
  <2> QED
    BY <2>1, <2>2, <2>3
<1>3. FilesTypeOK
  BY <1>1, <1>2, NoFileTyped DEF Files!BulkInit, FilesTypeOK, FileStages
<1>4. \A c \in Files!Calls : HeldOK(c) /\ ~ Files!Working(c) /\ \A k : ~ Engaged(c, k)
  BY DEF Files!BulkInit, HeldOK, Files!Working, Engaged
<1>5. EngagedOK /\ RivalsOK
  BY <1>4 DEF EngagedOK, RivalsOK
<1>6. UniqueOK
  BY DEF UniqueOK, Files!BulkInit
<1>7. SingleOK
  BY <1>1 DEF SingleOK
<1>8. Files!WholeFile
  BY <1>1, <1>2 DEF Files!WholeFile, Files!BulkInit
<1>9. \A c \in CallIds : ToldOK(c)
  BY DEF ToldOK, Files!BulkInit, Files!Calls
<1> QED
  BY <1>3, <1>4, <1>5, <1>6, <1>7, <1>8, <1>9 DEF FilesInv

\* A call that begins to read its file.
LEMMA FileBegins ==
    ASSUME FilesInv, NEW c \in Files!Calls,
           NEW to \in {"previewing", "importing", "saving"}, Files!Begin(c, to),
           file' \in [Files!Calls -> FileShape],
           \A d \in Files!Calls \ {c} : /\ file'[d] = file[d]
                                        /\ d \in since' <=> d \in since,
           \/ stage[c] = "new" /\ to # "importing"
           \/ /\ stage[c] = "previewed" /\ to = "importing"
              /\ UNCHANGED <<file, since>>
    PROVE  FilesInv'
<1>1. /\ UNCHANGED <<open, collections, step, held, errors, valid, together>>
      /\ stage' = [stage EXCEPT ![c] = to] /\ line' = [line EXCEPT ![c] = 1]
  BY DEF Files!Begin
<1>2. FilesTypeOK'
  BY <1>1 DEF FilesInv, FilesTypeOK, FileStages
<1>3. ~ Files!Working(c) /\ held[c] = {} /\ ~ errors[c] /\ step[c] = "check"
  BY DEF FilesInv, HeldOK, Files!Working
<1>4. \A d \in Files!Calls \ {c} :
          /\ stage'[d] = stage[d] /\ file'[d] = file[d] /\ line'[d] = line[d]
          /\ Files!Working(d)' <=> Files!Working(d)
  BY <1>1 DEF FilesInv, FilesTypeOK, Files!Working
<1>5. stage'[c] = to /\ line'[c] = 1 /\ stage[c] # "imported"
  BY <1>1 DEF FilesInv, FilesTypeOK
<1>6. ASSUME NEW d \in Files!Calls PROVE HeldOK(d)'
  <2>1. CASE d = c
    <3>1. Len(file'[c].rows) \in Nat
      BY LenProperties DEF FileShape
    <3> QED
      BY <1>1, <1>3, <1>5, <2>1, <3>1 DEF HeldOK, Files!Working
  <2>2. CASE d # c
    BY <1>1, <1>4, <2>2 DEF FilesInv, HeldOK
  <2> QED
    BY <2>1, <2>2
<1>7. \A d \in Files!Calls, k \in Files!Keys :
          /\ ~ Engaged(c, k)' /\ (d # c => (Engaged(d, k)' <=> Engaged(d, k)))
  BY <1>1, <1>3, <1>4 DEF Engaged, Files!Row
<1>8. EngagedOK'
  BY <1>1, <1>4, <1>7 DEF FilesInv, EngagedOK
<1>9. RivalsOK'
  BY <1>1, <1>4, <1>7 DEF FilesInv, RivalsOK, Files!Creating
<1>10. UniqueOK'
  BY <1>1, <1>3, <1>4 DEF FilesInv, UniqueOK, Files!Creating
<1>11. SingleOK'
  BY <1>1 DEF FilesInv, SingleOK
<1>12. Files!WholeFile'
  BY <1>1, <1>4, <1>5 DEF FilesInv, Files!WholeFile, Files!RowsOf
<1>13. ASSUME NEW d \in CallIds PROVE ToldOK(d)'
  <2>1. CASE d = c
    BY <1>1, <1>3, <1>5, <2>1 DEF FilesInv, ToldOK, GoodUpTo, Good
  <2>2. CASE d # c
    <3>1. ToldOK(d) /\ d \in Files!Calls
      BY DEF FilesInv, Files!Calls
    <3> QED
      BY <1>1, <1>4, <2>2, <3>1 DEF ToldOK, GoodUpTo, Good
  <2> QED
    BY <2>1, <2>2
<1> QED
  BY <1>2, <1>6, <1>8, <1>9, <1>10, <1>11, <1>12, <1>13 DEF FilesInv

\* The calls begin.
LEMMA OpeningKeeps ==
    ASSUME FilesInv, NEW c \in Files!Calls,
           \/ \E mode \in {"create", "update"} :
                 \/ \E list \in Files!Files : Files!Preview(c, list, mode)
                 \/ \E k \in Files!Keys : Files!Fill(c, k, mode)
           \/ Files!Confirm(c)
    PROVE  FilesInv'
<1>1. ASSUME NEW list \in Seq(Files!Keys), NEW mode \in {"create", "update"},
             file' = [file EXCEPT ![c] = [rows |-> list, mode |-> mode]]
      PROVE  /\ file' \in [Files!Calls -> FileShape]
             /\ \A d \in Files!Calls \ {c} : file'[d] = file[d]
  BY <1>1 DEF FilesInv, FilesTypeOK, FileShape
<1>2. ASSUME NEW mode \in {"create", "update"}, NEW list \in Files!Files,
             Files!Preview(c, list, mode)
      PROVE  FilesInv'
  <2>1. list \in Seq(Files!Keys)
    BY SeqDef DEF Files!Files
  <2> QED
    BY <1>1, <1>2, <2>1, FileBegins DEF Files!Preview
<1>3. ASSUME NEW mode \in {"create", "update"}, NEW k \in Files!Keys, Files!Fill(c, k, mode)
      PROVE  FilesInv'
  <2>1. <<k>> \in Seq(Files!Keys)
    OBVIOUS
  <2> QED
    BY <1>1, <1>3, <2>1, FileBegins DEF Files!Fill
<1>4. CASE Files!Confirm(c)
  BY <1>4, FileBegins DEF Files!Confirm, FilesInv, FilesTypeOK
<1> QED
  BY <1>2, <1>3, <1>4

\* What a row that is tried leaves alone.
LEMMA TryKeeps ==
    ASSUME FilesInv, NEW c \in Files!Calls, Files!Working(c),
           UNCHANGED <<open, collections, file, stage, valid, since>>,
           together \subseteq together',
           line' \in [Files!Calls -> Nat \ {0}], step' \in [Files!Calls -> {"check", "write"}],
           held' \in [Files!Calls -> SUBSET Files!Keys],
           errors' \in [Files!Calls -> BOOLEAN],
           \A d \in Files!Calls \ {c} :
               /\ line'[d] = line[d] /\ step'[d] = step[d]
               /\ held'[d] = held[d] /\ errors'[d] = errors[d],
           HeldOK(c)', EngagedOK', RivalsOK', UniqueOK', c \in CallIds => ToldOK(c)'
    PROVE  FilesInv'
<1>1. FilesTypeOK'
  BY DEF FilesInv, FilesTypeOK
<1>2. ASSUME NEW d \in Files!Calls PROVE HeldOK(d)'
  <2>1. CASE d # c
    <3>1. /\ line'[d] = line[d] /\ step'[d] = step[d] /\ held'[d] = held[d]
          /\ errors'[d] = errors[d] /\ file' = file /\ stage' = stage
      BY <2>1
    <3>2. HeldOK(d)
      BY DEF FilesInv
    <3> QED
      BY <3>1, <3>2 DEF HeldOK, Files!Working
  <2> QED
    BY <2>1
<1>3. ASSUME NEW d \in CallIds PROVE ToldOK(d)'
  <2>1. CASE d # c
    BY <2>1 DEF FilesInv, ToldOK, GoodUpTo, Good, Files!Calls
  <2> QED
    BY <2>1
<1>4. SingleOK' /\ Files!WholeFile'
  BY DEF FilesInv, SingleOK, Files!WholeFile, Files!RowsOf
<1> QED
  BY <1>1, <1>2, <1>3, <1>4 DEF FilesInv

\* A row that fails, in the checks or in the database.
LEMMA FailedRowKeeps ==
    ASSUME FilesInv, NEW c \in Files!Calls, Files!Working(c),
           line[c] <= Len(file[c].rows),
           errors' = [errors EXCEPT ![c] = TRUE], Files!Onwards(c),
           UNCHANGED <<open, collections, file, stage, held, valid, since, together>>,
           c \in CallIds /\ c \notin since /\ valid[c] => stage[c] # "importing"
    PROVE  FilesInv'
<1>1. /\ line' = [line EXCEPT ![c] = line[c] + 1] /\ step' = [step EXCEPT ![c] = "check"]
  BY DEF Files!Onwards
<1>2. /\ line[c] \in Nat \ {0} /\ line'[c] = line[c] + 1 /\ step'[c] = "check" /\ errors'[c]
      /\ line' \in [Files!Calls -> Nat \ {0}]
      /\ step' \in [Files!Calls -> {"check", "write"}]
      /\ errors' \in [Files!Calls -> BOOLEAN]
      /\ \A d \in Files!Calls \ {c} :
             line'[d] = line[d] /\ step'[d] = step[d] /\ errors'[d] = errors[d]
  <2>1. /\ line \in [Files!Calls -> Nat \ {0}]
        /\ step \in [Files!Calls -> {"check", "write"}]
        /\ errors \in [Files!Calls -> BOOLEAN]
    BY DEF FilesInv, FilesTypeOK
  <2>2. PICK n \in Nat \ {0} : n = line[c] + 1
    BY <2>1
  <2>3. /\ line[c] \in Nat \ {0} /\ line'[c] = n /\ line' \in [Files!Calls -> Nat \ {0}]
        /\ \A d \in Files!Calls \ {c} : line'[d] = line[d]
    BY <1>1, <2>1, <2>2
  <2>4. /\ step'[c] = "check" /\ step' \in [Files!Calls -> {"check", "write"}]
        /\ \A d \in Files!Calls \ {c} : step'[d] = step[d]
    BY <1>1, <2>1
  <2>5. /\ errors'[c] /\ errors' \in [Files!Calls -> BOOLEAN]
        /\ \A d \in Files!Calls \ {c} : errors'[d] = errors[d]
    BY <2>1
  <2> QED
    BY <2>2, <2>3, <2>4, <2>5
<1>3. HeldOK(c)'
  BY <1>2, RowTyped DEF FilesInv, HeldOK, Files!Working
<1>4. \A d \in Files!Calls, k \in Files!Keys : Engaged(d, k)' => Engaged(d, k)
  BY <1>2 DEF Engaged, Files!Row
<1>5. EngagedOK' /\ RivalsOK'
  BY <1>4 DEF FilesInv, EngagedOK, RivalsOK, Files!Creating, Files!Working
<1>6. UniqueOK'
  BY DEF FilesInv, UniqueOK, Files!Creating, Files!Working
<1>7. c \in CallIds => ToldOK(c)'
  BY <1>2 DEF FilesInv, ToldOK, Files!Working
<1> QED
  BY <1>2, <1>3, <1>5, <1>6, <1>7, TryKeeps DEF FilesInv, FilesTypeOK

\* While nothing has changed, a row that passed in the preview is found as it
\* was: its own file has not written its key yet.
LEMMA GoodRowsPass ==
    ASSUME FilesInv, NEW c \in Files!Calls, Files!Working(c),
           line[c] <= Len(file[c].rows), GoodUpTo(c, line[c])
    PROVE  Files!RowOk(c, Files!Row(c)) /\ Good(c, Files!Row(c))
<1>1. line[c] \in Nat \ {0} /\ Len(file[c].rows) \in Nat
  BY RowTyped DEF FilesInv, FilesTypeOK
<1>2. Good(c, Files!Row(c)) /\ \A j \in 1 .. line[c] - 1 : file[c].rows[j] # Files!Row(c)
  BY <1>1 DEF GoodUpTo, Files!Row
<1>3. Files!Row(c) \notin held[c]
  BY <1>1, <1>2 DEF FilesInv, HeldOK
<1>4. Files!Found(c, Files!Row(c)) = Files!Cardinality(collections[Files!Row(c)])
  <2>1. Files!Row(c) \in Files!Keys
    BY RowTyped
  <2>2. Files!Cardinality(collections[Files!Row(c)]) \in {0, 1}
    BY <1>2 DEF Good
  <2> QED
    BY <1>3, <2>2 DEF Files!Found
<1> QED
  BY <1>2, <1>4 DEF Files!RowOk, Good

\* The row is checked.
LEMMA CheckKeeps ==
    ASSUME FilesInv, NEW c \in Files!Calls, Files!Check(c)
    PROVE  FilesInv'
<1> DEFINE k == Files!Row(c)
           rivals == {d \in Files!Calls \ {c} : Files!Creating(d) /\
                        (k \in held[d] \/ (line[d] <= Len(file[d].rows) /\ Files!Row(d) = k
                                           /\ step[d] = "write"))}
<1>1. /\ Files!Working(c) /\ line[c] <= Len(file[c].rows) /\ step[c] = "check"
      /\ UNCHANGED <<open, collections, file, stage, held, valid, since>>
  BY DEF Files!Check
<1>2. k \in Files!Keys /\ line[c] \in Nat \ {0} /\ Len(file[c].rows) \in Nat
  BY <1>1, RowTyped DEF FilesInv, FilesTypeOK
<1>3. \/ /\ Files!RowOk(c, k) /\ step' = [step EXCEPT ![c] = "write"]
         /\ together' = IF Files!Creating(c) /\ rivals # {} THEN together \union {k}
                        ELSE together
         /\ UNCHANGED <<line, errors>>
      \/ /\ ~ Files!RowOk(c, k) /\ errors' = [errors EXCEPT ![c] = TRUE]
         /\ Files!Onwards(c) /\ UNCHANGED together
  BY DEF Files!Check
<1> HIDE DEF rivals
<1>4. CASE ~ Files!RowOk(c, k)
  <2>1. c \in CallIds /\ c \notin since /\ valid[c] => stage[c] # "importing"
    <3> SUFFICES ASSUME c \in CallIds, c \notin since, valid[c], stage[c] = "importing"
                 PROVE  FALSE
      OBVIOUS
    <3>1. GoodUpTo(c, Len(file[c].rows))
      BY DEF FilesInv, ToldOK
    <3>2. GoodUpTo(c, line[c])
      BY <1>1, <1>2, <3>1 DEF GoodUpTo
    <3> QED
      BY <1>1, <1>4, <3>2, GoodRowsPass
  <2> QED
    BY <1>1, <1>3, <1>4, <2>1, FailedRowKeeps
<1>5. CASE Files!RowOk(c, k)
  <2>1. /\ together \subseteq together' /\ UNCHANGED <<line, errors>>
        /\ Files!Creating(c) /\ rivals # {} => k \in together'
        /\ step' \in [Files!Calls -> {"check", "write"}] /\ step'[c] = "write"
        /\ \A d \in Files!Calls \ {c} : step'[d] = step[d]
    BY <1>3, <1>5 DEF FilesInv, FilesTypeOK
  <2>2. HeldOK(c)'
    BY <1>1, <2>1 DEF FilesInv, HeldOK, Files!Working
  <2>3. \A d \in Files!Calls, j \in Files!Keys :
            /\ Engaged(d, j)' => Engaged(d, j) \/ (d = c /\ j = k)
            /\ Files!Working(d)' = Files!Working(d) /\ Files!Creating(d)' = Files!Creating(d)
    BY <1>1, <2>1 DEF Engaged, Files!Row, Files!Working, Files!Creating
  <2>4. /\ IsFiniteSet(collections[k]) /\ Files!Cardinality(collections[k]) \in Nat
        /\ file[c].mode = "update" => collections[k] # {}
        /\ file[c].mode = "create" => collections[k] = {} /\ k \notin held[c]
    <3>1. IsFiniteSet(collections[k])
      BY <1>2 DEF FilesInv, FilesTypeOK
    <3>2. Files!Cardinality(collections[k]) \in Nat
      <4>1. Files!Cardinality(collections[k]) = Cardinality(collections[k])
        BY Zenon DEF Files!Cardinality, Cardinality
      <4> QED
        BY <3>1, <4>1, FS_CardinalityType
    <3>3. Files!Found(c, k) = (IF file[c].mode = "create" THEN 0 ELSE 1)
      BY <1>5 DEF Files!RowOk
    <3>4. CASE file[c].mode = "update"
      <4>1. Files!Cardinality(collections[k]) = 1
        BY <3>2, <3>3, <3>4 DEF Files!Found, Files!Creating
      <4> QED
        BY <3>1, <3>2, <3>4, <4>1, CollectionsCounted
    <3>5. CASE file[c].mode = "create"
      <4>1. Files!Cardinality(collections[k]) = 0 /\ k \notin held[c]
        BY <1>1, <3>2, <3>3, <3>5 DEF Files!Found, Files!Creating
      <4> QED
        BY <3>1, <3>2, <3>5, <4>1, CollectionsCounted
    <3> QED
      BY <3>1, <3>2, <3>4, <3>5
  <2>5. EngagedOK'
    <3> SUFFICES ASSUME NEW d \in Files!Calls, NEW j \in Files!Keys,
                        Files!Working(d)', Engaged(d, j)'
                 PROVE  IF file'[d].mode = "update" THEN collections'[j] # {}
                        ELSE j \in together' \/ collections'[j] = {}
      BY DEF EngagedOK
    <3>1. CASE Engaged(d, j)
      BY <1>1, <2>1, <2>3, <3>1 DEF FilesInv, EngagedOK
    <3>2. CASE d = c /\ j = k
      <4>1. file[c].mode \in {"create", "update"}
        BY DEF FilesInv, FilesTypeOK, FileShape
      <4> QED
        BY <1>1, <2>4, <3>2, <4>1
    <3> QED
      BY <2>3, <3>1, <3>2
  <2>6. RivalsOK'
    <3>1. ASSUME NEW d \in Files!Calls \ {c}, Files!Creating(c), Files!Creating(d),
                 Engaged(d, k)
          PROVE  k \in together'
      <4>1. step[d] = "write" => line[d] <= Len(file[d].rows)
        BY <3>1 DEF FilesInv, HeldOK, Files!Creating
      <4>2. d \in rivals
        BY <3>1, <4>1 DEF rivals, Engaged
      <4> QED
        BY <2>1, <3>1, <4>2
    <3> SUFFICES ASSUME NEW d \in Files!Calls, NEW e \in Files!Calls, NEW j \in Files!Keys,
                        d # e, Files!Creating(d)', Files!Creating(e)',
                        Engaged(d, j)', Engaged(e, j)'
                 PROVE  j \in together'
      BY DEF RivalsOK
    <3>2. CASE Engaged(d, j) /\ Engaged(e, j)
      BY <2>1, <2>3, <3>2 DEF FilesInv, RivalsOK
    <3>3. CASE d = c /\ j = k
      <4>1. Engaged(e, k)
        BY <2>3, <3>3
      <4> QED
        BY <2>3, <3>1, <3>3, <4>1
    <3>4. CASE e = c /\ j = k
      <4>1. Engaged(d, k)
        BY <2>3, <3>4
      <4> QED
        BY <2>3, <3>1, <3>4, <4>1
    <3> QED
      BY <2>3, <3>2, <3>3, <3>4
  <2>7. UniqueOK'
    BY <1>1, <2>3 DEF FilesInv, UniqueOK
  <2>8. c \in CallIds => ToldOK(c)'
    <3> SUFFICES ASSUME c \in CallIds PROVE ToldOK(c)'
      OBVIOUS
    <3>1. stage[c] = "previewing" /\ ~ errors[c] /\ c \notin since => GoodUpTo(c, line[c])
      <4> SUFFICES ASSUME stage[c] = "previewing", ~ errors[c], c \notin since
                   PROVE  GoodUpTo(c, line[c])
        OBVIOUS
      <4>1. GoodUpTo(c, line[c] - 1)
        BY <1>1 DEF FilesInv, ToldOK
      <4>2. Good(c, file[c].rows[line[c]])
        <5>1. file[c].mode \in {"create", "update"}
          BY DEF FilesInv, FilesTypeOK, FileShape
        <5>2. Files!Found(c, k) = (IF file[c].mode = "create" THEN 0 ELSE 1)
              /\ (Files!Unique(k) => open[Files!SeasonOf(k)])
          BY <1>5 DEF Files!RowOk
        <5>3. Files!Cardinality(collections[k]) = (IF file[c].mode = "create" THEN 0 ELSE 1)
          <6>1. CASE file[c].mode = "create"
            BY <2>4, <6>1, CollectionsCounted
          <6>2. CASE file[c].mode = "update"
            BY <2>4, <5>2, <6>2 DEF Files!Found, Files!Creating
          <6> QED
            BY <5>1, <6>1, <6>2
        <5> QED
          BY <5>2, <5>3 DEF Good, Files!Row
      <4>3. \A j \in 1 .. line[c] - 1 : file[c].rows[j] # file[c].rows[line[c]]
        BY <1>5 DEF Files!RowOk, Files!Row
      <4> QED
        BY <1>2, <4>1, <4>2, <4>3 DEF GoodUpTo
    <3>2. ToldOK(c)
      BY DEF FilesInv
    <3>3. (GoodUpTo(c, line[c])' <=> GoodUpTo(c, line[c]))
          /\ (GoodUpTo(c, Len(file[c].rows))' <=> GoodUpTo(c, Len(file[c].rows)))
      BY <1>1, <2>1 DEF GoodUpTo, Good
    <3> HIDE DEF k
    <3> QED
      BY <1>1, <2>1, <3>1, <3>2, <3>3 DEF ToldOK
  <2> QED
    BY <1>1, <2>1, <2>2, <2>5, <2>6, <2>7, <2>8, TryKeeps DEF FilesInv, FilesTypeOK
<1> QED
  BY <1>4, <1>5

\* The row is written, if its key is still free.
LEMMA WriteKeeps ==
    ASSUME FilesInv, NEW c \in Files!Calls, Files!Write(c)
    PROVE  FilesInv'
<1> DEFINE k == Files!Row(c)
<1>1. /\ Files!Working(c) /\ step[c] = "write" /\ ~ Files!Busy(c, k)
      /\ UNCHANGED <<open, collections, file, stage, valid, since, together>>
      /\ Files!Onwards(c)
  BY DEF Files!Write
<1>2. /\ k \in Files!Keys /\ line[c] \in Nat \ {0} /\ Len(file[c].rows) \in Nat
      /\ line[c] <= Len(file[c].rows)
  BY <1>1, RowTyped DEF FilesInv, FilesTypeOK, HeldOK
<1>3. \/ /\ Files!Creating(c) /\ Files!Unique(k) /\ collections[k] # {}
         /\ errors' = [errors EXCEPT ![c] = TRUE] /\ UNCHANGED held
      \/ /\ ~ (Files!Creating(c) /\ Files!Unique(k) /\ collections[k] # {})
         /\ held' = [held EXCEPT ![c] = held[c] \union {k}] /\ UNCHANGED errors
  BY DEF Files!Write
<1>4. CASE Files!Creating(c) /\ Files!Unique(k) /\ collections[k] # {}
  <2>1. c \in CallIds /\ c \notin since /\ valid[c] => stage[c] # "importing"
    <3> SUFFICES ASSUME c \in CallIds, c \notin since, valid[c], stage[c] = "importing"
                 PROVE  FALSE
      OBVIOUS
    <3>1. GoodUpTo(c, Len(file[c].rows))
      BY DEF FilesInv, ToldOK
    <3>2. GoodUpTo(c, line[c])
      BY <1>2, <3>1 DEF GoodUpTo
    <3>3. Good(c, k)
      BY <1>1, <1>2, <3>2, GoodRowsPass
    <3>4. collections[k] = {}
      BY <1>2, <1>4, <3>3, CollectionsCounted DEF FilesInv, FilesTypeOK, Good, Files!Creating
    <3> QED
      BY <1>4, <3>4
  <2> QED
    BY <1>1, <1>2, <1>3, <1>4, <2>1, FailedRowKeeps
<1>5. CASE ~ (Files!Creating(c) /\ Files!Unique(k) /\ collections[k] # {})
  <2>1. /\ held' = [held EXCEPT ![c] = held[c] \union {k}] /\ UNCHANGED errors
        /\ line' = [line EXCEPT ![c] = line[c] + 1]
        /\ step' = [step EXCEPT ![c] = "check"]
    BY <1>1, <1>3, <1>5 DEF Files!Onwards
  <2>2. /\ held'[c] = held[c] \union {k} /\ line'[c] = line[c] + 1 /\ step'[c] = "check"
        /\ held' \in [Files!Calls -> SUBSET Files!Keys]
        /\ line' \in [Files!Calls -> Nat \ {0}]
        /\ step' \in [Files!Calls -> {"check", "write"}]
        /\ \A d \in Files!Calls \ {c} :
               held'[d] = held[d] /\ line'[d] = line[d] /\ step'[d] = step[d]
    BY <1>2, <2>1 DEF FilesInv, FilesTypeOK
  <2>3. HeldOK(c)'
    <3>1. HeldOK(c) /\ k = file[c].rows[line[c]]
      BY DEF FilesInv, Files!Row
    <3> HIDE DEF k
    <3>2. \A i \in 1 .. line[c] : i = line[c] \/ i \in 1 .. line[c] - 1
      BY <1>2
    <3>3. \A j \in held'[c] : \E i \in 1 .. line[c] : file[c].rows[i] = j
      BY <1>1, <1>2, <2>2, <3>1 DEF HeldOK
    <3>4. errors[c] \/ \A i \in 1 .. line[c] : file[c].rows[i] \in held'[c]
      BY <1>1, <1>2, <2>2, <3>1, <3>2 DEF HeldOK
    <3>5. line'[c] - 1 = line[c] /\ line'[c] <= Len(file[c].rows) + 1
      BY <1>2, <2>2
    <3>6. Files!Working(c)'
      BY <1>1 DEF Files!Working
    <3> QED
      BY <1>1, <2>1, <2>2, <3>3, <3>4, <3>5, <3>6 DEF HeldOK
  <2>4. \A d \in Files!Calls, j \in Files!Keys :
            /\ Engaged(d, j)' => Engaged(d, j)
            /\ Files!Working(d)' = Files!Working(d) /\ Files!Creating(d)' = Files!Creating(d)
    BY <1>1, <2>2 DEF Engaged, Files!Row, Files!Working, Files!Creating
  <2>5. EngagedOK' /\ RivalsOK'
    BY <1>1, <2>4 DEF FilesInv, EngagedOK, RivalsOK
  <2>6. UniqueOK'
    <3>1. \A d \in Files!Calls \ {c} : k \in held[d] => ~ Files!Unique(k)
      BY <1>1 DEF Files!Busy
    <3> HIDE DEF k
    <3>2. \A d \in Files!Calls, j \in Files!Keys :
              j \in held'[d] <=> j \in held[d] \/ (d = c /\ j = k)
      BY <1>2, <2>2
    <3>3. \A d \in Files!Calls, j \in Files!Keys : Files!Creating(d)' = Files!Creating(d)
      BY <2>4
    <3>4. \A d, e \in Files!Calls, j \in Files!Keys :
              j \in held'[d] /\ Files!Unique(j) /\ j \in held'[e] => e = d
      BY <3>1, <3>2 DEF FilesInv, UniqueOK
    <3>5. \A d \in Files!Calls, j \in Files!Keys :
              j \in held'[d] /\ Files!Unique(j) /\ Files!Creating(d) => collections[j] = {}
      BY <1>5, <3>2 DEF FilesInv, UniqueOK
    <3>6. \A j \in Files!Keys : Files!Unique(j)' = Files!Unique(j)
      BY DEF Files!Unique, Files!SeasonOf
    <3> QED
      BY <1>1, <3>3, <3>4, <3>5, <3>6 DEF UniqueOK
  <2>7. c \in CallIds => ToldOK(c)'
    <3>2. line'[c] - 1 = line[c]
      BY <1>2, <2>2
    <3> HIDE DEF k
    <3>3. GoodUpTo(c, line[c] - 1)' <=> GoodUpTo(c, line[c])
      BY <1>1, <3>2 DEF GoodUpTo, Good
    <3>4. GoodUpTo(c, Len(file[c].rows))' <=> GoodUpTo(c, Len(file[c].rows))
      BY <1>1 DEF GoodUpTo, Good
    <3>5. c \in CallIds => ToldOK(c)
      BY DEF FilesInv
    <3> QED
      BY <1>1, <2>1, <2>2, <3>3, <3>4, <3>5 DEF ToldOK
  <2> QED
    BY <1>1, <2>1, <2>2, <2>3, <2>5, <2>6, <2>7, TryKeeps DEF FilesInv, FilesTypeOK
<1> QED
  BY <1>4, <1>5

\* What the end of a call leaves of it, and of the others.
LEMMA EndedOnes ==
    ASSUME FilesInv, NEW c \in Files!Calls, NEW to \in {"previewed", "imported", "refused"},
           Files!End(c, to)
    PROVE  /\ UNCHANGED <<open, together>>
           /\ stage' \in [Files!Calls -> FileStages] /\ file' \in [Files!Calls -> FileShape]
           /\ line' \in [Files!Calls -> Nat \ {0}]
           /\ step' \in [Files!Calls -> {"check", "write"}]
           /\ held' \in [Files!Calls -> SUBSET Files!Keys]
           /\ errors' \in [Files!Calls -> BOOLEAN]
           /\ stage'[c] = to /\ held'[c] = {} /\ ~ errors'[c] /\ step'[c] = "check"
           /\ to # "refused" => file' = file
           /\ \A d \in Files!Calls \ {c} :
                  /\ stage'[d] = stage[d] /\ file'[d] = file[d] /\ line'[d] = line[d]
                  /\ step'[d] = step[d] /\ held'[d] = held[d] /\ errors'[d] = errors[d]
                  /\ Files!Working(d)' = Files!Working(d)
                  /\ Files!Creating(d)' = Files!Creating(d)
                  /\ \A k \in Files!Keys : Engaged(d, k)' <=> Engaged(d, k)
           /\ \A k \in Files!Keys : ~ Engaged(c, k)'
           /\ \A d \in Files!Calls : HeldOK(d)'
<1>1. /\ UNCHANGED <<open, together>>
      /\ stage' = [stage EXCEPT ![c] = to] /\ line' = [line EXCEPT ![c] = 1]
      /\ held' = [held EXCEPT ![c] = {}] /\ errors' = [errors EXCEPT ![c] = FALSE]
      /\ step' = [step EXCEPT ![c] = "check"]
      /\ file' = file \/ (to = "refused" /\ file' = [file EXCEPT ![c] = Files!NoFile])
  BY DEF Files!End
<1>2. /\ stage' \in [Files!Calls -> FileStages] /\ file' \in [Files!Calls -> FileShape]
      /\ line' \in [Files!Calls -> Nat \ {0}]
      /\ step' \in [Files!Calls -> {"check", "write"}]
      /\ held' \in [Files!Calls -> SUBSET Files!Keys]
      /\ errors' \in [Files!Calls -> BOOLEAN]
      /\ stage'[c] = to /\ held'[c] = {} /\ ~ errors'[c] /\ step'[c] = "check"
      /\ to # "refused" => file' = file
  <2>1. file' \in [Files!Calls -> FileShape]
    <3> DEFINE none == Files!NoFile
    <3>1. none \in FileShape
      BY NoFileTyped
    <3>2. file' = file \/ file' = [file EXCEPT ![c] = none]
      BY <1>1
    <3> HIDE DEF none
    <3> QED
      BY <3>1, <3>2 DEF FilesInv, FilesTypeOK
  <2>2. /\ stage' \in [Files!Calls -> FileStages] /\ stage'[c] = to
        /\ line' \in [Files!Calls -> Nat \ {0}]
        /\ step' \in [Files!Calls -> {"check", "write"}] /\ step'[c] = "check"
    BY <1>1 DEF FilesInv, FilesTypeOK, FileStages
  <2>3. /\ held' \in [Files!Calls -> SUBSET Files!Keys] /\ held'[c] = {}
        /\ errors' \in [Files!Calls -> BOOLEAN] /\ ~ errors'[c]
    BY <1>1 DEF FilesInv, FilesTypeOK
  <2>4. to # "refused" => file' = file
    BY <1>1
  <2> QED
    BY <2>1, <2>2, <2>3, <2>4
<1>3. \A d \in Files!Calls \ {c} :
          /\ stage'[d] = stage[d] /\ file'[d] = file[d] /\ line'[d] = line[d]
          /\ step'[d] = step[d] /\ held'[d] = held[d] /\ errors'[d] = errors[d]
  BY <1>1 DEF FilesInv, FilesTypeOK
<1>4. \A d \in Files!Calls \ {c} :
          /\ Files!Working(d)' = Files!Working(d) /\ Files!Creating(d)' = Files!Creating(d)
          /\ \A k \in Files!Keys : Engaged(d, k)' <=> Engaged(d, k)
  BY <1>3 DEF Files!Working, Files!Creating, Engaged, Files!Row
<1>5. \A k \in Files!Keys : ~ Engaged(c, k)'
  BY <1>2 DEF Engaged
<1>6. ASSUME NEW d \in Files!Calls PROVE HeldOK(d)'
  <2>1. CASE d = c
    BY <1>2, <2>1 DEF HeldOK, Files!Working
  <2>2. CASE d # c
    <3>1. HeldOK(d)
      BY DEF FilesInv
    <3> QED
      BY <1>3, <2>2, <3>1 DEF HeldOK, Files!Working
  <2> QED
    BY <2>1, <2>2
<1> QED
  BY <1>1, <1>2, <1>3, <1>4, <1>5, <1>6

\* A call that ends and saves nothing.
LEMMA UndoneKeeps ==
    ASSUME FilesInv, NEW c \in Files!Calls, Files!Working(c),
           NEW to \in {"previewed", "refused"}, Files!End(c, to),
           UNCHANGED collections, valid' \in [Files!Calls -> BOOLEAN], since \subseteq since',
           \A d \in Files!Calls \ {c} : valid'[d] = valid[d],
           c \in CallIds => ToldOK(c)'
    PROVE  FilesInv'
<1>1. FilesTypeOK' /\ \A d \in Files!Calls : HeldOK(d)'
  BY EndedOnes DEF FilesInv, FilesTypeOK
<1>2. EngagedOK'
  BY EndedOnes DEF FilesInv, EngagedOK
<1>3. RivalsOK'
  BY EndedOnes DEF FilesInv, RivalsOK
<1>4. UniqueOK'
  <2>1. UniqueOK
    BY DEF FilesInv
  <2>2. /\ held'[c] = {}
        /\ \A d \in Files!Calls \ {c} : held'[d] = held[d] /\ Files!Creating(d)' = Files!Creating(d)
    BY EndedOnes
  <2> QED
    BY <2>1, <2>2 DEF UniqueOK
<1>5. SingleOK'
  BY EndedOnes DEF FilesInv, SingleOK
<1>6. Files!WholeFile'
  <2>1. stage[c] # "imported" /\ stage'[c] # "imported"
    BY EndedOnes DEF Files!Working
  <2>2. \A d \in Files!Calls \ {c} : stage'[d] = stage[d] /\ file'[d] = file[d]
    BY EndedOnes
  <2> QED
    BY <2>1, <2>2 DEF FilesInv, Files!WholeFile, Files!RowsOf
<1>7. ASSUME NEW d \in CallIds PROVE ToldOK(d)'
  <2>1. CASE d # c
    <3>1. /\ stage'[d] = stage[d] /\ file'[d] = file[d] /\ line'[d] = line[d]
          /\ step'[d] = step[d] /\ errors'[d] = errors[d] /\ open' = open
          /\ valid'[d] = valid[d]
      BY <2>1, EndedOnes DEF Files!Calls
    <3>2. ToldOK(d)
      BY DEF FilesInv
    <3> QED
      BY <3>1, <3>2 DEF ToldOK, GoodUpTo, Good
  <2> QED
    BY <2>1
<1> QED
  BY <1>1, <1>2, <1>3, <1>4, <1>5, <1>6, <1>7 DEF FilesInv

\* A preview is undone, and an import that found an error; one that a valid
\* preview announced finds none.
LEMMA RollbackKeeps ==
    ASSUME FilesInv, NEW c \in Files!Calls, Files!Rollback(c)
    PROVE  FilesInv'
<1> DEFINE to == IF stage[c] = "previewing" THEN "previewed" ELSE "refused"
<1>1. /\ Files!Working(c) /\ line[c] > Len(file[c].rows)
      /\ stage[c] = "previewing" \/ errors[c]
      /\ Files!End(c, to) /\ UNCHANGED <<collections, since>>
      /\ valid' = IF stage[c] = "previewing" THEN [valid EXCEPT ![c] = ~ errors[c]] ELSE valid
  BY DEF Files!Rollback, Files!Tried
<1>2. /\ valid' \in [Files!Calls -> BOOLEAN]
      /\ \A d \in Files!Calls \ {c} : valid'[d] = valid[d]
      /\ stage[c] = "previewing" => valid'[c] = ~ errors[c]
  BY <1>1 DEF FilesInv, FilesTypeOK
<1>3. /\ open' = open /\ stage'[c] = to /\ ~ errors'[c]
      /\ stage[c] = "previewing" => file' = file
  BY <1>1, EndedOnes
<1>4. ASSUME c \in CallIds PROVE ToldOK(c)'
  <2>1. ToldOK(c) /\ HeldOK(c)
    BY <1>4 DEF FilesInv
  <2>2. CASE stage[c] = "previewing"
    <3>1. line[c] - 1 = Len(file[c].rows) /\ step[c] # "write"
      <4>1. line[c] \in Nat /\ Len(file[c].rows) \in Nat
        BY RowTyped DEF FilesInv, FilesTypeOK
      <4> QED
        BY <1>1, <2>1, <4>1 DEF HeldOK
    <3>2. ~ errors[c] /\ c \notin since => GoodUpTo(c, Len(file[c].rows))
      BY <2>1, <2>2, <3>1 DEF ToldOK
    <3>3. GoodUpTo(c, Len(file[c].rows))' <=> GoodUpTo(c, Len(file[c].rows))
      BY <1>1, <1>3, <2>2 DEF GoodUpTo, Good
    <3> QED
      BY <1>1, <1>2, <1>3, <2>2, <3>2, <3>3 DEF ToldOK
  <2>3. CASE stage[c] # "previewing"
    BY <1>1, <1>3, <2>1, <2>3 DEF ToldOK, Files!Working
  <2> QED
    BY <2>2, <2>3
<1> QED
  BY <1>1, <1>2, <1>4, UndoneKeeps

\* A call that is lost.
LEMMA LostKeeps ==
    ASSUME FilesInv, NEW c \in Files!Calls, Files!Lose(c)
    PROVE  FilesInv'
<1>1. /\ Files!Working(c) /\ Files!End(c, "refused") /\ UNCHANGED <<collections, valid>>
      /\ since' = since \union {c}
  BY DEF Files!Lose
<1>2. ToldOK(c)'
  BY <1>1, EndedOnes DEF ToldOK
<1> QED
  BY <1>1, <1>2, UndoneKeeps DEF FilesInv, FilesTypeOK

\* A commit in a key leaves something there, and more than one only where there
\* was one, which an update does not split.
LEMMA WrittenOnes ==
    ASSUME FilesInv, NEW c \in Files!Calls, NEW k \in Files!Keys, Files!Working(c),
           k \in held[c], NEW S, S = Files!Written(c, k)
    PROVE  /\ S \subseteq Collection /\ IsFiniteSet(S) /\ S # {}
           /\ \A r, s \in S : r # s => ~ Files!Unique(k) /\ k \in together
           /\ \A d \in Files!Calls : (\E r \in S : d \in r.wrote)
                  <=> d = c \/ \E r \in collections[k] : d \in r.wrote
<1>1. collections[k] \in SUBSET Collection /\ IsFiniteSet(collections[k])
  BY DEF FilesInv, FilesTypeOK
<1>2. file[c].mode \in {"create", "update"}
  BY DEF FilesInv, FilesTypeOK, FileShape
<1>3. IF file[c].mode = "update" THEN collections[k] # {}
      ELSE k \in together \/ collections[k] = {}
  BY DEF FilesInv, EngagedOK, Engaged
<1>4. \A r, s \in collections[k] : r # s => ~ Files!Unique(k) /\ k \in together
  BY DEF FilesInv, SingleOK
<1>5. CASE file[c].mode = "create"
  <2> DEFINE new == [by |-> c, wrote |-> {c}]
  <2>1. S = collections[k] \union {new}
    BY <1>5 DEF Files!Written
  <2>2. new \in Collection /\ new.wrote = {c}
    BY DEF Collection
  <2> HIDE DEF new
  <2>3. Files!Unique(k) => collections[k] = {}
    BY <1>5 DEF FilesInv, UniqueOK, Files!Creating
  <2>4. IsFiniteSet(S)
    BY <1>1, <2>1, FS_AddElement
  <2>5. \A r, s \in S : r # s => ~ Files!Unique(k) /\ k \in together
    BY <1>3, <1>5, <2>1, <2>3
  <2> QED
    BY <1>1, <2>1, <2>2, <2>4, <2>5
<1>6. CASE file[c].mode = "update"
  <2> DEFINE new(r) == [r EXCEPT !.wrote = r.wrote \union {c}]
  <2>1. S = {new(r) : r \in collections[k]}
    BY <1>6 DEF Files!Written
  <2>2. \A r \in collections[k] : new(r) \in Collection /\ new(r).wrote = r.wrote \union {c}
    BY <1>1 DEF Collection
  <2> HIDE DEF new
  <2>3. IsFiniteSet(S)
    <3> DEFINE f == [r \in collections[k] |-> new(r)]
    <3>1. f \in Surjection(collections[k], S)
      BY <2>1 DEF Surjection
    <3> QED
      BY <1>1, <3>1, FS_Surjection
  <2>4. \A r, s \in S : r # s => ~ Files!Unique(k) /\ k \in together
    BY <1>4, <2>1
  <2>5. S # {} /\ S \subseteq Collection
    BY <1>3, <1>6, <2>1, <2>2
  <2>6. \A d \in Files!Calls : (\E r \in S : d \in r.wrote)
            <=> d = c \/ \E r \in collections[k] : d \in r.wrote
    BY <1>3, <1>6, <2>1, <2>2
  <2> QED
    BY <2>3, <2>4, <2>5, <2>6
<1> QED
  BY <1>2, <1>5, <1>6

\* A file goes in whole.
LEMMA FileCommitKeeps ==
    ASSUME FilesInv, NEW c \in Files!Calls, Files!Commit(c)
    PROVE  FilesInv'
<1>1. /\ Files!Working(c) /\ line[c] > Len(file[c].rows) /\ stage[c] # "previewing"
      /\ ~ errors[c] /\ Files!End(c, "imported") /\ UNCHANGED valid
      /\ since' = since \union Files!Announced
      /\ collections' = [k \in Files!Keys |-> IF k \in held[c] THEN Files!Written(c, k)
                                              ELSE collections[k]]
  BY DEF Files!Commit, Files!Tried
<1>2. /\ together' = together /\ file' = file /\ stage'[c] = "imported" /\ held'[c] = {}
      /\ \A d \in Files!Calls \ {c} :
             /\ stage'[d] = stage[d] /\ held'[d] = held[d]
             /\ Files!Working(d)' = Files!Working(d) /\ Files!Creating(d)' = Files!Creating(d)
             /\ \A k \in Files!Keys : Engaged(d, k)' <=> Engaged(d, k)
      /\ \A k \in Files!Keys : ~ Engaged(c, k)'
  BY <1>1, EndedOnes
<1>3. \A k \in Files!Keys : k \in held[c] <=> k \in Files!RowsOf(c)
  <2>1. /\ line[c] \in Nat /\ Len(file[c].rows) \in Nat /\ line[c] <= Len(file[c].rows) + 1
        /\ HeldOK(c)
    BY <1>1, RowTyped DEF FilesInv, FilesTypeOK, HeldOK
  <2>2. line[c] - 1 = Len(file[c].rows)
    BY <1>1, <2>1
  <2> QED
    BY <1>1, <2>1, <2>2 DEF HeldOK, Files!RowsOf
<1>4. \A k \in Files!Keys \ held[c] : collections'[k] = collections[k]
  BY <1>1
<1>5. ASSUME NEW k \in Files!Keys, k \in held[c]
      PROVE  /\ collections'[k] \subseteq Collection /\ IsFiniteSet(collections'[k])
             /\ collections'[k] # {}
             /\ \A r, s \in collections'[k] : r # s => ~ Files!Unique(k) /\ k \in together
             /\ \A d \in Files!Calls : (\E r \in collections'[k] : d \in r.wrote)
                    <=> d = c \/ \E r \in collections[k] : d \in r.wrote
  <2>1. PICK S : S = Files!Written(c, k)
    OBVIOUS
  <2>2. collections'[k] = S
    BY <1>1, <1>5, <2>1
  <2> QED
    BY <1>1, <1>5, <2>1, <2>2, WrittenOnes
<1>6. FilesTypeOK'
  <2>1. /\ collections' \in [Files!Keys -> SUBSET Collection]
        /\ \A k \in Files!Keys : IsFiniteSet(collections'[k])
    <3>1. \A k \in Files!Keys : collections'[k] \subseteq Collection /\ IsFiniteSet(collections'[k])
      BY <1>4, <1>5 DEF FilesInv, FilesTypeOK
    <3> QED
      BY <1>1, <3>1
  <2> QED
    BY <1>1, <2>1, EndedOnes DEF FilesInv, FilesTypeOK
<1>7. \A d \in Files!Calls : HeldOK(d)'
  BY <1>1, EndedOnes
<1>8. EngagedOK'
  <2> SUFFICES ASSUME NEW d \in Files!Calls, NEW k \in Files!Keys,
                      Files!Working(d)', Engaged(d, k)'
               PROVE  IF file'[d].mode = "update" THEN collections'[k] # {}
                      ELSE k \in together' \/ collections'[k] = {}
    BY DEF EngagedOK
  <2>1. d # c /\ Files!Working(d) /\ Engaged(d, k)
    BY <1>2
  <2>2. IF file[d].mode = "update" THEN collections[k] # {}
        ELSE k \in together \/ collections[k] = {}
    BY <2>1 DEF FilesInv, EngagedOK
  <2>3. CASE k \notin held[c]
    BY <1>2, <1>4, <2>2, <2>3
  <2>4. CASE k \in held[c]
    <3>1. file[c].mode \in {"create", "update"} /\ file[d].mode \in {"create", "update"}
      BY DEF FilesInv, FilesTypeOK, FileShape
    <3>2. file[d].mode = "create" => k \in together
      <4>1. CASE file[c].mode = "update"
        <5>1. collections[k] # {}
          BY <1>1, <2>4, <4>1 DEF FilesInv, EngagedOK, Engaged
        <5> QED
          BY <2>2, <5>1
      <4>2. CASE file[c].mode = "create"
        BY <1>1, <2>1, <2>4, <4>2 DEF FilesInv, RivalsOK, Files!Creating, Engaged
      <4> QED
        BY <3>1, <4>1, <4>2
    <3> QED
      BY <1>2, <1>5, <2>4, <3>1, <3>2
  <2> QED
    BY <2>3, <2>4
<1>9. RivalsOK'
  BY <1>2 DEF FilesInv, RivalsOK
<1>10. UniqueOK'
  <2> SUFFICES ASSUME NEW d \in Files!Calls, NEW k \in Files!Keys, k \in held'[d],
                      Files!Unique(k)
               PROVE  /\ \A e \in Files!Calls : k \in held'[e] => e = d
                      /\ Files!Creating(d)' => collections'[k] = {}
    BY DEF UniqueOK, Files!Unique, Files!SeasonOf
  <2>1. d # c /\ k \in held[d]
    BY <1>2
  <2>2. k \notin held[c]
    BY <2>1 DEF FilesInv, UniqueOK
  <2>3. \A e \in Files!Calls : k \in held'[e] => e = d
    BY <1>2, <2>1 DEF FilesInv, UniqueOK
  <2>4. Files!Creating(d)' => collections'[k] = {}
    BY <1>2, <1>4, <2>1, <2>2 DEF FilesInv, UniqueOK
  <2> QED
    BY <2>3, <2>4
<1>11. SingleOK'
  <2> SUFFICES ASSUME NEW k \in Files!Keys, NEW r \in collections'[k],
                      NEW s \in collections'[k], r # s
               PROVE  ~ Files!Unique(k) /\ k \in together
    BY <1>2 DEF SingleOK, Files!Unique, Files!SeasonOf
  <2>1. CASE k \in held[c]
    BY <1>5, <2>1
  <2>2. CASE k \notin held[c]
    BY <1>4, <2>2 DEF FilesInv, SingleOK
  <2> QED
    BY <2>1, <2>2
<1>12. Files!WholeFile'
  <2> SUFFICES ASSUME NEW d \in Files!Calls, NEW k \in Files!Keys
               PROVE  (\E r \in collections'[k] : d \in r.wrote)
                          <=> (stage'[d] = "imported" /\ k \in Files!RowsOf(d))
    BY <1>2 DEF Files!WholeFile, Files!RowsOf
  <2>1. (\E r \in collections[k] : d \in r.wrote)
            <=> (stage[d] = "imported" /\ k \in Files!RowsOf(d))
    BY DEF FilesInv, Files!WholeFile
  <2>2. (\E r \in collections'[k] : d \in r.wrote)
            <=> (d = c /\ k \in held[c]) \/ \E r \in collections[k] : d \in r.wrote
    BY <1>4, <1>5
  <2>3. stage[c] # "imported"
    BY <1>1 DEF Files!Working
  <2> QED
    BY <1>2, <1>3, <2>1, <2>2, <2>3
<1>13. ASSUME NEW d \in CallIds PROVE ToldOK(d)'
  <2>1. ToldOK(d) /\ d \in Files!Calls
    BY DEF FilesInv, Files!Calls
  <2>2. CASE d = c
    BY <1>2, <2>2 DEF ToldOK
  <2>3. CASE d # c
    <3>1. stage'[d] = stage[d]
      BY <1>2, <2>1, <2>3
    <3>2. stage[d] \in {"previewing", "previewed", "importing"} => d \in since'
      BY <1>1 DEF Files!Announced
    <3> QED
      BY <1>1, <2>1, <3>1, <3>2 DEF ToldOK
  <2> QED
    BY <2>2, <2>3
<1> QED
  BY <1>6, <1>7, <1>8, <1>9, <1>10, <1>11, <1>12, <1>13 DEF FilesInv

\* A season that opens or closes is a change.
LEMMA SeasonKeeps ==
    ASSUME FilesInv, NEW s \in Cards, Files!SetSeason(s)
    PROVE  FilesInv'
<1>1. /\ UNCHANGED <<collections, file, stage, line, step, held, errors, valid, together>>
      /\ since' = since \union Files!Announced
  BY DEF Files!SetSeason
<1>2. FilesTypeOK' /\ \A d \in Files!Calls : HeldOK(d)'
  BY <1>1 DEF FilesInv, FilesTypeOK, HeldOK, Files!Working
<1>3. EngagedOK' /\ RivalsOK' /\ UniqueOK' /\ SingleOK'
  BY <1>1 DEF FilesInv, EngagedOK, RivalsOK, UniqueOK, SingleOK, Engaged, Files!Row,
              Files!Working, Files!Creating
<1>4. Files!WholeFile'
  BY <1>1 DEF FilesInv, Files!WholeFile, Files!RowsOf
<1>5. ASSUME NEW d \in CallIds PROVE ToldOK(d)'
  <2>1. stage[d] \in {"previewing", "previewed", "importing"} => d \in since'
    BY <1>1 DEF Files!Announced
  <2> QED
    BY <1>1, <2>1 DEF FilesInv, ToldOK
<1> QED
  BY <1>2, <1>3, <1>4, <1>5 DEF FilesInv

\* No step of the imports breaks a file.
LEMMA FilesKeep == FilesInv /\ [Files!BulkNext]_fileVars => FilesInv'
<1> SUFFICES ASSUME FilesInv, [Files!BulkNext]_fileVars PROVE FilesInv'
  OBVIOUS
<1>1. CASE UNCHANGED fileVars
  <2>1. FilesTypeOK' /\ \A d \in Files!Calls : HeldOK(d)'
    BY <1>1 DEF fileVars, FilesInv, FilesTypeOK, HeldOK, Files!Working
  <2>2. EngagedOK' /\ RivalsOK' /\ UniqueOK' /\ SingleOK'
    BY <1>1 DEF fileVars, FilesInv, EngagedOK, RivalsOK, UniqueOK, SingleOK, Engaged,
                Files!Row, Files!Working, Files!Creating
  <2>3. Files!WholeFile' /\ \A d \in CallIds : ToldOK(d)'
    BY <1>1 DEF fileVars, FilesInv, Files!WholeFile, Files!RowsOf, ToldOK, GoodUpTo, Good
  <2> QED
    BY <2>1, <2>2, <2>3 DEF FilesInv
<1>2. CASE Files!BulkNext
  BY <1>2, OpeningKeeps, CheckKeeps, WriteKeeps, RollbackKeeps, FileCommitKeeps, LostKeeps,
     SeasonKeeps DEF Files!BulkNext
<1> QED
  BY <1>1, <1>2

\* A key names one collection, and a preview tells the truth.
LEMMA FilesTold == FilesInv => Files!OneForEachKey /\ Files!PreviewTold
<1> SUFFICES ASSUME FilesInv PROVE Files!OneForEachKey /\ Files!PreviewTold
  OBVIOUS
<1>1. ASSUME NEW k \in Files!Ambiguous PROVE ~ Files!Unique(k) /\ k \in together
  <2>1. k \in Files!Keys /\ Files!Cardinality(collections[k]) > 1
    BY DEF Files!Ambiguous
  <2>2. \E r, s \in collections[k] : r # s
    BY <2>1, CollectionsCounted DEF FilesInv, FilesTypeOK
  <2> QED
    BY <2>1, <2>2 DEF FilesInv, SingleOK
<1>2. Files!PreviewTold
  BY DEF Files!PreviewTold, FilesInv, ToldOK
<1> QED
  BY <1>1, <1>2 DEF Files!OneForEachKey

-----------------------------------------------------------------------------
(* The parts together.                                                     *)

\* What holds of the part that moves.
ShopInv ==
    /\ part = "page" => PageInv
    /\ part = "offers" => OffersInv
    /\ part \in {"categories", "gallery", "assets"} => CatalogInv
    /\ part \in {"copies", "refusals"} => CopiesInv
    /\ part = "fitting" => FittingInv
    /\ part = "imports" => FilesInv

\* It holds at first.
LEMMA ShopStarts == PlatformInit => ShopInv
BY PageStarts, OffersStart, CatalogStarts, CopiesStart, FittingStarts, FilesStart
   DEF PlatformInit, ShopInv

\* A step is one of the part that moves.
LEMMA ShopKeeps == ShopInv /\ [PlatformNext]_platformVars => ShopInv'
<1> SUFFICES ASSUME ShopInv, [PlatformNext]_platformVars PROVE ShopInv'
  OBVIOUS
<1>1. part' = part
  BY DEF PlatformNext, Subscribing, Migrating, Organizing, Cashing, Entitling,
               Showing, Selling, Cataloguing, Copying, Refusing, Fitted, Importing,
               platformVars, saasVars, shopVars
<1>2. CASE part = "page"
  <2>1. [Page!StorefrontNext]_pageVars
    BY <1>2 DEF PlatformNext, Subscribing, Migrating, Organizing, Cashing, Entitling,
               Showing, Selling, Cataloguing, Copying, Refusing, Fitted, Importing,
               platformVars, saasVars, shopVars
  <2> QED
    BY <1>1, <1>2, <2>1, PageKeeps DEF ShopInv
<1>3. CASE part = "offers"
  <2>1. [Sales!PromotionNext]_saleVars
    BY <1>3 DEF PlatformNext, Subscribing, Migrating, Organizing, Cashing, Entitling,
               Showing, Selling, Cataloguing, Copying, Refusing, Fitted, Importing,
               platformVars, saasVars, shopVars
  <2> QED
    BY <1>1, <1>3, <2>1, OffersKeep DEF ShopInv
<1>4. CASE part \in {"categories", "gallery", "assets"}
  <2>1. \/ Products!CategoryNext \/ Products!GalleryNext \/ Products!AssetNext
        \/ UNCHANGED catalogVars
    BY <1>4 DEF PlatformNext, Subscribing, Migrating, Organizing, Cashing, Entitling,
               Showing, Selling, Cataloguing, Copying, Refusing, Fitted, Importing,
               platformVars, saasVars, shopVars
  <2>2. CatalogInv
    BY <1>4 DEF ShopInv
  <2>3. CatalogInv'
    BY <2>1, <2>2, CategoryKeeps, GalleryKeeps, AssetKeeps, CatalogRests
  <2> QED
    BY <1>1, <1>4, <2>3 DEF ShopInv
<1>5. CASE part \in {"copies", "refusals"}
  <2>1. [Copies!DeviceNext]_copyVars
    BY <1>5 DEF PlatformNext, Subscribing, Migrating, Organizing, Cashing, Entitling,
               Showing, Selling, Cataloguing, Copying, Refusing, Fitted, Importing,
               platformVars, saasVars, shopVars
  <2> QED
    BY <1>1, <1>5, <2>1, CopiesKeep DEF ShopInv
<1>6. CASE part = "fitting"
  <2>1. [Fitting!GarmentNext]_fittingVars
    BY <1>6 DEF PlatformNext, Subscribing, Migrating, Organizing, Cashing, Entitling,
               Showing, Selling, Cataloguing, Copying, Refusing, Fitted, Importing,
               platformVars, saasVars, shopVars
  <2> QED
    BY <1>1, <1>6, <2>1, FittingKeeps DEF ShopInv
<1>7. CASE part = "imports"
  <2>1. [Files!BulkNext]_fileVars
    BY <1>7 DEF PlatformNext, Subscribing, Migrating, Organizing, Cashing, Entitling,
               Showing, Selling, Cataloguing, Copying, Refusing, Fitted, Importing,
               platformVars, saasVars, shopVars
  <2> QED
    BY <1>1, <1>7, <2>1, FilesKeep DEF ShopInv
<1>8. CASE part \notin {"page", "offers", "categories", "gallery", "assets", "copies",
                       "refusals", "fitting", "imports"}
  BY <1>1, <1>8 DEF ShopInv
<1> QED
  BY <1>2, <1>3, <1>4, <1>5, <1>6, <1>7, <1>8

\* The invariant holds of every state that a run reaches.
THEOREM ShopInvariant == PlatformSpec => []ShopInv
<1> QED
  BY ShopStarts, ShopKeeps, PTL DEF PlatformSpec

\* A page goes up whole and an answer about it stands (storefront_service.py), an
\* offer is used no oftener than it may and makes nothing dearer (promotions.py),
\* the catalogue stays in order (catalog_service.py), a device misses no change
\* (snapshot_service.py) and a file goes in whole or not at all (shared/bulk), but
\* for what overlapped.
THEOREM ShopIsKept == PlatformSpec => []ShopKept
<1>1. ShopInv => ShopKept
  <2> SUFFICES ASSUME ShopInv PROVE ShopKept
    OBVIOUS
  <2>1. part = "page" => Page!UpOnlyWhole /\ Page!AnswerStands
    BY PageWhole DEF ShopInv, PageInv
  <2>2. part = "offers" => Sales!UsesCounted /\ Sales!PaysNoMore
    BY OffersInOrder DEF ShopInv
  <2>3. part \in {"categories", "gallery", "assets"} => Products!TreeKept /\ Products!GalleryKept
    BY CatalogInOrder DEF ShopInv
  <2>4. part \in {"copies", "refusals"} => Copies!NothingMissed /\ Copies!RefusalsCounted
    BY CopiesMissNothing DEF ShopInv, CopiesInv
  <2>5. part = "imports" => Files!WholeFile /\ Files!OneForEachKey /\ Files!PreviewTold
    BY FilesTold DEF ShopInv, FilesInv
  <2> QED
    BY <2>1, <2>2, <2>3, <2>4, <2>5 DEF ShopKept
<1> QED
  BY <1>1, ShopInvariant, PTL

\* What the camera shows of a garment passed the test, or somebody signed it
\* (probador_virtual), but for the calls that overlapped.
THEOREM CameraShowsOnlyVetted == PlatformSpec => []CameraShowsVetted
<1>1. ShopInv => CameraShowsVetted
  BY DEF ShopInv, FittingInv, CameraShowsVetted
<1> QED
  BY <1>1, ShopInvariant, PTL

=============================================================================

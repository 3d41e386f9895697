------------------------------- MODULE Catalog -------------------------------
(***************************************************************************)
(* Two corners of the catalogue (CatalogService) where one request may     *)
(* undo what another one has checked: the tree of categories with the      *)
(* products in it, and the gallery of one product, its images and its      *)
(* assets of augmented reality.  A request reads, and commits later, with  *)
(* a key of another table looked at by the database.                       *)
(*                                                                         *)
(* Sizes, colours, seasons and collections are switched off and deleted    *)
(* under the same test as a category.  Names, slugs and prices are left    *)
(* out, and so is the tenant, which every query names.                     *)
(***************************************************************************)
EXTENDS Naturals, FiniteSets

CONSTANTS Categories, Products, Images, Assets, CatalogCalls, Nowhere

VARIABLES category,     \* none, on, off or gone, and its parent
          placed,       \* per product, its category
          image,        \* none, plain, main or gone
          asset,        \* none, on, off or gone
          chosen,       \* the asset somebody made the default, if it stays so
          locks,        \* who holds the row of an asset
          requests,     \* the requests under way
          clashed       \* what a request committed although it met another

catalogVars == <<category, placed, image, asset, chosen, locks, requests, clashed>>

NoCatalogCall == [op |-> "none"]

Working(c) == requests[c].op # "none"

Exists(k) == category[k].state \in {"on", "off"}

\* A request reads; what it is about, another one may change under it.
Start(c, call) ==
    /\ ~ Working(c)
    /\ requests' = [requests EXCEPT ![c] = call]
    /\ UNCHANGED <<category, placed, image, asset, chosen, locks, clashed>>

\* It ends: done or refused by the database.  The others about the same thing
\* have met it.
Finish(c) ==
    /\ requests' = [x \in CatalogCalls |->
           IF x = c THEN NoCatalogCall
           ELSE IF Working(x) /\ requests[x].about = requests[c].about
                THEN [requests[x] EXCEPT !.met = TRUE] ELSE requests[x]]
    /\ clashed' = IF requests[c].met THEN clashed \union {requests[c].about} ELSE clashed

Refused(c) ==
    /\ requests' = [requests EXCEPT ![c] = NoCatalogCall]
    /\ UNCHANGED <<category, placed, image, asset, chosen, clashed>>

-----------------------------------------------------------------------------
\* A set that the walk up never leaves.
Upclosed(s) == \A j \in s \ {Nowhere} : category[j].parent \in s

\* The walk up from a category: the ones it meets, and whether it ends.
Upwards(k) ==
    LET above == Categories \union {Nowhere}
    IN  {j \in above : \A s \in SUBSET above : k \in s /\ Upclosed(s) => j \in s}

\* _ensure_reference_unused: neither products nor categories below it.
Unused(k) ==
    /\ \A p \in Products : placed[p] # k
    /\ \A j \in Categories : category[j].parent # k

CreateCategory(c, k, parent) ==
    /\ category[k].state = "none"
    /\ \A x \in CatalogCalls : requests[x].op = "create" => requests[x].k # k
    /\ parent # Nowhere => Exists(parent)
    /\ Start(c, [op |-> "create", k |-> k, parent |-> parent,
                 about |-> "creation", met |-> FALSE])

\* The new parent is not under the category.
UpdateCategory(c, k, parent) ==
    /\ Exists(k)
    /\ parent # Nowhere => /\ Exists(parent)
                           /\ k \notin Upwards(parent)
                           /\ Nowhere \in Upwards(parent)
    /\ Start(c, [op |-> "move", k |-> k, parent |-> parent,
                 was |-> category[k].parent, about |-> "tree", met |-> FALSE])

SetReferenceActive(c, k, value) ==
    /\ Exists(k)
    /\ value = "off" => Unused(k)
    /\ Start(c, [op |-> "switch", k |-> k, value |-> value,
                 was |-> category[k].state, about |-> k, met |-> FALSE])

DeleteReference(c, k) ==
    /\ Exists(k) /\ Unused(k)
    /\ Start(c, [op |-> "delete", k |-> k, about |-> "deletion", met |-> FALSE])

\* create_product and update_product, which look at the category again although
\* it stays.
PlaceProduct(c, p, k) ==
    /\ category[k].state = "on"
    /\ Start(c, [op |-> "place", k |-> k, product |-> p, about |-> k, met |-> FALSE])

CommitCategory(c) ==
    LET call == requests[c]
        k == call.k
        parentThere == call.parent # Nowhere => Exists(call.parent)
    IN  /\ call.op \in {"create", "move", "switch", "delete"}
        /\ \/ /\ call.op = "create" /\ parentThere
              /\ category' = [category EXCEPT ![k] =
                                 [state |-> "on", parent |-> call.parent]]
           \/ /\ call.op = "move"
              /\ call.was # call.parent => Exists(k) /\ parentThere
              /\ category' = IF call.was = call.parent THEN category
                             ELSE [category EXCEPT ![k].parent = call.parent]
           \/ /\ call.op = "switch"
              /\ call.was # call.value => Exists(k)
              /\ category' = IF call.was = call.value THEN category
                             ELSE [category EXCEPT ![k].state = call.value]
           \/ /\ call.op = "delete" /\ Unused(k)
              /\ category' = [category EXCEPT ![k] =
                                 [state |-> "gone", parent |-> Nowhere]]
        /\ Finish(c)
        /\ UNCHANGED <<placed, image, asset, chosen, locks>>

CommitProduct(c) ==
    /\ requests[c].op = "place" /\ Exists(requests[c].k)
    /\ placed' = [placed EXCEPT ![requests[c].product] = requests[c].k]
    /\ Finish(c)
    /\ UNCHANGED <<category, image, asset, chosen, locks>>

\* A row that is gone, or a key of another table, ends the request.
FailCategory(c) ==
    LET call == requests[c]
        parentThere == call.parent # Nowhere => Exists(call.parent)
    IN  /\ \/ call.op = "create" /\ ~ parentThere
           \/ call.op = "move" /\ call.was # call.parent
                                 /\ ~ (Exists(call.k) /\ parentThere)
           \/ call.op = "switch" /\ call.was # call.value /\ ~ Exists(call.k)
           \/ call.op = "delete" /\ ~ Unused(call.k)
           \/ call.op = "place" /\ ~ Exists(call.k)
        /\ Refused(c)
        /\ UNCHANGED locks

CategoryNext ==
    \E c \in CatalogCalls :
        \/ \E k \in Categories :
              \/ \E parent \in Categories \union {Nowhere} :
                    \/ CreateCategory(c, k, parent)
                    \/ UpdateCategory(c, k, parent)
              \/ \E value \in {"on", "off"} : SetReferenceActive(c, k, value)
              \/ DeleteReference(c, k)
              \/ \E p \in Products : PlaceProduct(c, p, k)
        \/ CommitCategory(c)
        \/ CommitProduct(c)
        \/ FailCategory(c)

-----------------------------------------------------------------------------
Shown == {i \in Images : image[i] \in {"plain", "main"}}

\* Every request has image rows of its own to insert.
NewImage(i) ==
    /\ image[i] = "none"
    /\ \A x \in CatalogCalls : requests[x].op = "gallery" =>
           requests[x].becomes[i] = "none"

\* add_image: the images that it sees are not the main one any more if this
\* one is.  update_product: every image it sees is kept, changed or deleted.
StartGallery(c, becomes) ==
    /\ Cardinality({i \in Images : becomes[i] = "main"}) <= 1
    /\ \A i \in Images : image[i] = "none" /\ becomes[i] # "none" => NewImage(i)
    /\ Start(c, [op |-> "gallery", seen |-> image, becomes |-> becomes,
                 about |-> "gallery", met |-> FALSE])

AddImage(c, i, flag) ==
    /\ NewImage(i)
    /\ StartGallery(c, [j \in Images |->
           IF j = i THEN flag
           ELSE IF flag = "main" /\ image[j] = "main" THEN "plain" ELSE image[j]])

UpdateGallery(c, kept, new, main) ==
    /\ kept \subseteq Shown /\ new \subseteq {i \in Images : image[i] = "none"}
    /\ main \in kept \union new \union {Nowhere}
    /\ StartGallery(c, [i \in Images |-> IF i = main THEN "main"
                           ELSE IF i \in kept \union new THEN "plain"
                           ELSE IF i \in Shown THEN "gone" ELSE image[i]])

\* Only what differs from what was seen is written; to change an image that is
\* gone is an error.
CommitGallery(c) ==
    /\ requests[c].op = "gallery"
    /\ LET call == requests[c]
           written == {i \in Images : call.becomes[i] # call.seen[i]}
           lost == {i \in written : call.becomes[i] # "gone" /\ image[i] = "gone"}
       IN  IF lost # {}
           THEN Refused(c)
           ELSE /\ image' = [i \in Images |-> IF i \in written THEN call.becomes[i]
                                                               ELSE image[i]]
                /\ Finish(c)
                /\ UNCHANGED <<category, placed, asset, chosen>>
    /\ UNCHANGED locks

DeleteImage(i) ==
    /\ i \in Shown
    /\ image' = [image EXCEPT ![i] = "gone"]
    /\ UNCHANGED <<category, placed, asset, chosen, locks, requests, clashed>>

-----------------------------------------------------------------------------
There(a) == asset[a] \in {"on", "off"}

\* Who is changing the assets has met whoever changes one at once.
MeetAll ==
    requests' = [x \in CatalogCalls |->
        IF requests[x].op = "asset" THEN [requests[x] EXCEPT !.met = TRUE]
                                    ELSE requests[x]]

\* A new asset is active.
AddAsset(a) ==
    /\ asset[a] = "none"
    /\ asset' = [asset EXCEPT ![a] = "on"]
    /\ chosen' = Nowhere
    /\ MeetAll
    /\ UNCHANGED <<category, placed, image, locks, clashed>>

DeleteAsset(a) ==
    /\ There(a) /\ locks[a] = Nowhere
    /\ asset' = [asset EXCEPT ![a] = "gone"]
    /\ chosen' = IF chosen = a THEN Nowhere ELSE chosen
    /\ MeetAll
    /\ UNCHANGED <<category, placed, image, locks, clashed>>

\* update_ar_asset reads the asset ...
LoadAsset(c, a, value) ==
    /\ There(a)
    /\ Start(c, [op |-> "asset", a |-> a, value |-> value, was |-> asset[a],
                 cleared |-> {}, step |-> IF value = "on" THEN "read" ELSE "ready",
                 about |-> "assets", met |-> FALSE])

\* ... to activate it, switches off all the others of the product, of whatever
\* type they are, which locks their rows ...
ClearOthers(c) ==
    /\ requests[c].op = "asset" /\ requests[c].step = "read"
    /\ LET others == {b \in Assets \ {requests[c].a} : There(b)}
       IN  /\ \A b \in others : locks[b] = Nowhere
           /\ locks' = [b \in Assets |-> IF b \in others THEN c ELSE locks[b]]
           /\ requests' = [requests EXCEPT ![c].step = "ready", ![c].cleared = others]
    /\ UNCHANGED <<category, placed, image, asset, chosen, clashed>>

Unlocked(c) == [b \in Assets |-> IF locks[b] = c THEN Nowhere ELSE locks[b]]

\* ... and writes its own row, if it differs.
CommitAsset(c) ==
    /\ requests[c].op = "asset" /\ requests[c].step = "ready"
    /\ LET call == requests[c]
           writes == call.was # call.value
       IN  /\ writes => locks[call.a] = Nowhere
           /\ IF writes /\ ~ There(call.a)
              THEN Refused(c)
              ELSE /\ asset' = [b \in Assets |->
                          IF b \in call.cleared THEN "off"
                          ELSE IF b = call.a /\ writes THEN call.value ELSE asset[b]]
                   /\ chosen' = IF call.value = "on"
                                THEN IF call.met THEN Nowhere ELSE call.a
                                ELSE IF writes /\ chosen = call.a THEN Nowhere ELSE chosen
                   /\ Finish(c)
                   /\ UNCHANGED <<category, placed, image>>
    /\ locks' = Unlocked(c)

\* Two activations that wait for each other's row: one of them is ended.
Deadlock(c, x) ==
    /\ \A y \in {c, x} : requests[y].op = "asset" /\ requests[y].step = "ready"
                            /\ requests[y].was # requests[y].value
    /\ locks[requests[c].a] = x /\ locks[requests[x].a] = c
    /\ Refused(c)
    /\ locks' = Unlocked(c)

GalleryNext ==
    \/ \E c \in CatalogCalls :
          \/ \E i \in Images, flag \in {"plain", "main"} : AddImage(c, i, flag)
          \/ \E kept, new \in SUBSET Images, main \in Images \union {Nowhere} :
                UpdateGallery(c, kept, new, main)
          \/ CommitGallery(c)
    \/ \E i \in Images : DeleteImage(i)

AssetNext ==
    \/ \E c \in CatalogCalls :
          \/ \E a \in Assets, value \in {"on", "off"} : LoadAsset(c, a, value)
          \/ ClearOthers(c)
          \/ CommitAsset(c)
          \/ \E x \in CatalogCalls : Deadlock(c, x)
    \/ \E a \in Assets : AddAsset(a) \/ DeleteAsset(a)

CatalogInit ==
    /\ category = [k \in Categories |-> [state |-> "none", parent |-> Nowhere]]
    /\ placed = [p \in Products |-> Nowhere]
    /\ image = [i \in Images |-> "none"]
    /\ asset = [a \in Assets |-> "none"]
    /\ chosen = Nowhere
    /\ locks = [a \in Assets |-> Nowhere]
    /\ requests = [c \in CatalogCalls |-> NoCatalogCall]
    /\ clashed = {}

CatalogNext == CategoryNext \/ GalleryNext \/ AssetNext

-----------------------------------------------------------------------------
\* The categories are a tree and the products are in active ones, unless two
\* requests met: update_category (catalog_service.py:37) walks up before it
\* commits, and _ensure_reference_unused (:443) counts before.
TreeKept ==
    /\ "tree" \in clashed \/ \A k \in Categories : Nowhere \in Upwards(k)
    /\ \A p \in Products : placed[p] # Nowhere =>
           category[placed[p]].state = "on" \/ placed[p] \in clashed

\* A product has one main image at most unless two galleries met, and the asset
\* that somebody made the default is the only active one until somebody adds,
\* activates or switches off one: a request that met another is not sure of it
\* (add_image, catalog_service.py:267, and update_ar_asset, :305).
GalleryKept ==
    /\ "gallery" \in clashed \/ Cardinality({i \in Images : image[i] = "main"}) <= 1
    /\ chosen # Nowhere => \A a \in Assets : (asset[a] = "on") = (a = chosen)

=============================================================================

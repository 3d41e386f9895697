---------------------------- MODULE Reservations ----------------------------
(***************************************************************************)
(* The reservations of one branch: CrearReserva (create_reserva.py), the   *)
(* states of ActualizarEstadoReserva (confirm_reserva.py) and the units    *)
(* they set aside (reservation_inventory.py).                              *)
(*                                                                         *)
(* A creation locks its customer, looks for the key, checks the            *)
(* availability without locks and sets the units aside in one transaction; *)
(* a change of state has its row FOR UPDATE from the route to the commit.  *)
(* A reservation bears the name of the request that created it.            *)
(***************************************************************************)
EXTENDS StockLedger, FiniteSets, Functions

CONSTANTS
    Requests,  \* POST /reservations deliveries, and the rows that Legacy names
    Legacy,    \* rows older than inventory_held: nothing was set aside
    Customer,  \* the user a request reserves for
    Key,       \* its client_key
    NoKey,     \* a request without one
    Detail,    \* branch, time, notes, origin and garments of a request
    Basket,    \* the garments of a request
    Supply,    \* stock of the branch at the start
    MaxMoved   \* bound of what the other operations move

ASSUME ReservationsAssumption ==
    /\ IsFiniteSet(Requests)
    /\ Legacy \subseteq Requests
    /\ Basket \in [Requests -> Baskets]
    /\ Supply \in Levels
    /\ MaxMoved \in Nat
    /\ \A r, s \in Requests : Detail[r] = Detail[s] => Basket[r] = Basket[s]

VARIABLES
    stock,    \* StockModel.quantity
    status,   \* ReservationModel.status, "none" while there is no row
    held,     \* the rows with inventory_held
    request,  \* where each request is
    moved     \* net units that sales and receptions took or added

vars == <<stock, status, held, request, moved>>

Live == {"pending", "confirmed", "ready"}

Final == {"attended", "cancelled"}

TRANSITIONS == {<<"pending", "confirmed">>, <<"pending", "cancelled">>,
                <<"confirmed", "ready">>, <<"confirmed", "cancelled">>,
                <<"ready", "attended">>, <<"ready", "cancelled">>}

Rows == {r \in Requests : status[r] # "none"}

\* A request that has its customer's row.
Inside == {"looked", "available"}

\* What uq_reservations_user_client_key and get_by_client_key compare.
SameKey(r, s) == Customer[r] = Customer[s] /\ Key[r] = Key[s] /\ Key[r] # NoKey

\* The unique constraint on the rows that were already there.
ASSUME LegacyAssumption == \A r, s \in Legacy : r # s => ~SameKey(r, s)

Registered(r) == {s \in Rows : SameKey(r, s)}

Init ==
    /\ stock = Supply
    /\ status = [r \in Requests |-> IF r \in Legacy THEN "pending" ELSE "none"]
    /\ held = {}
    /\ request = [r \in Requests |-> IF r \in Legacy THEN "created" ELSE "new"]
    /\ moved = [v \in Variants |-> 0]

-----------------------------------------------------------------------------
Ends(r, how) == request' = [request EXCEPT ![r] = how]

\* Mutant: the customer is read without FOR UPDATE.
LockNobody(r) ==
    /\ request[r] = "new"
    /\ \/ Registered(r) = {} /\ Ends(r, "looked")
       \/ \E s \in Registered(r) :
            Ends(r, IF Detail[s] = Detail[r] THEN "replayed" ELSE "mismatch")
    /\ UNCHANGED <<stock, status, held, moved>>

\* execute gets the customer's row and looks for the key: with a reservation
\* of the same detail it answers that one, with another detail an error.
Lock(r) ==
    /\ request[r] = "new"
    /\ \A s \in Requests : Customer[s] = Customer[r] => request[s] \notin Inside
    /\ \/ Registered(r) = {} /\ Ends(r, "looked")
       \/ \E s \in Registered(r) :
            Ends(r, IF Detail[s] = Detail[r] THEN "replayed" ELSE "mismatch")
    /\ UNCHANGED <<stock, status, held, moved>>

\* _validar_disponibilidad reads the stock without locking it.
ValidarDisponibilidad(r) ==
    /\ request[r] = "looked"
    /\ Ends(r, IF CanTake(stock, Basket[r]) THEN "available" ELSE "refused")
    /\ UNCHANGED <<stock, status, held, moved>>

\* Mutant: the availability found before is taken as still true.
CrearSinRevisar(r) ==
    /\ request[r] = "available"
    /\ stock' = Take(stock, Basket[r])
    /\ status' = [status EXCEPT ![r] = "pending"]
    /\ held' = held \cup {r}
    /\ Ends(r, "created")
    /\ UNCHANGED moved

\* The units leave the stock, the row is added and the transaction commits; a
\* line that no longer has enough units undoes everything.
Crear(r) ==
    /\ request[r] = "available"
    /\ IF CanTake(stock, Basket[r])
       THEN /\ stock' = Take(stock, Basket[r])
            /\ status' = [status EXCEPT ![r] = "pending"]
            /\ held' = held \cup {r}
            /\ Ends(r, "created")
       ELSE Ends(r, "refused") /\ UNCHANGED <<stock, status, held>>
    /\ UNCHANGED moved

\* The transaction is lost before its commit.
Die(r) ==
    /\ request[r] \in Inside
    /\ Ends(r, "lost")
    /\ UNCHANGED <<stock, status, held, moved>>

\* Mutant: rows without inventory_held give back too.
ActualizarSinMirarHold(r, to) ==
    /\ <<status[r], to>> \in TRANSITIONS
    /\ status' = [status EXCEPT ![r] = to]
    /\ IF to \in Final
       THEN CanPut(stock, Basket[r]) /\ stock' = Put(stock, Basket[r]) /\ held' = held \ {r}
       ELSE UNCHANGED <<stock, held>>
    /\ UNCHANGED <<request, moved>>

\* Mutant: the garments are given back as soon as they are ready.
ActualizarAlPreparar(r, to) ==
    /\ <<status[r], to>> \in TRANSITIONS
    /\ status' = [status EXCEPT ![r] = to]
    /\ IF to \in Final \cup {"ready"} /\ r \in held
       THEN CanPut(stock, Basket[r]) /\ stock' = Put(stock, Basket[r]) /\ held' = held \ {r}
       ELSE UNCHANGED <<stock, held>>
    /\ UNCHANGED <<request, moved>>

\* ActualizarEstadoReserva: a final state gives back what was set aside.
ActualizarEstado(r, to) ==
    /\ <<status[r], to>> \in TRANSITIONS
    /\ status' = [status EXCEPT ![r] = to]
    /\ IF to \in Final /\ r \in held
       THEN /\ CanPut(stock, Basket[r])
            /\ stock' = Put(stock, Basket[r])
            /\ held' = held \ {r}
       ELSE UNCHANGED <<stock, held>>
    /\ UNCHANGED <<request, moved>>

\* StockService.change in any other operation of the branch.
Change(v, delta) ==
    /\ stock[v] + delta \in 0 .. MaxStock
    /\ moved[v] + delta \in -MaxMoved .. MaxMoved
    /\ stock' = [stock EXCEPT ![v] = @ + delta]
    /\ moved' = [moved EXCEPT ![v] = @ + delta]
    /\ UNCHANGED <<status, held, request>>

Next ==
    \/ \E r \in Requests :
         \/ Lock(r)
         \/ ValidarDisponibilidad(r)
         \/ Crear(r)
         \/ Die(r)
         \/ \E to \in Live \cup Final : ActualizarEstado(r, to)
    \/ \E v \in Variants, delta \in {-1, 1} : Change(v, delta)

Spec == Init /\ [][Next]_vars

-----------------------------------------------------------------------------
\* The types of the variables.
TypeOK ==
    /\ stock \in Levels
    /\ status \in [Requests -> Live \cup Final \cup {"none"}]
    /\ held \subseteq Requests
    /\ request \in [Requests -> Inside \cup {"new", "replayed", "mismatch", "refused",
                                             "created", "lost"}]
    /\ moved \in [Variants -> Int]

\* A key of a customer names one reservation, however many deliveries of the
\* request arrive together.
OneRowPerKey == \A r, s \in Rows : r # s => ~SameKey(r, s)

\* What the branch had and what others moved is on the shelf or set aside for
\* a reservation that has not ended: no state path releases twice, keeps units
\* after the end or gives back units that a row without hold never took.
StockConserved ==
    \A v \in Variants :
        /\ stock[v] + SumFunctionOnSet([r \in Requests |-> Basket[r][v]], held)
             = Supply[v] + moved[v]
        /\ held = {r \in Requests \ Legacy : status[r] \in Live}

\* A repeated request is never refused for lack of units once its reservation
\* is registered, even if that one took the last units (comment of execute).
NeverRefusedOnceRegistered ==
    [][\A r \in Requests :
         request[r] # "refused" /\ request'[r] = "refused" => Registered(r) = {}]_vars

\* A reservation keeps the promise of OrderPromise with nobody charged: its
\* units leave the shelf once and come back at most once.
Phase ==
    [r \in Requests |->
        CASE r \in Legacy \/ status[r] = "none" -> "none"
          [] r \notin Legacy /\ status[r] \in Live -> "held"
          [] OTHER -> "freed"]

Kept == INSTANCE OrderPromise WITH
            Orders <- Requests,
            shelf <- stock,
            phase <- Phase,
            charged <- {}

KeepsPromise == Kept!Promise

=============================================================================

----------------------------- MODULE DeskProofs -----------------------------
(***************************************************************************)
(* Proofs about the desks of a shop: for every set of requests, calls,     *)
(* deliveries, returns, garments, keys and baskets, and every stock, price *)
(* and ceiling.  One desk moves at a time, so each has an inductive        *)
(* invariant of its own, and the theorems at the end join them.            *)
(***************************************************************************)
EXTENDS MCDesk, Sums, Sequences

\* A basket that fits leaves levels between zero and the ceiling, taken or put.
LEMMA LevelsKept ==
    ASSUME NEW level \in Levels, NEW basket \in Baskets
    PROVE  /\ CanTake(level, basket) => Take(level, basket) \in Levels
           /\ CanPut(level, basket) => Put(level, basket) \in Levels
BY MaxStockAssumption DEF Levels, Baskets, CanTake, Take, CanPut, Put

\* The first state of the reservations is well typed.
LEMMA ReservationsTyped == Init => TypeOK
<1> SUFFICES ASSUME Init PROVE TypeOK
  OBVIOUS
<1>1. stock \in Levels /\ held \subseteq Requests /\ moved \in [Variants -> Int]
  BY ReservationsAssumption DEF Init
<1>2. status \in [Requests -> Live \cup Final \cup {"none"}]
  BY DEF Init, Live
<1>3. request \in [Requests -> Inside \cup {"new", "replayed", "mismatch", "refused",
                                            "created", "lost"}]
  BY DEF Init
<1> QED
  BY <1>1, <1>2, <1>3 DEF TypeOK

\* No step of the reservations leaves the types.
LEMMA ReservationsStayTyped == TypeOK /\ [Next]_vars => TypeOK'
<1>1. SUFFICES ASSUME TypeOK, Next PROVE TypeOK'
  BY DEF TypeOK, vars
<1>2. ASSUME NEW r \in Requests, Lock(r) PROVE TypeOK'
  BY <1>1, <1>2 DEF TypeOK, Lock, Ends, Inside
<1>3. ASSUME NEW r \in Requests, ValidarDisponibilidad(r) PROVE TypeOK'
  BY <1>1, <1>3 DEF TypeOK, ValidarDisponibilidad, Ends, Inside
<1>4. ASSUME NEW r \in Requests, Crear(r) PROVE TypeOK'
  BY <1>1, <1>4, LevelsKept, ReservationsAssumption DEF TypeOK, Crear, Ends, Live
<1>5. ASSUME NEW r \in Requests, Die(r) PROVE TypeOK'
  BY <1>1, <1>5 DEF TypeOK, Die, Ends
<1>6. ASSUME NEW r \in Requests, NEW to \in Live \cup Final, ActualizarEstado(r, to)
      PROVE  TypeOK'
  BY <1>1, <1>6, LevelsKept, ReservationsAssumption DEF TypeOK, ActualizarEstado
<1>7. ASSUME NEW v \in Variants, NEW delta \in {-1, 1}, Change(v, delta) PROVE TypeOK'
  BY <1>1, <1>7, MaxStockAssumption DEF TypeOK, Change, Levels
<1> QED
  BY <1>1, <1>2, <1>3, <1>4, <1>5, <1>6, <1>7 DEF Next

-----------------------------------------------------------------------------
\* Requests of one customer run one at a time.
Serialised ==
    \A r, s \in Requests :
        r # s /\ Customer[r] = Customer[s] => ~(request[r] \in Inside /\ request[s] \in Inside)

\* The absence of the key that a request saw still holds when it registers.
StillFresh == \A r \in Requests : request[r] \in Inside => Registered(r) = {}

\* A row exists when its request created it; the old ones always did.
RowsOfRequests ==
    /\ \A r \in Requests : status[r] # "none" <=> request[r] = "created"
    /\ \A r \in Legacy : status[r] # "none"

\* Units are set aside for the rows that are not old and have not ended.
HeldWhileLive == held = {r \in Requests \ Legacy : status[r] \in Live}

ReservationsInv == TypeOK /\ Serialised /\ StillFresh /\ RowsOfRequests /\ HeldWhileLive /\ OneRowPerKey

\* Nobody has asked for anything: the invariant holds.
LEMMA ReservationsStart == Init => ReservationsInv
<1> SUFFICES ASSUME Init PROVE ReservationsInv
  OBVIOUS
<1>1. Serialised /\ StillFresh
  BY DEF Init, Serialised, StillFresh, Inside
<1>2. RowsOfRequests /\ HeldWhileLive
  BY ReservationsAssumption DEF Init, RowsOfRequests, HeldWhileLive, Live
<1>3. OneRowPerKey
  BY LegacyAssumption DEF Init, OneRowPerKey, Rows
<1> QED
  BY <1>1, <1>2, <1>3, ReservationsTyped DEF ReservationsInv

\* Each step of a request, and each change of state, keeps the invariant.
LEMMA ReservationsKeep == ReservationsInv /\ [Next]_vars => ReservationsInv'
<1>1. SUFFICES ASSUME ReservationsInv, Next
               PROVE  (Serialised /\ StillFresh /\ RowsOfRequests /\ HeldWhileLive /\ OneRowPerKey)'
  <2>1. ReservationsInv /\ UNCHANGED vars => ReservationsInv'
    BY DEF ReservationsInv, TypeOK, Serialised, StillFresh, RowsOfRequests, HeldWhileLive, OneRowPerKey,
           Registered, Rows, vars
  <2> QED
    BY <2>1, ReservationsStayTyped DEF ReservationsInv
<1> USE DEF ReservationsInv, TypeOK
<1>2. ASSUME UNCHANGED status, NEW r \in Requests, NEW how, request' = [request EXCEPT ![r] = how],
             how \notin Inside \cup {"created"}, request[r] # "created", UNCHANGED held
      PROVE  (Serialised /\ StillFresh /\ RowsOfRequests /\ HeldWhileLive /\ OneRowPerKey)'
  BY <1>1, <1>2 DEF Serialised, StillFresh, RowsOfRequests, HeldWhileLive, OneRowPerKey, Registered, Rows
<1>3. ASSUME NEW r \in Requests, Lock(r)
      PROVE  (Serialised /\ StillFresh /\ RowsOfRequests /\ HeldWhileLive /\ OneRowPerKey)'
  <2>1. CASE Registered(r) = {} /\ Ends(r, "looked")
    <3>1. request' = [request EXCEPT ![r] = "looked"] /\ UNCHANGED <<status, held>>
      BY <1>3, <2>1 DEF Lock, Ends
    <3>2. Serialised'
      BY <1>1, <1>3, <3>1 DEF Lock, Serialised
    <3>3. StillFresh'
      BY <1>1, <2>1, <3>1 DEF StillFresh, Registered, Rows
    <3>4. (RowsOfRequests /\ HeldWhileLive /\ OneRowPerKey)'
      BY <1>1, <1>3, <3>1 DEF Lock, RowsOfRequests, HeldWhileLive, OneRowPerKey, Rows
    <3> QED
      BY <3>2, <3>3, <3>4
  <2>2. CASE \E s \in Registered(r) :
               Ends(r, IF Detail[s] = Detail[r] THEN "replayed" ELSE "mismatch")
    <3>1. PICK how \in {"replayed", "mismatch"} : Ends(r, how)
      BY <2>2
    <3> QED
      BY <1>2, <1>3, <3>1 DEF Lock, Ends, Inside
  <2> QED
    BY <1>3, <2>1, <2>2 DEF Lock
<1>4. ASSUME NEW r \in Requests, ValidarDisponibilidad(r)
      PROVE  (Serialised /\ StillFresh /\ RowsOfRequests /\ HeldWhileLive /\ OneRowPerKey)'
  <2>1. CASE CanTake(stock, Basket[r])
    <3>1. request' = [request EXCEPT ![r] = "available"] /\ request[r] = "looked"
          /\ UNCHANGED <<status, held>>
      BY <1>4, <2>1 DEF ValidarDisponibilidad, Ends
    <3> QED
      BY <1>1, <3>1 DEF Serialised, StillFresh, RowsOfRequests, HeldWhileLive, OneRowPerKey,
                        Registered, Rows, Inside
  <2>2. CASE ~CanTake(stock, Basket[r])
    BY <1>2, <1>4, <2>2 DEF ValidarDisponibilidad, Ends, Inside
  <2> QED
    BY <2>1, <2>2
<1>5. ASSUME NEW r \in Requests, Crear(r)
      PROVE  (Serialised /\ StillFresh /\ RowsOfRequests /\ HeldWhileLive /\ OneRowPerKey)'
  <2>1. CASE CanTake(stock, Basket[r])
    <3>1. /\ request' = [request EXCEPT ![r] = "created"]
          /\ status' = [status EXCEPT ![r] = "pending"]
          /\ held' = held \cup {r}
          /\ request[r] = "available"
      BY <1>5, <2>1 DEF Crear, Ends
    <3>2. status[r] = "none" /\ Registered(r) = {}
      BY <1>1, <3>1 DEF RowsOfRequests, StillFresh, Inside
    <3>3. r \notin Legacy
      BY <1>1, <3>2 DEF RowsOfRequests
    <3>4. Rows' = Rows \cup {r}
      BY <1>1, <3>1 DEF Rows
    <3>5. Serialised' /\ RowsOfRequests'
      BY <1>1, <3>1 DEF Serialised, RowsOfRequests, Inside
    <3>6. HeldWhileLive'
      BY <1>1, <3>1, <3>2, <3>3 DEF HeldWhileLive, Live
    <3>7. OneRowPerKey'
      BY <1>1, <3>2, <3>4 DEF OneRowPerKey, Registered, SameKey
    <3>8. ASSUME NEW s \in Requests, request'[s] \in Inside PROVE Registered(s)' = {}
      <4>1. s # r /\ request[s] \in Inside
        <5>1. request'[r] = "created"
          BY <1>1, <3>1
        <5>2. s # r
          BY <3>8, <5>1 DEF Inside
        <5> QED
          BY <1>1, <3>1, <3>8, <5>2
      <4>2. Customer[s] # Customer[r]
        BY <1>1, <3>1, <4>1 DEF Serialised, Inside
      <4> QED
        BY <1>1, <3>4, <4>1, <4>2 DEF StillFresh, Registered, SameKey
    <3> QED
      BY <3>5, <3>6, <3>7, <3>8 DEF StillFresh
  <2>2. CASE ~CanTake(stock, Basket[r])
    BY <1>2, <1>5, <2>2 DEF Crear, Ends, Inside
  <2> QED
    BY <2>1, <2>2
<1>6. ASSUME NEW r \in Requests, Die(r)
      PROVE  (Serialised /\ StillFresh /\ RowsOfRequests /\ HeldWhileLive /\ OneRowPerKey)'
  BY <1>2, <1>6 DEF Die, Ends, Inside
<1>7. ASSUME NEW r \in Requests, NEW to \in Live \cup Final, ActualizarEstado(r, to)
      PROVE  (Serialised /\ StillFresh /\ RowsOfRequests /\ HeldWhileLive /\ OneRowPerKey)'
  <2>1. /\ status' = [status EXCEPT ![r] = to]
        /\ UNCHANGED request
        /\ status[r] \in Live
        /\ to # "none"
    BY <1>7 DEF ActualizarEstado, TRANSITIONS, Live, Final
  <2>2. Rows' = Rows
    BY <1>1, <2>1 DEF Rows, Live
  <2>3. (Serialised /\ StillFresh /\ RowsOfRequests /\ OneRowPerKey)'
    BY <1>1, <2>1, <2>2 DEF Serialised, StillFresh, RowsOfRequests, OneRowPerKey, Registered, Live
  <2>4. HeldWhileLive'
    BY <1>1, <1>7, <2>1 DEF HeldWhileLive, ActualizarEstado, Live, Final
  <2> QED
    BY <2>3, <2>4
<1>8. ASSUME NEW v \in Variants, NEW delta \in {-1, 1}, Change(v, delta)
      PROVE  (Serialised /\ StillFresh /\ RowsOfRequests /\ HeldWhileLive /\ OneRowPerKey)'
  BY <1>1, <1>8 DEF Change, Serialised, StillFresh, RowsOfRequests, HeldWhileLive, OneRowPerKey,
                    Registered, Rows
<1> QED
  BY <1>1, <1>3, <1>4, <1>5, <1>6, <1>7, <1>8 DEF Next

-----------------------------------------------------------------------------
\* The units of a variant that a set of reservations keeps aside.
Aside(v, set) == SumFunctionOnSet([r \in Requests |-> Basket[r][v]], set)

\* What is set aside moves by the basket of the reservation that enters or leaves.
LEMMA AsideMoves ==
    ASSUME NEW v \in Variants, NEW set \in SUBSET Requests
    PROVE  /\ Aside(v, set) \in Int
           /\ \A r \in Requests :
                /\ Basket[r][v] \in Int
                /\ r \notin set => Aside(v, set \cup {r}) = Basket[r][v] + Aside(v, set)
                /\ r \in set => Aside(v, set) = Basket[r][v] + Aside(v, set \ {r})
<1> DEFINE units == [r \in Requests |-> Basket[r][v]]
<1>1. units \in [Requests -> Int] /\ \A r \in Requests : units[r] = Basket[r][v]
  BY ReservationsAssumption, MaxStockAssumption DEF Baskets
<1> HIDE DEF units
<1>2. \A part : Aside(v, part) = SumFunctionOnSet(units, part)
  BY DEF Aside, units
<1> QED
  BY <1>1, <1>2, SumOfPart, ReservationsAssumption

\* What the branch had, and what others moved, is on the shelf or set aside.
AsideAddsUp == \A v \in Variants : stock[v] + Aside(v, held) = Supply[v] + moved[v]

\* At the start nothing is set aside.
LEMMA AsideStart == Init => AsideAddsUp
<1> SUFFICES ASSUME Init, NEW v \in Variants PROVE stock[v] + Aside(v, held) = Supply[v] + moved[v]
  BY DEF AsideAddsUp
<1>1. held = {} /\ stock = Supply /\ moved[v] = 0 /\ Supply[v] \in Int
  BY ReservationsAssumption, MaxStockAssumption DEF Init, Levels
<1>2. Aside(v, {}) = 0
  BY SumOfNone DEF Aside
<1> QED
  BY <1>1, <1>2

\* Every step that moves the shelf moves what is set aside, or `moved', as much.
LEMMA AsideKept == ReservationsInv /\ AsideAddsUp /\ [Next]_vars => AsideAddsUp'
<1> SUFFICES ASSUME ReservationsInv, AsideAddsUp, [Next]_vars, NEW v \in Variants
             PROVE  stock'[v] + Aside(v, held') = Supply[v] + moved'[v]
  BY DEF AsideAddsUp, Aside
<1>1. /\ stock[v] + Aside(v, held) = Supply[v] + moved[v]
      /\ stock \in [Variants -> Int] /\ moved \in [Variants -> Int] /\ Supply[v] \in Int
      /\ held \in SUBSET Requests /\ Aside(v, held) \in Int
  BY MaxStockAssumption, ReservationsAssumption, AsideMoves
     DEF AsideAddsUp, ReservationsInv, TypeOK, Levels
<1>2. CASE UNCHANGED <<stock, held, moved>>
  BY <1>1, <1>2
<1>3. ASSUME NEW r \in Requests, Crear(r)
      PROVE  stock'[v] + Aside(v, held') = Supply[v] + moved'[v]
  <2>1. CASE CanTake(stock, Basket[r])
    <3>1. held' = held \cup {r} /\ stock'[v] = stock[v] - Basket[r][v] /\ moved' = moved
      BY <1>3, <2>1 DEF Crear, Take
    <3>2. r \notin held
      BY <1>3 DEF Crear, ReservationsInv, RowsOfRequests, HeldWhileLive, Live
    <3>3. Aside(v, held') = Basket[r][v] + Aside(v, held) /\ Basket[r][v] \in Int
      BY <1>1, <3>1, <3>2, AsideMoves
    <3> QED
      BY <1>1, <3>1, <3>3
  <2>2. CASE ~CanTake(stock, Basket[r])
    BY <1>2, <1>3, <2>2 DEF Crear
  <2> QED
    BY <2>1, <2>2
<1>4. ASSUME NEW r \in Requests, NEW to \in Live \cup Final, ActualizarEstado(r, to)
      PROVE  stock'[v] + Aside(v, held') = Supply[v] + moved'[v]
  <2>1. CASE to \in Final /\ r \in held
    <3>1. held' = held \ {r} /\ stock'[v] = stock[v] + Basket[r][v] /\ moved' = moved
      BY <1>4, <2>1 DEF ActualizarEstado, Put
    <3>2. Aside(v, held) = Basket[r][v] + Aside(v, held') /\ Aside(v, held') \in Int
          /\ Basket[r][v] \in Int
      BY <1>1, <2>1, <3>1, AsideMoves
    <3> QED
      BY <1>1, <3>1, <3>2
  <2>2. CASE ~(to \in Final /\ r \in held)
    BY <1>2, <1>4, <2>2 DEF ActualizarEstado
  <2> QED
    BY <2>1, <2>2
<1>5. ASSUME NEW w \in Variants, NEW delta \in {-1, 1}, Change(w, delta)
      PROVE  stock'[v] + Aside(v, held') = Supply[v] + moved'[v]
  BY <1>1, <1>5 DEF Change
<1> QED
  BY <1>2, <1>3, <1>4, <1>5 DEF Next, vars, Lock, ValidarDisponibilidad, Die

-----------------------------------------------------------------------------
\* The phase of a row that a step does not touch.
LEMMA PhaseMoves ==
    ASSUME TypeOK, NEW r \in Requests \ Legacy, NEW to \in Live \cup Final \cup {"none"},
           status' = [status EXCEPT ![r] = to]
    PROVE  Phase' = [Phase EXCEPT ![r] = CASE to = "none" -> "none"
                                           [] to \in Live -> "held"
                                           [] to \in Final -> "freed"]
BY DEF TypeOK, Phase, Live, Final

\* Every step of the reservations is a step of the promise or changes nothing
\* it speaks of.
LEMMA ReservationsStepKept == ReservationsInv /\ [Next]_vars => [Kept!Act]_(Kept!promise)
<1>1. SUFFICES ASSUME ReservationsInv, Next PROVE Kept!Act \/ UNCHANGED <<stock, Phase>>
  BY DEF Kept!promise, vars, Phase
<1> USE DEF ReservationsInv, TypeOK
<1>2. ASSUME NEW r \in Requests, Lock(r) \/ ValidarDisponibilidad(r) \/ Die(r)
      PROVE  UNCHANGED <<stock, Phase>>
  BY <1>2 DEF Lock, ValidarDisponibilidad, Die, Phase
<1>3. ASSUME NEW r \in Requests, Crear(r) PROVE Kept!Act \/ UNCHANGED <<stock, Phase>>
  <2>1. CASE CanTake(stock, Basket[r])
    <3>1. status[r] = "none" /\ r \notin Legacy
      BY <1>1, <1>3 DEF Crear, RowsOfRequests
    <3>2. stock' = Take(stock, Basket[r]) /\ status' = [status EXCEPT ![r] = "pending"]
      BY <1>3, <2>1 DEF Crear
    <3>3. Phase[r] = "none" /\ Phase' = [Phase EXCEPT ![r] = "held"]
      BY <1>1, <3>1, <3>2, PhaseMoves DEF Phase, Live
    <3>4. Kept!CanTake(stock, Basket[r]) /\ stock' = Kept!Take(stock, Basket[r])
      BY <2>1, <3>2 DEF CanTake, Take, Kept!CanTake, Kept!Take
    <3>5. Kept!Hold(r, "held")
      BY <3>3, <3>4 DEF Kept!Hold
    <3> QED
      BY <3>5 DEF Kept!Act
  <2>2. CASE ~CanTake(stock, Basket[r])
    BY <1>3, <2>2 DEF Crear, Phase
  <2> QED
    BY <2>1, <2>2
<1>4. ASSUME NEW r \in Requests, NEW to \in Live \cup Final, ActualizarEstado(r, to)
      PROVE  Kept!Act \/ UNCHANGED <<stock, Phase>>
  <2>1. status[r] \in Live /\ status' = [status EXCEPT ![r] = to]
    BY <1>4 DEF ActualizarEstado, TRANSITIONS, Live
  <2>2. CASE to \in Final /\ r \in held
    <3>1. r \notin Legacy /\ CanPut(stock, Basket[r]) /\ stock' = Put(stock, Basket[r])
      BY <1>1, <1>4, <2>2 DEF ActualizarEstado, HeldWhileLive
    <3>2. Phase[r] = "held" /\ Phase' = [Phase EXCEPT ![r] = "freed"]
      BY <1>1, <2>1, <2>2, <3>1, PhaseMoves DEF Phase, Live, Final
    <3>3. stock' = Kept!Put(stock, Basket[r])
      BY <3>1 DEF Put, Kept!Put
    <3>4. Kept!Free(r)
      BY <3>2, <3>3 DEF Kept!Free
    <3> QED
      BY <3>4 DEF Kept!Act
  <2>3. CASE ~(to \in Final /\ r \in held)
    <3>1. UNCHANGED stock
      BY <1>4, <2>3 DEF ActualizarEstado
    <3>2. CASE r \in Legacy
      BY <1>1, <2>1, <3>1, <3>2 DEF Phase
    <3>3. CASE r \notin Legacy
      <4>1. to \in Live /\ Phase[r] = "held"
        BY <1>1, <2>1, <2>3, <3>3 DEF HeldWhileLive, Phase, Live, Final
      <4> QED
        BY <1>1, <2>1, <3>1, <3>3, <4>1, PhaseMoves DEF Phase, Live, Final
    <3> QED
      BY <3>2, <3>3
  <2> QED
    BY <2>2, <2>3
<1>5. ASSUME NEW v \in Variants, NEW delta \in {-1, 1}, Change(v, delta)
      PROVE  Kept!Act
  <2>1. stock' = [stock EXCEPT ![v] = stock[v] + delta] /\ stock[v] + delta \in 0 .. MaxStock
    BY <1>5 DEF Change
  <2>2. UNCHANGED Phase
    BY <1>5 DEF Change, Phase
  <2>3. Kept!Restock(v)
    BY <2>1, <2>2 DEF Kept!Restock
  <2> QED
    BY <2>3 DEF Kept!Act
<1> QED
  BY <1>1, <1>2, <1>3, <1>4, <1>5 DEF Next


-----------------------------------------------------------------------------
(* The garment exchanges.                                                  *)

\* What the calls have done, and what keeps two of one key apart: an exchange
\* that is inserted and not committed, or committed, is the only one of its key.
ExchangeInv ==
    /\ Exchange!TypeOK
    /\ \A x \in Calls : call[x] = "read out" => out[x] >= ExchangeLine[x].units
    /\ exchanges = {x \in Calls : call[x] = "done"}
    /\ \A x, y \in Calls : /\ call[x] \in Exchange!Open
                           /\ call[y] \in Exchange!Open \/ y \in exchanges
                           => ~Exchange!SameKey(x, y)
    /\ Exchange!OnePerKey

\* No call has begun.
LEMMA ExchangesStart == Exchange!Init => ExchangeInv
<1> SUFFICES ASSUME Exchange!Init PROVE ExchangeInv
  OBVIOUS
<1>1. Exchange!TypeOK
  BY MaxStockAssumption, DeskAssumption
     DEF Exchange!Init, Exchange!TypeOK, Exchange!GarmentExchangeAssumption, Exchange!Levels
<1> QED
  BY <1>1 DEF Exchange!Init, ExchangeInv, Exchange!Open, Exchange!OnePerKey

\* Every statement of an exchange keeps it.
LEMMA ExchangesKeep == ExchangeInv /\ [Exchange!Next]_exchangeVars => ExchangeInv'
<1> SUFFICES ASSUME ExchangeInv, [Exchange!Next]_exchangeVars PROVE ExchangeInv'
  OBVIOUS
<1> USE DEF Exchange!Open, Exchange!Ends
<1>0. /\ exchangeStock \in [Variants -> Nat] /\ exchanges \subseteq Calls
      /\ call \in [Calls -> Exchange!Open \cup {"new", "computed", "replayed", "refused", "done"}]
      /\ in \in [Calls -> Nat] /\ out \in [Calls -> Nat]
      /\ inTime \in BOOLEAN /\ exchangeMoved \in [Variants -> Int] /\ stale \subseteq exchanges
      /\ \A x \in Calls : /\ ExchangeLine[x].returned \in Variants
                          /\ ExchangeLine[x].delivered \in Variants
                          /\ ExchangeLine[x].units \in Nat
  BY DeskAssumption DEF ExchangeInv, Exchange!TypeOK, Exchange!GarmentExchangeAssumption
<1>1. CASE UNCHANGED exchangeVars
  BY <1>1 DEF ExchangeInv, Exchange!TypeOK, Exchange!OnePerKey, exchangeVars
<1>2. ASSUME NEW x \in Calls, NEW how \in {"computed", "replayed", "refused"},
             call[x] \in {"new", "computed", "read in"},
             call' = [call EXCEPT ![x] = how], out' \in [Calls -> Nat],
             \A y \in Calls : y # x => out'[y] = out[y],
             UNCHANGED <<exchangeStock, exchanges, in, inTime, exchangeMoved, stale>>
      PROVE  ExchangeInv'
  BY <1>0, <1>2 DEF ExchangeInv, Exchange!TypeOK, Exchange!OnePerKey
<1>3. ASSUME NEW x \in Calls, Exchange!Replay(x) \/ Exchange!Calcular(x) PROVE ExchangeInv'
  <2>1. PICK how \in {"computed", "replayed", "refused"} : call' = [call EXCEPT ![x] = how]
    BY <1>3 DEF Exchange!Replay, Exchange!Calcular
  <2> QED
    BY <1>0, <1>2, <1>3, <2>1 DEF Exchange!Replay, Exchange!Calcular
<1>4. ASSUME NEW x \in Calls, Exchange!Insert(x) PROVE ExchangeInv'
  <2>1. CASE \E y \in exchanges : Exchange!SameKey(x, y)
    BY <1>0, <1>2, <1>4, <2>1 DEF Exchange!Insert
  <2>2. CASE ~ \E y \in exchanges : Exchange!SameKey(x, y)
    <3>1. /\ call[x] = "computed" /\ call' = [call EXCEPT ![x] = "inserted"]
          /\ UNCHANGED <<exchangeStock, exchanges, in, out, inTime, exchangeMoved, stale>>
          /\ \A y \in Calls : call[y] \in Exchange!Open => ~Exchange!SameKey(x, y)
      BY <1>4, <2>2 DEF Exchange!Insert
    <3>2. \A y \in Calls : Exchange!SameKey(y, x) <=> Exchange!SameKey(x, y)
      BY DEF Exchange!SameKey
    <3>3. ~Exchange!SameKey(x, x)
      BY DEF Exchange!SameKey
    <3> QED
      BY <1>0, <2>2, <3>1, <3>2, <3>3 DEF ExchangeInv, Exchange!TypeOK, Exchange!OnePerKey
  <2> QED
    BY <2>1, <2>2
<1>5. ASSUME NEW x \in Calls, Exchange!ReadReturned(x) PROVE ExchangeInv'
  BY <1>0, <1>5 DEF Exchange!ReadReturned, ExchangeInv, Exchange!TypeOK, Exchange!OnePerKey
<1>6. ASSUME NEW x \in Calls, Exchange!ReadDelivered(x) PROVE ExchangeInv'
  <2>1. /\ out' \in [Calls -> Nat] /\ out'[x] = exchangeStock[ExchangeLine[x].delivered]
        /\ \A y \in Calls : y # x => out'[y] = out[y]
    BY <1>0, <1>6 DEF Exchange!ReadDelivered
  <2>2. CASE exchangeStock[ExchangeLine[x].delivered] >= ExchangeLine[x].units
    BY <1>0, <1>6, <2>1, <2>2
       DEF Exchange!ReadDelivered, ExchangeInv, Exchange!TypeOK, Exchange!OnePerKey
  <2>3. CASE ~(exchangeStock[ExchangeLine[x].delivered] >= ExchangeLine[x].units)
    BY <1>0, <1>2, <1>6, <2>1, <2>3 DEF Exchange!ReadDelivered
  <2> QED
    BY <2>2, <2>3
<1>7. ASSUME NEW x \in Calls, Exchange!Commit(x) PROVE ExchangeInv'
  <2>1. /\ call[x] = "read out" /\ call' = [call EXCEPT ![x] = "done"]
        /\ exchanges' = exchanges \cup {x}
        /\ UNCHANGED <<in, out, inTime, exchangeMoved>>
        /\ stale' \subseteq exchanges'
    BY <1>0, <1>7 DEF Exchange!Commit
  <2>2. exchangeStock' \in [Variants -> Nat]
    <3>1. out[x] >= ExchangeLine[x].units
      BY <2>1 DEF ExchangeInv
    <3>2. in[x] \in Nat /\ out[x] \in Nat /\ ExchangeLine[x].units \in Nat
      BY <1>0
    <3>3. in[x] + ExchangeLine[x].units \in Nat /\ out[x] - ExchangeLine[x].units \in Nat
      BY <3>1, <3>2
    <3> QED
      BY <1>0, <1>7, <3>3 DEF Exchange!Commit
  <2>3. exchanges' = {y \in Calls : call'[y] = "done"}
    BY <1>0, <2>1 DEF ExchangeInv
  <2>4. Exchange!OnePerKey'
    <3>1. \A y \in exchanges : ~Exchange!SameKey(x, y) /\ ~Exchange!SameKey(y, x)
      BY <1>0, <2>1 DEF ExchangeInv, Exchange!SameKey
    <3>2. ~Exchange!SameKey(x, x)
      BY DEF Exchange!SameKey
    <3>3. \A y, z \in exchanges : ~Exchange!SameKey(y, z)
      BY DEF ExchangeInv, Exchange!OnePerKey
    <3> HIDE DEF ExchangeInv
    <3>4. \A y, z \in exchanges \cup {x} : ~Exchange!SameKey(y, z)
      BY <3>1, <3>2, <3>3
    <3>5. \A y, z \in exchanges' : ~Exchange!SameKey(y, z)
      BY <2>1, <3>4
    <3> QED
      BY <3>5 DEF Exchange!OnePerKey, Exchange!SameKey
  <2> QED
    BY <1>0, <2>1, <2>2, <2>3, <2>4 DEF ExchangeInv, Exchange!TypeOK
<1>8. ASSUME NEW v \in Variants, NEW delta \in {-1, 1}, Exchange!Change(v, delta)
      PROVE  ExchangeInv'
  <2>0. exchangeStock[v] + delta \in 0 .. MaxStock
    BY <1>8, Zenon DEF Exchange!Change
  <2>3. delta \in Int
    OBVIOUS
  <2>4. exchangeMoved[v] \in Int
    BY <1>0
  <2>1. exchangeStock[v] + delta \in Nat /\ exchangeMoved[v] + delta \in Int
    BY <2>0, <2>3, <2>4, MaxStockAssumption
  <2>2. exchangeStock' \in [Variants -> Nat] /\ exchangeMoved' \in [Variants -> Int]
        /\ UNCHANGED <<exchanges, call, in, out, inTime, stale>>
    BY <1>0, <1>8, <2>1, Zenon DEF Exchange!Change
  <2> QED
    BY <1>0, <2>2 DEF ExchangeInv, Exchange!TypeOK, Exchange!OnePerKey
<1>9. CASE Exchange!Deadline
  BY <1>0, <1>9 DEF Exchange!Deadline, ExchangeInv, Exchange!TypeOK, Exchange!OnePerKey
<1> QED
  BY <1>1, <1>3, <1>4, <1>5, <1>6, <1>7, <1>8, <1>9 DEF Exchange!Next

\* The sum of the instance is the sum of this module.
LEMMA ExchangeSums ==
    ASSUME NEW f, NEW S
    PROVE  Exchange!SumFunctionOnSet(f, S) = SumFunctionOnSet(f, S)
BY Zenon DEF Exchange!SumFunctionOnSet, SumFunctionOnSet, Exchange!FoldFunctionOnSet, FoldFunctionOnSet,
         Exchange!MapThenFoldSet, MapThenFoldSet

\* The units that a set of exchanges took back or handed over of a variant.
Back(v, set) == SumFunctionOnSet([x \in Calls |-> ExchangeLine[x].units],
                                 {x \in set : ExchangeLine[x].returned = v})

Handed(v, set) == SumFunctionOnSet([x \in Calls |-> ExchangeLine[x].units],
                                   {x \in set : ExchangeLine[x].delivered = v})

\* What a set of exchanges took back and handed over moves by the line that joins it.
LEMMA BackAndHanded ==
    ASSUME NEW v \in Variants, NEW set \in SUBSET Calls
    PROVE  /\ Back(v, set) \in Int /\ Handed(v, set) \in Int
           /\ \A x \in Calls \ set :
                /\ Back(v, set \cup {x}) =
                     IF ExchangeLine[x].returned = v
                     THEN ExchangeLine[x].units + Back(v, set) ELSE Back(v, set)
                /\ Handed(v, set \cup {x}) =
                     IF ExchangeLine[x].delivered = v
                     THEN ExchangeLine[x].units + Handed(v, set) ELSE Handed(v, set)
<1> DEFINE units == [x \in Calls |-> ExchangeLine[x].units]
           back(S) == {x \in S : ExchangeLine[x].returned = v}
           handed(S) == {x \in S : ExchangeLine[x].delivered = v}
<1>1. units \in [Calls -> Int] /\ \A x \in Calls : units[x] = ExchangeLine[x].units
  BY DeskAssumption DEF Exchange!GarmentExchangeAssumption
<1>2. IsFiniteSet(Calls)
  BY DeskAssumption, Zenon DEF Exchange!GarmentExchangeAssumption, Exchange!IsFiniteSet, IsFiniteSet
<1>3. back(set) \in SUBSET Calls /\ handed(set) \in SUBSET Calls
  OBVIOUS
<1>4. \A x \in Calls \ set :
        /\ back(set \cup {x}) = IF ExchangeLine[x].returned = v THEN back(set) \cup {x} ELSE back(set)
        /\ handed(set \cup {x}) = IF ExchangeLine[x].delivered = v THEN handed(set) \cup {x} ELSE handed(set)
        /\ x \notin back(set) /\ x \notin handed(set)
  OBVIOUS
<1>5. \A S : Back(v, S) = SumFunctionOnSet(units, back(S)) /\ Handed(v, S) = SumFunctionOnSet(units, handed(S))
  BY DEF Back, Handed
<1> HIDE DEF units, back, handed
<1>6. /\ SumFunctionOnSet(units, back(set)) \in Int
      /\ \A x \in Calls : x \notin back(set) =>
           SumFunctionOnSet(units, back(set) \cup {x}) = units[x] + SumFunctionOnSet(units, back(set))
  BY <1>1, <1>2, <1>3, SumOfPart
<1>7. /\ SumFunctionOnSet(units, handed(set)) \in Int
      /\ \A x \in Calls : x \notin handed(set) =>
           SumFunctionOnSet(units, handed(set) \cup {x}) = units[x] + SumFunctionOnSet(units, handed(set))
  BY <1>1, <1>2, <1>3, SumOfPart
<1> QED
  BY <1>1, <1>4, <1>5, <1>6, <1>7

\* While no exchange wrote over a quantity that it had not read, the shelf has
\* what it had, what others moved and what the exchanges took back and handed over.
ExchangesAddUp ==
    stale = {} =>
        \A v \in Variants :
            exchangeStock[v] = ExchangeSupply[v] + exchangeMoved[v] + Back(v, exchanges) - Handed(v, exchanges)

\* The sums of this module say what ExactUnlessStale says.
LEMMA ExchangesExact == ExchangesAddUp <=> Exchange!ExactUnlessStale
BY ExchangeSums DEF ExchangesAddUp, Exchange!ExactUnlessStale, Back, Handed,
                    Exchange!YaCambiados, Exchange!Delivered

\* At the start no exchange has moved the shelf.
LEMMA ExchangesAddUpStart == Exchange!Init => ExchangesAddUp
<1> SUFFICES ASSUME Exchange!Init, NEW v \in Variants
             PROVE  exchangeStock[v] = ExchangeSupply[v] + exchangeMoved[v] + Back(v, exchanges) - Handed(v, exchanges)
  BY DEF ExchangesAddUp
<1>1. exchanges = {} /\ exchangeStock = ExchangeSupply /\ exchangeMoved[v] = 0 /\ ExchangeSupply[v] \in Int
  BY DeskAssumption, MaxStockAssumption
     DEF Exchange!Init, Exchange!GarmentExchangeAssumption, Exchange!Levels
<1>2. Back(v, {}) = 0 /\ Handed(v, {}) = 0
  BY SumOfNone DEF Back, Handed
<1> QED
  BY <1>1, <1>2

\* An exchange that wrote over nothing moves the shelf by its line.
LEMMA ExchangesAddUpKeep ==
    ExchangeInv /\ ExchangesAddUp /\ [Exchange!Next]_exchangeVars => ExchangesAddUp'
<1> SUFFICES ASSUME ExchangeInv, ExchangesAddUp, [Exchange!Next]_exchangeVars,
                    stale' = {}, NEW v \in Variants
             PROVE  exchangeStock'[v] = ExchangeSupply[v] + exchangeMoved'[v]
                                        + Back(v, exchanges') - Handed(v, exchanges')
  BY DEF ExchangesAddUp, Back, Handed
<1>a. /\ exchangeStock \in [Variants -> Nat] /\ exchangeMoved \in [Variants -> Int]
      /\ exchanges \in SUBSET Calls /\ \A x \in Calls : in[x] \in Nat /\ out[x] \in Nat
  BY DEF ExchangeInv, Exchange!TypeOK
<1>b. ExchangeSupply[v] \in Int
  BY DeskAssumption, MaxStockAssumption DEF Exchange!GarmentExchangeAssumption, Exchange!Levels
<1>1. /\ exchangeStock \in [Variants -> Nat] /\ exchangeMoved \in [Variants -> Int]
      /\ exchanges \in SUBSET Calls /\ ExchangeSupply[v] \in Int
      /\ Back(v, exchanges) \in Int /\ Handed(v, exchanges) \in Int
      /\ \A x \in Calls : in[x] \in Nat /\ out[x] \in Nat
  BY <1>a, <1>b, BackAndHanded
<1>2. stale = {} =>
        exchangeStock[v] = ExchangeSupply[v] + exchangeMoved[v] + Back(v, exchanges) - Handed(v, exchanges)
  BY DEF ExchangesAddUp
<1>3. CASE UNCHANGED <<exchangeStock, exchanges, exchangeMoved, stale>>
  BY <1>2, <1>3
<1>4. ASSUME NEW x \in Calls, Exchange!Commit(x)
      PROVE  exchangeStock'[v] = ExchangeSupply[v] + exchangeMoved'[v]
                                 + Back(v, exchanges') - Handed(v, exchanges')
  <2> DEFINE line == ExchangeLine[x]
  <2>1. /\ stale = {} /\ in[x] = exchangeStock[line.returned] /\ out[x] = exchangeStock[line.delivered]
        /\ exchanges' = exchanges \cup {x} /\ exchangeMoved' = exchangeMoved
    BY <1>4 DEF Exchange!Commit
  <2>2. x \in Calls \ exchanges
    BY <1>4 DEF Exchange!Commit, ExchangeInv
  <2>3. line.returned \in Variants /\ line.delivered \in Variants /\ line.units \in Nat
        /\ line.returned # line.delivered
    BY DeskAssumption DEF Exchange!GarmentExchangeAssumption
  <2>4. exchangeStock'[v] = IF v = line.delivered THEN out[x] - line.units
                            ELSE IF v = line.returned THEN in[x] + line.units ELSE exchangeStock[v]
    BY <1>1, <1>4, <2>3 DEF Exchange!Commit
  <2>5. /\ Back(v, exchanges') = IF line.returned = v THEN line.units + Back(v, exchanges) ELSE Back(v, exchanges)
        /\ Handed(v, exchanges') = IF line.delivered = v THEN line.units + Handed(v, exchanges) ELSE Handed(v, exchanges)
    BY <1>1, <2>1, <2>2, BackAndHanded
  <2> HIDE DEF line
  <2> QED
    BY <1>1, <1>2, <2>1, <2>3, <2>4, <2>5
<1>5. ASSUME NEW w \in Variants, NEW delta \in {-1, 1}, Exchange!Change(w, delta)
      PROVE  exchangeStock'[v] = ExchangeSupply[v] + exchangeMoved'[v]
                                 + Back(v, exchanges') - Handed(v, exchanges')
  BY <1>1, <1>2, <1>5 DEF Exchange!Change
<1> QED
  BY <1>3, <1>4, <1>5
     DEF Exchange!Next, exchangeVars, Exchange!Replay, Exchange!Calcular, Exchange!Insert,
         Exchange!ReadReturned, Exchange!ReadDelivered, Exchange!Deadline

-----------------------------------------------------------------------------
(* The sales of an offline till.                                           *)

\* The outcomes whose transaction keeps the stock rows of its sale.
Locking == {"CONFIRMED", "STOCK", "PRICE"}

\* An open transaction has its key for itself, as no row had it, and one about
\* to confirm still has the units that it counted and no counter sale behind it.
SendersInv ==
    /\ \A s \in Senders :
         /\ at[s] >= 1
         /\ step[s] # "next" => Offline!Busy(s)
         /\ step[s] = "inserted" <=> outcome[s] # "none"
         /\ step[s] = "inserted" => record[Offline!KeyAt(s)] = "none"
         /\ outcome[s] = "CONFIRMED" =>
              Offline!KeyAt(s) \notin counter /\ Offline!CanTake(offlineStock, Sale[Offline!Op(s)])
    /\ \A s, t \in Senders :
         s # t /\ step[s] = "inserted" /\ step[t] = "inserted" =>
           /\ Offline!KeyAt(s) # Offline!KeyAt(t)
           /\ outcome[s] \in Locking /\ outcome[t] \in Locking =>
                Offline!Rows(Offline!Op(s)) \cap Offline!Rows(Offline!Op(t)) = {}

OfflineInv ==
    /\ Offline!TypeOK
    /\ SendersInv
    /\ Offline!SoldOnce
    /\ Offline!ReviewPending
    /\ Offline!AnswersTrue

\* The sum of the instance is the sum of this module.
LEMMA OfflineSums ==
    ASSUME NEW f
    PROVE  Offline!SumFunction(f) = SumFunction(f)
BY Zenon DEF Offline!SumFunction, SumFunction, Offline!SumFunctionOnSet, SumFunctionOnSet,
         Offline!FoldFunctionOnSet, FoldFunctionOnSet, Offline!MapThenFoldSet, MapThenFoldSet

\* What is assumed of the till's constants, as the proofs use it.
LEMMA OfflineConstants ==
    /\ IsFiniteSet(Keys)
    /\ KeyOf \in [Ops -> Keys] /\ Batch \in [Senders -> Seq(Ops)] /\ NoOp \notin Ops
    /\ \A o \in Ops, v \in Variants : Sale[o][v] \in Nat
    /\ Sale \in [Ops -> Offline!Baskets] /\ SaleSupply \in Offline!Levels /\ SaleCeiling \in Nat
<1>1. IsFiniteSet(Keys)
  BY DeskAssumption, Zenon DEF Offline!OfflineSyncAssumption, Offline!IsFiniteSet, IsFiniteSet
<1>2. /\ KeyOf \in [Ops -> Keys] /\ Batch \in [Senders -> Seq(Ops)] /\ NoOp \notin Ops
      /\ Sale \in [Ops -> Offline!Baskets] /\ SaleSupply \in Offline!Levels /\ SaleCeiling \in Nat
  BY DeskAssumption DEF Offline!OfflineSyncAssumption
<1>3. \A o \in Ops, v \in Variants : Sale[o][v] \in Nat
  BY <1>2 DEF Offline!Baskets
<1> QED
  BY <1>1, <1>2, <1>3

\* Nothing has been delivered.
LEMMA OfflineStart == Offline!Init => OfflineInv
<1> SUFFICES ASSUME Offline!Init PROVE OfflineInv
  OBVIOUS
<1>1. Offline!Nothing \in Offline!Baskets /\ \A v \in Variants : Offline!Nothing[v] = 0
  BY OfflineConstants DEF Offline!Nothing, Offline!Baskets
<1> HIDE DEF Offline!Nothing
<1>2. Offline!TypeOK
  BY <1>1, OfflineConstants DEF Offline!Init, Offline!TypeOK
<1>3. SendersInv
  BY DEF Offline!Init, SendersInv
<1>4. Offline!SoldOnce /\ Offline!ReviewPending
  BY DEF Offline!Init, Offline!SoldOnce, Offline!ReviewPending, Offline!Conflicts
<1>5. Offline!AnswersTrue
  BY DEF Offline!Init, Offline!AnswersTrue, Offline!Settled
<1> QED
  BY <1>2, <1>3, <1>4, <1>5 DEF OfflineInv

\* A sender at an operation of its batch has one.
LEMMA OpsOfSenders ==
    ASSUME OfflineInv, NEW s \in Senders, Offline!Busy(s)
    PROVE  Offline!Op(s) \in Ops /\ Offline!KeyAt(s) \in Keys /\ KeyOf[Offline!Op(s)] = Offline!KeyAt(s)
<1>1. Batch[s] \in Seq(Ops) /\ at[s] \in Nat /\ at[s] >= 1 /\ at[s] <= Len(Batch[s])
  BY OfflineConstants DEF OfflineInv, Offline!TypeOK, SendersInv, Offline!Busy
<1>2. Batch[s][at[s]] \in Ops
  BY <1>1
<1> QED
  BY <1>2, OfflineConstants DEF Offline!Op, Offline!KeyAt

\* What a sender hears of the operation that it leaves.
Answers == Offline!Settled \cup {"CONFLICT", "RETRY", "REUSED"}

\* A result moves its sender to the next operation and tells it.
LEMMA ResultMoves ==
    ASSUME OfflineInv, NEW s \in Senders, Offline!Busy(s), NEW answer \in Answers,
           Offline!Result(s, answer)
    PROVE  /\ at' \in [Senders -> Nat] /\ at'[s] >= 1
           /\ step' = [step EXCEPT ![s] = "next"] /\ outcome' = [outcome EXCEPT ![s] = "none"]
           /\ told' \in [Senders -> [Ops -> Answers \cup {"none"}]]
           /\ told'[s][Offline!Op(s)] = answer
           /\ \A t \in Senders, o \in Ops :
                t # s \/ o # Offline!Op(s) => told'[t][o] = told[t][o]
           /\ \A t \in Senders : t # s => at'[t] = at[t]
<1>0. /\ at \in [Senders -> Nat]
      /\ told \in [Senders -> [Ops -> Answers \cup {"none"}]] /\ Offline!Op(s) \in Ops
  BY OpsOfSenders DEF OfflineInv, Offline!TypeOK, Answers
<1>1. at' = [at EXCEPT ![s] = at[s] + 1] /\ step' = [step EXCEPT ![s] = "next"]
      /\ outcome' = [outcome EXCEPT ![s] = "none"]
  BY Zenon DEF Offline!Result
<1>2. told' = [told EXCEPT ![s] = [told[s] EXCEPT ![Offline!Op(s)] = answer]]
  BY Zenon DEF Offline!Result
<1>3. PICK row : row = [told[s] EXCEPT ![Offline!Op(s)] = answer]
  OBVIOUS
<1>4. row \in [Ops -> Answers \cup {"none"}] /\ row[Offline!Op(s)] = answer
      /\ \A o \in Ops : o # Offline!Op(s) => row[o] = told[s][o]
  BY <1>0, <1>3
<1>5. told' = [told EXCEPT ![s] = row]
  BY <1>2, <1>3
<1>6. /\ told' \in [Senders -> [Ops -> Answers \cup {"none"}]] /\ told'[s] = row
      /\ \A t \in Senders : t # s => told'[t] = told[t]
  BY <1>0, <1>4, <1>5
<1>7. at' \in [Senders -> Nat] /\ at'[s] >= 1 /\ \A t \in Senders : t # s => at'[t] = at[t]
  BY <1>0, <1>1
<1>8. told'[s][Offline!Op(s)] = answer
  BY <1>4, <1>6
<1>9. \A t \in Senders, o \in Ops : t # s \/ o # Offline!Op(s) => told'[t][o] = told[t][o]
  BY <1>4, <1>6
<1> QED
  BY <1>1, <1>6, <1>7, <1>8, <1>9

\* The row of a batch is saved or lost.
LEMMA BatchTyped ==
    ASSUME OfflineInv, NEW s \in Senders, Offline!Committed(s) \/ Offline!RolledBack(s)
    PROVE  batch' \in [Senders -> {"new", "saved", "lost"}]
BY DEF OfflineInv, Offline!TypeOK, Offline!Committed, Offline!RolledBack

\* A step of a delivery that writes no row.
Silent(s) ==
    \/ Offline!Look(s)
    \/ Offline!ReadOnly(s)
    \/ \E found \in Offline!Found : Offline!Insert(s, found)
    \/ Offline!Reread(s)
    \/ Offline!Fail(s)
    \/ Offline!Crash(s)

\* One that writes a row.
Writing(s) == Offline!Commit(s) \/ Offline!CommitUnanswered(s)

Reviewing(k) == Offline!Cancel(k) \/ \E basket \in Offline!Sales : Offline!Resell(k, basket)

\* A step that writes no row moves its sender alone.
LEMMA SilentMoves ==
    ASSUME OfflineInv, NEW s \in Senders, Silent(s)
    PROVE  /\ Offline!Busy(s)
           /\ UNCHANGED <<offlineStock, record, content, conflict, sold, counter, offlineMoved>>
           /\ \/ /\ \E answer \in Answers :
                      /\ Offline!Result(s, answer)
                      /\ answer # "RETRY" =>
                           record[Offline!KeyAt(s)] # "none" /\ answer = Offline!Replay(Offline!Op(s))
                 /\ Offline!Committed(s) \/ Offline!RolledBack(s)
              \/ /\ step[s] = "next" /\ step' = [step EXCEPT ![s] = "missed"]
                 /\ UNCHANGED <<at, outcome, batch, told>>
              \/ /\ step[s] = "missed" /\ step' = [step EXCEPT ![s] = "violated"]
                 /\ UNCHANGED <<at, outcome, batch, told>>
              \/ \E found \in Offline!Found :
                   /\ step[s] = "missed"
                   /\ Offline!Unclaimed(Offline!KeyAt(s))
                   /\ found \in {"same", "dear"} =>
                        Offline!Rows(Offline!Op(s)) \cap Offline!Locked = {}
                   /\ record[Offline!KeyAt(s)] = "none"
                   /\ Offline!Outcome(Offline!Op(s), found) = "CONFIRMED" =>
                        Offline!KeyAt(s) \notin counter
                   /\ step' = [step EXCEPT ![s] = "inserted"]
                   /\ outcome' = [outcome EXCEPT ![s] = Offline!Outcome(Offline!Op(s), found)]
                   /\ UNCHANGED <<at, batch, told>>
              \/ Offline!Crash(s)
<1> DEFINE known(answer) == answer # "RETRY" =>
             record[Offline!KeyAt(s)] # "none" /\ answer = Offline!Replay(Offline!Op(s))
<1>1. Offline!Busy(s)
  <2>1. step[s] # "next" => Offline!Busy(s)
    BY DEF OfflineInv, SendersInv
  <2> QED
    BY <2>1 DEF Silent, Offline!Look, Offline!ReadOnly, Offline!Insert, Offline!Reread, Offline!Fail,
                Offline!Crash
<1>2. UNCHANGED <<offlineStock, record, content, conflict, sold, counter, offlineMoved>>
  BY DEF Silent, Offline!Look, Offline!ReadOnly, Offline!Insert, Offline!Reread, Offline!Fail,
         Offline!Crash, Offline!records
<1>3. "RETRY" \in Answers
  BY DEF Answers
<1>4. record[Offline!KeyAt(s)] # "none" => Offline!Replay(Offline!Op(s)) \in Answers
  <2>1. record[Offline!KeyAt(s)] \in Offline!Settled \cup {"none", "CONFLICT"}
    BY <1>1, OpsOfSenders DEF OfflineInv, Offline!TypeOK
  <2> QED
    BY <1>1, <2>1, OpsOfSenders DEF Offline!Replay, Answers
<1>5. ASSUME Offline!Look(s)
      PROVE  \/ /\ \E answer \in Answers : Offline!Result(s, answer) /\ known(answer)
                /\ Offline!Committed(s) \/ Offline!RolledBack(s)
             \/ /\ step[s] = "next" /\ step' = [step EXCEPT ![s] = "missed"]
                /\ UNCHANGED <<at, outcome, batch, told>>
  BY <1>4, <1>5 DEF Offline!Look
<1>6. ASSUME Offline!ReadOnly(s) \/ Offline!Fail(s)
      PROVE  /\ \E answer \in Answers : Offline!Result(s, answer) /\ known(answer)
             /\ Offline!Committed(s) \/ Offline!RolledBack(s)
  BY <1>3, <1>6 DEF Offline!ReadOnly, Offline!Fail
<1>7. ASSUME Offline!Reread(s)
      PROVE  /\ \E answer \in Answers : Offline!Result(s, answer) /\ known(answer)
             /\ Offline!Committed(s) \/ Offline!RolledBack(s)
  <2> DEFINE answer == IF record[Offline!KeyAt(s)] = "none" THEN "RETRY" ELSE Offline!Replay(Offline!Op(s))
  <2>1. answer \in Answers /\ known(answer)
    BY <1>3, <1>4
  <2>2. Offline!Result(s, answer) /\ Offline!RolledBack(s)
    BY <1>7 DEF Offline!Reread
  <2> QED
    BY <2>1, <2>2
<1> HIDE DEF known
<1>8. ASSUME NEW found \in Offline!Found, Offline!Insert(s, found)
      PROVE  \/ /\ step[s] = "missed" /\ step' = [step EXCEPT ![s] = "violated"]
                /\ UNCHANGED <<at, outcome, batch, told>>
             \/ /\ step[s] = "missed"
                /\ Offline!Unclaimed(Offline!KeyAt(s))
                /\ found \in {"same", "dear"} =>
                     Offline!Rows(Offline!Op(s)) \cap Offline!Locked = {}
                /\ record[Offline!KeyAt(s)] = "none"
                /\ Offline!Outcome(Offline!Op(s), found) = "CONFIRMED" =>
                     Offline!KeyAt(s) \notin counter
                /\ step' = [step EXCEPT ![s] = "inserted"]
                /\ outcome' = [outcome EXCEPT ![s] = Offline!Outcome(Offline!Op(s), found)]
                /\ UNCHANGED <<at, batch, told>>
  BY <1>8, Zenon DEF Offline!Insert
<1> QED
  BY <1>1, <1>2, <1>5, <1>6, <1>7, <1>8 DEF Silent, known

\* What a sale finds says what its transaction is about to record.
LEMMA OutcomeFound ==
    ASSUME NEW o \in Ops, NEW found \in Offline!Found
    PROVE  /\ Offline!Outcome(o, found) \in Offline!Settled \cup Offline!Conflicts
           /\ Offline!Outcome(o, found) # "none"
           /\ Offline!Outcome(o, found) \in Locking => found \in {"same", "dear"}
           /\ Offline!Outcome(o, found) = "CONFIRMED" => Offline!CanTake(offlineStock, Sale[o])
<1> DEFINE fits == Offline!CanTake(offlineStock, Sale[o])
<1>1. Offline!Outcome(o, found) =
        CASE found = "invalid" -> "REJECTED"
          [] found = "inactive" -> "PRODUCT_INACTIVE"
          [] found = "unsubscribed" -> "SUBSCRIPTION"
          [] found \in {"same", "dear"} /\ ~fits -> "STOCK"
          [] found = "dear" /\ fits -> "PRICE"
          [] OTHER -> "CONFIRMED"
  BY DEF Offline!Outcome
<1>2. found \in {"same", "dear", "inactive", "unsubscribed", "invalid"}
  BY DEF Offline!Found
<1> HIDE DEF fits
<1>3. CASE found \in {"invalid", "inactive", "unsubscribed"}
  BY <1>1, <1>3 DEF Locking, Offline!Settled, Offline!Conflicts
<1>4. CASE found = "dear"
  BY <1>1, <1>4 DEF Locking, Offline!Settled, Offline!Conflicts
<1>5. CASE found = "same"
  BY <1>1, <1>5 DEF Locking, Offline!Settled, Offline!Conflicts, fits
<1> QED
  BY <1>2, <1>3, <1>4, <1>5

\* The rows of a transaction that may still write them are locked.
LEMMA LockedRows ==
    ASSUME OfflineInv, NEW s \in Senders, outcome[s] \in Locking
    PROVE  Offline!Rows(Offline!Op(s)) \subseteq Offline!Locked
<1>1. step[s] = "inserted"
  BY DEF OfflineInv, SendersInv, Locking
<1> QED
  BY <1>1 DEF Offline!Locked, Locking

\* A sale that fits still does when its rows have not gone down.
LEMMA StillFits ==
    ASSUME NEW o \in Ops, Offline!CanTake(offlineStock, Sale[o]), offlineStock \in Offline!Levels,
           offlineStock' \in Offline!Levels,
           \A v \in Offline!Rows(o) : offlineStock'[v] = offlineStock[v]
    PROVE  Offline!CanTake(offlineStock', Sale[o])
<1> SUFFICES ASSUME NEW v \in Variants PROVE offlineStock'[v] >= Sale[o][v]
  BY DEF Offline!CanTake
<1>1. Sale[o][v] \in Nat /\ offlineStock'[v] \in 0 .. SaleCeiling /\ SaleCeiling \in Nat
      /\ offlineStock[v] >= Sale[o][v]
  BY OfflineConstants DEF Offline!Levels, Offline!CanTake
<1>2. CASE Sale[o][v] > 0
  BY <1>1, <1>2 DEF Offline!Rows
<1>3. CASE Sale[o][v] = 0
  BY <1>1, <1>3
<1> QED
  BY <1>1, <1>2, <1>3

\* A sender goes on with no open transaction and leaves those of the others be.
LEMMA SenderGoesOn ==
    ASSUME OfflineInv, NEW s \in Senders,
           step'[s] # "inserted", outcome'[s] = "none", at'[s] >= 1,
           step'[s] # "next" => Offline!Busy(s)',
           \A t \in Senders \ {s} : at'[t] = at[t] /\ step'[t] = step[t] /\ outcome'[t] = outcome[t],
           \A t \in Senders \ {s} : step[t] = "inserted" => record'[Offline!KeyAt(t)] = "none",
           \A t \in Senders \ {s} : outcome[t] = "CONFIRMED" =>
             Offline!KeyAt(t) \notin counter' /\ Offline!CanTake(offlineStock', Sale[Offline!Op(t)])
    PROVE  SendersInv'
<1>1. \A t \in Senders \ {s} : Offline!Op(t)' = Offline!Op(t) /\ Offline!KeyAt(t)' = Offline!KeyAt(t)
                              /\ Offline!Busy(t)' = Offline!Busy(t)
  BY DEF Offline!Op, Offline!KeyAt, Offline!Busy
<1>2. ASSUME NEW t \in Senders
      PROVE  /\ at'[t] >= 1
             /\ step'[t] # "next" => Offline!Busy(t)'
             /\ step'[t] = "inserted" <=> outcome'[t] # "none"
             /\ step'[t] = "inserted" => record'[Offline!KeyAt(t)'] = "none"
             /\ outcome'[t] = "CONFIRMED" =>
                  Offline!KeyAt(t)' \notin counter' /\ Offline!CanTake(offlineStock', Sale[Offline!Op(t)'])
  BY <1>1, <1>2 DEF OfflineInv, SendersInv
<1>3. ASSUME NEW t \in Senders, NEW u \in Senders, t # u,
             step'[t] = "inserted", step'[u] = "inserted"
      PROVE  /\ Offline!KeyAt(t)' # Offline!KeyAt(u)'
             /\ outcome'[t] \in Locking /\ outcome'[u] \in Locking =>
                  Offline!Rows(Offline!Op(t)') \cap Offline!Rows(Offline!Op(u)') = {}
  BY <1>1, <1>3 DEF OfflineInv, SendersInv
<1> QED
  BY <1>2, <1>3 DEF SendersInv, Offline!CanTake, Offline!Rows

\* No sender moves, and the open transactions keep what they counted on.
LEMMA SendersStay ==
    ASSUME OfflineInv, UNCHANGED <<at, step, outcome>>,
           \A t \in Senders : step[t] = "inserted" => record'[Offline!KeyAt(t)] = "none",
           \A t \in Senders : outcome[t] = "CONFIRMED" =>
             Offline!KeyAt(t) \notin counter' /\ Offline!CanTake(offlineStock', Sale[Offline!Op(t)])
    PROVE  SendersInv'
<1>1. \A t \in Senders : Offline!Op(t)' = Offline!Op(t) /\ Offline!KeyAt(t)' = Offline!KeyAt(t)
                        /\ Offline!Busy(t)' = Offline!Busy(t)
  BY DEF Offline!Op, Offline!KeyAt, Offline!Busy
<1>2. ASSUME NEW t \in Senders
      PROVE  /\ at'[t] >= 1
             /\ step'[t] # "next" => Offline!Busy(t)'
             /\ step'[t] = "inserted" <=> outcome'[t] # "none"
             /\ step'[t] = "inserted" => record'[Offline!KeyAt(t)'] = "none"
             /\ outcome'[t] = "CONFIRMED" =>
                  Offline!KeyAt(t)' \notin counter' /\ Offline!CanTake(offlineStock', Sale[Offline!Op(t)'])
  BY <1>1, <1>2 DEF OfflineInv, SendersInv
<1>3. ASSUME NEW t \in Senders, NEW u \in Senders, t # u,
             step'[t] = "inserted", step'[u] = "inserted"
      PROVE  /\ Offline!KeyAt(t)' # Offline!KeyAt(u)'
             /\ outcome'[t] \in Locking /\ outcome'[u] \in Locking =>
                  Offline!Rows(Offline!Op(t)') \cap Offline!Rows(Offline!Op(u)') = {}
  BY <1>1, <1>3 DEF OfflineInv, SendersInv
<1> QED
  BY <1>2, <1>3 DEF SendersInv, Offline!CanTake, Offline!Rows

\* What a delivery that commits, a review that sells and a counter sale do to
\* the rows and to the shelf.
LEMMA WritingMoves ==
    ASSUME OfflineInv, NEW s \in Senders, Writing(s)
    PROVE  /\ step[s] = "inserted" /\ Offline!Busy(s)
           /\ outcome[s] \in Offline!Settled \cup Offline!Conflicts
           /\ Offline!Write(s)
           /\ \E answer \in Answers :
                /\ Offline!Result(s, answer)
                /\ answer = "RETRY" \/ answer = IF outcome[s] \in Offline!Conflicts THEN "CONFLICT" ELSE outcome[s]
           /\ Offline!Committed(s)
<1>1. step[s] = "inserted" /\ Offline!Write(s) /\ Offline!Committed(s)
  BY DEF Writing, Offline!Commit, Offline!CommitUnanswered
<1>2. Offline!Busy(s) /\ outcome[s] # "none"
  BY <1>1 DEF OfflineInv, SendersInv
<1>3. outcome[s] \in Offline!Settled \cup Offline!Conflicts
  BY <1>2 DEF OfflineInv, Offline!TypeOK
<1>4. CASE Offline!CommitUnanswered(s)
  BY <1>1, <1>2, <1>3, <1>4 DEF Offline!CommitUnanswered, Answers
<1>5. CASE Offline!Commit(s)
  <2>1. PICK answer : answer = IF outcome[s] \in Offline!Conflicts THEN "CONFLICT" ELSE outcome[s]
    OBVIOUS
  <2>2. Offline!Result(s, answer)
    BY <1>5, <2>1 DEF Offline!Commit
  <2>3. answer \in Answers
    BY <1>3, <2>1 DEF Answers
  <2> QED
    BY <1>1, <1>2, <1>3, <2>1, <2>2, <2>3
<1> QED
  BY <1>4, <1>5 DEF Writing

\* A sale that fits leaves a level and a basket of the desk.
LEMMA SaleMoves ==
    ASSUME OfflineInv, NEW basket \in Offline!Baskets, Offline!CanTake(offlineStock, basket)
    PROVE  Offline!Take(offlineStock, basket) \in Offline!Levels
BY OfflineConstants DEF OfflineInv, Offline!TypeOK, Offline!Baskets, Offline!Levels, Offline!CanTake,
                        Offline!Take

\* The rows that a delivery writes.
LEMMA RowsWritten ==
    ASSUME OfflineInv, NEW s \in Senders, step[s] = "inserted", Offline!Write(s)
    PROVE  LET k == Offline!KeyAt(s)
               basket == IF outcome[s] = "CONFIRMED" THEN Sale[Offline!Op(s)] ELSE sold[k]
           IN  /\ k \in Keys /\ Offline!Op(s) \in Ops
               /\ record[k] = "none" /\ content[k] = NoOp /\ conflict[k] \notin Offline!Conflicts
               /\ sold[k] = Offline!Nothing
               /\ record' = [record EXCEPT ![k] =
                              IF outcome[s] \in Offline!Conflicts THEN "CONFLICT" ELSE outcome[s]]
               /\ content' = [content EXCEPT ![k] = Offline!Op(s)]
               /\ conflict' = IF outcome[s] \in Offline!Conflicts
                              THEN [conflict EXCEPT ![k] = outcome[s]] ELSE conflict
               /\ sold' = [sold EXCEPT ![k] = basket]
               /\ basket \in Offline!Baskets
               /\ offlineStock' = IF outcome[s] = "CONFIRMED"
                                  THEN Offline!Take(offlineStock, Sale[Offline!Op(s)]) ELSE offlineStock
               /\ offlineStock' \in Offline!Levels
               /\ UNCHANGED <<counter, offlineMoved>>
<1> DEFINE k == Offline!KeyAt(s)
           o == Offline!Op(s)
           basket == IF outcome[s] = "CONFIRMED" THEN Sale[o] ELSE sold[k]
<1>1. k \in Keys /\ o \in Ops
  BY OpsOfSenders DEF OfflineInv, SendersInv
<1>2. record[k] = "none" /\ (outcome[s] = "CONFIRMED" => Offline!CanTake(offlineStock, Sale[o]))
  BY DEF OfflineInv, SendersInv
<1>3. content[k] = NoOp /\ conflict[k] \notin Offline!Conflicts /\ sold[k] = Offline!Nothing
  BY <1>1, <1>2 DEF OfflineInv, Offline!ReviewPending, Offline!SoldOnce
<1>4. offlineStock \in Offline!Levels /\ sold \in [Keys -> Offline!Baskets]
  BY DEF OfflineInv, Offline!TypeOK
<1>5. basket \in Offline!Baskets
  BY <1>1, <1>4, OfflineConstants
<1>6. /\ record' = [record EXCEPT ![k] =
                     IF outcome[s] \in Offline!Conflicts THEN "CONFLICT" ELSE outcome[s]]
      /\ content' = [content EXCEPT ![k] = o]
      /\ conflict' = IF outcome[s] \in Offline!Conflicts
                     THEN [conflict EXCEPT ![k] = outcome[s]] ELSE conflict
      /\ UNCHANGED <<counter, offlineMoved>>
  BY Zenon DEF Offline!Write
<1>7. /\ offlineStock' = IF outcome[s] = "CONFIRMED" THEN Offline!Take(offlineStock, Sale[o]) ELSE offlineStock
      /\ outcome[s] = "CONFIRMED" => sold' = [sold EXCEPT ![k] = Sale[o]]
      /\ outcome[s] # "CONFIRMED" => sold' = sold
  BY DEF Offline!Write
<1> HIDE DEF k, o
<1>8. sold' = [sold EXCEPT ![k] = basket]
  BY <1>1, <1>4, <1>7
<1>9. offlineStock' \in Offline!Levels
  BY <1>1, <1>2, <1>4, <1>7, SaleMoves, OfflineConstants
<1> QED
  BY <1>1, <1>2, <1>3, <1>5, <1>6, <1>7, <1>8, <1>9 DEF k, o

\* The rows that a review settles.
LEMMA RowsReviewed ==
    ASSUME OfflineInv, NEW k \in Keys, Reviewing(k)
    PROVE  \E to \in Offline!Settled, basket \in Offline!Baskets :
             /\ record[k] = "CONFLICT" /\ conflict[k] \in Offline!Conflicts /\ content[k] \in Ops
             /\ sold[k] = Offline!Nothing
             /\ record' = [record EXCEPT ![k] = to]
             /\ conflict' = [conflict EXCEPT ![k] = "RESOLVED"]
             /\ sold' = [sold EXCEPT ![k] = basket]
             /\ to = "REJECTED" => basket = Offline!Nothing /\ offlineStock' = offlineStock
             /\ to = "CONFIRMED" =>
                  /\ k \notin counter
                  /\ Offline!CanTake(offlineStock, basket)
                  /\ offlineStock' = Offline!Take(offlineStock, basket)
                  /\ {v \in Variants : basket[v] > 0} \cap Offline!Locked = {}
             /\ \A v \in Variants : basket[v] <= Sale[content[k]][v]
             /\ offlineStock' \in Offline!Levels
             /\ UNCHANGED <<content, counter, at, step, outcome, batch, told, offlineMoved>>
<1>1. conflict[k] \in Offline!Conflicts
  BY DEF Reviewing, Offline!Cancel, Offline!Resell, Offline!Resolve
<1>2. record[k] = "CONFLICT" /\ content[k] \in Ops /\ sold[k] = Offline!Nothing
  BY <1>1 DEF OfflineInv, Offline!TypeOK, Offline!ReviewPending, Offline!SoldOnce
<1>3. offlineStock \in Offline!Levels /\ sold \in [Keys -> Offline!Baskets]
  BY DEF OfflineInv, Offline!TypeOK
<1>4. Offline!Nothing \in Offline!Baskets /\ \A v \in Variants : Offline!Nothing[v] <= Sale[content[k]][v]
  <2>1. Offline!Nothing \in Offline!Baskets
    BY <1>2, <1>3
  <2>2. \A v \in Variants : Sale[content[k]][v] \in Nat
    BY <1>2, OfflineConstants
  <2> QED
    BY <2>1, <2>2 DEF Offline!Nothing
<1>5. CASE Offline!Cancel(k)
  <2>1. /\ record' = [record EXCEPT ![k] = "REJECTED"] /\ conflict' = [conflict EXCEPT ![k] = "RESOLVED"]
        /\ UNCHANGED <<content, counter, at, step, outcome, batch, told, offlineMoved, offlineStock, sold>>
    BY <1>5 DEF Offline!Cancel, Offline!Resolve
  <2>2. sold' = [sold EXCEPT ![k] = Offline!Nothing]
    BY <1>2, <1>3, <2>1
  <2>3. "REJECTED" \in Offline!Settled /\ offlineStock' \in Offline!Levels
    BY <1>3, <2>1 DEF Offline!Settled
  <2> QED
    BY <1>1, <1>2, <1>4, <2>1, <2>2, <2>3
<1>6. ASSUME NEW basket \in Offline!Sales, Offline!Resell(k, basket)
      PROVE  /\ basket \in Offline!Baskets
             /\ "CONFIRMED" \in Offline!Settled
             /\ record' = [record EXCEPT ![k] = "CONFIRMED"]
             /\ conflict' = [conflict EXCEPT ![k] = "RESOLVED"]
             /\ sold' = [sold EXCEPT ![k] = basket]
             /\ k \notin counter
             /\ Offline!CanTake(offlineStock, basket)
             /\ offlineStock' = Offline!Take(offlineStock, basket)
             /\ {v \in Variants : basket[v] > 0} \cap Offline!Locked = {}
             /\ \A v \in Variants : basket[v] <= Sale[content[k]][v]
             /\ offlineStock' \in Offline!Levels
             /\ UNCHANGED <<content, counter, at, step, outcome, batch, told, offlineMoved>>
  <2>1. basket \in Offline!Baskets
    BY <1>6 DEF Offline!Sales, Offline!Baskets
  <2>2. /\ record' = [record EXCEPT ![k] = "CONFIRMED"]
        /\ conflict' = [conflict EXCEPT ![k] = "RESOLVED"]
        /\ sold' = [sold EXCEPT ![k] = basket]
        /\ k \notin counter
        /\ Offline!CanTake(offlineStock, basket)
        /\ offlineStock' = Offline!Take(offlineStock, basket)
        /\ {v \in Variants : basket[v] > 0} \cap Offline!Locked = {}
        /\ UNCHANGED <<content, counter, at, step, outcome, batch, told, offlineMoved>>
    BY <1>6 DEF Offline!Resell, Offline!Resolve
  <2>3. \A v \in Variants : basket[v] <= Sale[content[k]][v]
    <3>1. basket = Sale[content[k]] => \A v \in Variants : basket[v] <= Sale[content[k]][v]
      BY <1>2, OfflineConstants
    <3> QED
      BY <1>6, <3>1 DEF Offline!Resell, Offline!Resellable
  <2> QED
    BY <2>1, <2>2, <2>3, SaleMoves DEF Offline!Settled
<1> QED
  BY <1>1, <1>2, <1>5, <1>6 DEF Reviewing

\* Each step of a delivery, of a review and of the counter keeps what the open
\* transactions count on.
LEMMA SilentKeepsSenders == ASSUME OfflineInv, NEW s \in Senders, Silent(s) PROVE SendersInv'
<1>1. /\ Offline!Busy(s)
      /\ UNCHANGED <<offlineStock, record, content, conflict, sold, counter, offlineMoved>>
  BY SilentMoves
<1>2. /\ at \in [Senders -> Nat] /\ at[s] >= 1 /\ outcome \in [Senders -> Offline!Settled \cup Offline!Conflicts \cup {"none"}]
      /\ step \in [Senders -> {"next", "missed", "inserted", "violated"}]
  BY DEF OfflineInv, Offline!TypeOK, SendersInv
<1>3. /\ \A t \in Senders \ {s} : step[t] = "inserted" => record'[Offline!KeyAt(t)] = "none"
      /\ \A t \in Senders \ {s} : outcome[t] = "CONFIRMED" =>
           Offline!KeyAt(t) \notin counter' /\ Offline!CanTake(offlineStock', Sale[Offline!Op(t)])
  BY <1>1 DEF OfflineInv, SendersInv
<1>4. ASSUME NEW answer \in Answers, Offline!Result(s, answer) PROVE SendersInv'
  <2>1. at'[s] >= 1 /\ step'[s] = "next" /\ outcome'[s] = "none"
        /\ \A t \in Senders \ {s} : at'[t] = at[t] /\ step'[t] = step[t] /\ outcome'[t] = outcome[t]
    BY <1>1, <1>2, <1>4, ResultMoves
  <2> QED
    BY <1>3, <2>1, SenderGoesOn
<1>5. ASSUME NEW way \in {"missed", "violated"}, step[s] # "inserted", step' = [step EXCEPT ![s] = way],
             UNCHANGED <<at, outcome>>
      PROVE  SendersInv'
  <2>1. at'[s] >= 1 /\ step'[s] # "inserted" /\ outcome'[s] = "none" /\ Offline!Busy(s)'
        /\ \A t \in Senders \ {s} : at'[t] = at[t] /\ step'[t] = step[t] /\ outcome'[t] = outcome[t]
    BY <1>1, <1>2, <1>5 DEF OfflineInv, SendersInv, Offline!Busy
  <2> QED
    BY <1>3, <2>1, SenderGoesOn
<1>6. CASE Offline!Crash(s)
  <2>1. /\ at' = [at EXCEPT ![s] = Len(Batch[s]) + 1] /\ step' = [step EXCEPT ![s] = "next"]
        /\ outcome' = [outcome EXCEPT ![s] = "none"]
    BY <1>6 DEF Offline!Crash
  <2>2. Len(Batch[s]) \in Nat
    BY OfflineConstants
  <2>3. at'[s] >= 1 /\ step'[s] = "next" /\ outcome'[s] = "none"
        /\ \A t \in Senders \ {s} : at'[t] = at[t] /\ step'[t] = step[t] /\ outcome'[t] = outcome[t]
    BY <1>2, <2>1, <2>2
  <2> QED
    BY <1>3, <2>3, SenderGoesOn
<1>7. ASSUME NEW found \in Offline!Found, step[s] = "missed",
             Offline!Unclaimed(Offline!KeyAt(s)),
             found \in {"same", "dear"} => Offline!Rows(Offline!Op(s)) \cap Offline!Locked = {},
             record[Offline!KeyAt(s)] = "none",
             Offline!Outcome(Offline!Op(s), found) = "CONFIRMED" => Offline!KeyAt(s) \notin counter,
             step' = [step EXCEPT ![s] = "inserted"],
             outcome' = [outcome EXCEPT ![s] = Offline!Outcome(Offline!Op(s), found)],
             UNCHANGED <<at, batch, told>>
      PROVE  SendersInv'
  <2> DEFINE to == Offline!Outcome(Offline!Op(s), found)
  <2>1. /\ to # "none" /\ (to \in Locking => found \in {"same", "dear"})
        /\ to = "CONFIRMED" => Offline!CanTake(offlineStock, Sale[Offline!Op(s)])
    BY <1>1, OpsOfSenders, OutcomeFound
  <2>2. to = "CONFIRMED" => Offline!KeyAt(s) \notin counter
    BY <1>7
  <2>3. /\ step'[s] = "inserted" /\ outcome'[s] = to /\ at' = at
        /\ \A t \in Senders \ {s} : step'[t] = step[t] /\ outcome'[t] = outcome[t]
    BY <1>2, <1>7
  <2> HIDE DEF to
  <2>4. \A t \in Senders : Offline!Op(t)' = Offline!Op(t) /\ Offline!KeyAt(t)' = Offline!KeyAt(t)
                          /\ Offline!Busy(t)' = Offline!Busy(t)
    BY <2>3 DEF Offline!Op, Offline!KeyAt, Offline!Busy
  <2>5. ASSUME NEW t \in Senders
        PROVE  /\ at'[t] >= 1
               /\ step'[t] # "next" => Offline!Busy(t)'
               /\ step'[t] = "inserted" <=> outcome'[t] # "none"
               /\ step'[t] = "inserted" => record'[Offline!KeyAt(t)'] = "none"
               /\ outcome'[t] = "CONFIRMED" =>
                    Offline!KeyAt(t)' \notin counter' /\ Offline!CanTake(offlineStock', Sale[Offline!Op(t)'])
    <3>1. CASE t = s
      BY <1>1, <1>2, <1>7, <2>1, <2>2, <2>3, <2>4, <3>1
    <3>2. CASE t # s
      BY <1>1, <2>3, <2>4, <3>2 DEF OfflineInv, SendersInv
    <3> QED
      BY <3>1, <3>2
  <2>6. ASSUME NEW t \in Senders, t # s, step[t] = "inserted"
        PROVE  /\ Offline!KeyAt(t) # Offline!KeyAt(s)
               /\ to \in Locking /\ outcome[t] \in Locking =>
                    Offline!Rows(Offline!Op(t)) \cap Offline!Rows(Offline!Op(s)) = {}
    <3>1. Offline!KeyAt(t) # Offline!KeyAt(s)
      BY <1>7, <2>6 DEF Offline!Unclaimed
    <3>2. ASSUME to \in Locking, outcome[t] \in Locking
          PROVE  Offline!Rows(Offline!Op(t)) \cap Offline!Rows(Offline!Op(s)) = {}
      <4>1. Offline!Rows(Offline!Op(t)) \subseteq Offline!Locked
        BY <3>2, LockedRows
      <4> QED
        BY <1>7, <2>1, <3>2, <4>1
    <3> QED
      BY <3>1, <3>2
  <2>7. ASSUME NEW t \in Senders, NEW u \in Senders, t # u,
               step'[t] = "inserted", step'[u] = "inserted"
        PROVE  /\ Offline!KeyAt(t)' # Offline!KeyAt(u)'
               /\ outcome'[t] \in Locking /\ outcome'[u] \in Locking =>
                    Offline!Rows(Offline!Op(t)') \cap Offline!Rows(Offline!Op(u)') = {}
    <3>1. CASE t # s /\ u # s
      BY <2>3, <2>4, <2>7, <3>1 DEF OfflineInv, SendersInv
    <3>2. CASE u = s
      BY <2>3, <2>4, <2>6, <2>7, <3>2
    <3>3. CASE t = s
      BY <2>3, <2>4, <2>6, <2>7, <3>3
    <3> QED
      BY <3>1, <3>2, <3>3
  <2> QED
    BY <2>5, <2>7 DEF SendersInv, Offline!CanTake, Offline!Rows
<1>8. step[s] \in {"next", "missed"} => step[s] # "inserted"
  OBVIOUS
<1>9. \/ \E answer \in Answers : Offline!Result(s, answer)
      \/ \E way \in {"missed", "violated"} :
           step[s] # "inserted" /\ step' = [step EXCEPT ![s] = way] /\ UNCHANGED <<at, outcome>>
      \/ \E found \in Offline!Found :
           /\ step[s] = "missed"
           /\ Offline!Unclaimed(Offline!KeyAt(s))
           /\ found \in {"same", "dear"} => Offline!Rows(Offline!Op(s)) \cap Offline!Locked = {}
           /\ record[Offline!KeyAt(s)] = "none"
           /\ Offline!Outcome(Offline!Op(s), found) = "CONFIRMED" => Offline!KeyAt(s) \notin counter
           /\ step' = [step EXCEPT ![s] = "inserted"]
           /\ outcome' = [outcome EXCEPT ![s] = Offline!Outcome(Offline!Op(s), found)]
           /\ UNCHANGED <<at, batch, told>>
      \/ Offline!Crash(s)
  BY SilentMoves
<1> QED
  BY <1>4, <1>5, <1>6, <1>7, <1>9

\* A sender that writes leaves every sender with what it had read.
LEMMA WritingKeepsSenders == ASSUME OfflineInv, NEW s \in Senders, Writing(s) PROVE SendersInv'
<1>1. step[s] = "inserted" /\ Offline!Busy(s) /\ Offline!Write(s) /\ \E answer \in Answers : Offline!Result(s, answer)
  BY WritingMoves
<1>2. /\ outcome \in [Senders -> Offline!Settled \cup Offline!Conflicts \cup {"none"}]
      /\ step \in [Senders -> {"next", "missed", "inserted", "violated"}]
      /\ record \in [Keys -> Offline!Settled \cup {"none", "CONFLICT"}]
      /\ offlineStock \in Offline!Levels
  BY DEF OfflineInv, Offline!TypeOK
<1>3. at'[s] >= 1 /\ step'[s] = "next" /\ outcome'[s] = "none"
      /\ \A t \in Senders \ {s} : at'[t] = at[t] /\ step'[t] = step[t] /\ outcome'[t] = outcome[t]
  <2>1. PICK answer \in Answers : Offline!Result(s, answer)
    BY <1>1
  <2> QED
    BY <1>1, <1>2, <2>1, ResultMoves
<1>4. /\ Offline!Op(s) \in Ops /\ Offline!KeyAt(s) \in Keys
      /\ \A k \in Keys : k # Offline!KeyAt(s) => record'[k] = record[k]
      /\ counter' = counter
      /\ offlineStock' = IF outcome[s] = "CONFIRMED"
                         THEN Offline!Take(offlineStock, Sale[Offline!Op(s)]) ELSE offlineStock
      /\ offlineStock' \in Offline!Levels
  <2>1. record' = [record EXCEPT ![Offline!KeyAt(s)] =
                     IF outcome[s] \in Offline!Conflicts THEN "CONFLICT" ELSE outcome[s]]
    BY <1>1, RowsWritten
  <2>2. /\ Offline!Op(s) \in Ops /\ Offline!KeyAt(s) \in Keys
        /\ counter' = counter
        /\ offlineStock' = IF outcome[s] = "CONFIRMED"
                           THEN Offline!Take(offlineStock, Sale[Offline!Op(s)]) ELSE offlineStock
        /\ offlineStock' \in Offline!Levels
    BY <1>1, RowsWritten
  <2> QED
    BY <1>2, <2>1, <2>2
<1>5. ASSUME NEW t \in Senders \ {s}, step[t] = "inserted"
      PROVE  Offline!KeyAt(t) \in Keys /\ Offline!Op(t) \in Ops /\ record'[Offline!KeyAt(t)] = "none"
  <2>1. Offline!Busy(t) /\ record[Offline!KeyAt(t)] = "none" /\ Offline!KeyAt(t) # Offline!KeyAt(s)
    BY <1>1, <1>5 DEF OfflineInv, SendersInv
  <2> QED
    BY <1>4, <2>1, OpsOfSenders
<1>6. ASSUME NEW t \in Senders \ {s}, outcome[t] = "CONFIRMED"
      PROVE  Offline!KeyAt(t) \notin counter' /\ Offline!CanTake(offlineStock', Sale[Offline!Op(t)])
  <2>1. /\ step[t] = "inserted" /\ Offline!KeyAt(t) \notin counter
        /\ Offline!CanTake(offlineStock, Sale[Offline!Op(t)])
    BY <1>6 DEF OfflineInv, SendersInv
  <2>2. CASE outcome[s] = "CONFIRMED"
    <3>1. Offline!Rows(Offline!Op(s)) \cap Offline!Rows(Offline!Op(t)) = {}
      BY <1>1, <1>6, <2>1, <2>2 DEF OfflineInv, SendersInv, Locking
    <3>2. ASSUME NEW v \in Offline!Rows(Offline!Op(t)) PROVE offlineStock'[v] = offlineStock[v]
      <4>1. v \in Variants /\ ~(Sale[Offline!Op(s)][v] > 0)
        BY <3>1 DEF Offline!Rows
      <4>2. Sale[Offline!Op(s)][v] = 0 /\ offlineStock[v] \in Int
        BY <1>2, <1>4, <4>1, OfflineConstants DEF Offline!Levels
      <4> QED
        BY <1>4, <2>2, <4>1, <4>2 DEF Offline!Take
    <3> QED
      BY <1>2, <1>4, <1>5, <2>1, <3>2, StillFits
  <2>3. CASE outcome[s] # "CONFIRMED"
    BY <1>4, <2>1, <2>3
  <2> QED
    BY <1>4, <2>1, <2>2, <2>3
<1> QED
  BY <1>3, <1>5, <1>6, SenderGoesOn

\* Units that leave the rows that nobody has locked leave the others be.
LEMMA TakenElsewhere ==
    ASSUME OfflineInv, NEW basket \in Offline!Baskets,
           {v \in Variants : basket[v] > 0} \cap Offline!Locked = {},
           Offline!CanTake(offlineStock, basket), offlineStock' = Offline!Take(offlineStock, basket),
           NEW t \in Senders, outcome[t] = "CONFIRMED"
    PROVE  Offline!CanTake(offlineStock', Sale[Offline!Op(t)])
<1>1. /\ step[t] = "inserted" /\ Offline!Busy(t) /\ Offline!CanTake(offlineStock, Sale[Offline!Op(t)])
      /\ offlineStock \in Offline!Levels
  BY DEF OfflineInv, SendersInv, Offline!TypeOK
<1>2. Offline!Rows(Offline!Op(t)) \subseteq Offline!Locked
  BY LockedRows DEF Locking
<1>3. ASSUME NEW v \in Offline!Rows(Offline!Op(t)) PROVE offlineStock'[v] = offlineStock[v]
  <2>1. v \in Variants /\ ~(basket[v] > 0)
    BY <1>2 DEF Offline!Rows
  <2>2. basket[v] = 0 /\ offlineStock[v] \in Int
    BY <1>1, <2>1, OfflineConstants DEF Offline!Baskets, Offline!Levels
  <2> QED
    BY <2>1, <2>2 DEF Offline!Take
<1>4. offlineStock' \in Offline!Levels
  BY SaleMoves
<1> QED
  BY <1>1, <1>3, <1>4, OpsOfSenders, StillFits

\* A review leaves every sender with what it had read.
LEMMA ReviewingKeepsSenders == ASSUME OfflineInv, NEW k \in Keys, Reviewing(k) PROVE SendersInv'
<1>1. PICK to \in Offline!Settled, basket \in Offline!Baskets :
             /\ record[k] = "CONFLICT"
             /\ record' = [record EXCEPT ![k] = to]
             /\ to = "REJECTED" => offlineStock' = offlineStock
             /\ to = "CONFIRMED" =>
                  /\ Offline!CanTake(offlineStock, basket)
                  /\ offlineStock' = Offline!Take(offlineStock, basket)
                  /\ {v \in Variants : basket[v] > 0} \cap Offline!Locked = {}
             /\ UNCHANGED <<counter, at, step, outcome>>
  BY RowsReviewed
<1>2. ASSUME NEW t \in Senders, step[t] = "inserted" PROVE record'[Offline!KeyAt(t)] = "none"
  BY <1>1, <1>2 DEF OfflineInv, SendersInv, Offline!TypeOK
<1>3. ASSUME NEW t \in Senders, outcome[t] = "CONFIRMED"
      PROVE  Offline!KeyAt(t) \notin counter' /\ Offline!CanTake(offlineStock', Sale[Offline!Op(t)])
  <2>1. Offline!KeyAt(t) \notin counter /\ Offline!CanTake(offlineStock, Sale[Offline!Op(t)])
    BY <1>3 DEF OfflineInv, SendersInv
  <2>2. CASE to = "REJECTED"
    BY <1>1, <2>1, <2>2
  <2>3. CASE to = "CONFIRMED"
    BY <1>1, <1>3, <2>1, <2>3, TakenElsewhere
  <2> QED
    BY <2>2, <2>3 DEF Offline!Settled
<1> QED
  BY <1>1, <1>2, <1>3, SendersStay

\* A sale at the counter leaves every sender with what it had read.
LEMMA CounterKeepsSenders == ASSUME OfflineInv, NEW o \in Ops, Offline!PosSale(o) PROVE SendersInv'
<1>1. /\ Offline!Unclaimed(KeyOf[o]) /\ Offline!Rows(o) \cap Offline!Locked = {}
      /\ Offline!CanTake(offlineStock, Sale[o]) /\ offlineStock' = Offline!Take(offlineStock, Sale[o])
      /\ counter' = counter \cup {KeyOf[o]}
      /\ UNCHANGED <<record, at, step, outcome>>
  BY DEF Offline!PosSale, Offline!records
<1>2. \A t \in Senders : step[t] = "inserted" => record'[Offline!KeyAt(t)] = "none"
  BY <1>1 DEF OfflineInv, SendersInv
<1>3. ASSUME NEW t \in Senders, outcome[t] = "CONFIRMED"
      PROVE  Offline!KeyAt(t) \notin counter' /\ Offline!CanTake(offlineStock', Sale[Offline!Op(t)])
  <2>1. Offline!KeyAt(t) \notin counter'
    BY <1>1, <1>3 DEF OfflineInv, SendersInv, Offline!Unclaimed
  <2>2. Sale[o] \in Offline!Baskets /\ {v \in Variants : Sale[o][v] > 0} \cap Offline!Locked = {}
    BY <1>1, OfflineConstants DEF Offline!Rows
  <2> QED
    BY <1>1, <1>3, <2>1, <2>2, TakenElsewhere
<1> QED
  BY <1>1, <1>2, <1>3, SendersStay

\* What the rest of the shop does to the shelf leaves the senders as they were.
LEMMA ChangeKeepsSenders ==
    ASSUME OfflineInv, NEW v \in Variants, NEW delta \in {-1, 1}, Offline!Change(v, delta)
    PROVE  SendersInv' /\ offlineStock' \in Offline!Levels
<1>1. /\ v \notin Offline!Locked
      /\ offlineStock' = [offlineStock EXCEPT ![v] = offlineStock[v] + delta]
      /\ offlineStock[v] + delta \in 0 .. SaleCeiling
      /\ UNCHANGED <<record, counter, at, step, outcome>>
  BY Zenon DEF Offline!Change, Offline!records
<1>2. offlineStock \in Offline!Levels
  BY DEF OfflineInv, Offline!TypeOK
<1>3. offlineStock' \in Offline!Levels
  BY <1>1, <1>2 DEF Offline!Levels
<1>4. ASSUME NEW t \in Senders, outcome[t] = "CONFIRMED"
      PROVE  Offline!KeyAt(t) \notin counter' /\ Offline!CanTake(offlineStock', Sale[Offline!Op(t)])
  <2>1. /\ step[t] = "inserted" /\ Offline!Busy(t) /\ Offline!KeyAt(t) \notin counter
        /\ Offline!CanTake(offlineStock, Sale[Offline!Op(t)])
    BY <1>4 DEF OfflineInv, SendersInv
  <2>2. Offline!Rows(Offline!Op(t)) \subseteq Offline!Locked
    BY <1>4, LockedRows DEF Locking
  <2>3. \A w \in Offline!Rows(Offline!Op(t)) : offlineStock'[w] = offlineStock[w]
    BY <1>1, <1>2, <2>2 DEF Offline!Rows, Offline!Levels
  <2> QED
    BY <1>1, <1>2, <1>3, <2>1, <2>3, OpsOfSenders, StillFits
<1>5. \A t \in Senders : step[t] = "inserted" => record'[Offline!KeyAt(t)] = "none"
  BY <1>1 DEF OfflineInv, SendersInv
<1> QED
  BY <1>1, <1>3, <1>4, <1>5, SendersStay

-----------------------------------------------------------------------------
\* The rows of the keys: what a key sold, what waits for a review.
LEMMA WritingKeepsRows ==
    ASSUME OfflineInv, NEW s \in Senders, step[s] = "inserted", Offline!Write(s)
    PROVE  (Offline!SoldOnce /\ Offline!ReviewPending)' /\ Offline!SettledStays
<1> DEFINE k == Offline!KeyAt(s)
           o == Offline!Op(s)
           basket == IF outcome[s] = "CONFIRMED" THEN Sale[o] ELSE sold[k]
           row == IF outcome[s] \in Offline!Conflicts THEN "CONFLICT" ELSE outcome[s]
<1>1. /\ k \in Keys /\ o \in Ops
      /\ record[k] = "none" /\ content[k] = NoOp /\ conflict[k] \notin Offline!Conflicts
      /\ sold[k] = Offline!Nothing
      /\ record' = [record EXCEPT ![k] = row]
      /\ content' = [content EXCEPT ![k] = o]
      /\ conflict' = IF outcome[s] \in Offline!Conflicts
                     THEN [conflict EXCEPT ![k] = outcome[s]] ELSE conflict
      /\ sold' = [sold EXCEPT ![k] = basket]
      /\ counter' = counter
  BY RowsWritten
<1>2. /\ record \in [Keys -> Offline!Settled \cup {"none", "CONFLICT"}]
      /\ content \in [Keys -> Ops \cup {NoOp}]
      /\ conflict \in [Keys -> Offline!Conflicts \cup {"none", "RESOLVED"}]
      /\ sold \in [Keys -> Offline!Baskets]
      /\ outcome[s] \in Offline!Settled \cup Offline!Conflicts
      /\ outcome[s] = "CONFIRMED" => k \notin counter
      /\ NoOp \notin Ops
  BY OfflineConstants DEF OfflineInv, Offline!TypeOK, SendersInv
<1>3. /\ row # "none" /\ (row = "CONFIRMED" <=> outcome[s] = "CONFIRMED")
      /\ (row = "CONFLICT" <=> outcome[s] \in Offline!Conflicts)
      /\ row # "CONFIRMED" => basket = Offline!Nothing
      /\ \A v \in Variants : basket[v] <= Sale[o][v]
  <2>1. /\ row # "none" /\ (row = "CONFIRMED" <=> outcome[s] = "CONFIRMED")
        /\ (row = "CONFLICT" <=> outcome[s] \in Offline!Conflicts)
    BY <1>2 DEF Offline!Settled, Offline!Conflicts
  <2>2. row # "CONFIRMED" => basket = Offline!Nothing
    BY <1>1, <2>1
  <2>3. ASSUME NEW v \in Variants PROVE basket[v] <= Sale[o][v]
    <3>1. Sale[o][v] \in Nat /\ Offline!Nothing[v] = 0
      BY <1>1, OfflineConstants DEF Offline!Nothing
    <3> QED
      BY <1>1, <3>1
  <2> QED
    BY <2>1, <2>2, <2>3
<1> HIDE DEF k, o, basket, row
<1>4. /\ record'[k] = row /\ content'[k] = o /\ sold'[k] = basket
      /\ \A j \in Keys : j # k => /\ record'[j] = record[j] /\ content'[j] = content[j]
                                  /\ conflict'[j] = conflict[j] /\ sold'[j] = sold[j]
      /\ conflict'[k] = IF outcome[s] \in Offline!Conflicts THEN outcome[s] ELSE conflict[k]
  BY <1>1, <1>2
<1>5. Offline!SoldOnce'
  <2>1. ASSUME NEW j \in Keys
        PROVE  /\ record'[j] = "CONFIRMED" => j \notin counter'
               /\ record'[j] # "CONFIRMED" => sold'[j] = Offline!Nothing
               /\ content'[j] # NoOp => \A v \in Variants : sold'[j][v] <= Sale[content'[j]][v]
    <3>1. CASE j = k
      BY <1>1, <1>2, <1>3, <1>4, <3>1
    <3>2. CASE j # k
      BY <1>1, <1>4, <3>2 DEF OfflineInv, Offline!SoldOnce
    <3> QED
      BY <3>1, <3>2
  <2> QED
    BY <2>1 DEF Offline!SoldOnce, Offline!Nothing
<1>6. Offline!ReviewPending'
  BY <1>1, <1>2, <1>3, <1>4 DEF OfflineInv, Offline!ReviewPending
<1>7. Offline!SettledStays
  BY <1>1, <1>4 DEF Offline!SettledStays, Offline!Settled
<1> QED
  BY <1>5, <1>6, <1>7

\* A review sells a key that nobody sold, and closes its conflict.
LEMMA ReviewingKeepsRows ==
    ASSUME OfflineInv, NEW k \in Keys, Reviewing(k)
    PROVE  (Offline!SoldOnce /\ Offline!ReviewPending)' /\ Offline!SettledStays
<1>1. PICK to \in Offline!Settled, basket \in Offline!Baskets :
             /\ record[k] = "CONFLICT" /\ conflict[k] \in Offline!Conflicts /\ content[k] \in Ops
             /\ record' = [record EXCEPT ![k] = to]
             /\ conflict' = [conflict EXCEPT ![k] = "RESOLVED"]
             /\ sold' = [sold EXCEPT ![k] = basket]
             /\ to = "REJECTED" => basket = Offline!Nothing
             /\ to = "CONFIRMED" => k \notin counter
             /\ \A v \in Variants : basket[v] <= Sale[content[k]][v]
             /\ UNCHANGED <<content, counter>>
  BY RowsReviewed
<1>2. /\ record \in [Keys -> Offline!Settled \cup {"none", "CONFLICT"}]
      /\ content \in [Keys -> Ops \cup {NoOp}]
      /\ conflict \in [Keys -> Offline!Conflicts \cup {"none", "RESOLVED"}]
      /\ sold \in [Keys -> Offline!Baskets]
      /\ NoOp \notin Ops
      /\ to \in {"CONFIRMED", "REJECTED"}
  BY OfflineConstants DEF OfflineInv, Offline!TypeOK, Offline!Settled
<1>3. /\ record'[k] = to /\ sold'[k] = basket /\ conflict'[k] = "RESOLVED"
      /\ \A j \in Keys : j # k => /\ record'[j] = record[j]
                                  /\ conflict'[j] = conflict[j] /\ sold'[j] = sold[j]
  BY <1>1, <1>2
<1>4. Offline!SoldOnce'
  <2>1. ASSUME NEW j \in Keys
        PROVE  /\ record'[j] = "CONFIRMED" => j \notin counter'
               /\ record'[j] # "CONFIRMED" => sold'[j] = Offline!Nothing
               /\ content'[j] # NoOp => \A v \in Variants : sold'[j][v] <= Sale[content'[j]][v]
    <3>1. CASE j = k
      BY <1>1, <1>2, <1>3, <3>1
    <3>2. CASE j # k
      BY <1>1, <1>3, <3>2 DEF OfflineInv, Offline!SoldOnce
    <3> QED
      BY <3>1, <3>2
  <2> QED
    BY <2>1 DEF Offline!SoldOnce, Offline!Nothing
<1>5. Offline!ReviewPending'
  BY <1>1, <1>2, <1>3 DEF OfflineInv, Offline!ReviewPending, Offline!Conflicts
<1>6. Offline!SettledStays
  BY <1>1, <1>3 DEF Offline!SettledStays, Offline!Settled
<1> QED
  BY <1>4, <1>5, <1>6

-----------------------------------------------------------------------------
\* An answer about an operation says what the row of its key says: its state
\* and the operation it keeps.
Truthful(answer, o, row, kept) ==
    /\ answer \in Offline!Settled => row = answer /\ kept = o
    /\ answer = "CONFLICT" => kept = o
    /\ answer = "REUSED" => kept \notin {o, NoOp}

\* A row that settles stays, and so does what a key stands for: the answers
\* that were given remain true, beside those that are given now.
LEMMA AnswersStay ==
    ASSUME OfflineInv, Offline!SettledStays,
           \A k \in Keys : content[k] # NoOp => content'[k] = content[k],
           \A t \in Senders, o \in Ops :
             \/ told'[t][o] = told[t][o]
             \/ told'[t][o] \in {"none", "RETRY"}
             \/ Truthful(told'[t][o], o, record'[KeyOf[o]], content'[KeyOf[o]])
    PROVE  Offline!AnswersTrue'
<1> SUFFICES ASSUME NEW t \in Senders, NEW o \in Ops
             PROVE  Truthful(told'[t][o], o, record'[KeyOf[o]], content'[KeyOf[o]])
  BY DEF Offline!AnswersTrue, Truthful, Offline!Settled
<1>1. KeyOf[o] \in Keys /\ NoOp \notin Ops
  BY OfflineConstants
<1>2. CASE told'[t][o] = told[t][o]
  <2>1. /\ told[t][o] \in Offline!Settled => record[KeyOf[o]] = told[t][o] /\ content[KeyOf[o]] = o
        /\ told[t][o] = "CONFLICT" => content[KeyOf[o]] = o
        /\ told[t][o] = "REUSED" => content[KeyOf[o]] \notin {o, NoOp}
    BY DEF OfflineInv, Offline!AnswersTrue
  <2>2. record[KeyOf[o]] \in Offline!Settled => record'[KeyOf[o]] = record[KeyOf[o]]
    BY <1>1 DEF Offline!SettledStays
  <2>3. /\ told'[t][o] \in Offline!Settled => record'[KeyOf[o]] = told'[t][o] /\ content'[KeyOf[o]] = o
        /\ told'[t][o] = "CONFLICT" => content'[KeyOf[o]] = o
        /\ told'[t][o] = "REUSED" => content'[KeyOf[o]] \notin {o, NoOp}
    BY <1>1, <1>2, <2>1, <2>2
  <2> QED
    BY <2>3 DEF Truthful, Offline!Settled
<1>3. CASE told'[t][o] \in {"none", "RETRY"}
  BY <1>3 DEF Truthful, Offline!Settled
<1> QED
  BY <1>2, <1>3

\* A step that writes no row gives no false answer.
LEMMA SilentKeepsAnswers == ASSUME OfflineInv, NEW s \in Senders, Silent(s) PROVE Offline!AnswersTrue'
<1>1. /\ Offline!Busy(s)
      /\ UNCHANGED <<offlineStock, record, content, conflict, sold, counter, offlineMoved>>
  BY SilentMoves
<1>2. Offline!SettledStays /\ \A k \in Keys : content[k] # NoOp => content'[k] = content[k]
  BY <1>1 DEF Offline!SettledStays
<1>3. ASSUME NEW answer \in Answers, Offline!Result(s, answer),
             answer # "RETRY" =>
               record[Offline!KeyAt(s)] # "none" /\ answer = Offline!Replay(Offline!Op(s))
      PROVE  Offline!AnswersTrue'
  <2> DEFINE o == Offline!Op(s)
  <2>1. /\ o \in Ops /\ KeyOf[o] = Offline!KeyAt(s) /\ KeyOf[o] \in Keys
        /\ \A t \in Senders, p \in Ops : t # s \/ p # o => told'[t][p] = told[t][p]
        /\ told'[s][o] = answer
    BY <1>1, <1>3, OpsOfSenders, ResultMoves
  <2>2. answer # "RETRY" => record[KeyOf[o]] # "none"
                            /\ answer = IF content[KeyOf[o]] = o THEN record[KeyOf[o]] ELSE "REUSED"
    BY <1>3, <2>1 DEF Offline!Replay
  <2> HIDE DEF o
  <2>3. record[KeyOf[o]] = "none" <=> content[KeyOf[o]] = NoOp
    BY <2>1 DEF OfflineInv, Offline!ReviewPending
  <2>4. /\ answer \in Offline!Settled => record'[KeyOf[o]] = answer /\ content'[KeyOf[o]] = o
        /\ answer = "CONFLICT" => content'[KeyOf[o]] = o
        /\ answer = "REUSED" => content'[KeyOf[o]] \notin {o, NoOp}
    <3>1. record[KeyOf[o]] \in Offline!Settled \cup {"none", "CONFLICT"}
      BY <2>1 DEF OfflineInv, Offline!TypeOK
    <3> QED
      BY <1>1, <2>2, <2>3, <3>1 DEF Offline!Settled
  <2>5. Truthful(told'[s][o], o, record'[KeyOf[o]], content'[KeyOf[o]])
    BY <2>1, <2>4 DEF Truthful, Offline!Settled
  <2> QED
    BY <1>2, <2>1, <2>5, AnswersStay
<1>4. ASSUME UNCHANGED told PROVE Offline!AnswersTrue'
  BY <1>2, <1>4, AnswersStay
<1>5. CASE Offline!Crash(s)
  <2>1. told' = [told EXCEPT ![s] = [o \in Ops |-> "none"]]
    BY <1>5 DEF Offline!Crash
  <2>2. told \in [Senders -> [Ops -> Answers \cup {"none"}]]
    BY DEF OfflineInv, Offline!TypeOK, Answers
  <2>3. \A t \in Senders, o \in Ops : told'[t][o] = told[t][o] \/ told'[t][o] = "none"
    BY <2>1, <2>2
  <2> QED
    BY <1>2, <2>3, AnswersStay
<1>6. \/ \E answer \in Answers :
           /\ Offline!Result(s, answer)
           /\ answer # "RETRY" =>
                record[Offline!KeyAt(s)] # "none" /\ answer = Offline!Replay(Offline!Op(s))
      \/ UNCHANGED told
      \/ Offline!Crash(s)
  BY SilentMoves
<1> QED
  BY <1>3, <1>4, <1>5, <1>6

\* A sender that writes answers what it wrote.
LEMMA WritingKeepsAnswers == ASSUME OfflineInv, NEW s \in Senders, Writing(s) PROVE Offline!AnswersTrue'
<1> DEFINE o == Offline!Op(s)
           row == IF outcome[s] \in Offline!Conflicts THEN "CONFLICT" ELSE outcome[s]
<1>1. /\ step[s] = "inserted" /\ Offline!Busy(s) /\ Offline!Write(s)
      /\ outcome[s] \in Offline!Settled \cup Offline!Conflicts
  BY WritingMoves
<1>2. PICK answer \in Answers : Offline!Result(s, answer) /\ (answer = "RETRY" \/ answer = row)
  BY WritingMoves
<1>3. /\ o \in Ops /\ KeyOf[o] \in Keys
      /\ \A t \in Senders, p \in Ops : t # s \/ p # o => told'[t][p] = told[t][p]
      /\ told'[s][o] = answer
  BY <1>1, <1>2, OpsOfSenders, ResultMoves
<1>4. /\ content[KeyOf[o]] = NoOp
      /\ record' = [record EXCEPT ![KeyOf[o]] = row] /\ content' = [content EXCEPT ![KeyOf[o]] = o]
  <2>1. KeyOf[o] = Offline!KeyAt(s)
    BY <1>1, OpsOfSenders
  <2> QED
    BY <1>1, <2>1, RowsWritten
<1>5. record \in [Keys -> Offline!Settled \cup {"none", "CONFLICT"}] /\ content \in [Keys -> Ops \cup {NoOp}]
  BY DEF OfflineInv, Offline!TypeOK
<1>6. record'[KeyOf[o]] = row /\ content'[KeyOf[o]] = o /\ NoOp \notin Ops
      /\ \A k \in Keys : content[k] # NoOp => content'[k] = content[k]
  BY <1>3, <1>4, <1>5, OfflineConstants
<1>7. /\ row \in Offline!Settled => record'[KeyOf[o]] = row /\ content'[KeyOf[o]] = o
      /\ row = "CONFLICT" => content'[KeyOf[o]] = o
      /\ row # "REUSED"
  BY <1>1, <1>6 DEF Offline!Settled, Offline!Conflicts
<1>8. told'[s][o] = "RETRY" \/ Truthful(told'[s][o], o, record'[KeyOf[o]], content'[KeyOf[o]])
  <2> HIDE DEF row, o
  <2> QED
    BY <1>2, <1>3, <1>7 DEF Truthful, Offline!Settled
<1>9. Offline!SettledStays
  BY <1>1, WritingKeepsRows
<1> HIDE DEF row, o
<1> QED
  BY <1>3, <1>6, <1>8, <1>9, AnswersStay

-----------------------------------------------------------------------------
\* Every step of the offline sales keeps their types.
LEMMA OfflineStaysTyped == OfflineInv /\ [Offline!Next]_offlineVars => Offline!TypeOK'
<1> SUFFICES ASSUME OfflineInv, [Offline!Next]_offlineVars PROVE Offline!TypeOK'
  OBVIOUS
<1>0. /\ offlineStock \in Offline!Levels
      /\ record \in [Keys -> Offline!Settled \cup {"none", "CONFLICT"}]
      /\ content \in [Keys -> Ops \cup {NoOp}]
      /\ conflict \in [Keys -> Offline!Conflicts \cup {"none", "RESOLVED"}]
      /\ sold \in [Keys -> Offline!Baskets]
      /\ counter \subseteq Keys
      /\ at \in [Senders -> Nat]
      /\ step \in [Senders -> {"next", "missed", "inserted", "violated"}]
      /\ outcome \in [Senders -> Offline!Settled \cup Offline!Conflicts \cup {"none"}]
      /\ batch \in [Senders -> {"new", "saved", "lost"}]
      /\ told \in [Senders -> [Ops -> Answers \cup {"none"}]]
      /\ offlineMoved \in [Variants -> Int]
      /\ Answers \cup {"none"} = Offline!Settled \cup {"none", "CONFLICT", "RETRY", "REUSED"}
  BY DEF OfflineInv, Offline!TypeOK, Answers
<1>1. CASE UNCHANGED offlineVars
  BY <1>1 DEF OfflineInv, Offline!TypeOK, offlineVars, Offline!Levels, Offline!Baskets
<1>2. ASSUME NEW s \in Senders, Silent(s) PROVE Offline!TypeOK'
  <2>1. /\ Offline!Busy(s)
        /\ UNCHANGED <<offlineStock, record, content, conflict, sold, counter, offlineMoved>>
    BY <1>2, SilentMoves
  <2>2. ASSUME at' \in [Senders -> Nat], step' \in [Senders -> {"next", "missed", "inserted", "violated"}],
               outcome' \in [Senders -> Offline!Settled \cup Offline!Conflicts \cup {"none"}],
               batch' \in [Senders -> {"new", "saved", "lost"}],
               told' \in [Senders -> [Ops -> Answers \cup {"none"}]]
        PROVE  Offline!TypeOK'
    BY <1>0, <2>1, <2>2
       DEF Offline!TypeOK, Offline!Levels, Offline!Baskets, Offline!Settled, Offline!Conflicts
  <2>3. ASSUME NEW answer \in Answers, Offline!Result(s, answer), Offline!Committed(s) \/ Offline!RolledBack(s)
        PROVE  Offline!TypeOK'
    <3>1. /\ at' \in [Senders -> Nat] /\ step' = [step EXCEPT ![s] = "next"]
          /\ outcome' = [outcome EXCEPT ![s] = "none"] /\ told' \in [Senders -> [Ops -> Answers \cup {"none"}]]
      BY <2>1, <2>3, ResultMoves
    <3>2. batch' \in [Senders -> {"new", "saved", "lost"}]
      BY <2>3, BatchTyped
    <3> QED
      BY <1>0, <2>2, <3>1, <3>2
  <2>4. ASSUME NEW way \in {"missed", "violated"}, step' = [step EXCEPT ![s] = way],
               UNCHANGED <<at, outcome, batch, told>>
        PROVE  Offline!TypeOK'
    BY <1>0, <2>2, <2>4
  <2>5. ASSUME NEW found \in Offline!Found, step' = [step EXCEPT ![s] = "inserted"],
               outcome' = [outcome EXCEPT ![s] = Offline!Outcome(Offline!Op(s), found)],
               UNCHANGED <<at, batch, told>>
        PROVE  Offline!TypeOK'
    <3>1. Offline!Outcome(Offline!Op(s), found) \in Offline!Settled \cup Offline!Conflicts
      BY <2>1, OpsOfSenders, OutcomeFound
    <3> QED
      BY <1>0, <2>2, <2>5, <3>1
  <2>6. CASE Offline!Crash(s)
    <3>1. /\ at' = [at EXCEPT ![s] = Len(Batch[s]) + 1] /\ step' = [step EXCEPT ![s] = "next"]
          /\ outcome' = [outcome EXCEPT ![s] = "none"] /\ UNCHANGED batch
          /\ told' = [told EXCEPT ![s] = [o \in Ops |-> "none"]]
      BY <2>6 DEF Offline!Crash
    <3>2. Len(Batch[s]) + 1 \in Nat
      BY OfflineConstants
    <3>3. told' \in [Senders -> [Ops -> Answers \cup {"none"}]]
      BY <1>0, <3>1
    <3>4. at' \in [Senders -> Nat] /\ batch' \in [Senders -> {"new", "saved", "lost"}]
      BY <1>0, <3>1, <3>2
    <3> QED
      BY <1>0, <2>2, <3>1, <3>3, <3>4
  <2>7. \/ \E answer \in Answers : Offline!Result(s, answer) /\ (Offline!Committed(s) \/ Offline!RolledBack(s))
        \/ \E way \in {"missed", "violated"} :
             step' = [step EXCEPT ![s] = way] /\ UNCHANGED <<at, outcome, batch, told>>
        \/ \E found \in Offline!Found :
             /\ step' = [step EXCEPT ![s] = "inserted"]
             /\ outcome' = [outcome EXCEPT ![s] = Offline!Outcome(Offline!Op(s), found)]
             /\ UNCHANGED <<at, batch, told>>
        \/ Offline!Crash(s)
    BY <1>2, SilentMoves
  <2> QED
    BY <2>3, <2>4, <2>5, <2>6, <2>7
<1>3. ASSUME NEW s \in Senders, Writing(s) PROVE Offline!TypeOK'
  <2>1. /\ step[s] = "inserted" /\ Offline!Busy(s) /\ Offline!Write(s) /\ Offline!Committed(s)
        /\ outcome[s] \in Offline!Settled \cup Offline!Conflicts
        /\ \E answer \in Answers : Offline!Result(s, answer)
    BY <1>3, WritingMoves
  <2>2. PICK answer \in Answers : Offline!Result(s, answer)
    BY <2>1
  <2>3. /\ at' \in [Senders -> Nat] /\ step' = [step EXCEPT ![s] = "next"]
        /\ outcome' = [outcome EXCEPT ![s] = "none"] /\ told' \in [Senders -> [Ops -> Answers \cup {"none"}]]
    BY <2>1, <2>2, ResultMoves
  <2>4. batch' \in [Senders -> {"new", "saved", "lost"}]
    BY <2>1, BatchTyped
  <2>5. /\ \E k \in Keys, o \in Ops, basket \in Offline!Baskets :
              /\ record' = [record EXCEPT ![k] =
                              IF outcome[s] \in Offline!Conflicts THEN "CONFLICT" ELSE outcome[s]]
              /\ content' = [content EXCEPT ![k] = o]
              /\ conflict' = IF outcome[s] \in Offline!Conflicts
                             THEN [conflict EXCEPT ![k] = outcome[s]] ELSE conflict
              /\ sold' = [sold EXCEPT ![k] = basket]
        /\ offlineStock' \in Offline!Levels
        /\ UNCHANGED <<counter, offlineMoved>>
    BY <2>1, RowsWritten
  <2>6. /\ record' \in [Keys -> Offline!Settled \cup {"none", "CONFLICT"}]
        /\ content' \in [Keys -> Ops \cup {NoOp}]
        /\ conflict' \in [Keys -> Offline!Conflicts \cup {"none", "RESOLVED"}]
        /\ sold' \in [Keys -> Offline!Baskets]
    BY <1>0, <2>1, <2>5
  <2> QED
    BY <1>0, <2>3, <2>4, <2>5, <2>6
       DEF Offline!TypeOK, Offline!Levels, Offline!Baskets, Offline!Settled, Offline!Conflicts
<1>4. ASSUME NEW k \in Keys, Reviewing(k) PROVE Offline!TypeOK'
  <2>1. PICK to \in Offline!Settled, basket \in Offline!Baskets :
             /\ record' = [record EXCEPT ![k] = to]
             /\ conflict' = [conflict EXCEPT ![k] = "RESOLVED"]
             /\ sold' = [sold EXCEPT ![k] = basket]
             /\ offlineStock' \in Offline!Levels
             /\ UNCHANGED <<content, counter, at, step, outcome, batch, told, offlineMoved>>
    BY <1>4, RowsReviewed
  <2>2. /\ record' \in [Keys -> Offline!Settled \cup {"none", "CONFLICT"}]
        /\ conflict' \in [Keys -> Offline!Conflicts \cup {"none", "RESOLVED"}]
        /\ sold' \in [Keys -> Offline!Baskets]
    BY <1>0, <2>1
  <2> QED
    BY <1>0, <2>1, <2>2
       DEF Offline!TypeOK, Offline!Levels, Offline!Baskets, Offline!Settled, Offline!Conflicts
<1>5. ASSUME NEW o \in Ops, Offline!PosSale(o) PROVE Offline!TypeOK'
  <2>1. /\ Offline!CanTake(offlineStock, Sale[o]) /\ offlineStock' = Offline!Take(offlineStock, Sale[o])
        /\ counter' = counter \cup {KeyOf[o]}
        /\ offlineMoved' = [v \in Variants |-> offlineMoved[v] - Sale[o][v]]
        /\ UNCHANGED <<record, content, conflict, sold, at, step, outcome, batch, told>>
    BY <1>5 DEF Offline!PosSale, Offline!records
  <2>2. offlineStock' \in Offline!Levels /\ KeyOf[o] \in Keys
    BY <2>1, SaleMoves, OfflineConstants
  <2>3. offlineMoved' \in [Variants -> Int]
    BY <1>0, <2>1, OfflineConstants
  <2> QED
    BY <1>0, <2>1, <2>2, <2>3
       DEF Offline!TypeOK, Offline!Levels, Offline!Baskets, Offline!Settled, Offline!Conflicts
<1>6. ASSUME NEW v \in Variants, NEW delta \in {-1, 1}, Offline!Change(v, delta) PROVE Offline!TypeOK'
  <2>1. /\ offlineMoved' = [offlineMoved EXCEPT ![v] = offlineMoved[v] + delta]
        /\ UNCHANGED <<record, content, conflict, sold, counter, at, step, outcome, batch, told>>
    BY <1>6, Zenon DEF Offline!Change, Offline!records
  <2>2. offlineStock' \in Offline!Levels
    BY <1>6, ChangeKeepsSenders
  <2>3. offlineMoved' \in [Variants -> Int]
    BY <1>0, <2>1
  <2> QED
    BY <1>0, <2>1, <2>2, <2>3
       DEF Offline!TypeOK, Offline!Levels, Offline!Baskets, Offline!Settled, Offline!Conflicts
<1> QED
  BY <1>1, <1>2, <1>3, <1>4, <1>5, <1>6 DEF Offline!Next, Silent, Writing, Reviewing

\* Every step keeps the invariant, and what is settled.
LEMMA OfflineKeep ==
    OfflineInv /\ [Offline!Next]_offlineVars => OfflineInv' /\ [Offline!SettledStays]_offlineVars
<1> SUFFICES ASSUME OfflineInv, [Offline!Next]_offlineVars
             PROVE  /\ SendersInv' /\ (Offline!SoldOnce /\ Offline!ReviewPending)' /\ Offline!AnswersTrue'
                    /\ [Offline!SettledStays]_offlineVars
  BY OfflineStaysTyped DEF OfflineInv
<1>1. CASE UNCHANGED offlineVars
  BY <1>1 DEF OfflineInv, SendersInv, offlineVars, Offline!SoldOnce, Offline!ReviewPending, Offline!AnswersTrue,
              Offline!Busy, Offline!Op, Offline!KeyAt, Offline!Rows, Offline!CanTake, Offline!Nothing,
              Offline!Settled, Offline!Conflicts
<1>2. ASSUME UNCHANGED <<record, content, conflict, sold>>,
             \A k \in Keys : record[k] = "CONFIRMED" => (k \in counter <=> k \in counter')
      PROVE  (Offline!SoldOnce /\ Offline!ReviewPending)' /\ Offline!SettledStays
             /\ \A k \in Keys : content[k] # NoOp => content'[k] = content[k]
  BY <1>2 DEF OfflineInv, Offline!SoldOnce, Offline!ReviewPending, Offline!SettledStays, Offline!Nothing,
              Offline!Conflicts
<1>3. ASSUME NEW s \in Senders, Silent(s)
      PROVE  /\ SendersInv' /\ (Offline!SoldOnce /\ Offline!ReviewPending)' /\ Offline!AnswersTrue'
             /\ Offline!SettledStays
  BY <1>2, <1>3, SilentMoves, SilentKeepsSenders, SilentKeepsAnswers
<1>4. ASSUME NEW s \in Senders, Writing(s)
      PROVE  /\ SendersInv' /\ (Offline!SoldOnce /\ Offline!ReviewPending)' /\ Offline!AnswersTrue'
             /\ Offline!SettledStays
  <2>1. step[s] = "inserted" /\ Offline!Write(s)
    BY <1>4, WritingMoves
  <2> QED
    BY <1>4, <2>1, WritingKeepsRows, WritingKeepsSenders, WritingKeepsAnswers
<1>5. ASSUME NEW k \in Keys, Reviewing(k)
      PROVE  /\ SendersInv' /\ (Offline!SoldOnce /\ Offline!ReviewPending)' /\ Offline!AnswersTrue'
             /\ Offline!SettledStays
  <2>1. UNCHANGED <<content, told>>
    BY <1>5, RowsReviewed
  <2>2. Offline!SettledStays
    BY <1>5, ReviewingKeepsRows
  <2>3. Offline!AnswersTrue'
    BY <2>1, <2>2, AnswersStay
  <2> QED
    BY <1>5, <2>2, <2>3, ReviewingKeepsRows, ReviewingKeepsSenders
<1>6. ASSUME NEW o \in Ops, Offline!PosSale(o)
      PROVE  /\ SendersInv' /\ (Offline!SoldOnce /\ Offline!ReviewPending)' /\ Offline!AnswersTrue'
             /\ Offline!SettledStays
  <2>1. /\ UNCHANGED <<record, content, conflict, sold, told>>
        /\ counter' = counter \cup {KeyOf[o]} /\ record[KeyOf[o]] # "CONFIRMED"
    BY <1>6 DEF Offline!PosSale, Offline!records
  <2> QED
    BY <1>2, <1>6, <2>1, AnswersStay, CounterKeepsSenders
<1>7. ASSUME NEW v \in Variants, NEW delta \in {-1, 1}, Offline!Change(v, delta)
      PROVE  /\ SendersInv' /\ (Offline!SoldOnce /\ Offline!ReviewPending)' /\ Offline!AnswersTrue'
             /\ Offline!SettledStays
  <2>1. UNCHANGED <<record, content, conflict, sold, told, counter>>
    BY <1>7 DEF Offline!Change, Offline!records
  <2> QED
    BY <1>2, <1>7, <2>1, AnswersStay, ChangeKeepsSenders
<1> QED
  BY <1>1, <1>3, <1>4, <1>5, <1>6, <1>7 DEF Offline!Next, Silent, Writing, Reviewing

-----------------------------------------------------------------------------
\* The units of a variant that the orders of the keys took.
Sold(v) == SumFunctionOnSet([k \in Keys |-> sold[k][v]], Keys)

\* What left the shelf is in the orders of the keys, or others moved it.
SalesAddUp == \A v \in Variants : offlineStock[v] + Sold(v) = SaleSupply[v] + offlineMoved[v]

\* The sums of this module say what StockConserved says.
LEMMA SoldSums == SalesAddUp <=> Offline!StockConserved
<1>1. ASSUME NEW v PROVE Offline!SumFunction([k \in Keys |-> sold[k][v]]) = Sold(v)
  BY OfflineSums, SumOfAll DEF Sold
<1> QED
  BY <1>1 DEF Offline!StockConserved, SalesAddUp

\* The sum moves by what one key takes.
LEMMA SoldMoves ==
    ASSUME OfflineInv, NEW v \in Variants, NEW k \in Keys, NEW basket \in Offline!Baskets,
           sold[k] = Offline!Nothing, sold' = [sold EXCEPT ![k] = basket]
    PROVE  Sold(v)' = Sold(v) + basket[v] /\ Sold(v) \in Int /\ basket[v] \in Int
<1> DEFINE old1 == [j \in Keys |-> sold[j][v]]
           new1 == [j \in Keys |-> sold'[j][v]]
<1>1. sold \in [Keys -> Offline!Baskets] /\ IsFiniteSet(Keys)
  BY OfflineConstants DEF OfflineInv, Offline!TypeOK
<1>2. /\ \A j \in Keys : old1[j] \in Int /\ new1[j] \in Int
      /\ \A j \in Keys : j # k => old1[j] = new1[j]
      /\ old1[k] = 0 /\ new1[k] = basket[v] /\ basket[v] \in Int
  BY <1>1, OfflineConstants DEF Offline!Baskets, Offline!Nothing
<1>3. Sold(v) = SumFunctionOnSet(old1, Keys) /\ Sold(v)' = SumFunctionOnSet(new1, Keys)
  BY DEF Sold
<1> HIDE DEF old1, new1
<1>4. SumFunctionOnSet(new1, Keys) = SumFunctionOnSet(old1, Keys) - old1[k] + new1[k]
  BY <1>1, <1>2, SumChanged
<1>5. SumFunctionOnSet(old1, Keys) \in Int
  BY <1>1, <1>2, SumIsInt
<1> QED
  BY <1>2, <1>3, <1>4, <1>5

\* At the start nothing is sold.
LEMMA SalesStart == Offline!Init => SalesAddUp
<1> SUFFICES ASSUME Offline!Init, NEW v \in Variants
             PROVE  offlineStock[v] + Sold(v) = SaleSupply[v] + offlineMoved[v]
  BY DEF SalesAddUp
<1>1. offlineStock = SaleSupply /\ offlineMoved[v] = 0 /\ SaleSupply[v] \in Int
  BY OfflineConstants DEF Offline!Init, Offline!Levels
<1>2. \A k \in Keys : [j \in Keys |-> sold[j][v]][k] = 0
  BY DEF Offline!Init, Offline!Nothing
<1>3. Sold(v) = 0
  BY <1>2, SumOfZeros, OfflineConstants DEF Sold
<1> QED
  BY <1>1, <1>3

\* Every step that moves the shelf moves what is sold, or `offlineMoved', as much.
LEMMA SalesKeep ==
    OfflineInv /\ SalesAddUp /\ [Offline!Next]_offlineVars => SalesAddUp'
<1> SUFFICES ASSUME OfflineInv, SalesAddUp, [Offline!Next]_offlineVars, NEW v \in Variants
             PROVE  offlineStock'[v] + Sold(v)' = SaleSupply[v] + offlineMoved'[v]
  BY DEF SalesAddUp, Sold
<1>1. offlineStock[v] + Sold(v) = SaleSupply[v] + offlineMoved[v]
  BY DEF SalesAddUp
<1>2. offlineStock[v] \in Int /\ offlineMoved[v] \in Int /\ SaleSupply[v] \in Int /\ Sold(v) \in Int
  <2>1. offlineStock[v] \in Int /\ offlineMoved[v] \in Int /\ SaleSupply[v] \in Int
    BY OfflineConstants DEF OfflineInv, Offline!TypeOK, Offline!Levels
  <2>2. \A k \in Keys : [j \in Keys |-> sold[j][v]][k] \in Int
    BY OfflineConstants DEF OfflineInv, Offline!TypeOK, Offline!Baskets
  <2> QED
    BY <2>1, <2>2, SumIsInt, OfflineConstants DEF Sold
<1>3. CASE UNCHANGED <<offlineStock, sold, offlineMoved>>
  BY <1>1, <1>3 DEF Sold
<1>4. ASSUME NEW k \in Keys, NEW basket \in Offline!Baskets, sold[k] = Offline!Nothing,
             sold' = [sold EXCEPT ![k] = basket], UNCHANGED offlineMoved,
             offlineStock' = Offline!Take(offlineStock, basket)
      PROVE  offlineStock'[v] + Sold(v)' = SaleSupply[v] + offlineMoved'[v]
  <2>1. Sold(v)' = Sold(v) + basket[v] /\ basket[v] \in Int
    BY <1>4, SoldMoves
  <2>2. offlineStock'[v] = offlineStock[v] - basket[v]
    BY <1>4 DEF Offline!Take
  <2> QED
    BY <1>1, <1>2, <1>4, <2>1, <2>2
<1>5. ASSUME NEW s \in Senders, Writing(s)
      PROVE  offlineStock'[v] + Sold(v)' = SaleSupply[v] + offlineMoved'[v]
  <2>1. step[s] = "inserted" /\ Offline!Write(s)
    BY <1>5, WritingMoves
  <2>2. CASE outcome[s] = "CONFIRMED"
    <3>1. \E k \in Keys, o \in Ops :
            /\ sold[k] = Offline!Nothing /\ sold' = [sold EXCEPT ![k] = Sale[o]]
            /\ Sale[o] \in Offline!Baskets
            /\ offlineStock' = Offline!Take(offlineStock, Sale[o]) /\ UNCHANGED offlineMoved
      BY <2>1, <2>2, RowsWritten
    <3> QED
      BY <1>4, <3>1
  <2>3. CASE outcome[s] # "CONFIRMED"
    BY <1>3, <2>1, <2>3, RowsWritten DEF Offline!Write
  <2> QED
    BY <2>2, <2>3
<1>6. ASSUME NEW k \in Keys, Reviewing(k)
      PROVE  offlineStock'[v] + Sold(v)' = SaleSupply[v] + offlineMoved'[v]
  <2>1. PICK to \in Offline!Settled, basket \in Offline!Baskets :
             /\ sold[k] = Offline!Nothing
             /\ sold' = [sold EXCEPT ![k] = basket]
             /\ to = "REJECTED" => basket = Offline!Nothing /\ offlineStock' = offlineStock
             /\ to = "CONFIRMED" => offlineStock' = Offline!Take(offlineStock, basket)
             /\ UNCHANGED offlineMoved
    BY <1>6, RowsReviewed
  <2>2. CASE to = "CONFIRMED"
    BY <1>4, <2>1, <2>2
  <2>3. CASE to = "REJECTED"
    <3>1. sold' = sold
      BY <2>1, <2>3 DEF OfflineInv, Offline!TypeOK
    <3> QED
      BY <1>3, <2>1, <2>3, <3>1
  <2> QED
    BY <2>2, <2>3 DEF Offline!Settled
<1>7. ASSUME NEW o \in Ops, Offline!PosSale(o)
      PROVE  offlineStock'[v] + Sold(v)' = SaleSupply[v] + offlineMoved'[v]
  <2>1. /\ offlineStock'[v] = offlineStock[v] - Sale[o][v]
        /\ offlineMoved'[v] = offlineMoved[v] - Sale[o][v]
        /\ sold' = sold
    BY <1>7 DEF Offline!PosSale, Offline!records, Offline!Take
  <2>2. Sold(v)' = Sold(v) /\ Sale[o][v] \in Int
    BY <2>1, OfflineConstants DEF Sold
  <2> QED
    BY <1>1, <1>2, <2>1, <2>2
<1>8. ASSUME NEW w \in Variants, NEW delta \in {-1, 1}, Offline!Change(w, delta)
      PROVE  offlineStock'[v] + Sold(v)' = SaleSupply[v] + offlineMoved'[v]
  <2>1. /\ offlineStock' = [offlineStock EXCEPT ![w] = offlineStock[w] + delta]
        /\ offlineMoved' = [offlineMoved EXCEPT ![w] = offlineMoved[w] + delta]
        /\ sold' = sold
    BY <1>8, Zenon DEF Offline!Change, Offline!records
  <2>2. Sold(v)' = Sold(v)
    BY <2>1 DEF Sold
  <2>3. offlineStock \in Offline!Levels /\ offlineMoved \in [Variants -> Int]
    BY DEF OfflineInv, Offline!TypeOK
  <2>4. /\ offlineStock'[v] = IF v = w THEN offlineStock[v] + delta ELSE offlineStock[v]
        /\ offlineMoved'[v] = IF v = w THEN offlineMoved[v] + delta ELSE offlineMoved[v]
    BY <2>1, <2>3 DEF Offline!Levels
  <2>5. delta \in Int
    OBVIOUS
  <2> QED
    BY <1>1, <1>2, <2>2, <2>4, <2>5
<1>9. ASSUME NEW s \in Senders, Silent(s) PROVE UNCHANGED <<offlineStock, sold, offlineMoved>>
  BY <1>9, SilentMoves
<1> QED
  BY <1>3, <1>5, <1>6, <1>7, <1>8, <1>9 DEF Offline!Next, Silent, Writing, Reviewing, offlineVars

-----------------------------------------------------------------------------
(* The returns of an order.                                                *)

\* The sum of the instance is the sum of this module.
LEMMA ReturnSums ==
    ASSUME NEW f, NEW S
    PROVE  Return!SumFunctionOnSet(f, S) = SumFunctionOnSet(f, S)
BY Zenon DEF Return!SumFunctionOnSet, SumFunctionOnSet, Return!FoldFunctionOnSet, FoldFunctionOnSet,
         Return!MapThenFoldSet, MapThenFoldSet

\* What is assumed of the order and of the shelf, as the proofs use it.
LEMMA ReturnConstants ==
    /\ IsFiniteSet(Returns) /\ IsFiniteSet(Variants)
    /\ \A v \in Variants : Bought[v] \in Nat /\ Price[v] \in Nat /\ ReturnSupply[v] \in Nat
    /\ Total \in Nat /\ ReturnSupply \in Return!Levels /\ NoVariant \notin Variants /\ MaxStock \in Nat
<1>1. IsFiniteSet(Returns) /\ IsFiniteSet(Variants)
  BY DeskAssumption, Zenon DEF Return!AfterSalesAssumption, Return!IsFiniteSet, IsFiniteSet
<1>2. /\ Bought \in Return!Baskets /\ Price \in [Variants -> Nat]
      /\ Total \in Nat /\ ReturnSupply \in Return!Levels /\ NoVariant \notin Variants /\ MaxStock \in Nat
  BY DeskAssumption, MaxStockAssumption DEF Return!AfterSalesAssumption
<1>3. \A v \in Variants : Bought[v] \in Nat /\ Price[v] \in Nat /\ ReturnSupply[v] \in Nat
  BY <1>2 DEF Return!Baskets, Return!Levels
<1> QED
  BY <1>1, <1>2, <1>3

\* A basket has natural numbers of each variant.
LEMMA NaturalBaskets ==
    ASSUME NEW basket \in Return!Baskets, NEW v \in Variants
    PROVE  basket[v] \in Nat /\ basket[v] \in Int
<1>1. basket[v] \in 0 .. MaxStock /\ MaxStock \in Nat
  BY ReturnConstants DEF Return!Baskets
<1> QED
  BY <1>1

\* What a set of returns has of a variant and gives back, what one return
\* weighs, and what a set of exchanges handed over of a variant.
ReturnedUnits(v, set) == SumFunctionOnSet([r \in Returns |-> items[r][v]], set)

GivenBack(set) == SumFunctionOnSet(amount, set)

Pieces == [r \in Returns |-> SumFunctionOnSet(items[r], Variants)]

HandedOver(v, set) == SumFunctionOnSet(Pieces, {r \in set : swap[r] = v})

Refunding == {r \in Return!InForce : ~Return!EsCambio(r)}

Done == {r \in Returns : returnStatus[r] = "completed"}

\* A request that decides has read every return in force: those that entered
\* after it read need the lock it holds.  So the units and the money that it
\* leaves are there, and the shelf follows the rows.
ReturnInv ==
    /\ Return!TypeOK
    /\ reader => Return!InForce \subseteq seen
    /\ \A v \in Variants : ReturnedUnits(v, Return!InForce) <= Bought[v]
    /\ GivenBack(Refunding) <= Total
    /\ \A v \in Variants :
         returnStock[v] = ReturnSupply[v] + ReturnedUnits(v, Done) - HandedOver(v, Return!InForce)
    /\ Return!CompletedWasRefunded

\* The sums of this module are the ones of AfterSales.
LEMMA ReturnTotals ==
    /\ \A v, set : Return!UnitsOf(v, set) = ReturnedUnits(v, set)
    /\ \A set : Return!AmountOf(set) = GivenBack(set)
    /\ \A f : Return!SumFunctionOnSet(f, Variants) = SumFunctionOnSet(f, Variants)
BY ReturnSums DEF Return!UnitsOf, ReturnedUnits, Return!AmountOf, GivenBack

\* What the invariant says in the words of the desk.
LEMMA ReturnInvSays ==
    ReturnInv => /\ Return!UnitsReturnedOnce /\ Return!CommittedWithinTotal
                 /\ Return!CompletedWasRefunded /\ Return!StockConserved
<1> SUFFICES ASSUME ReturnInv
             PROVE  /\ Return!UnitsReturnedOnce /\ Return!CommittedWithinTotal
                    /\ Return!CompletedWasRefunded /\ Return!StockConserved
  OBVIOUS
<1>1. Return!UnitsReturnedOnce /\ Return!CommittedWithinTotal
  BY ReturnTotals DEF ReturnInv, Return!UnitsReturnedOnce, Return!CommittedWithinTotal, Refunding
<1>2. ASSUME NEW v \in Variants PROVE Return!Received(v) = ReturnedUnits(v, Done)
  BY ReturnTotals DEF Return!Received, Done
<1>3. ASSUME NEW v \in Variants PROVE Return!Replaced(v) = HandedOver(v, Return!InForce)
  <2>1. [r \in Returns |-> Return!SumFunctionOnSet(items[r], Variants)] = Pieces
    BY ReturnSums DEF Pieces
  <2> QED
    BY <2>1, ReturnSums DEF Return!Replaced, HandedOver
<1>4. Return!StockConserved
  BY <1>2, <1>3 DEF ReturnInv, Return!StockConserved
<1> QED
  BY <1>1, <1>4 DEF ReturnInv

\* Nothing has been asked for.
LEMMA ReturnsStart == Return!Init => ReturnInv
<1> SUFFICES ASSUME Return!Init PROVE ReturnInv
  OBVIOUS
<1>1. Return!InForce = {} /\ Refunding = {} /\ Done = {} /\ \A v : {r \in {} : swap[r] = v} = {}
  BY DEF Return!Init, Return!InForce, Return!VIGENTES, Refunding, Done
<1>2. /\ \A v : ReturnedUnits(v, {}) = 0 /\ HandedOver(v, {}) = 0
      /\ GivenBack({}) = 0
  BY <1>1, SumOfNone DEF ReturnedUnits, HandedOver, GivenBack
<1>3. Return!Nothing \in Return!Baskets
  BY ReturnConstants DEF Return!Nothing, Return!Baskets
<1>4. Return!TypeOK
  <2> HIDE DEF Return!Nothing
  <2> QED
    BY <1>3, ReturnConstants DEF Return!Init, Return!TypeOK
<1>5. Return!CompletedWasRefunded /\ reader = FALSE
  BY DEF Return!Init, Return!CompletedWasRefunded
<1>6. \A v \in Variants : /\ ReturnedUnits(v, Return!InForce) <= Bought[v]
                          /\ returnStock[v] = ReturnSupply[v] + ReturnedUnits(v, Done) - HandedOver(v, Return!InForce)
  <2> SUFFICES ASSUME NEW v \in Variants
               PROVE  /\ ReturnedUnits(v, Return!InForce) <= Bought[v]
                      /\ returnStock[v] = ReturnSupply[v] + ReturnedUnits(v, Done) - HandedOver(v, Return!InForce)
    OBVIOUS
  <2>1. ReturnedUnits(v, Return!InForce) = 0 /\ ReturnedUnits(v, Done) = 0 /\ HandedOver(v, Return!InForce) = 0
    BY <1>1, <1>2
  <2>2. returnStock[v] = ReturnSupply[v] /\ ReturnSupply[v] \in Nat /\ Bought[v] \in Nat
    BY ReturnConstants DEF Return!Init
  <2> QED
    BY <2>1, <2>2
<1>7. GivenBack(Refunding) <= Total
  BY <1>1, <1>2, ReturnConstants
<1> QED
  BY <1>4, <1>5, <1>6, <1>7 DEF ReturnInv

\* A basket of one variant.
LEMMA UnitMoves ==
    ASSUME NEW v \in Variants, NEW n \in Nat
    PROVE  /\ \A w \in Variants : Return!Unit(v, n)[w] = IF w = v THEN n ELSE 0
           /\ SumFunctionOnSet(Return!Unit(v, n), Variants) = n
<1> DEFINE one == Return!Unit(v, n)
           none == Return!Nothing
<1>1. /\ \A w \in Variants : one[w] = IF w = v THEN n ELSE 0
      /\ \A w \in Variants : none[w] = 0
  BY DEF Return!Unit, Return!Nothing
<1> HIDE DEF one, none
<1>2. SumFunctionOnSet(none, Variants) = 0
  BY <1>1, ReturnConstants, SumOfZeros
<1>3. /\ \A w \in Variants : none[w] \in Int /\ one[w] \in Int
      /\ \A w \in Variants : w # v => none[w] = one[w]
  BY <1>1
<1>4. SumFunctionOnSet(one, Variants) = SumFunctionOnSet(none, Variants) - none[v] + one[v]
  BY <1>3, ReturnConstants, SumChanged
<1> QED
  BY <1>1, <1>2, <1>4 DEF one

\* What the rows hold are numbers, and fewer rows hold no more.
LEMMA ReturnNumbers ==
    ASSUME ReturnInv
    PROVE  /\ \A v \in Variants : [r \in Returns |-> items[r][v]] \in [Returns -> Nat]
           /\ amount \in [Returns -> Nat] /\ Pieces \in [Returns -> Nat]
           /\ \A v \in Variants, S, T \in SUBSET Returns :
                /\ ReturnedUnits(v, S) \in Int
                /\ S \subseteq T => ReturnedUnits(v, S) <= ReturnedUnits(v, T)
           /\ \A S, T \in SUBSET Returns :
                GivenBack(S) \in Int /\ (S \subseteq T => GivenBack(S) <= GivenBack(T))
           /\ \A v, S : S \in SUBSET Returns => HandedOver(v, S) \in Int
<1>1. items \in [Returns -> Return!Baskets] /\ amount \in [Returns -> Nat]
  BY DEF ReturnInv, Return!TypeOK
<1>2. ASSUME NEW v \in Variants PROVE [r \in Returns |-> items[r][v]] \in [Returns -> Nat]
  BY <1>1, ReturnConstants DEF Return!Baskets
<1>3. Pieces \in [Returns -> Nat]
  <2>1. ASSUME NEW r \in Returns PROVE SumFunctionOnSet(items[r], Variants) \in Nat
    <3>1. \A v \in Variants : items[r][v] \in Nat
      BY <1>1, NaturalBaskets
    <3> QED
      BY <3>1, ReturnConstants, SumIsNat
  <2> QED
    BY <2>1 DEF Pieces
<1>4. ASSUME NEW f \in [Returns -> Nat], NEW S \in SUBSET Returns, NEW T \in SUBSET Returns
      PROVE  /\ SumFunctionOnSet(f, S) \in Int
             /\ S \subseteq T => SumFunctionOnSet(f, S) <= SumFunctionOnSet(f, T)
  <2>1. IsFiniteSet(S) /\ IsFiniteSet(T) /\ (\A r \in S : f[r] \in Int) /\ \A r \in T : f[r] \in Nat
    BY ReturnConstants, FS_Subset
  <2>2. SumFunctionOnSet(f, S) \in Int
    BY <2>1, SumIsInt
  <2>3. ASSUME S \subseteq T PROVE SumFunctionOnSet(f, S) <= SumFunctionOnSet(f, T)
    BY <2>1, <2>3, SumOfFewer
  <2> QED
    BY <2>2, <2>3
<1>5. ASSUME NEW v \in Variants, NEW S \in SUBSET Returns, NEW T \in SUBSET Returns
      PROVE  /\ ReturnedUnits(v, S) \in Int
             /\ S \subseteq T => ReturnedUnits(v, S) <= ReturnedUnits(v, T)
  BY <1>2, <1>4 DEF ReturnedUnits
<1>6. ASSUME NEW S \in SUBSET Returns, NEW T \in SUBSET Returns
      PROVE  GivenBack(S) \in Int /\ (S \subseteq T => GivenBack(S) <= GivenBack(T))
  BY <1>1, <1>4 DEF GivenBack
<1>7. ASSUME NEW v, NEW S, S \in SUBSET Returns PROVE HandedOver(v, S) \in Int
  <2>1. {r \in S : swap[r] = v} \in SUBSET Returns
    BY <1>7
  <2> QED
    BY <1>3, <1>4, <2>1 DEF HandedOver
<1> QED
  BY <1>1, <1>2, <1>3, <1>5, <1>6, <1>7

\* The sums of numbers.
LEMMA WorthIsNat ==
    ASSUME NEW basket \in Return!Baskets
    PROVE  Return!Value(basket) \in Nat
<1> DEFINE worth == [v \in Variants |-> basket[v] * Price[v]]
<1>1. \A v \in Variants : worth[v] \in Nat
  <2> SUFFICES ASSUME NEW v \in Variants PROVE basket[v] * Price[v] \in Nat
    OBVIOUS
  <2>1. basket[v] \in Nat /\ Price[v] \in Nat
    BY ReturnConstants DEF Return!Baskets
  <2>2. PICK m, n \in Nat : m = basket[v] /\ n = Price[v]
    BY <2>1
  <2>3. m * n \in Nat
    OBVIOUS
  <2> QED
    BY <2>2, <2>3
<1> HIDE DEF worth
<1>2. SumFunctionOnSet(worth, Variants) \in Nat
  BY <1>1, ReturnConstants, SumIsNat
<1> QED
  BY <1>2, ReturnSums DEF Return!Value, worth

\* A return commits to no more than what the returns that were read leave of
\* the total, and to nothing when they leave nothing.
LEMMA AmountFits ==
    ASSUME ReturnInv, NEW basket \in Return!Baskets
    PROVE  /\ Return!MontoAReintegrar(basket) \in Nat
           /\ \/ Return!MontoAReintegrar(basket) = 0
              \/ Return!MontoAReintegrar(basket) + GivenBack({r \in seen : ~Return!EsCambio(r)}) <= Total
<1> DEFINE subtotal == Return!Value(Bought)
           importe == Return!Rounded(Return!Value(basket) * Total, subtotal)
           resto == Total - Return!AmountOf({r \in seen : ~Return!EsCambio(r)})
           cota == IF importe < resto THEN importe ELSE resto
<1>1. Return!MontoAReintegrar(basket) = IF subtotal = 0 \/ Total = 0 \/ cota < 0 THEN 0 ELSE cota
  BY DEF Return!MontoAReintegrar
<1>2. subtotal \in Nat /\ Return!Value(basket) \in Nat /\ Total \in Nat
  BY WorthIsNat, ReturnConstants, DeskAssumption DEF Return!AfterSalesAssumption
<1>3. subtotal # 0 => importe \in Int
  <2> SUFFICES ASSUME subtotal # 0 PROVE importe \in Int
    OBVIOUS
  <2>1. PICK d \in Nat \ {0} : d = subtotal
    BY <1>2
  <2>2. PICK n \in Nat : n = Return!Value(basket) * Total
    <3>1. \A i, j \in Nat : i * j \in Nat
      OBVIOUS
    <3> QED
      BY <1>2, <3>1
  <2>3. (2 * n + d) \div (2 * d) \in Int
    OBVIOUS
  <2> QED
    BY <2>1, <2>2, <2>3 DEF Return!Rounded
<1>4. seen \subseteq Returns
  BY DEF ReturnInv, Return!TypeOK
<1>5. resto = Total - GivenBack({r \in seen : ~Return!EsCambio(r)})
  BY ReturnTotals
<1>6. GivenBack({r \in seen : ~Return!EsCambio(r)}) \in Int
  <2>1. {r \in seen : ~Return!EsCambio(r)} \in SUBSET Returns
    BY <1>4
  <2> QED
    BY <2>1, ReturnNumbers
<1> HIDE DEF subtotal, importe, resto
<1>7. resto \in Int
  BY <1>2, <1>5, <1>6
<1>8. CASE subtotal = 0 \/ Total = 0 \/ cota < 0
  BY <1>1, <1>8
<1>9. CASE ~(subtotal = 0 \/ Total = 0 \/ cota < 0)
  <2>1. Return!MontoAReintegrar(basket) = cota /\ importe \in Int
    BY <1>1, <1>3, <1>9
  <2>2. cota \in Nat /\ cota <= resto
    BY <1>7, <1>9, <2>1
  <2> QED
    BY <1>2, <1>5, <1>6, <2>1, <2>2
<1> QED
  BY <1>8, <1>9

\* What a new return leaves: units and money within the order, the basket
\* received if it is complete, the replacement handed over if it has one.
AltaLeaves(to, basket, other) ==
    /\ reader' = FALSE
    /\ \A v \in Variants : (ReturnedUnits(v, Return!InForce) <= Bought[v])'
    /\ (GivenBack(Refunding) <= Total)'
    /\ \A v \in Variants :
         ReturnedUnits(v, Done)' = IF to = "completed" THEN basket[v] + ReturnedUnits(v, Done)
                                   ELSE ReturnedUnits(v, Done)
    /\ \A v \in Variants :
         HandedOver(v, Return!InForce)' =
           IF other = v THEN SumFunctionOnSet(basket, Variants) + HandedOver(v, Return!InForce)
           ELSE HandedOver(v, Return!InForce)

\* The row that a request or the counter adds leaves units and money within the order.
LEMMA AltaKeeps ==
    ASSUME ReturnInv, NEW r \in Returns, NEW to \in {"requested", "completed"},
           NEW basket \in Return!Baskets, Return!Cierra(basket),
           NEW money \in Nat, money = 0 \/ money + GivenBack({q \in seen : ~Return!EsCambio(q)}) <= Total,
           NEW other \in Variants \cup {NoVariant}, Return!Alta(r, to, basket, money, other)
    PROVE  AltaLeaves(to, basket, other)
<1>0. /\ items \in [Returns -> Return!Baskets] /\ amount \in [Returns -> Nat]
      /\ swap \in [Returns -> Variants \cup {NoVariant}]
      /\ returnStatus \in [Returns -> Return!VIGENTES \cup {"none", "rejected"}]
      /\ seen \subseteq Returns
  BY DEF ReturnInv, Return!TypeOK
<1>1. /\ reader /\ returnStatus[r] = "none"
      /\ returnStatus' = [returnStatus EXCEPT ![r] = to]
      /\ items' = [items EXCEPT ![r] = basket]
      /\ amount' = [amount EXCEPT ![r] = money]
      /\ swap' = [swap EXCEPT ![r] = other]
      /\ reader' = FALSE
  BY DEF Return!Alta
<1>2. /\ r \notin Return!InForce /\ r \notin Done /\ r \notin Refunding
      /\ Return!InForce \in SUBSET Returns /\ Done \in SUBSET Returns /\ Refunding \in SUBSET Returns
      /\ Return!InForce' = Return!InForce \cup {r}
      /\ Done' = IF to = "completed" THEN Done \cup {r} ELSE Done
      /\ Refunding' = IF other = NoVariant THEN Refunding \cup {r} ELSE Refunding
  BY <1>0, <1>1 DEF Return!InForce, Return!VIGENTES, Done, Refunding, Return!EsCambio
<1>3. ASSUME NEW v \in Variants, NEW S \in SUBSET Returns, r \notin S
      PROVE  /\ SumFunctionOnSet([q \in Returns |-> items'[q][v]], S) = ReturnedUnits(v, S)
             /\ SumFunctionOnSet([q \in Returns |-> items'[q][v]], S \cup {r}) = basket[v] + ReturnedUnits(v, S)
             /\ basket[v] \in Nat
  <2> DEFINE before == [q \in Returns |-> items[q][v]]
             after == [q \in Returns |-> items'[q][v]]
  <2>1. before \in [Returns -> Int]
    BY ReturnNumbers
  <2>2. basket[v] \in Nat
    BY NaturalBaskets
  <2>3. after[r] = basket[v] /\ \A q \in Returns : q # r => after[q] = before[q]
    BY <1>0, <1>1
  <2>4. after \in [Returns -> Int]
    BY <1>0, <1>1, <2>1, <2>2, <2>3
  <2> HIDE DEF before, after
  <2>5. /\ SumFunctionOnSet(after, S) = SumFunctionOnSet(before, S)
        /\ SumFunctionOnSet(after, S \cup {r}) = after[r] + SumFunctionOnSet(before, S)
    <3>1. IsFiniteSet(S) /\ (\A q \in S \cup {r} : before[q] \in Int /\ after[q] \in Int)
          /\ \A q \in S : before[q] = after[q]
      BY <1>3, <2>1, <2>3, <2>4, ReturnConstants, FS_Subset
    <3>2. SumFunctionOnSet(after, S) = SumFunctionOnSet(before, S)
      BY <3>1, SumAlike
    <3>3. SumFunctionOnSet(after, S \cup {r}) = after[r] + SumFunctionOnSet(after, S)
      BY <1>3, <3>1, SumWith
    <3> QED
      BY <3>2, <3>3
  <2> QED
    BY <2>2, <2>3, <2>5 DEF ReturnedUnits, before, after
<1>4. ASSUME NEW v \in Variants PROVE (ReturnedUnits(v, Return!InForce) <= Bought[v])'
  <2>1. SumFunctionOnSet([q \in Returns |-> items'[q][v]], Return!InForce')
          = basket[v] + ReturnedUnits(v, Return!InForce)
    BY <1>2, <1>3
  <2>2. /\ ReturnedUnits(v, Return!InForce) <= Bought[v]
        /\ ReturnedUnits(v, Return!InForce) <= ReturnedUnits(v, seen)
        /\ ReturnedUnits(v, Return!InForce) \in Int /\ ReturnedUnits(v, seen) \in Int
        /\ Bought[v] \in Nat /\ basket[v] \in Nat
    BY <1>0, <1>1, <1>2, <1>3, ReturnNumbers, ReturnConstants DEF ReturnInv
  <2>3. basket[v] > 0 => basket[v] <= Bought[v] - ReturnedUnits(v, seen)
    BY ReturnTotals DEF Return!Cierra, Return!Devolvible
  <2>4. basket[v] + ReturnedUnits(v, Return!InForce) <= Bought[v]
    BY <2>2, <2>3
  <2> QED
    BY <2>1, <2>4 DEF ReturnedUnits
<1>5. (GivenBack(Refunding) <= Total)'
  <2>1. /\ amount \in [Returns -> Int] /\ amount' \in [Returns -> Int] /\ amount'[r] = money
        /\ \A q \in Returns : q # r => amount'[q] = amount[q]
    BY <1>0, <1>1
  <2>2. /\ SumFunctionOnSet(amount', Refunding) = GivenBack(Refunding)
        /\ SumFunctionOnSet(amount', Refunding \cup {r}) = amount'[r] + GivenBack(Refunding)
    <3>1. IsFiniteSet(Refunding) /\ (\A q \in Refunding \cup {r} : amount[q] \in Int /\ amount'[q] \in Int)
          /\ \A q \in Refunding : amount[q] = amount'[q]
      BY <1>2, <2>1, ReturnConstants, FS_Subset
    <3>2. PICK after, part : after = amount' /\ part = Refunding
      OBVIOUS
    <3>3. /\ SumFunctionOnSet(after, part) = SumFunctionOnSet(amount, part)
          /\ SumFunctionOnSet(after, part \cup {r}) = after[r] + SumFunctionOnSet(amount, part)
      <4>1. SumFunctionOnSet(after, part) = SumFunctionOnSet(amount, part)
        BY <3>1, <3>2, SumAlike
      <4>2. SumFunctionOnSet(after, part \cup {r}) = after[r] + SumFunctionOnSet(after, part)
        BY <1>2, <3>1, <3>2, SumWith
      <4> QED
        BY <4>1, <4>2
    <3> QED
      BY <3>2, <3>3 DEF GivenBack
  <2>3. /\ GivenBack(Refunding) <= Total /\ GivenBack(Refunding) \in Int
        /\ GivenBack(Refunding) <= GivenBack({q \in seen : ~Return!EsCambio(q)})
        /\ GivenBack({q \in seen : ~Return!EsCambio(q)}) \in Int
    <3>1. Refunding \subseteq {q \in seen : ~Return!EsCambio(q)}
          /\ {q \in seen : ~Return!EsCambio(q)} \in SUBSET Returns
      BY <1>0, <1>1 DEF ReturnInv, Refunding
    <3> QED
      BY <1>2, <3>1, ReturnNumbers DEF ReturnInv
  <2>4. money + GivenBack(Refunding) <= Total
    BY <2>3, ReturnConstants
  <2>5. SumFunctionOnSet(amount', Refunding') <= Total
    BY <1>2, <2>1, <2>2, <2>3, <2>4
  <2> QED
    BY <2>5 DEF GivenBack
<1>6. ASSUME NEW v \in Variants
      PROVE  ReturnedUnits(v, Done)' = IF to = "completed" THEN basket[v] + ReturnedUnits(v, Done)
                                       ELSE ReturnedUnits(v, Done)
  <2>1. SumFunctionOnSet([q \in Returns |-> items'[q][v]], Done')
          = IF to = "completed" THEN basket[v] + ReturnedUnits(v, Done) ELSE ReturnedUnits(v, Done)
    BY <1>2, <1>3
  <2> QED
    BY <2>1 DEF ReturnedUnits
<1>7. ASSUME NEW v \in Variants
      PROVE  HandedOver(v, Return!InForce)' =
               IF other = v THEN SumFunctionOnSet(basket, Variants) + HandedOver(v, Return!InForce)
               ELSE HandedOver(v, Return!InForce)
  <2> DEFINE part == {q \in Return!InForce : swap[q] = v}
  <2>1. Pieces \in [Returns -> Int] /\ SumFunctionOnSet(basket, Variants) \in Int
    <3>1. \A w \in Variants : basket[w] \in Int
      BY NaturalBaskets
    <3> QED
      BY <3>1, ReturnNumbers, ReturnConstants, SumIsInt
  <2>2. /\ \A q \in Returns : Pieces'[q] = SumFunctionOnSet(items'[q], Variants)
        /\ \A q \in Returns : Pieces[q] = SumFunctionOnSet(items[q], Variants)
        /\ Pieces' = [q \in Returns |-> Pieces'[q]]
    BY DEF Pieces
  <2>3. Pieces'[r] = SumFunctionOnSet(basket, Variants) /\ \A q \in Returns : q # r => Pieces'[q] = Pieces[q]
    BY <1>0, <1>1, <2>2
  <2>4. Pieces' \in [Returns -> Int]
    BY <2>1, <2>2, <2>3
  <2>5. r \notin part /\ part \in SUBSET Returns
        /\ {q \in Return!InForce' : swap'[q] = v} = IF other = v THEN part \cup {r} ELSE part
    BY <1>0, <1>1, <1>2
  <2>6. PICK after, n : after = Pieces' /\ n = SumFunctionOnSet(basket, Variants)
    OBVIOUS
  <2> HIDE DEF part
  <2>7. /\ SumFunctionOnSet(after, part) = SumFunctionOnSet(Pieces, part)
        /\ SumFunctionOnSet(after, part \cup {r}) = after[r] + SumFunctionOnSet(Pieces, part)
    <3>1. IsFiniteSet(part) /\ (\A q \in part \cup {r} : Pieces[q] \in Int /\ after[q] \in Int)
          /\ \A q \in part : Pieces[q] = after[q]
      BY <2>1, <2>3, <2>4, <2>5, <2>6, ReturnConstants, FS_Subset
    <3>2. SumFunctionOnSet(after, part) = SumFunctionOnSet(Pieces, part)
      BY <3>1, SumAlike
    <3>3. SumFunctionOnSet(after, part \cup {r}) = after[r] + SumFunctionOnSet(after, part)
      BY <2>5, <3>1, SumWith
    <3> QED
      BY <3>2, <3>3
  <2>8. SumFunctionOnSet(Pieces', {q \in Return!InForce' : swap'[q] = v})
          = IF other = v THEN n + SumFunctionOnSet(Pieces, part) ELSE SumFunctionOnSet(Pieces, part)
    BY <2>3, <2>5, <2>6, <2>7
  <2> QED
    BY <2>6, <2>8 DEF HandedOver, part
<1> QED
  BY <1>1, <1>4, <1>5, <1>6, <1>7 DEF AltaLeaves

\* A resolution leaves no more in force; what it completes is received, and what
\* it rejects is not handed over.
LEMMA ResuelveKeeps ==
    ASSUME ReturnInv, NEW r \in Returns, NEW to, Return!Resuelve(r, to)
    PROVE  /\ reader' => Return!InForce' \subseteq seen'
           /\ \A v \in Variants : (ReturnedUnits(v, Return!InForce) <= Bought[v])'
           /\ (GivenBack(Refunding) <= Total)'
           /\ \A v \in Variants :
                ReturnedUnits(v, Done)' = IF to = "completed" THEN items[r][v] + ReturnedUnits(v, Done)
                                          ELSE ReturnedUnits(v, Done)
           /\ \A v \in Variants :
                HandedOver(v, Return!InForce) =
                  IF to = "rejected" /\ swap[r] = v THEN Pieces[r] + HandedOver(v, Return!InForce)'
                  ELSE HandedOver(v, Return!InForce)'
<1>0. /\ items \in [Returns -> Return!Baskets]
      /\ returnStatus \in [Returns -> Return!VIGENTES \cup {"none", "rejected"}]
  BY DEF ReturnInv, Return!TypeOK
<1>1. /\ returnStatus[r] \in {"requested", "approved"}
      /\ to \in {"approved", "rejected", "completed"}
      /\ returnStatus' = [returnStatus EXCEPT ![r] = to]
      /\ UNCHANGED <<items, swap, amount, reader, seen>>
  BY DEF Return!Resuelve, Return!TRANSICIONES
<1>2. /\ r \in Return!InForce /\ r \notin Done
      /\ Return!InForce \in SUBSET Returns /\ Done \in SUBSET Returns /\ Refunding \in SUBSET Returns
      /\ Return!InForce' = IF to = "rejected" THEN Return!InForce \ {r} ELSE Return!InForce
      /\ Done' = IF to = "completed" THEN Done \cup {r} ELSE Done
      /\ Refunding' \subseteq Refunding
  BY <1>0, <1>1 DEF Return!InForce, Return!VIGENTES, Done, Refunding, Return!EsCambio
<1>3. reader' => Return!InForce' \subseteq seen'
  BY <1>1, <1>2 DEF ReturnInv
<1>4. ASSUME NEW v \in Variants PROVE (ReturnedUnits(v, Return!InForce) <= Bought[v])'
  <2>1. PICK part : part = Return!InForce'
    OBVIOUS
  <2>2. part \in SUBSET Returns /\ part \subseteq Return!InForce
    BY <1>2, <2>1
  <2>3. /\ ReturnedUnits(v, part) <= ReturnedUnits(v, Return!InForce)
        /\ ReturnedUnits(v, part) \in Int /\ ReturnedUnits(v, Return!InForce) \in Int
        /\ ReturnedUnits(v, Return!InForce) <= Bought[v] /\ Bought[v] \in Nat
    BY <1>2, <2>2, ReturnNumbers, ReturnConstants DEF ReturnInv
  <2>4. ReturnedUnits(v, part) <= Bought[v]
    BY <2>3
  <2>5. SumFunctionOnSet([q \in Returns |-> items[q][v]], Return!InForce') <= Bought[v]
    BY <2>1, <2>4 DEF ReturnedUnits
  <2> QED
    BY <1>1, <2>5 DEF ReturnedUnits
<1>5. (GivenBack(Refunding) <= Total)'
  <2>1. PICK part : part = Refunding'
    OBVIOUS
  <2>2. part \in SUBSET Returns /\ part \subseteq Refunding
    BY <1>2, <2>1
  <2>3. /\ GivenBack(part) <= GivenBack(Refunding) /\ GivenBack(part) \in Int /\ GivenBack(Refunding) \in Int
        /\ GivenBack(Refunding) <= Total /\ Total \in Nat
    BY <1>2, <2>2, ReturnNumbers, ReturnConstants DEF ReturnInv
  <2>4. GivenBack(part) <= Total
    BY <2>3
  <2>5. SumFunctionOnSet(amount, Refunding') <= Total
    BY <2>1, <2>4 DEF GivenBack
  <2> QED
    BY <1>1, <2>5 DEF GivenBack
<1>6. ASSUME NEW v \in Variants
      PROVE  ReturnedUnits(v, Done)' = IF to = "completed" THEN items[r][v] + ReturnedUnits(v, Done)
                                       ELSE ReturnedUnits(v, Done)
  <2> DEFINE units == [q \in Returns |-> items[q][v]]
  <2>1. units \in [Returns -> Int] /\ units[r] = items[r][v]
    BY ReturnNumbers
  <2>2. ReturnedUnits(v, Done)' = SumFunctionOnSet(units, Done') /\ ReturnedUnits(v, Done) = SumFunctionOnSet(units, Done)
    BY <1>1 DEF ReturnedUnits
  <2> HIDE DEF units
  <2>3. SumFunctionOnSet(units, Done \cup {r}) = units[r] + SumFunctionOnSet(units, Done)
    BY <1>2, <2>1, ReturnConstants, SumOfPart
  <2> QED
    BY <1>2, <2>1, <2>2, <2>3
<1>7. ASSUME NEW v \in Variants
      PROVE  HandedOver(v, Return!InForce) =
               IF to = "rejected" /\ swap[r] = v THEN Pieces[r] + HandedOver(v, Return!InForce)'
               ELSE HandedOver(v, Return!InForce)'
  <2> DEFINE part == {q \in Return!InForce : swap[q] = v}
             left == {q \in Return!InForce' : swap'[q] = v}
  <2>1. Pieces \in [Returns -> Int] /\ part \in SUBSET Returns
        /\ left = (IF to = "rejected" THEN part \ {r} ELSE part) /\ (r \in part <=> swap[r] = v)
    BY <1>1, <1>2, ReturnNumbers
  <2>2. HandedOver(v, Return!InForce) = SumFunctionOnSet(Pieces, part)
    BY DEF HandedOver
  <2>3. HandedOver(v, Return!InForce)' = SumFunctionOnSet(Pieces, left)
    BY <1>1 DEF HandedOver, Pieces
  <2> HIDE DEF part, left
  <2>4. r \in part => SumFunctionOnSet(Pieces, part) = Pieces[r] + SumFunctionOnSet(Pieces, part \ {r})
    BY <2>1, ReturnConstants, SumOfPart
  <2>5. CASE to = "rejected" /\ swap[r] = v
    BY <2>1, <2>2, <2>3, <2>4, <2>5
  <2>6. CASE ~(to = "rejected" /\ swap[r] = v)
    <3>1. left = part
      BY <2>1, <2>6
    <3> QED
      BY <2>2, <2>3, <2>6, <3>1
  <2> QED
    BY <2>5, <2>6
<1> QED
  BY <1>3, <1>4, <1>5, <1>6, <1>7

\* What no row and no stock moves keeps the sums.
LEMMA RowsStill ==
    ASSUME ReturnInv, UNCHANGED <<returnStatus, items, swap, amount, returnStock>>,
           Return!TypeOK', reader' => Return!InForce \subseteq seen', Return!CompletedWasRefunded'
    PROVE  ReturnInv'
<1>1. /\ Return!InForce' = Return!InForce /\ Refunding' = Refunding /\ Done' = Done /\ Pieces' = Pieces
      /\ GivenBack(Refunding)' = GivenBack(Refunding)
      /\ \A v : /\ ReturnedUnits(v, Return!InForce)' = ReturnedUnits(v, Return!InForce)
                /\ ReturnedUnits(v, Done)' = ReturnedUnits(v, Done)
                /\ HandedOver(v, Return!InForce)' = HandedOver(v, Return!InForce)
  BY DEF Return!InForce, Refunding, Return!EsCambio, Done, Pieces, GivenBack, ReturnedUnits, HandedOver
<1>2. /\ GivenBack(Refunding) <= Total
      /\ \A v \in Variants :
           /\ ReturnedUnits(v, Return!InForce) <= Bought[v]
           /\ returnStock[v] = ReturnSupply[v] + ReturnedUnits(v, Done) - HandedOver(v, Return!InForce)
  BY DEF ReturnInv
<1>3. (GivenBack(Refunding) <= Total)'
  BY <1>1, <1>2
<1>4. ASSUME NEW v \in Variants
      PROVE  /\ (ReturnedUnits(v, Return!InForce) <= Bought[v])'
             /\ (returnStock[v] = ReturnSupply[v] + ReturnedUnits(v, Done) - HandedOver(v, Return!InForce))'
  BY <1>1, <1>2
<1> QED
  BY <1>1, <1>3, <1>4 DEF ReturnInv

\* A row of stock that goes up within the ceiling, or down to no less than zero.
LEMMA ShelfKept ==
    ASSUME returnStock \in Return!Levels, NEW basket, \A v \in Variants : basket[v] \in Nat
    PROVE  /\ Return!CanPut(returnStock, basket) => Return!Put(returnStock, basket) \in Return!Levels
           /\ Return!CanTake(returnStock, basket) => Return!Take(returnStock, basket) \in Return!Levels
<1> SUFFICES ASSUME NEW v \in Variants
             PROVE  /\ returnStock[v] + basket[v] <= MaxStock => returnStock[v] + basket[v] \in 0 .. MaxStock
                    /\ returnStock[v] >= basket[v] => returnStock[v] - basket[v] \in 0 .. MaxStock
  BY DEF Return!CanPut, Return!Put, Return!CanTake, Return!Take, Return!Levels
<1>1. returnStock[v] \in 0 .. MaxStock /\ basket[v] \in Nat /\ MaxStock \in Nat
  BY ReturnConstants DEF Return!Levels
<1> QED
  BY <1>1

\* A new return keeps the types of its row, and the refunds.
LEMMA AltaTyped ==
    ASSUME ReturnInv, NEW r \in Returns, NEW to \in {"requested", "completed"},
           NEW basket \in Return!Baskets, NEW money \in Nat, NEW other \in Variants \cup {NoVariant},
           Return!Alta(r, to, basket, money, other), returnStock' \in Return!Levels,
           to = "completed" => r \in atCounter',
           atCounter' \subseteq Returns, atCounter \subseteq atCounter'
    PROVE  Return!TypeOK' /\ Return!CompletedWasRefunded'
<1>0. /\ card \in BOOLEAN /\ returnTime \in BOOLEAN
      /\ returnStatus \in [Returns -> Return!VIGENTES \cup {"none", "rejected"}]
      /\ items \in [Returns -> Return!Baskets]
      /\ swap \in [Returns -> Variants \cup {NoVariant}]
      /\ amount \in [Returns -> Nat]
      /\ refund \in [Returns -> {"none", "pending", "succeeded", "failed"}]
  BY DEF ReturnInv, Return!TypeOK
<1>1. /\ returnStatus[r] = "none"
      /\ returnStatus' = [returnStatus EXCEPT ![r] = to]
      /\ items' = [items EXCEPT ![r] = basket]
      /\ amount' = [amount EXCEPT ![r] = money]
      /\ swap' = [swap EXCEPT ![r] = other]
      /\ reader' = FALSE /\ seen' = {}
      /\ UNCHANGED <<card, returnTime, refund>>
  BY DEF Return!Alta
<1>2. Return!TypeOK'
  <2>1. returnStatus' \in [Returns -> Return!VIGENTES \cup {"none", "rejected"}]
    BY <1>0, <1>1 DEF Return!VIGENTES
  <2>2. items' \in [Returns -> Return!Baskets] /\ amount' \in [Returns -> Nat]
        /\ swap' \in [Returns -> Variants \cup {NoVariant}]
    BY <1>0, <1>1
  <2> QED
    BY <1>0, <1>1, <2>1, <2>2 DEF Return!TypeOK, Return!Levels, Return!Baskets, Return!VIGENTES
<1>3. ASSUME NEW q \in Returns, returnStatus'[q] = "completed", q \notin atCounter', Return!PorStripe(q)'
      PROVE  refund'[q] = "succeeded"
  <2>1. q # r
    BY <1>0, <1>1, <1>3
  <2>2. returnStatus[q] = "completed" /\ q \notin atCounter /\ Return!PorStripe(q)
    BY <1>0, <1>1, <1>3, <2>1 DEF Return!PorStripe, Return!EsCambio
  <2> QED
    BY <1>1, <2>2 DEF ReturnInv, Return!CompletedWasRefunded
<1> QED
  BY <1>2, <1>3 DEF Return!CompletedWasRefunded

\* The same of a resolution.
LEMMA ResuelveTyped ==
    ASSUME ReturnInv, NEW r \in Returns, NEW to, Return!Resuelve(r, to), returnStock' \in Return!Levels,
           refund' \in [Returns -> {"none", "pending", "succeeded", "failed"}],
           \A q \in Returns : refund[q] = "succeeded" => refund'[q] = "succeeded",
           to = "completed" /\ Return!PorStripe(r) => refund'[r] = "succeeded"
    PROVE  Return!TypeOK' /\ Return!CompletedWasRefunded'
<1>0. /\ card \in BOOLEAN /\ returnTime \in BOOLEAN /\ reader \in BOOLEAN
      /\ returnStatus \in [Returns -> Return!VIGENTES \cup {"none", "rejected"}]
      /\ items \in [Returns -> Return!Baskets]
      /\ swap \in [Returns -> Variants \cup {NoVariant}]
      /\ amount \in [Returns -> Nat]
      /\ atCounter \subseteq Returns /\ seen \subseteq Returns
  BY DEF ReturnInv, Return!TypeOK
<1>1. /\ to \in {"approved", "rejected", "completed"}
      /\ returnStatus' = [returnStatus EXCEPT ![r] = to]
      /\ UNCHANGED <<card, returnTime, items, swap, amount, atCounter, reader, seen>>
  BY DEF Return!Resuelve, Return!TRANSICIONES
<1>2. Return!TypeOK'
  <2>1. returnStatus' \in [Returns -> Return!VIGENTES \cup {"none", "rejected"}]
    BY <1>0, <1>1 DEF Return!VIGENTES
  <2> QED
    BY <1>0, <1>1, <2>1 DEF Return!TypeOK, Return!Levels, Return!Baskets, Return!VIGENTES
<1>3. ASSUME NEW q \in Returns, returnStatus'[q] = "completed", q \notin atCounter', Return!PorStripe(q)'
      PROVE  refund'[q] = "succeeded"
  <2>1. q \notin atCounter /\ Return!PorStripe(q)
    BY <1>1, <1>3 DEF Return!PorStripe, Return!EsCambio
  <2>2. CASE q = r
    BY <1>0, <1>1, <1>3, <2>1, <2>2
  <2>3. CASE q # r
    <3>1. returnStatus[q] = "completed"
      BY <1>0, <1>1, <1>3, <2>3
    <3> QED
      BY <2>1, <3>1 DEF ReturnInv, Return!CompletedWasRefunded
  <2> QED
    BY <2>2, <2>3
<1> QED
  BY <1>2, <1>3 DEF Return!CompletedWasRefunded

\* Every step of the returns keeps the invariant.
LEMMA ReturnsKeep == ReturnInv /\ [Return!Next]_returnVars => ReturnInv'
<1> SUFFICES ASSUME ReturnInv, [Return!Next]_returnVars PROVE ReturnInv'
  OBVIOUS
<1>0. /\ returnStock \in Return!Levels /\ atCounter \subseteq Returns
      /\ items \in [Returns -> Return!Baskets] /\ amount \in [Returns -> Nat]
      /\ swap \in [Returns -> Variants \cup {NoVariant}]
      /\ refund \in [Returns -> {"none", "pending", "succeeded", "failed"}]
      /\ NoVariant \notin Variants /\ Return!InForce \subseteq Returns
      /\ \A v \in Variants :
           /\ returnStock[v] = ReturnSupply[v] + ReturnedUnits(v, Done) - HandedOver(v, Return!InForce)
           /\ returnStock[v] \in Int /\ ReturnSupply[v] \in Int
           /\ ReturnedUnits(v, Done) \in Int /\ HandedOver(v, Return!InForce) \in Int
  <2>1. Done \in SUBSET Returns /\ Return!InForce \in SUBSET Returns
    BY DEF Done, Return!InForce
  <2>2. ASSUME NEW v \in Variants
        PROVE  /\ returnStock[v] = ReturnSupply[v] + ReturnedUnits(v, Done) - HandedOver(v, Return!InForce)
               /\ returnStock[v] \in Int /\ ReturnSupply[v] \in Int
               /\ ReturnedUnits(v, Done) \in Int /\ HandedOver(v, Return!InForce) \in Int
    BY <2>1, ReturnConstants, ReturnNumbers DEF ReturnInv, Return!TypeOK, Return!Levels
  <2> QED
    BY <2>1, <2>2, ReturnConstants DEF ReturnInv, Return!TypeOK
<1>1. CASE UNCHANGED returnVars
  <2>1. Return!TypeOK' /\ Return!CompletedWasRefunded' /\ (reader' => Return!InForce \subseteq seen')
    BY <1>1 DEF ReturnInv, returnVars, Return!TypeOK, Return!CompletedWasRefunded, Return!PorStripe,
                Return!EsCambio, Return!Levels, Return!Baskets, Return!VIGENTES
  <2> QED
    BY <1>1, <2>1, RowsStill DEF returnVars
<1>2. CASE Return!Leer \/ Return!Soltar \/ Return!Vencer
  <2>1. UNCHANGED <<card, returnStatus, items, swap, amount, atCounter, refund, returnStock>>
    BY <1>2 DEF Return!Leer, Return!Soltar, Return!Vencer
  <2>2. /\ reader' \in BOOLEAN /\ returnTime' \in BOOLEAN /\ seen' \subseteq Returns
        /\ reader' => Return!InForce \subseteq seen'
    <3>1. Return!InForce' = Return!InForce
      BY <2>1 DEF Return!InForce
    <3>2. /\ reader \in BOOLEAN /\ returnTime \in BOOLEAN /\ seen \subseteq Returns
          /\ reader => Return!InForce \subseteq seen
      BY DEF ReturnInv, Return!TypeOK
    <3>3. CASE Return!Leer
      BY <1>0, <3>1, <3>2, <3>3 DEF Return!Leer
    <3>4. CASE Return!Soltar
      BY <3>1, <3>2, <3>4 DEF Return!Soltar
    <3>5. CASE Return!Vencer
      BY <3>1, <3>2, <3>5 DEF Return!Vencer
    <3> QED
      BY <1>2, <3>3, <3>4, <3>5
  <2>3. Return!TypeOK' /\ Return!CompletedWasRefunded'
    BY <2>1, <2>2 DEF ReturnInv, Return!TypeOK, Return!CompletedWasRefunded, Return!PorStripe,
                      Return!EsCambio, Return!Levels, Return!Baskets, Return!VIGENTES
  <2> QED
    BY <2>1, <2>2, <2>3, RowsStill
<1>3. ASSUME NEW r \in Returns, Return!CompletarFallido(r) \/ Return!StripeLiquida(r) PROVE ReturnInv'
  <2>1. /\ UNCHANGED <<card, returnTime, returnStock, returnStatus, items, swap, amount, atCounter, reader, seen>>
        /\ \E how \in {"pending", "succeeded", "failed"} : refund' = [refund EXCEPT ![r] = how]
        /\ refund[r] # "succeeded"
    BY <1>3 DEF Return!CompletarFallido, Return!StripeLiquida, Return!StripeAcepta
  <2>2. refund' \in [Returns -> {"none", "pending", "succeeded", "failed"}]
        /\ \A q \in Returns : refund[q] = "succeeded" => refund'[q] = "succeeded"
    BY <1>0, <2>1
  <2>3. Return!TypeOK' /\ Return!CompletedWasRefunded'
    BY <2>1, <2>2 DEF ReturnInv, Return!TypeOK, Return!CompletedWasRefunded, Return!PorStripe,
                      Return!EsCambio, Return!Levels, Return!Baskets, Return!VIGENTES
  <2>4. reader' => Return!InForce \subseteq seen'
    BY <2>1 DEF ReturnInv
  <2> QED
    BY <2>1, <2>3, <2>4, RowsStill
<1>4. ASSUME NEW r \in Returns, NEW basket \in Return!Requested, Return!Solicitar(r, basket) PROVE ReturnInv'
  <2>1. basket \in Return!Baskets
    BY DEF Return!Requested, Return!Baskets
  <2>2. /\ Return!Cierra(basket) /\ UNCHANGED <<returnStock, atCounter>>
        /\ Return!Alta(r, "requested", basket, Return!MontoAReintegrar(basket), NoVariant)
    BY <1>4 DEF Return!Solicitar
  <2>3. PICK money \in Nat : /\ money = Return!MontoAReintegrar(basket)
                             /\ money = 0 \/ money + GivenBack({q \in seen : ~Return!EsCambio(q)}) <= Total
    BY <2>1, AmountFits
  <2>4. Return!Alta(r, "requested", basket, money, NoVariant)
    BY <2>2, <2>3
  <2>5. /\ reader' = FALSE
        /\ \A v \in Variants : (ReturnedUnits(v, Return!InForce) <= Bought[v])'
        /\ (GivenBack(Refunding) <= Total)'
        /\ \A v \in Variants : /\ ReturnedUnits(v, Done)' = ReturnedUnits(v, Done)
                               /\ HandedOver(v, Return!InForce)' = HandedOver(v, Return!InForce)
    <3>1. PICK to, other : to = "requested" /\ other = NoVariant
      OBVIOUS
    <3>2. to \in {"requested", "completed"} /\ other \in Variants \cup {NoVariant}
      BY <3>1
    <3>3. Return!Alta(r, to, basket, money, other) /\ Return!Cierra(basket)
      BY <2>2, <2>4, <3>1
    <3>4. AltaLeaves(to, basket, other)
      BY <2>1, <2>3, <3>2, <3>3, AltaKeeps
    <3> QED
      BY <1>0, <3>1, <3>4 DEF AltaLeaves
  <2>6. Return!TypeOK' /\ Return!CompletedWasRefunded'
    BY <1>0, <2>1, <2>2, <2>4, AltaTyped
  <2>7. \A v \in Variants :
          (returnStock[v] = ReturnSupply[v] + ReturnedUnits(v, Done) - HandedOver(v, Return!InForce))'
    BY <1>0, <2>2, <2>5
  <2> QED
    BY <2>5, <2>6, <2>7 DEF ReturnInv
<1>5. ASSUME NEW r \in Returns, NEW basket \in Return!Requested, Return!RegistrarEnCaja(r, basket)
      PROVE  ReturnInv'
  <2>1. basket \in Return!Baskets
    BY DEF Return!Requested, Return!Baskets
  <2>2. /\ Return!Cierra(basket) /\ Return!CanPut(returnStock, basket)
        /\ returnStock' = Return!Put(returnStock, basket)
        /\ atCounter' = atCounter \cup {r}
        /\ Return!Alta(r, "completed", basket, Return!MontoAReintegrar(basket), NoVariant)
    BY <1>5 DEF Return!RegistrarEnCaja
  <2>3. PICK money \in Nat : /\ money = Return!MontoAReintegrar(basket)
                             /\ money = 0 \/ money + GivenBack({q \in seen : ~Return!EsCambio(q)}) <= Total
    BY <2>1, AmountFits
  <2>4. Return!Alta(r, "completed", basket, money, NoVariant)
    BY <2>2, <2>3
  <2>5. /\ reader' = FALSE
        /\ \A v \in Variants : (ReturnedUnits(v, Return!InForce) <= Bought[v])'
        /\ (GivenBack(Refunding) <= Total)'
        /\ \A v \in Variants : /\ ReturnedUnits(v, Done)' = basket[v] + ReturnedUnits(v, Done)
                               /\ HandedOver(v, Return!InForce)' = HandedOver(v, Return!InForce)
    <3>1. PICK to, other : to = "completed" /\ other = NoVariant
      OBVIOUS
    <3>2. to \in {"requested", "completed"} /\ other \in Variants \cup {NoVariant}
      BY <3>1
    <3>3. Return!Alta(r, to, basket, money, other) /\ Return!Cierra(basket)
      BY <2>2, <2>4, <3>1
    <3>4. AltaLeaves(to, basket, other)
      BY <2>1, <2>3, <3>2, <3>3, AltaKeeps
    <3> QED
      BY <1>0, <3>1, <3>4 DEF AltaLeaves
  <2>6. \A v \in Variants : basket[v] \in Nat
    BY <2>1, NaturalBaskets
  <2>7. returnStock' \in Return!Levels
    BY <1>0, <2>2, <2>6, ShelfKept
  <2>8. Return!TypeOK' /\ Return!CompletedWasRefunded'
    BY <1>0, <2>1, <2>2, <2>4, <2>7, AltaTyped
  <2>9. ASSUME NEW v \in Variants
        PROVE  (returnStock[v] = ReturnSupply[v] + ReturnedUnits(v, Done) - HandedOver(v, Return!InForce))'
    <3>1. returnStock'[v] = returnStock[v] + basket[v]
      BY <2>2 DEF Return!Put
    <3> QED
      BY <1>0, <2>5, <2>6, <3>1
  <2> QED
    BY <2>5, <2>8, <2>9 DEF ReturnInv
<1>6. ASSUME NEW r \in Returns, NEW v \in Variants, NEW other \in Variants, NEW n \in 1 .. MaxStock,
             Return!SolicitarCambio(r, v, n, other)
      PROVE  ReturnInv'
  <2>1. n \in Nat /\ n <= MaxStock
    BY ReturnConstants
  <2>2. PICK basket, taken : basket = Return!Unit(v, n) /\ taken = Return!Unit(other, n)
    OBVIOUS
  <2>3. /\ \A w \in Variants : basket[w] = IF w = v THEN n ELSE 0
        /\ \A w \in Variants : taken[w] = IF w = other THEN n ELSE 0
        /\ SumFunctionOnSet(basket, Variants) = n
    BY <2>1, <2>2, UnitMoves
  <2>4. basket \in Return!Baskets
    <3>1. basket = [w \in Variants |-> basket[w]]
      BY <2>2 DEF Return!Unit, Return!Nothing
    <3>2. \A w \in Variants : basket[w] \in 0 .. MaxStock
      BY <2>1, <2>3, ReturnConstants
    <3> QED
      BY <3>1, <3>2 DEF Return!Baskets
  <2>5. /\ Return!Cierra(basket) /\ Return!CanTake(returnStock, taken)
        /\ returnStock' = Return!Take(returnStock, taken) /\ atCounter' = atCounter
        /\ Return!Alta(r, "requested", basket, 0, other)
    BY <1>6, <2>2 DEF Return!SolicitarCambio
  <2>6. /\ reader' = FALSE
        /\ \A w \in Variants : (ReturnedUnits(w, Return!InForce) <= Bought[w])'
        /\ (GivenBack(Refunding) <= Total)'
        /\ \A w \in Variants : /\ ReturnedUnits(w, Done)' = ReturnedUnits(w, Done)
                               /\ HandedOver(w, Return!InForce)' =
                                    IF other = w THEN n + HandedOver(w, Return!InForce)
                                    ELSE HandedOver(w, Return!InForce)
    <3>1. PICK to, money : to = "requested" /\ money = 0
      OBVIOUS
    <3>2. /\ to \in {"requested", "completed"} /\ other \in Variants \cup {NoVariant}
          /\ money \in Nat
          /\ money = 0 \/ money + GivenBack({q \in seen : ~Return!EsCambio(q)}) <= Total
      BY <3>1
    <3>3. Return!Alta(r, to, basket, money, other) /\ Return!Cierra(basket)
      BY <2>5, <3>1
    <3>4. AltaLeaves(to, basket, other)
      BY <2>4, <3>2, <3>3, AltaKeeps
    <3> QED
      BY <2>3, <3>1, <3>4 DEF AltaLeaves
  <2>7. returnStock' \in Return!Levels
    <3>1. \A w \in Variants : taken[w] \in Nat
      BY <2>1, <2>3
    <3> QED
      BY <1>0, <2>5, <3>1, ShelfKept
  <2>8. Return!TypeOK' /\ Return!CompletedWasRefunded'
    BY <1>0, <2>4, <2>5, <2>7, AltaTyped
  <2>9. ASSUME NEW w \in Variants
        PROVE  (returnStock[w] = ReturnSupply[w] + ReturnedUnits(w, Done) - HandedOver(w, Return!InForce))'
    <3>1. returnStock'[w] = returnStock[w] - taken[w]
      BY <2>5 DEF Return!Take
    <3> QED
      BY <1>0, <2>1, <2>3, <2>6, <3>1
  <2> QED
    BY <2>6, <2>8, <2>9 DEF ReturnInv
<1>7. ASSUME NEW r \in Returns, Return!Aprobar(r) PROVE ReturnInv'
  <2>1. Return!Resuelve(r, "approved") /\ UNCHANGED <<returnStock, refund>>
    BY <1>7 DEF Return!Aprobar
  <2>2. /\ reader' => Return!InForce' \subseteq seen'
        /\ \A v \in Variants : (ReturnedUnits(v, Return!InForce) <= Bought[v])'
        /\ (GivenBack(Refunding) <= Total)'
        /\ \A v \in Variants : /\ ReturnedUnits(v, Done)' = ReturnedUnits(v, Done)
                               /\ HandedOver(v, Return!InForce)' = HandedOver(v, Return!InForce)
    BY <2>1, ResuelveKeeps
  <2>3. Return!TypeOK' /\ Return!CompletedWasRefunded'
    BY <1>0, <2>1, ResuelveTyped
  <2>4. \A v \in Variants :
          (returnStock[v] = ReturnSupply[v] + ReturnedUnits(v, Done) - HandedOver(v, Return!InForce))'
    BY <1>0, <2>1, <2>2
  <2> QED
    BY <2>2, <2>3, <2>4 DEF ReturnInv
<1>8. ASSUME NEW r \in Returns, Return!Rechazar(r) PROVE ReturnInv'
  <2>1. Return!Resuelve(r, "rejected") /\ UNCHANGED refund
    BY <1>8 DEF Return!Rechazar
  <2>2. /\ reader' => Return!InForce' \subseteq seen'
        /\ \A v \in Variants : (ReturnedUnits(v, Return!InForce) <= Bought[v])'
        /\ (GivenBack(Refunding) <= Total)'
        /\ \A v \in Variants : /\ ReturnedUnits(v, Done)' = ReturnedUnits(v, Done)
                               /\ HandedOver(v, Return!InForce) =
                                    IF swap[r] = v THEN Pieces[r] + HandedOver(v, Return!InForce)'
                                    ELSE HandedOver(v, Return!InForce)'
    BY <2>1, ResuelveKeeps
  <2>3. Pieces[r] \in Nat
    BY ReturnNumbers
  <2>4. /\ returnStock' \in Return!Levels
        /\ \A v \in Variants : returnStock'[v] = returnStock[v] + (IF swap[r] = v THEN Pieces[r] ELSE 0)
    <3>1. CASE swap[r] = NoVariant
      BY <1>0, <1>8, <3>1 DEF Return!Rechazar, Return!EsCambio
    <3>2. CASE swap[r] # NoVariant
      <4>1. swap[r] \in Variants
        BY <1>0, <3>2
      <4>2. PICK basket : basket = Return!Unit(swap[r], Pieces[r])
        OBVIOUS
      <4>3. \A v \in Variants : basket[v] = IF v = swap[r] THEN Pieces[r] ELSE 0
        BY <2>3, <4>1, <4>2, UnitMoves
      <4>4. Return!SumFunctionOnSet(items[r], Variants) = Pieces[r]
        BY ReturnSums DEF Pieces
      <4>5. Return!CanPut(returnStock, basket) /\ returnStock' = Return!Put(returnStock, basket)
        BY <1>8, <3>2, <4>2, <4>4 DEF Return!Rechazar, Return!EsCambio
      <4>6. \A v \in Variants : basket[v] \in Nat
        BY <2>3, <4>3
      <4>7. returnStock' \in Return!Levels
        BY <1>0, <4>5, <4>6, ShelfKept
      <4>8. \A v \in Variants : returnStock'[v] = returnStock[v] + (IF swap[r] = v THEN Pieces[r] ELSE 0)
        BY <4>3, <4>5 DEF Return!Put
      <4> QED
        BY <4>7, <4>8
    <3> QED
      BY <3>1, <3>2
  <2>5. Return!TypeOK' /\ Return!CompletedWasRefunded'
    BY <1>0, <2>1, <2>4, ResuelveTyped
  <2>6. ASSUME NEW v \in Variants
        PROVE  (returnStock[v] = ReturnSupply[v] + ReturnedUnits(v, Done) - HandedOver(v, Return!InForce))'
    <3>1. HandedOver(v, Return!InForce)' \in Int
      <4>1. /\ Return!InForce' \subseteq Returns /\ Pieces' = Pieces
        BY <2>1 DEF Return!InForce, Pieces, Return!Resuelve
      <4>2. {q \in Return!InForce' : swap'[q] = v} \in SUBSET Returns /\ Pieces \in [Returns -> Int]
        BY <4>1, ReturnNumbers
      <4>3. SumFunctionOnSet(Pieces, {q \in Return!InForce' : swap'[q] = v}) \in Int
        BY <4>2, ReturnConstants, SumOfPart
      <4> QED
        BY <4>1, <4>3 DEF HandedOver
    <3>2. returnStock'[v] = returnStock[v] + (IF swap[r] = v THEN Pieces[r] ELSE 0)
      BY <2>4
    <3>3. CASE swap[r] = v
      BY <1>0, <2>2, <2>3, <3>1, <3>2, <3>3
    <3>4. CASE swap[r] # v
      BY <1>0, <2>2, <3>1, <3>2, <3>4
    <3> QED
      BY <3>3, <3>4
  <2> QED
    BY <2>2, <2>5, <2>6 DEF ReturnInv
<1>9. ASSUME NEW r \in Returns, Return!Completar(r) PROVE ReturnInv'
  <2>1. /\ Return!Resuelve(r, "completed")
        /\ refund' = IF Return!PorStripe(r) THEN [refund EXCEPT ![r] = "succeeded"] ELSE refund
        /\ Return!CanPut(returnStock, items[r]) /\ returnStock' = Return!Put(returnStock, items[r])
    BY <1>9 DEF Return!Completar
  <2>2. /\ reader' => Return!InForce' \subseteq seen'
        /\ \A v \in Variants : (ReturnedUnits(v, Return!InForce) <= Bought[v])'
        /\ (GivenBack(Refunding) <= Total)'
        /\ \A v \in Variants : /\ ReturnedUnits(v, Done)' = items[r][v] + ReturnedUnits(v, Done)
                               /\ HandedOver(v, Return!InForce)' = HandedOver(v, Return!InForce)
    BY <2>1, ResuelveKeeps
  <2>3. \A v \in Variants : items[r][v] \in Nat
    BY <1>0, NaturalBaskets
  <2>4. returnStock' \in Return!Levels
    BY <1>0, <2>1, <2>3, ShelfKept
  <2>5. /\ refund' \in [Returns -> {"none", "pending", "succeeded", "failed"}]
        /\ \A q \in Returns : refund[q] = "succeeded" => refund'[q] = "succeeded"
        /\ Return!PorStripe(r) => refund'[r] = "succeeded"
    BY <1>0, <2>1
  <2>6. Return!TypeOK' /\ Return!CompletedWasRefunded'
    BY <2>1, <2>4, <2>5, ResuelveTyped
  <2>7. ASSUME NEW v \in Variants
        PROVE  (returnStock[v] = ReturnSupply[v] + ReturnedUnits(v, Done) - HandedOver(v, Return!InForce))'
    <3>1. returnStock'[v] = returnStock[v] + items[r][v]
      BY <2>1 DEF Return!Put
    <3> QED
      BY <1>0, <2>2, <2>3, <3>1
  <2> QED
    BY <2>2, <2>6, <2>7 DEF ReturnInv
<1> QED
  BY <1>1, <1>2, <1>3, <1>4, <1>5, <1>6, <1>7, <1>8, <1>9 DEF Return!Next

-----------------------------------------------------------------------------
(* The desks together.  A desk that does not move stays where it was, so    *)
(* the invariant of each holds whichever moves.                             *)

DeskInv ==
    /\ desk \in {"reservations", "exchanges", "offline", "returns"}
    /\ ReservationsInv /\ AsideAddsUp
    /\ ExchangeInv /\ ExchangesAddUp
    /\ OfflineInv /\ SalesAddUp
    /\ ReturnInv

\* A step of the desks is a step of each, or leaves it as it is.
LEMMA EachDeskSteps ==
    [DeskNext]_deskVars =>
        /\ desk' = desk
        /\ [Next]_vars /\ [Exchange!Next]_exchangeVars
        /\ [Offline!Next]_offlineVars /\ [Return!Next]_returnVars
BY Zenon DEF DeskNext, Reserving, Exchanging, SellingOffline, Returning, deskVars

\* Whatever the desk, the invariant holds at the start and after every step.
THEOREM DeskInvariant == DeskSpec => []DeskInv
<1>1. DeskInit => DeskInv
  BY ReservationsStart, AsideStart, ExchangesStart, ExchangesAddUpStart, OfflineStart, SalesStart,
     ReturnsStart DEF DeskInit, DeskInv
<1>2. DeskInv /\ [DeskNext]_deskVars => DeskInv'
  BY EachDeskSteps, ReservationsKeep, AsideKept, ExchangesKeep, ExchangesAddUpKeep, OfflineKeep,
     SalesKeep, ReturnsKeep DEF DeskInv
<1> QED
  BY <1>1, <1>2, PTL DEF DeskSpec

\* The types of the variables of the four desks.
THEOREM DeskTypes == DeskSpec => []TypesOK
<1>1. DeskInv => TypesOK
  BY DEF DeskInv, ReservationsInv, ExchangeInv, OfflineInv, ReturnInv, TypesOK
<1> QED
  BY <1>1, DeskInvariant, PTL

\* However many deliveries of a reservation arrive together, a key of a customer
\* names one (reservation_service.py looks the key up again behind the lock).
THEOREM OneReservationPerKey == DeskSpec => []OneRowPerKey
<1>1. DeskInv => OneRowPerKey
  BY DEF DeskInv, ReservationsInv
<1> QED
  BY <1>1, DeskInvariant, PTL

\* For every basket, line and stock each unit is on the shelf or in the rows: no
\* path of a reservation or of a return takes or gives back a unit twice, none of
\* an exchange that wrote over nothing, none of a sale made offline.
THEOREM UnitsAreConserved == DeskSpec => []UnitsConserved
<1>1. DeskInv => UnitsConserved
  <2>1. ReservationsInv /\ AsideAddsUp => StockConserved
    BY DEF ReservationsInv, HeldWhileLive, AsideAddsUp, Aside, StockConserved
  <2> QED
    BY <2>1, ExchangesExact, SoldSums, ReturnInvSays DEF DeskInv, UnitsConserved
<1> QED
  BY <1>1, DeskInvariant, PTL

\* However often a garment exchange is sent with one key, it is made once.
THEOREM ExchangeIsMadeOnce == DeskSpec => []ExchangedOnce
<1>1. DeskInv => ExchangedOnce
  BY DEF DeskInv, ExchangeInv, ExchangedOnce
<1> QED
  BY <1>1, DeskInvariant, PTL

\* However the deliveries of an offline till overlap, a key sells once, and it
\* waits for a review exactly while its conflict is open.
THEOREM SoldOnceOrReviewed == DeskSpec => []SoldOrReviewed
<1>1. DeskInv => SoldOrReviewed
  BY DEF DeskInv, OfflineInv, SoldOrReviewed
<1> QED
  BY <1>1, DeskInvariant, PTL

\* For every order, price and total, the returns in force have at most what was
\* bought and commit at most what was paid, although resolutions commit between
\* the reading and the writing of a request.
THEOREM ReturnsAreWithinOrder == DeskSpec => []ReturnsWithinOrder
<1>1. DeskInv => ReturnsWithinOrder
  BY ReturnInvSays DEF DeskInv, ReturnsWithinOrder
<1> QED
  BY <1>1, DeskInvariant, PTL

\* The last result of an operation in a response to the till can be relied on.
THEOREM AnswersAreTrue == DeskSpec => []AnswersTrue
<1>1. DeskInv => AnswersTrue
  BY DEF DeskInv, OfflineInv, AnswersTrue
<1> QED
  BY <1>1, DeskInvariant, PTL

\* A settled operation is not settled again, by a delivery or by a review.
THEOREM SettledIsForGood == DeskSpec => SettledForGood
<1>1. DeskInv /\ [DeskNext]_deskVars => [Offline!SettledStays]_offlineVars
  BY EachDeskSteps, OfflineKeep DEF DeskInv
<1> QED
  BY <1>1, DeskInvariant, PTL DEF DeskSpec, SettledForGood

\* A repeated request is never refused once its reservation is registered, even
\* if that one took the last units.
THEOREM RepeatedIsNeverRefused == DeskSpec => NeverRefusedOnceRegistered
<1>1. DeskInv /\ [DeskNext]_deskVars =>
        [\A r \in Requests :
           request[r] # "refused" /\ request'[r] = "refused" => Registered(r) = {}]_vars
  <2> SUFFICES ASSUME ReservationsInv, Next, NEW r \in Requests,
                      request[r] # "refused", request'[r] = "refused"
               PROVE  Registered(r) = {}
    BY EachDeskSteps DEF DeskInv
  <2>1. request[r] \in Inside
    BY DEF ReservationsInv, TypeOK, Next, Lock, ValidarDisponibilidad, Crear, Die, ActualizarEstado, Change,
           Ends, Inside
  <2> QED
    BY <2>1 DEF ReservationsInv, StillFresh
<1> QED
  BY <1>1, DeskInvariant, PTL DEF DeskSpec, NeverRefusedOnceRegistered

\* The units of a reservation leave the shelf once and come back at most once:
\* the circuit implements OrderPromise with nobody charged.
THEOREM PromiseKept == DeskSpec => KeepsPromise
<1>1. DeskInit => Kept!Start
  <2> SUFFICES ASSUME Init PROVE Kept!Start
    BY DEF DeskInit
  <2>1. stock \in Kept!Levels
    BY ReservationsAssumption DEF Init, Levels, Kept!Levels
  <2>2. Phase \in [Requests -> {"none", "held"}]
    BY DEF Init, Phase, Live
  <2> QED
    BY <2>1, <2>2 DEF Kept!Start
<1>2. DeskInv /\ [DeskNext]_deskVars => [Kept!Moves]_(Kept!promise)
  BY EachDeskSteps, ReservationsStepKept DEF DeskInv, Kept!Moves
<1> QED
  BY <1>1, <1>2, DeskInvariant, PTL DEF DeskSpec, KeepsPromise, Kept!Promise

=============================================================================

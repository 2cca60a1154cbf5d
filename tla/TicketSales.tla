---------------------------- MODULE TicketSales ----------------------------
(***************************************************************************)
(* Sale of the tickets of one event: purchaseTicket (checkout.service.ts)  *)
(* through the app, and doorSale (checkins.service.ts) by the staff.       *)
(*                                                                         *)
(* A purchase fixes its channel, counts what is sold and in flight with    *)
(* two or three queries that run in parallel and are not one snapshot, and *)
(* then creates its order in a transaction of its own. A pending order     *)
(* holds its places for 30 minutes, and may be paid later than that, or    *)
(* after it was refused. The settlement of an order is one step here:      *)
(* PaymentSettlement shows that it happens once. Prices and attribution    *)
(* are left out.                                                           *)
(***************************************************************************)
EXTENDS Integers, FiniteSets

CONSTANTS
    Purchase,    \* calls of purchaseTicket; each may create one order
    Quantity,    \* Quantity[k]: tickets it asks for
    Credit,      \* purchases paid with credits of one Pase Social
    Sale,        \* calls of doorSale
    PresaleCap,  \* Event.presaleCap
    DoorCap,     \* Event.doorCap
    Balance,     \* initial SocialPass.creditsBalance
    MaxManual    \* MANUAL check-ins at most (a bound of the model)

ASSUME SalesAssumption ==
    /\ IsFiniteSet(Purchase)
    /\ Quantity \in [Purchase -> 1..10]
    /\ Credit \subseteq Purchase
    /\ \A k \in Credit : Quantity[k] = 1
    /\ {PresaleCap, DoorCap, Balance, MaxManual} \subseteq Nat

VARIABLES
    phase,      \* before the presale cutoff, after it, after the end
    stage,      \* control of each purchase
    channel,    \* Payment.channel
    seen,       \* seen[k]: results of the counting queries, Unread before
    order,      \* Payment.status, "none" before the order exists
    lapsed,     \* orders older than PENDING_ORDER_TTL_MS, or refused once
    sale,       \* control of each doorSale
    staffSold,  \* tickets created by doorSale
    manual,     \* MANUAL check-ins that are not voided
    balance,    \* SocialPass.creditsBalance
    redeemed,   \* purchases with a REDEEM row in SocialPassLedger
    disturbed   \* history: purchases that counted while another sale was
                \* created or paid

salesVars == <<phase, stage, channel, seen, order, lapsed, sale, staffSold,
               manual, balance, redeemed, disturbed>>
doorVars == <<sale, staffSold, manual>>
creditVars == <<balance, redeemed>>

Channel == {"PRESALE", "DOOR"}
Query == {"sold", "pending", "manual"}
Unread == -1

SalesTypeOK ==
    /\ phase \in {"presale", "door", "ended"}
    /\ stage \in [Purchase -> {"idle", "counting", "settling", "done"}]
    /\ channel \in [Purchase -> Channel]
    /\ seen \in [Purchase -> [Query -> Nat \cup {Unread}]]
    /\ order \in [Purchase -> {"none", "PENDING", "PAID", "FAILED"}]
    /\ lapsed \subseteq Purchase
    /\ sale \in [Sale -> {"idle", "checked", "done"}]
    /\ staffSold \in Nat
    /\ manual \in 0..MaxManual
    /\ balance \in Nat
    /\ redeemed \subseteq Purchase
    /\ disturbed \subseteq Purchase

SalesInit ==
    /\ phase = "presale"
    /\ stage = [k \in Purchase |-> "idle"]
    /\ channel = [k \in Purchase |-> "PRESALE"]
    /\ seen = [k \in Purchase |-> [q \in Query |-> Unread]]
    /\ order = [k \in Purchase |-> "none"]
    /\ lapsed = {}
    /\ sale = [s \in Sale |-> "idle"]
    /\ staffSold = 0
    /\ manual = 0
    /\ balance = Balance
    /\ redeemed = {}
    /\ disturbed = {}

GoesTo(k, step) == stage' = [stage EXCEPT ![k] = step]

\* What the call has read is forgotten when it ends.
Forget(k) == seen' = [seen EXCEPT ![k] = [q \in Query |-> Unread]]

\* A sale was created or paid: who is counting may have missed it.
Disturb(k) == disturbed' = disturbed \cup {j \in Purchase \ {k} : stage[j] = "counting"}

\* The tickets of the orders of S, and how many they are.
TicketsOf(S) == {t \in S \X (1..10) : t[2] <= Quantity[t[1]]}
Tickets(S) == Cardinality(TicketsOf(S))

Cap(c) == IF c = "PRESALE" THEN PresaleCap ELSE DoorCap

\* The presale is checked against all tickets and pending orders of the
\* event, the door against those of its channel and the MANUAL check-ins.
Orders(c, st) == {k \in Purchase : order[k] = st /\ (c = "DOOR" => channel[k] = "DOOR")}
Queries(c) == IF c = "PRESALE" THEN {"sold", "pending"} ELSE Query

\* Mutant of Pending: orders in flight do not count.
PendingIgnored(c) == 0
Pending(c) == Tickets(Orders(c, "PENDING") \ lapsed)

Count(c, q) ==
    CASE q = "sold"    -> Tickets(Orders(c, "PAID"))
                          + (IF c = "PRESALE" THEN staffSold ELSE 0)
      [] q = "pending" -> Pending(c)
      [] q = "manual"  -> manual

\* What the queries of a channel add up to.
Total(c, n) == n["sold"] + n["pending"] + (IF c = "DOOR" THEN n["manual"] ELSE 0)

\* What they would add up to in one snapshot.
Load(c) == Total(c, [q \in Query |-> Count(c, q)])

-----------------------------------------------------------------------------
\* Event, channel and pass are read; credits are checked for the first time.
Begin(k) ==
    /\ stage[k] = "idle"
    /\ phase # "ended"
    /\ channel' = [channel EXCEPT ![k] = IF phase = "presale" THEN "PRESALE" ELSE "DOOR"]
    /\ GoesTo(k, IF k \in Credit /\ balance < Quantity[k] THEN "done" ELSE "counting")
    /\ UNCHANGED <<phase, seen, order, lapsed, doorVars, creditVars, disturbed>>

\* One of the queries of Promise.all, in any order.
RunQuery(k, q) ==
    /\ stage[k] = "counting"
    /\ q \in Queries(channel[k])
    /\ seen[k][q] = Unread
    /\ seen' = [seen EXCEPT ![k][q] = Count(channel[k], q)]
    /\ UNCHANGED <<phase, stage, channel, order, lapsed, doorVars, creditVars, disturbed>>

Counted(k) == stage[k] = "counting" /\ \A q \in Queries(channel[k]) : seen[k][q] # Unread

\* Mutant of RoomFor: room for one ticket is room for the order.
RoomForOne(k) == Total(channel[k], seen[k]) < Cap(channel[k])

RoomFor(k) == Total(channel[k], seen[k]) + Quantity[k] <= Cap(channel[k])

\* PresaleSoldOutError, DoorSoldOutError.
SoldOut(k) ==
    /\ Counted(k)
    /\ ~RoomFor(k)
    /\ GoesTo(k, "done")
    /\ Forget(k)
    /\ UNCHANGED <<phase, channel, order, lapsed, doorVars, creditVars, disturbed>>

\* Mutant of Redeem: the balance checked by Begin is trusted.
RedeemUnchecked(k) ==
    /\ balance' = balance - Quantity[k]
    /\ redeemed' = redeemed \cup {k}

\* redeemPassCredits: UPDATE ... WHERE creditsBalance >= quantity.
Redeem(k) ==
    /\ balance >= Quantity[k]
    /\ balance' = balance - Quantity[k]
    /\ redeemed' = redeemed \cup {k}

\* createAssessedPayment: the order and its REDEEM row in one transaction. A
\* FREE order goes on to its settlement, another waits to be paid.
Create(k) ==
    /\ Counted(k)
    /\ RoomFor(k)
    /\ IF k \in Credit THEN Redeem(k) ELSE UNCHANGED creditVars
    /\ order' = [order EXCEPT ![k] = "PENDING"]
    /\ GoesTo(k, IF k \in Credit THEN "settling" ELSE "done")
    /\ Disturb(k)
    /\ Forget(k)
    /\ UNCHANGED <<phase, channel, lapsed, doorVars>>

\* The credits went to another purchase since Begin: nothing is created.
NoCredits(k) ==
    /\ Counted(k)
    /\ RoomFor(k)
    /\ k \in Credit /\ balance < Quantity[k]
    /\ GoesTo(k, "done")
    /\ Forget(k)
    /\ UNCHANGED <<phase, channel, order, lapsed, doorVars, creditVars, disturbed>>

\* An order of zero is settled at once, in a second transaction.
SettleFree(k) ==
    /\ stage[k] = "settling"
    /\ order' = [order EXCEPT ![k] = "PAID"]
    /\ GoesTo(k, "done")
    /\ Disturb(k)
    /\ UNCHANGED <<phase, channel, seen, lapsed, doorVars, creditVars>>

\* The gateway or the producer confirms, however late. The claim takes any
\* order that is not PAID, and one that was refused held no place any more.
Settle(k) ==
    /\ order[k] \in {"PENDING", "FAILED"}
    /\ k \notin Credit
    /\ order' = [order EXCEPT ![k] = "PAID"]
    /\ Disturb(k)
    /\ UNCHANGED <<phase, stage, channel, seen, lapsed, doorVars, creditVars>>

\* They refuse: the claim of a refusal takes a pending order only.
Refuse(k) ==
    /\ order[k] = "PENDING"
    /\ k \notin Credit
    /\ order' = [order EXCEPT ![k] = "FAILED"]
    /\ lapsed' = lapsed \cup {k}
    /\ UNCHANGED <<phase, stage, channel, seen, doorVars, creditVars, disturbed>>

\* 30 minutes after its creation a pending order holds no place any more.
Expire(k) ==
    /\ order[k] = "PENDING"
    /\ lapsed' = lapsed \cup {k}
    /\ UNCHANGED <<phase, stage, channel, seen, order, doorVars, creditVars, disturbed>>

\* The API process dies between the two transactions of a FREE order. (If it
\* dies earlier, nothing was written.)
Crash(k) ==
    /\ stage[k] = "settling"
    /\ GoesTo(k, "done")
    /\ UNCHANGED <<phase, channel, seen, order, lapsed, doorVars, creditVars, disturbed>>

-----------------------------------------------------------------------------
\* doorSale: countDoorSales, compared with the cap.
CheckDoor(s) ==
    /\ sale[s] = "idle"
    /\ phase # "ended"
    /\ sale' = [sale EXCEPT ![s] = IF manual < DoorCap THEN "checked" ELSE "done"]
    /\ UNCHANGED <<phase, stage, channel, seen, order, lapsed, staffSold, manual, creditVars, disturbed>>

\* createDoorSale: a USED ticket and its MANUAL check-in.
SellAtDoor(s) ==
    /\ sale[s] = "checked"
    /\ manual < MaxManual
    /\ sale' = [sale EXCEPT ![s] = "done"]
    /\ staffSold' = staffSold + 1
    /\ manual' = manual + 1
    /\ disturbed' = disturbed \cup {k \in Purchase : stage[k] = "counting"}
    /\ UNCHANGED <<phase, stage, channel, seen, order, lapsed, creditVars>>

\* register with method MANUAL: somebody enters who bought elsewhere.
RegisterManual ==
    /\ phase # "ended"
    /\ manual < MaxManual
    /\ manual' = manual + 1
    /\ disturbed' = disturbed \cup {k \in Purchase : stage[k] = "counting"}
    /\ UNCHANGED <<phase, stage, channel, seen, order, lapsed, sale, staffSold, creditVars>>

\* voidCheckin: the check-in does not count any more.
VoidManual ==
    /\ manual > 0
    /\ manual' = manual - 1
    /\ UNCHANGED <<phase, stage, channel, seen, order, lapsed, sale, staffSold, creditVars, disturbed>>

\* The presale cutoff, and the end of the event.
Pass ==
    /\ phase' = (CASE phase = "presale" -> "door" [] OTHER -> "ended")
    /\ phase # "ended"
    /\ UNCHANGED <<stage, channel, seen, order, lapsed, doorVars, creditVars, disturbed>>

Buy(k) ==
    \/ Begin(k)
    \/ \E q \in Query : RunQuery(k, q)
    \/ SoldOut(k) \/ Create(k) \/ NoCredits(k) \/ SettleFree(k)

SalesNext ==
    \/ \E k \in Purchase :
        Buy(k) \/ Settle(k) \/ Refuse(k) \/ Expire(k) \/ Crash(k)
    \/ \E s \in Sale : CheckDoor(s) \/ SellAtDoor(s)
    \/ RegisterManual \/ VoidManual \/ Pass

SalesSpec == SalesInit /\ [][SalesNext]_salesVars

-----------------------------------------------------------------------------
\* An order created by a purchase that nothing disturbed while it counted
\* leaves its channel within its cap, with everything sold or in flight.
CreatedWithinCap ==
    [][\A k \in Purchase :
          (order[k] = "none" /\ order'[k] = "PENDING" /\ k \notin disturbed)
             => Load(channel[k])' <= Cap(channel[k])]_salesVars

\* The presale is oversold in two ways only: by purchases that overlapped, or
\* by an order that was paid after it had lost its places, because it expired
\* or because it was refused first.
PresaleOversoldOnlyByRaces ==
    LET presale == {k \in Purchase : channel[k] = "PRESALE" /\ order[k] \in {"PENDING", "PAID"}}
        late == {k \in lapsed : order[k] = "PAID"}
    IN  (disturbed \cup late) \cap presale = {}
           => Tickets({k \in presale : order[k] = "PAID" \/ k \notin lapsed}) <= PresaleCap

\* Credits are neither lost nor spent twice: what is missing from the balance
\* is what existing orders redeemed, and no order is settled without paying.
CreditsConserved ==
    /\ balance >= 0
    /\ balance + Tickets(redeemed) = Balance
    /\ redeemed = {k \in Credit : order[k] # "none"}

=============================================================================

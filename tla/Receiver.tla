------------------------------ MODULE Receiver ------------------------------
(* What the site and the parser's worker send the bot:                      *)
(* src/api/internal.py takes orders (/internal/sync), events                *)
(* (/internal/event) and messages (/internal/notify-user).  A sender that   *)
(* hears no answer sends the same again, also while the first is at work.   *)
EXTENDS Integers, Sequences, FiniteSets, FiniteSetsExt

CONSTANTS
  Order,       \* what is sent: one event_id each
  Linked,      \* orders with an external_url
  Theirs,      \* orders whose source is gruzpotok-api: no cargo is made of them
  Delivery,    \* requests in flight
  Person,      \* Telegram ids
  TellOf,      \* order -> whom /internal/sync tells
  Named,       \* order -> whom the data of /internal/event names
  MostCargos,  \* bounds
  MostTold

ASSUME ReceiverAssumption ==
  /\ Linked \subseteq Order /\ Theirs \subseteq Order /\ Person \subseteq Nat
  /\ \A o \in Order : TellOf[o] \in Person /\ Named[o] \subseteq Person
  /\ MostCargos \in Nat /\ MostTold \in Nat

VARIABLES
  cargos,       \* rows of cargos made of an order: id -> order
  delivery,     \* request -> what it does
  subscribers,  \* users with an active subscription that fits the route
  told,         \* person -> order -> messages Telegram took
  overlapped,   \* orders of which a delivery began while another looked (observed)
  answered      \* order -> the last answer to /internal/sync: the id it named

receiverVars == <<cargos, delivery, subscribers, told, overlapped, answered>>

NoAnswer == -1
Unsent == [step |-> "idle"]
NoId == 0

ReceiverInit ==
  /\ cargos = <<>> /\ delivery = [r \in Delivery |-> Unsent]
  /\ subscribers \in SUBSET Person /\ told = [p \in Person |-> [o \in Order |-> 0]]
  /\ overlapped = {} /\ answered = [o \in Order |-> NoAnswer]

Becomes(r, d) == delivery' = [delivery EXCEPT ![r] = d]
At(r, step) == delivery[r].step = step
OrdersInHand == {delivery[r].order : r \in {s \in Delivery : delivery[s].step \in {"look", "make"}}}

-----------------------------------------------------------------------------
(* internal_sync_data                                                       *)

\* With the right token; without it the answer is 403 or 503 and nothing happens.
Receive(r, o) ==
  /\ delivery[r] = Unsent
  /\ Becomes(r, IF o \in Theirs THEN [step |-> "tell", order |-> o, id |-> NoId]
                ELSE [step |-> "look", order |-> o])
  /\ overlapped' = IF o \in OrdersInHand THEN overlapped \cup {o} ELSE overlapped
  /\ UNCHANGED <<cargos, subscribers, told, answered>>

\* Mutant: every order is made a cargo.
NoneOf(o) == {}

\* The cargos with the link and the source of the order.
MadeOf(o) == {i \in DOMAIN cargos : cargos[i] = o /\ o \in Linked}

\* scalar() raises nothing where there are two, it takes one of them.
Look(r) ==
  LET o == delivery[r].order IN
  /\ At(r, "look")
  /\ IF MadeOf(o) = {} THEN Becomes(r, [step |-> "make", order |-> o])
     ELSE \E i \in MadeOf(o) : Becomes(r, [step |-> "tell", order |-> o, id |-> i])
  /\ UNCHANGED <<cargos, subscribers, told, overlapped, answered>>

Make(r) ==
  /\ At(r, "make") /\ Len(cargos) < MostCargos
  /\ cargos' = Append(cargos, delivery[r].order)
  /\ Becomes(r, [step |-> "tell", order |-> delivery[r].order, id |-> Len(cargos')])
  /\ UNCHANGED <<subscribers, told, overlapped, answered>>

\* An exception of the look-up or the insert is logged and the request goes on.
MakeFails(r) ==
  /\ delivery[r].step \in {"look", "make"}
  /\ Becomes(r, [step |-> "tell", order |-> delivery[r].order, id |-> NoId])
  /\ UNCHANGED <<cargos, subscribers, told, overlapped, answered>>

\* The message goes out, or its failure is logged; the answer is "ok" either way.
TellOwner(r, taken) ==
  LET o == delivery[r].order
      p == TellOf[o]
  IN
  /\ At(r, "tell") /\ told[p][o] + taken <= MostTold
  /\ told' = [told EXCEPT ![p][o] = @ + taken]
  /\ answered' = [answered EXCEPT ![o] = delivery[r].id]
  /\ Becomes(r, Unsent)
  /\ UNCHANGED <<cargos, subscribers, overlapped>>

-----------------------------------------------------------------------------
(* internal_event                                                           *)

\* Whom the data names, or else the subscribers of the route.
Addressed(o) == IF Named[o] # {} THEN Named[o] ELSE subscribers

Resolve(r, o) ==
  /\ delivery[r] = Unsent
  /\ Becomes(r, [step |-> "send", order |-> o, left |-> Addressed(o), targets |-> Addressed(o),
                 sent |-> {}, failed |-> {}])
  /\ UNCHANGED <<cargos, subscribers, told, overlapped, answered>>

\* One after another in the order of their ids.
Send(r, taken) ==
  LET d == delivery[r]
      p == Min(d.left)
  IN
  /\ At(r, "send") /\ d.left # {} /\ told[p][d.order] + taken <= MostTold
  /\ told' = [told EXCEPT ![p][d.order] = @ + taken]
  /\ Becomes(r, IF taken = 1 THEN [d EXCEPT !.left = @ \ {p}, !.sent = @ \cup {p}]
                ELSE [d EXCEPT !.left = @ \ {p}, !.failed = @ \cup {p}])
  /\ UNCHANGED <<cargos, subscribers, overlapped, answered>>

Report(r) ==
  /\ At(r, "send") /\ delivery[r].left = {}
  /\ Becomes(r, Unsent)
  /\ UNCHANGED <<cargos, subscribers, told, overlapped, answered>>

-----------------------------------------------------------------------------

\* The process ends: no answer.
Restart ==
  /\ \E r \in Delivery : delivery[r] # Unsent
  /\ delivery' = [r \in Delivery |-> Unsent]
  /\ UNCHANGED <<cargos, subscribers, told, overlapped, answered>>

SwitchRoute(p) ==
  /\ subscribers' = IF p \in subscribers THEN subscribers \ {p} ELSE subscribers \cup {p}
  /\ UNCHANGED <<cargos, delivery, told, overlapped, answered>>

ReceiverNext ==
  \/ Restart
  \/ \E p \in Person : SwitchRoute(p)
  \/ \E r \in Delivery :
       \/ \E o \in Order : Receive(r, o) \/ Resolve(r, o)
       \/ Look(r) \/ Make(r) \/ MakeFails(r) \/ Report(r)
       \/ \E taken \in {0, 1} : TellOwner(r, taken) \/ Send(r, taken)

ReceiverSpec == ReceiverInit /\ [][ReceiverNext]_receiverVars

ReceiverTypeOK ==
  /\ \A i \in DOMAIN cargos : cargos[i] \in Order \ Theirs
  /\ \A r \in Delivery : delivery[r].step \in {"idle", "look", "make", "tell", "send"}
  /\ subscribers \subseteq Person /\ told \in [Person -> [Order -> 0..MostTold]]
  /\ overlapped \subseteq Order /\ \A o \in Order : answered[o] \in NoAnswer..Len(cargos)

-----------------------------------------------------------------------------

\* An order with a link becomes one cargo however often it is sent, through restarts and lost
\* answers, unless two deliveries of it overlapped; the id it is answered with is its own
\* cargo's.  An event that goes through tells each it concerns or names them as failed.
OrderIsOneCargo ==
  /\ \A o \in Linked \ overlapped : Cardinality({i \in DOMAIN cargos : cargos[i] = o}) <= 1
  /\ \A o \in Order : answered[o] > NoId => cargos[answered[o]] = o
  /\ \A r \in Delivery : At(r, "send") =>
       /\ delivery[r].sent \cup delivery[r].failed = delivery[r].targets \ delivery[r].left
       /\ \A p \in delivery[r].sent : told[p][delivery[r].order] > 0
=============================================================================

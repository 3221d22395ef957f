------------------------------- MODULE Broker -------------------------------
(***************************************************************************)
(* One durable RabbitMQ queue as the workers of app/scripts use it: they   *)
(* consume with a prefetch limit and acknowledge a message once they have  *)
(* handled it.  A message that is not acknowledged stays the broker's; it  *)
(* goes back to its place in the queue when its consumer is gone.          *)
(***************************************************************************)
EXTENDS Naturals, Sequences

CONSTANTS
    Workers,            \* the consumers
    Prefetch            \* how many messages one holds at a time

VARIABLES
    queue,              \* the messages of the broker, those on delivery included
    held                \* per worker: messages delivered to it, in that order

brokerVars == <<queue, held>>

Message(bodies) == [serial : Nat, body : bodies]

Init ==
    /\ queue = {}
    /\ held = [w \in Workers |-> <<>>]

Held(w) == {held[w][i] : i \in DOMAIN held[w]}
Ready == queue \ UNION {Held(w) : w \in Workers}

(* The one that comes next: no two messages have the same number.          *)
Oldest == {m \in Ready : \A n \in Ready : m.serial =< n.serial}

(* The messages of the queue are numbered as they came.                    *)
Send(body) ==
    /\ \E last \in {0} \cup {m.serial : m \in queue} :
         /\ \A m \in queue : m.serial =< last
         /\ queue' = queue \cup {[serial |-> last + 1, body |-> body]}
    /\ UNCHANGED held

Deliver_OneTooMany(w) ==
    /\ Len(held[w]) =< Prefetch
    /\ \E m \in Oldest : held' = [held EXCEPT ![w] = Append(held[w], m)]
    /\ UNCHANGED queue
Deliver(w) ==
    /\ Len(held[w]) < Prefetch
    /\ \E m \in Oldest : held' = [held EXCEPT ![w] = Append(held[w], m)]
    /\ UNCHANGED queue

Working(w) == held[w] # <<>>
Current(w) == Head(held[w]).body

(* The one a worker is on when the broker has not yet got its last ack.    *)
Following(w) == held[w][2].body

Ack(w) ==
    /\ Working(w)
    /\ queue' = queue \ {Head(held[w])}
    /\ held' = [held EXCEPT ![w] = Tail(held[w])]

(* The worker dies: everything it held is ready again, in its old place.   *)
Requeue_AutoAck(w) ==
    /\ queue' = queue \ Held(w)
    /\ held' = [held EXCEPT ![w] = <<>>]
Requeue(w) ==
    /\ held' = [held EXCEPT ![w] = <<>>]
    /\ UNCHANGED queue

BrokerTypeOK(bodies) ==
    /\ queue \subseteq Message(bodies)
    /\ \A w \in Workers : Len(held[w]) =< Prefetch /\ Held(w) \subseteq queue
    /\ \A v, w \in Workers : v # w => Held(v) \cap Held(w) = {}
=============================================================================

--------------------------- MODULE AbstractQueues ---------------------------
(***************************************************************************)
(* What explore() relies on when it calls queue_enqueue and queue_dequeue: *)
(* first-in first-out queues from which a state is handed to exactly one   *)
(* thread.                                                                 *)
(***************************************************************************)
EXTENDS Sequences

CONSTANTS Workers, Queues, Items, NoItem, InitialItem

VARIABLES
    queue,      \* queue[k]: the items in queue k, oldest first
    taken,      \* taken[w]: the item w has removed and not returned yet
    returned    \* the items dequeue has returned to some caller

queuesVars == <<queue, taken, returned>>

QueuesInit ==
    /\ queue = [k \in Queues |->
                  IF InitialItem[k] = NoItem THEN <<>> ELSE <<InitialItem[k]>>]
    /\ taken = [w \in Workers |-> NoItem]
    /\ returned = {}

AppendItem(k, e) ==
    /\ queue' = [queue EXCEPT ![k] = Append(@, e)]
    /\ UNCHANGED <<taken, returned>>

TakeItem(w, k) ==
    /\ queue[k] # <<>>
    /\ taken[w] = NoItem
    /\ taken' = [taken EXCEPT ![w] = Head(queue[k])]
    /\ queue' = [queue EXCEPT ![k] = Tail(@)]
    /\ UNCHANGED returned

ReturnItem(w) ==
    /\ taken[w] # NoItem
    /\ taken[w] \notin returned
    /\ returned' = returned \cup {taken[w]}
    /\ taken' = [taken EXCEPT ![w] = NoItem]
    /\ UNCHANGED queue

QueuesNext ==
    \/ \E k \in Queues, e \in Items : AppendItem(k, e)
    \/ \E w \in Workers, k \in Queues : TakeItem(w, k)
    \/ \E w \in Workers : ReturnItem(w)

QueuesSpec == QueuesInit /\ [][QueuesNext]_queuesVars
=============================================================================

------------------------------- MODULE MCList -------------------------------
(* Instances of List for TLC: a small heap, and the clients of the list.   *)
EXTENDS List

CONSTANTS e1, e2   \* elements

ListCalls == {"push_front", "insert", "push_back", "remove", "set", "clear"}
QueueCalls == {"push_front", "pop_back"}   \* queue.h: enqueue and dequeue
AllCalls == ListCalls \cup {"pop_front", "pop_back"}

\* Clients that use the list without popping, as a queue, and in every way
AllClients == {ListCalls, QueueCalls, AllCalls}

\* A client that deletes a queue when it has done with it
QueueDelete == {QueueCalls \cup {"clear"}}
=============================================================================

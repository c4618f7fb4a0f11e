------------------------------ MODULE UtilQueue ------------------------------
(***************************************************************************)
(* The linked list behind the device work queue (iot_util.c), with the     *)
(* pointers head, tail and next, and the one operation that edits the list *)
(* from outside: _iot_mqtt_delete_pending_task, with which st_mqtt_destroy *)
(* takes the works of a client out of the queue of everybody.              *)
(*                                                                         *)
(* A node is an address that malloc may hand out again once it was freed;  *)
(* freed memory keeps its content until then.  iot_util_queue_send and     *)
(* iot_util_queue_receive are one step each (they hold queue->lock over    *)
(* every pointer they touch).  The delete reads queue->head BEFORE it      *)
(* takes the lock and then walks the list one node per step, holding it.   *)
(* It runs on the work queue's own thread here (iot_es_disconnect called   *)
(* by a command handler), so no receive happens meanwhile.  Sends do:      *)
(* those of other threads while the lock is free, those of the client      *)
(* itself until st_mqtt_destroy has deleted its ping timer.                *)
(***************************************************************************)
EXTENDS Naturals, Sequences

CONSTANTS Nodes,      \* addresses of iot_util_queue_data_t
          Owners,     \* work.owner_id: MQTT clients, or NoOwner
          NoOwner,
          NULL,
          MaxSends    \* bound: sends in one behaviour

ASSUME UtilQueueAssumption == /\ NULL \notin Nodes
                              /\ NoOwner \in Owners
                              /\ MaxSends \in Nat

VARIABLES head, tail, next,  \* the list
          live,              \* allocated nodes
          item,              \* what a node holds: [num, owner]
          sends,             \* number of sends so far
          purge,             \* the running delete: [step, owner, iter, prev]
          destroyed,         \* clients whose timers are deleted and memory freed
          expected,          \* the works a queue would hold: sent, and neither
                             \* received nor taken out
          received,          \* numbers of the received works, in order
          tailFreed          \* a delete freed the node tail points to

queueVars == <<head, tail, next, live, item, sends, purge, destroyed, expected,
               received, tailFreed>>

Item == [num : 0 .. MaxSends, owner : Owners]
Pointer == Nodes \cup {NULL}
NoPurge == [step |-> "none", owner |-> NoOwner, iter |-> NULL, prev |-> NULL]

QueueInit == /\ head = NULL
             /\ tail = NULL
             /\ next = [n \in Nodes |-> NULL]
             /\ live = {}
             /\ item = [n \in Nodes |-> [num |-> 0, owner |-> NoOwner]]
             /\ sends = 0
             /\ purge = NoPurge
             /\ destroyed = {}
             /\ expected = {}
             /\ received = <<>>
             /\ tailFreed = FALSE

Locked == purge.step = "walk"

-----------------------------------------------------------------------------

\* Mistake: the old tail is not linked to the new node.
LinkTailOnly(n) == /\ head' = IF head = NULL THEN n ELSE head
                   /\ tail' = n
                   /\ next' = [next EXCEPT ![n] = NULL]

\* Linking a fresh node n under the lock.  tail->next is written whether or not
\* tail still points to an allocated node.
Link(n) ==
    IF head = NULL \/ tail = NULL
    THEN /\ head' = n
         /\ tail' = n
         /\ next' = [next EXCEPT ![n] = NULL]
    ELSE /\ next' = [next EXCEPT ![n] = NULL, ![tail] = n]
         /\ tail' = n
         /\ UNCHANGED head

iot_util_queue_send(o) ==
    /\ ~ Locked
    /\ sends < MaxSends
    /\ o \notin destroyed
    /\ \E n \in Nodes \ live :
          /\ Link(n)
          /\ live' = live \cup {n}
          /\ item' = [item EXCEPT ![n] = [num |-> sends + 1, owner |-> o]]
    /\ sends' = sends + 1
    /\ expected' = expected \cup {[num |-> sends + 1, owner |-> o]}
    /\ UNCHANGED <<purge, destroyed, received, tailFreed>>

\* Mistake: head is not advanced.
UnlinkKeepsHead == UNCHANGED <<head, tail, next>>

\* Unlinking the first node under the lock.
Unlink ==
    IF head = tail
    THEN head' = NULL /\ tail' = NULL /\ UNCHANGED next
    ELSE head' = next[head] /\ next' = [next EXCEPT ![head] = NULL]
                            /\ UNCHANGED tail

iot_util_queue_receive ==
    /\ purge.step = "none"
    /\ head # NULL /\ tail # NULL
    /\ Unlink
    /\ live' = live \ {head}
    /\ received' = Append(received, item[head].num)
    /\ expected' = expected \ {item[head]}
    /\ UNCHANGED <<item, sends, purge, destroyed, tailFreed>>

-----------------------------------------------------------------------------
(* _iot_mqtt_delete_pending_task                                           *)

\* queue_data_iter = queue->head, not yet holding the lock.
DeleteBegin(o) ==
    /\ purge.step = "none"
    /\ o \notin destroyed \cup {NoOwner}
    /\ purge' = [step |-> "begun", owner |-> o, iter |-> head, prev |-> NULL]
    /\ UNCHANGED <<head, tail, next, live, item, sends, destroyed, expected,
                   received, tailFreed>>

DeleteLock ==
    /\ purge.step = "begun"
    /\ purge' = [purge EXCEPT !.step = "walk"]
    /\ UNCHANGED <<head, tail, next, live, item, sends, destroyed, expected,
                   received, tailFreed>>

\* Taking the node at iter out of the list: three cases, of which the last does
\* not look at tail.
Excise ==
    LET n == purge.iter
    IN  \/ /\ head = tail
           /\ head' = NULL /\ tail' = NULL
           /\ purge' = [purge EXCEPT !.iter = NULL]
           /\ UNCHANGED next
        \/ /\ head # tail /\ n = head
           /\ head' = next[head]
           /\ purge' = [purge EXCEPT !.iter = next[head]]
           /\ UNCHANGED <<next, tail>>
        \/ /\ head # tail /\ n # head
           /\ next' = [next EXCEPT ![purge.prev] = next[n]]
           /\ purge' = [purge EXCEPT !.iter = next[n]]
           /\ UNCHANGED <<head, tail>>

DeleteRemove ==
    /\ Locked /\ purge.iter # NULL
    /\ item[purge.iter].owner = purge.owner
    /\ Excise
    /\ live' = live \ {purge.iter}
    /\ expected' = expected \ {item[purge.iter]}
    /\ tailFreed' = (tailFreed \/ tail' = purge.iter)
    /\ UNCHANGED <<item, sends, destroyed, received>>

DeleteSkip ==
    /\ Locked /\ purge.iter # NULL
    /\ item[purge.iter].owner # purge.owner
    /\ purge' = [purge EXCEPT !.prev = purge.iter, !.iter = next[purge.iter]]
    /\ UNCHANGED <<head, tail, next, live, item, sends, destroyed, expected,
                   received, tailFreed>>

DeleteEnd ==
    /\ Locked /\ purge.iter = NULL
    /\ purge' = [purge EXCEPT !.step = "unlocked", !.prev = NULL]
    /\ UNCHANGED <<head, tail, next, live, item, sends, destroyed, expected,
                   received, tailFreed>>

\* The rest of st_mqtt_destroy: the timers go, then the client.
DestroyEnd ==
    /\ purge.step = "unlocked"
    /\ destroyed' = destroyed \cup {purge.owner}
    /\ purge' = NoPurge
    /\ UNCHANGED <<head, tail, next, live, item, sends, expected, received,
                   tailFreed>>

-----------------------------------------------------------------------------
QueueNext == \/ \E o \in Owners : iot_util_queue_send(o) \/ DeleteBegin(o)
             \/ iot_util_queue_receive
             \/ DeleteLock \/ DeleteRemove \/ DeleteSkip \/ DeleteEnd
             \/ DestroyEnd

QueueSpec == QueueInit /\ [][QueueNext]_queueVars

-----------------------------------------------------------------------------
(* Properties.                                                             *)

ListTypeOK == /\ head \in Pointer
              /\ tail \in Pointer
              /\ next \in [Nodes -> Pointer]
              /\ live \subseteq Nodes
              /\ item \in [Nodes -> Item]
              /\ sends \in 0 .. MaxSends
              /\ purge \in [step : {"none", "begun", "walk", "unlocked"}, owner : Owners,
                            iter : Pointer, prev : Pointer]
              /\ destroyed \subseteq Owners
              /\ expected \subseteq Item
              /\ received \in Seq(1 .. MaxSends)
              /\ tailFreed \in BOOLEAN

\* The list as a receiver walks it: the k-th node after head, NULL behind the
\* last one.  No list is longer than the number of sends.
At == LET at[k \in 0 .. MaxSends] == IF k = 0 THEN head
                                     ELSE IF at[k - 1] = NULL THEN NULL
                                          ELSE next[at[k - 1]]
      IN  at
OnList == {k \in 0 .. MaxSends : At[k] # NULL}

\* Whatever the delete does to the pointers, a receive never touches memory that
\* was freed, and no node is on the list twice.
ListIsAllocated == /\ ListTypeOK
                   /\ \A k \in OnList : At[k] \in live
                   /\ \A j, k \in OnList : j # k => At[j] # At[k]

ReceivedInOrder ==
    \A i, j \in 1 .. Len(received) : i < j => received[i] < received[j]

\* Works stand in the order of the sends, which numbered them, behind those that
\* were received.
ListInOrder ==
    \A k \in OnList :
       /\ \A j \in OnList : j < k => item[At[j]].num < item[At[k]].num
       /\ \A i \in 1 .. Len(received) : received[i] < item[At[k]].num

\* The list is the queue of its header ("send item to the back of queue",
\* "receive item from the front"), and only works of the destroyed client were
\* taken out, as long as no delete removed the node tail points to while another
\* work stood before it.  Even then works reach the task in the order of the
\* sends, each at most once.
QueueUnlessTailFreed == /\ ReceivedInOrder
                        /\ ListInOrder
                        /\ ~ tailFreed => {item[At[k]] : k \in OnList} = expected

=============================================================================

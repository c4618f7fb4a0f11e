--------------------------- MODULE WorkQueueProofs ---------------------------
(***************************************************************************)
(* For every set of producers and every number of works: the device work   *)
(* queue loses no wake-up (NoLostWakeup) and its steps are steps of the    *)
(* abstract Mailbox.  For every set of addresses and of clients and every  *)
(* number of sends: the linked list below it stays a list of allocated     *)
(* nodes in the order of the sends, and holds what a queue would hold      *)
(* until a delete frees the node tail points to.                           *)
(***************************************************************************)
EXTENDS WorkQueue, UtilQueue, WellFoundedInduction, TLAPS

(* What the event group's critical sections preserve.                      *)

\* iot_os_eventgroup_set_bits keeps the type, keeps status and pipes in step,
\* takes no token away and leaves the bits it was given with one.
LEMMA SetBitsKeepsMatch ==
    ASSUME NEW Bits, NEW g \in GroupType(Bits), NEW s \in SUBSET Bits,
           \A b \in Bits : g.pipe[b] = IF b \in g.status THEN 1 ELSE 0
    PROVE  LET h == SetBits(g, s)
           IN  /\ h \in GroupType(Bits)
               /\ \A b \in Bits : h.pipe[b] = IF b \in h.status THEN 1 ELSE 0
               /\ \A b \in Bits : g.pipe[b] > 0 => h.pipe[b] > 0
               /\ \A b \in s : h.pipe[b] > 0
  BY DEF SetBits, GroupType

\* iot_os_eventgroup_wait_bits with clear_on_exit, on pipes that hold a token,
\* keeps the type and keeps status and pipes in step.
LEMMA ReadBitsKeepsMatch ==
    ASSUME NEW Bits, NEW g \in GroupType(Bits),
           NEW r \in SUBSET Readable(g, Bits),
           \A b \in Bits : g.pipe[b] = IF b \in g.status THEN 1 ELSE 0
    PROVE  LET h == ReadBits(g, r, r)
           IN  /\ h \in GroupType(Bits)
               /\ \A b \in Bits : h.pipe[b] = IF b \in h.status THEN 1 ELSE 0
               /\ \A b \in Bits : b \in r => b \in g.status
               /\ \A b \in Bits : b \notin r => h.pipe[b] = g.pipe[b]
  BY DEF ReadBits, GroupType, Readable

-----------------------------------------------------------------------------
\* The initial state of the work queue satisfies the inductive invariant.
LEMMA InitWakeUpInv == Init => WakeUpInv
  BY WorkQueueAssumption
  DEF Init, WakeUpInv, TypeOK, StatusMatchesPipe, ReportedIsReadable,
      RunningInHandler, NoLostWakeup, WakeUpComing, EmptyGroup, GroupType,
      SIGNAL_ALL, TaskSteps, Works

\* Every step of the task and of the producers preserves it.
LEMMA NextWakeUpInv == WakeUpInv /\ [Next]_vars => WakeUpInv'
  <1> SUFFICES ASSUME WakeUpInv, [Next]_vars PROVE WakeUpInv'
    OBVIOUS
  <1> USE WorkQueueAssumption DEF WakeUpInv, TypeOK, StatusMatchesPipe,
          ReportedIsReadable, RunningInHandler, NoLostWakeup, WakeUpComing,
          TaskSteps
  <1>0. PENDING \in SIGNAL_ALL /\ {PENDING} \in SUBSET SIGNAL_ALL
    BY DEF SIGNAL_ALL
  \* Setting PENDING, whoever does it, leaves a token for it.
  <1>set. ASSUME SetPending
          PROVE  /\ group' \in GroupType(SIGNAL_ALL)
                 /\ StatusMatchesPipe'
                 /\ group'.pipe[PENDING] > 0
                 /\ \A b \in SIGNAL_ALL : group.pipe[b] > 0 => group'.pipe[b] > 0
    BY <1>set, <1>0, SetBitsKeepsMatch DEF SetPending
  <1>send. ASSUME QueueSend
           PROVE  queue' \in Seq(Works) /\ issued' \in 0 .. MaxWorks
    BY <1>send DEF QueueSend, Works
  <1>1. CASE UNCHANGED vars
    BY <1>1 DEF vars, Readable
  <1>2. ASSUME NEW p \in Producers, PutSend(p) PROVE WakeUpInv'
    BY <1>2, <1>send DEF PutSend, QueueSend, Readable
  <1>3. ASSUME NEW p \in Producers, PutFails(p) PROVE WakeUpInv'
    BY <1>3 DEF PutFails, QueueSendFails, Readable, Works
  <1>4. ASSUME NEW p \in Producers, PutSignal(p) PROVE WakeUpInv'
    BY <1>4, <1>set DEF PutSignal, Readable
  <1>5. CASE TaskSelect
    BY <1>5 DEF TaskSelect, Readable
  <1>6. CASE TaskTimeout
    BY <1>6 DEF TaskTimeout
  <1>7. CASE TaskRead
    <2>1. ready \in SUBSET Readable(group, SIGNAL_ALL)
      BY <1>7 DEF TaskRead
    <2>2. /\ group' \in GroupType(SIGNAL_ALL)
          /\ StatusMatchesPipe'
          /\ PENDING \in ready => PENDING \in group.status
          /\ PENDING \notin ready => group'.pipe[PENDING] = group.pipe[PENDING]
      BY <1>7, <2>1, <1>0, ReadBitsKeepsMatch DEF TaskRead
    <2>3. events' \in SUBSET SIGNAL_ALL
      BY <1>7 DEF TaskRead, GroupType
    <2> QED
      BY <1>7, <2>2, <2>3, <1>0 DEF TaskRead
  <1>8. CASE TaskReadStatus
    <2>1. events' \in SUBSET SIGNAL_ALL
      BY <1>8 DEF TaskReadStatus, GroupType
    <2> QED
      BY <1>8, <2>1 DEF TaskReadStatus
  <1>9. CASE TaskReceive
    BY <1>9 DEF TaskReceive
  <1>10. CASE TaskNothing
    BY <1>10 DEF TaskNothing
  <1>11. CASE HandlerSend
    BY <1>11, <1>send DEF HandlerSend, QueueSend
  <1>12. CASE HandlerSignal
    BY <1>12, <1>set DEF HandlerSignal
  <1>13. CASE HandlerReturn
    BY <1>13 DEF HandlerReturn
  <1>14. CASE TaskRearm
    BY <1>14, <1>set DEF TaskRearm
  <1> QED
    BY <1>1, <1>2, <1>3, <1>4, <1>5, <1>6, <1>7, <1>8, <1>9, <1>10, <1>11,
       <1>12, <1>13, <1>14 DEF Next, TaskStep, ProducerStep

\* In every reachable state of the device work queue the invariant holds.
THEOREM WakeUpInvHolds == SafeSpec => []WakeUpInv
  BY InitWakeUpInv, NextWakeUpInv, PTL DEF SafeSpec

\* The variables of _device_work_queue_task and of its callers stay in type.
THEOREM TypeCorrect == Spec => []TypeOK
  <1>1. WakeUpInv => TypeOK
    BY DEF WakeUpInv
  <1> QED
    BY <1>1, WakeUpInvHolds, PTL DEF Spec

\* A set bit of the work queue's event group always has exactly one token.
THEOREM StatusAlwaysMatchesPipe == Spec => []StatusMatchesPipe
  <1>1. WakeUpInv => StatusMatchesPipe
    BY DEF WakeUpInv
  <1> QED
    BY <1>1, WakeUpInvHolds, PTL DEF Spec

\* iot_put_device_work and _device_work_queue_task lose no wake-up.
THEOREM NeverLosesWakeup == Spec => []NoLostWakeup
  <1>1. WakeUpInv => NoLostWakeup
    BY DEF WakeUpInv
  <1> QED
    BY <1>1, WakeUpInvHolds, PTL DEF Spec

-----------------------------------------------------------------------------
\* Each step of the work queue is a step of the Mailbox or leaves it alone, so
\* works run one at a time, in the order in which they were accepted.
THEOREM RefinesMailbox == SafeSpec => Promise!SafeSpec
  <1>1. Init => Promise!Init
    BY DEF Init, Promise!Init
  <1>2. WakeUpInv /\ [Next]_vars => [Promise!Next]_(Promise!vars)
    <2> SUFFICES ASSUME WakeUpInv, [Next]_vars
                 PROVE  [Promise!Next]_(Promise!vars)
      OBVIOUS
    <2> USE DEF Promise!vars, Promise!Next
    <2>1. ASSUME QueueSend, UNCHANGED <<running, handled>>
          PROVE  Promise!Next
      <3>1. issued + 1 \in Works
        BY <2>1, WorkQueueAssumption
        DEF QueueSend, Works, WakeUpInv, TypeOK
      <3> QED
        BY <2>1, <3>1 DEF QueueSend, Promise!Accept
    <2>2. CASE TaskReceive
      <3>1. running = <<>>
        BY <2>2 DEF TaskReceive, WakeUpInv, RunningInHandler
      <3>2. Promise!Begin
        BY <2>2, <3>1 DEF TaskReceive, Promise!Begin
      <3> QED
        BY <3>2
    <2>3. CASE HandlerReturn
      <3>1. running # <<>>
        BY <2>3 DEF HandlerReturn, WakeUpInv, RunningInHandler
      <3>2. Promise!Finish
        BY <2>3, <3>1 DEF HandlerReturn, Promise!Finish
      <3> QED
        BY <3>2
    <2>4. CASE HandlerSend
      BY <2>1, <2>4 DEF HandlerSend
    <2>5. ASSUME NEW p \in Producers, PutSend(p) PROVE Promise!Next
      BY <2>1, <2>5 DEF PutSend
    <2>6. ASSUME \/ TaskSelect \/ TaskTimeout \/ TaskRead \/ TaskReadStatus
                 \/ TaskNothing \/ HandlerSignal \/ TaskRearm
                 \/ UNCHANGED vars
          PROVE  UNCHANGED <<queue, running, handled>>
      BY <2>6 DEF TaskSelect, TaskTimeout, TaskRead, TaskReadStatus,
         TaskNothing, HandlerSignal, TaskRearm, vars
    <2>7. ASSUME NEW p \in Producers, PutFails(p) \/ PutSignal(p)
          PROVE  UNCHANGED <<queue, running, handled>>
      BY <2>7 DEF PutFails, PutSignal, QueueSendFails
    <2> QED
      BY <2>2, <2>3, <2>4, <2>5, <2>6, <2>7 DEF Next, TaskStep, ProducerStep
  <1> QED
    BY <1>1, <1>2, WakeUpInvHolds, PTL DEF SafeSpec, Promise!SafeSpec

-----------------------------------------------------------------------------
(* The linked list of UtilQueue.                                           *)

\* A nonempty set of numbers has a least one (induction for the walk below).
LEMMA LeastNumber ==
    ASSUME NEW T \in SUBSET Nat, T # {}
    PROVE  \E x \in T : \A y \in T : x =< y
  <1>1. PICK x \in T : \A y \in T : ~ (<<y, x>> \in OpToRel(<, Nat))
    BY NatLessThanWellFounded, WFMin, Zenon
  <1>2. \A y \in T : ~ (y < x)
    BY <1>1 DEF OpToRel
  <1> HIDE <1>1
  <1> QED
    BY ONLY <1>2, T \in SUBSET Nat, x \in T

-----------------------------------------------------------------------------
\* L is the set of nodes on the list: the numbers of their works tell them apart,
\* head has the least of them, and next leads from each to the next greater one.
Listed(L) ==
    /\ L \subseteq live
    /\ \A x \in L : item[x].num \in 1 .. sends
    /\ \A x, y \in L : item[x].num = item[y].num => x = y
    /\ head = NULL => L = {}
    /\ head # NULL => head \in L /\ \A y \in L : item[head].num =< item[y].num
    /\ \A x \in L : next[x] = NULL => \A y \in L : item[y].num =< item[x].num
    /\ \A x \in L : next[x] # NULL =>
          /\ next[x] \in L /\ item[x].num < item[next[x]].num
          /\ \A y \in L : item[y].num =< item[x].num
                          \/ item[next[x]].num =< item[y].num

\* tail is the end of the list, unless a delete freed it: then it is not on the
\* list at all.
Ends(L) ==
    /\ tail \in L => next[tail] = NULL
    /\ tail = NULL => head = NULL
    /\ ~ tailFreed => /\ tail \in L \/ (tail = NULL /\ L = {})
                      /\ {item[x] : x \in L} = expected

\* The received works went in the order of the sends, all before those in L.
Behind(L) ==
    /\ ReceivedInOrder
    /\ \A i \in 1 .. Len(received) :
          received[i] =< sends /\ \A x \in L : received[i] < item[x].num

\* The delete is at a node of the list and knows the one before it.
Purging(L) ==
    /\ purge.step = "begun" => purge.iter \in {NULL, head} /\ purge.prev = NULL
    /\ Locked /\ purge.iter # NULL =>
          /\ purge.iter \in L
          /\ \/ purge.iter = head /\ purge.prev = NULL
             \/ purge.prev \in L /\ next[purge.prev] = purge.iter

\* L is the content of the list, and every pointer of the program respects it.
IsList(L) == Listed(L) /\ Ends(L) /\ Behind(L) /\ Purging(L)

\* The inductive invariant of the linked list.
ListInv == ListTypeOK /\ \E L \in SUBSET Nodes : IsList(L)

-----------------------------------------------------------------------------
(* Each operation takes a list to a list.                                  *)

\* The empty queue is a list.
LEMMA ListInit == QueueInit => ListInv
  <1> SUFFICES ASSUME QueueInit PROVE ListInv
    OBVIOUS
  <1> USE UtilQueueAssumption
  <1>1. ListTypeOK
    <2>1. NULL \in Pointer /\ [num |-> 0, owner |-> NoOwner] \in Item
      BY DEF Pointer, Item
    <2>2. purge \in [step : {"none", "begun", "walk", "unlocked"}, owner : Owners,
                     iter : Pointer, prev : Pointer]
      BY <2>1 DEF QueueInit, NoPurge
    <2>3. tailFreed \in BOOLEAN
      BY Zenon DEF QueueInit
    <2>4. /\ next \in [Nodes -> Pointer] /\ item \in [Nodes -> Item]
          /\ received \in Seq(1 .. MaxSends) /\ sends \in 0 .. MaxSends
      BY <2>1 DEF QueueInit
    <2>5. /\ head \in Pointer /\ tail \in Pointer /\ live \subseteq Nodes
          /\ destroyed \subseteq Owners /\ expected \subseteq Item
      BY <2>1 DEF QueueInit
    <2> QED
      BY <2>2, <2>3, <2>4, <2>5 DEF ListTypeOK
  <1>2. IsList({})
    BY DEF QueueInit, IsList, Listed, Ends, Behind, Purging, Locked, NoPurge,
           ReceivedInOrder
  <1> QED
    BY <1>1, <1>2 DEF ListInv

\* A send puts the new node behind tail: at the end of the list, if tail is.
LEMMA SendKeeps ==
    ASSUME ListInv, NEW o \in Owners, iot_util_queue_send(o)
    PROVE  ListInv'
  <1> USE UtilQueueAssumption
  <1>0. ListTypeOK
    BY DEF ListInv
  <1>1. PICK L \in SUBSET Nodes : IsList(L)
    BY DEF ListInv
  <1>2. PICK n \in Nodes \ live :
           /\ Link(n) /\ live' = live \cup {n}
           /\ item' = [item EXCEPT ![n] = [num |-> sends + 1, owner |-> o]]
    BY DEF iot_util_queue_send
  <1>3. /\ sends < MaxSends /\ sends' = sends + 1 /\ ~ Locked
        /\ expected' = expected \cup {[num |-> sends + 1, owner |-> o]}
        /\ UNCHANGED <<purge, destroyed, received, tailFreed>>
    BY DEF iot_util_queue_send
  <1>4. /\ item'[n] = [num |-> sends + 1, owner |-> o]
        /\ \A x \in Nodes : x # n => item'[x] = item[x]
        /\ item' \in [Nodes -> Item] /\ sends' \in 0 .. MaxSends
        /\ [num |-> sends + 1, owner |-> o] \in Item
        /\ sends \in Nat /\ sends' \in Nat
    BY <1>0, <1>2, <1>3 DEF ListTypeOK, Item
  <1>5. n \notin L /\ n # NULL /\ \A x \in L : x \in Nodes /\ item'[x] = item[x]
    BY <1>1, <1>2, <1>4 DEF IsList, Listed
  <1>6. /\ head' \in Pointer /\ tail' = n /\ next' \in [Nodes -> Pointer]
    BY <1>0, <1>2 DEF Link, ListTypeOK, Pointer
  <1>7. ListTypeOK'
    BY <1>0, <1>2, <1>3, <1>4, <1>6 DEF ListTypeOK, Pointer
  <1>8. ASSUME NEW M \in SUBSET (L \cup {n}), head # NULL => head' = head
        PROVE  Behind(M)' /\ Purging(M)'
    <2>1. Behind(M)'
      <3>1. \A i \in 1 .. Len(received) : received[i] \in Nat
        BY <1>0 DEF ListTypeOK
      <3>2. /\ ReceivedInOrder
            /\ \A i \in 1 .. Len(received) :
                  received[i] =< sends /\ \A x \in L : received[i] < item[x].num
        BY <1>1 DEF IsList, Behind
      <3>3. ASSUME NEW i \in 1 .. Len(received)
            PROVE  received[i] =< sends' /\ \A x \in M : received[i] < item'[x].num
        BY <1>3, <1>4, <1>5, <1>8, <3>1, <3>2
      <3> QED
        BY <1>3, <3>2, <3>3 DEF Behind, ReceivedInOrder
    <2> QED
      BY <1>1, <1>3, <1>8, <2>1 DEF IsList, Purging, Locked
  <1>9. CASE head = NULL \/ tail = NULL
    <2>1. L = {} /\ head = NULL /\ (~ tailFreed => expected = {})
      BY <1>1, <1>9 DEF IsList, Listed, Ends
    <2>2. head' = n /\ next'[n] = NULL
      BY <1>0, <1>2, <1>9 DEF Link, ListTypeOK
    <2>3. Listed({n})'
      <3>1. n \in live' /\ item'[n].num \in 1 .. sends' /\ item'[n].num =< item'[n].num
        BY <1>2, <1>3, <1>4
      <3> QED
        BY <1>5, <2>2, <3>1 DEF Listed
    <2>4. Ends({n})'
      BY <1>3, <1>4, <1>5, <1>6, <2>1, <2>2 DEF Ends
    <2>5. Behind({n})' /\ Purging({n})'
      BY <1>8, <2>1
    <2> QED
      BY <1>7, <2>3, <2>4, <2>5 DEF ListInv, IsList
  <1>10. CASE head # NULL /\ tail # NULL
    <2>1. /\ head' = head /\ next' = [next EXCEPT ![n] = NULL, ![tail] = n]
          /\ tail \in Nodes
      BY <1>0, <1>2, <1>10 DEF Link, ListTypeOK, Pointer
    <2>2. CASE tail \in L
      <3>1. /\ tail # n /\ next[tail] = NULL
            /\ \A y \in L : item[y].num =< item[tail].num
        BY <1>1, <1>5, <2>2 DEF IsList, Listed, Ends
      <3>2. /\ next'[n] = NULL /\ next'[tail] = n
            /\ \A x \in L : x # tail => next'[x] = next[x]
        BY <1>0, <1>5, <2>1, <3>1 DEF ListTypeOK
      <3>3. \A x \in L : /\ item[x].num \in Nat /\ item[x].num =< sends
                         /\ item'[x].num = item[x].num
        BY <1>1, <1>4, <1>5 DEF IsList, Listed
      <3>4. /\ head \in L /\ \A x \in L : item[x].num \in 1 .. sends
            /\ \A y \in L : item[head].num =< item[y].num
            /\ \A x, y \in L : item[x].num = item[y].num => x = y
            /\ \A x \in L : next[x] = NULL => x = tail
            /\ \A x \in L : next[x] # NULL =>
                  /\ next[x] \in L /\ item[x].num < item[next[x]].num
                  /\ \A y \in L : item[y].num =< item[x].num
                                  \/ item[next[x]].num =< item[y].num
        <4>1. ASSUME NEW x \in L, next[x] = NULL PROVE x = tail
          BY <1>1, <2>2, <3>1, <3>3, <4>1 DEF IsList, Listed
        <4> QED
          BY <1>1, <1>10, <4>1 DEF IsList, Listed
      <3> DEFINE M == L \cup {n}
      <3>5. Listed(M)'
        <4>1. M \subseteq live' /\ \A x \in M : item'[x].num \in 1 .. sends'
          BY <1>1, <1>2, <1>3, <1>4, <3>3, <3>4 DEF IsList, Listed
        <4>2. \A x, y \in M : item'[x].num = item'[y].num => x = y
          BY <1>4, <3>3, <3>4
        <4>3. head' \in M /\ \A y \in M : item'[head'].num =< item'[y].num
          BY <1>4, <2>1, <3>3, <3>4
        <4>4. \A x \in M : next'[x] = NULL => \A y \in M : item'[y].num =< item'[x].num
          BY <1>4, <1>5, <3>2, <3>3, <3>4
        <4>5. ASSUME NEW x \in M, next'[x] # NULL
              PROVE  /\ next'[x] \in M /\ item'[x].num < item'[next'[x]].num
                     /\ \A y \in M : item'[y].num =< item'[x].num
                                     \/ item'[next'[x]].num =< item'[y].num
          <5>1. x \in L
            BY <3>2, <4>5
          <5>2. CASE x = tail
            BY <1>4, <3>1, <3>2, <3>3, <5>1, <5>2
          <5>3. CASE x # tail
            BY <1>4, <3>2, <3>3, <3>4, <4>5, <5>1, <5>3
          <5> QED
            BY <5>2, <5>3
        <4> HIDE DEF M
        <4> QED
          BY <1>10, <2>1, <4>1, <4>2, <4>3, <4>4, <4>5 DEF Listed
      <3>6. Ends(M)'
        <4>1. ~ tailFreed => {item'[x] : x \in M} = expected'
          BY <1>1, <1>3, <1>4, <1>5 DEF IsList, Ends
        <4> QED
          BY <1>3, <1>5, <1>6, <3>2, <4>1 DEF Ends
      <3>7. Behind(M)' /\ Purging(M)'
        BY <1>8, <2>1
      <3>8. M \in SUBSET Nodes
        BY <1>2
      <3> QED
        BY <1>7, <3>5, <3>6, <3>7, <3>8 DEF ListInv, IsList
    <2>3. CASE tail \notin L
      <3>1. tailFreed
        BY <1>1, <1>10, <2>3 DEF IsList, Ends
      <3>2. \A x \in L : next'[x] = next[x]
        BY <1>0, <1>5, <2>1, <2>3 DEF ListTypeOK
      <3>3. Listed(L)'
        <4>1. L \subseteq live' /\ \A x \in L : item'[x].num \in 1 .. sends'
          BY <1>1, <1>2, <1>3, <1>4, <1>5 DEF IsList, Listed
        <4>2. head' = head /\ \A x \in L : next[x] \in L \cup {NULL}
          BY <1>1, <2>1 DEF IsList, Listed
        <4> QED
          BY <1>1, <1>5, <3>2, <4>1, <4>2 DEF IsList, Listed
      <3>4. Ends(L)'
        BY <1>3, <1>5, <1>6, <3>1 DEF Ends
      <3>5. Behind(L)' /\ Purging(L)'
        BY <1>8, <2>1
      <3> QED
        BY <1>7, <3>3, <3>4, <3>5 DEF ListInv, IsList
    <2> QED
      BY <2>2, <2>3
  <1> QED
    BY <1>9, <1>10

\* What a list is without its first node.
LEMMA FirstRemoved ==
    ASSUME ListTypeOK, NEW L \in SUBSET Nodes, Listed(L), Ends(L), NEW h, h = head, h # NULL,
           \/ /\ head = tail /\ head' = NULL /\ tail' = NULL /\ next' = next
           \/ /\ head # tail /\ head' = next[head] /\ tail' = tail
              /\ \A x \in Nodes : x # head => next'[x] = next[x],
           live' = live \ {head}, expected' = expected \ {item[head]},
           ~ tailFreed' => ~ tailFreed, item' = item, sends' = sends
    PROVE  Listed(L \ {h})' /\ Ends(L \ {h})'
  <1> DEFINE M == L \ {h}
  <1> USE UtilQueueAssumption
  <1>1. /\ head \in L /\ \A x \in L : item[x].num \in Nat /\ x # NULL
        /\ \A y \in L : item[head].num =< item[y].num
        /\ \A x, y \in L : item[x].num = item[y].num => x = y
        /\ L \subseteq live /\ \A x \in L : item[x].num \in 1 .. sends
    BY DEF Listed
  <1>2. /\ \A x \in L : next[x] = NULL => \A y \in L : item[y].num =< item[x].num
        /\ \A x \in L : next[x] # NULL =>
              /\ next[x] \in L /\ item[x].num < item[next[x]].num
              /\ \A y \in L : item[y].num =< item[x].num
                              \/ item[next[x]].num =< item[y].num
    BY DEF Listed
  <1>3. \A x \in M : x \in L /\ x # head /\ item[head].num < item[x].num
    BY <1>1
  <1>4. {item[x] : x \in M} = {item[x] : x \in L} \ {item[head]}
    <2>1. \A x \in M : item[x] # item[head]
      BY <1>1, <1>3
    <2> QED
      BY <1>1, <2>1
  <1>5. next[head] = NULL => M = {}
    BY <1>1, <1>2, <1>3
  <1>6. CASE head = tail
    <2>1. head' = NULL /\ tail' = NULL
      BY <1>6
    <2>2. M = {}
      BY <1>1, <1>5, <1>6 DEF Ends
    <2>3. ~ tailFreed => expected' = {}
      BY <1>4, <2>2 DEF Ends
    <2> HIDE DEF M
    <2>4. Listed(M)' /\ Ends(M)'
      BY <2>1, <2>2, <2>3 DEF Listed, Ends
    <2> QED
      BY <2>4 DEF M
  <1>7. CASE head # tail
    <2>1. /\ head' = next[head] /\ tail' = tail
          /\ \A x \in M : next'[x] = next[x]
      BY <1>3, <1>7
    <2>2. head' # NULL => head' \in M /\ \A y \in M : item[head'].num =< item[y].num
      <3>1. ASSUME head' # NULL
            PROVE  head' \in L /\ item[head].num < item[head'].num
                   /\ \A y \in L : item[y].num =< item[head].num
                                   \/ item[head'].num =< item[y].num
        BY <1>1, <1>2, <2>1, <3>1
      <3> QED
        BY <1>1, <1>3, <3>1
    <2>3. \A x \in M : next[x] # NULL => next[x] \in M
      BY <1>1, <1>2, <1>3
    <2>4. Listed(M)'
      <3>1. M \subseteq live' /\ M \subseteq L
        BY <1>1
      <3> HIDE DEF M
      <3>2. \A x \in M : next'[x] = NULL => \A y \in M : item[y].num =< item[x].num
        BY <1>2, <2>1, <3>1
      <3>3. \A x \in M : next'[x] # NULL =>
              /\ next'[x] \in M /\ item[x].num < item[next'[x]].num
              /\ \A y \in M : item[y].num =< item[x].num
                              \/ item[next'[x]].num =< item[y].num
        BY <1>2, <2>1, <2>3, <3>1
      <3> QED
        BY <1>1, <1>5, <2>1, <2>2, <3>1, <3>2, <3>3 DEF Listed
    <2>5. Ends(M)'
      <3>1. tail' \in M => next'[tail'] = NULL
        BY <1>3, <2>1 DEF Ends
      <3>2. tail' = NULL => head' = NULL
        BY <2>1 DEF Ends
      <3>3. ~ tailFreed' => /\ tail' \in M \/ (tail' = NULL /\ M = {})
                            /\ {item'[x] : x \in M} = expected'
        BY <1>1, <1>4, <1>7, <2>1 DEF Ends
      <3> QED
        BY <3>1, <3>2, <3>3 DEF Ends
    <2> QED
      BY <2>4, <2>5
  <1> QED
    BY <1>6, <1>7

\* What a list is without a node that is not its first.
LEMMA InnerRemoved ==
    ASSUME ListTypeOK, NEW L \in SUBSET Nodes, Listed(L), Ends(L),
           NEW n \in L, NEW p \in L, n # head, next[p] = n,
           head' = head, tail' = tail,
           next'[p] = next[n], \A x \in Nodes : x # p => next'[x] = next[x],
           live' = live \ {n}, expected' = expected \ {item[n]},
           ~ tailFreed' => ~ tailFreed /\ tail # n, item' = item, sends' = sends
    PROVE  /\ Listed(L \ {n})' /\ Ends(L \ {n})'
           /\ p \in L \ {n} /\ next'[p] = next[n]
           /\ next[n] # NULL => next[n] \in L \ {n}
  <1> DEFINE M == L \ {n}
  <1> USE UtilQueueAssumption
  <1>1. /\ head \in L /\ \A x \in L : item[x].num \in Nat /\ x # NULL
        /\ \A y \in L : item[head].num =< item[y].num
        /\ \A x, y \in L : item[x].num = item[y].num => x = y
        /\ L \subseteq live /\ \A x \in L : item[x].num \in 1 .. sends
    BY DEF Listed
  <1>2. /\ \A x \in L : next[x] = NULL => \A y \in L : item[y].num =< item[x].num
        /\ \A x \in L : next[x] # NULL =>
              /\ next[x] \in L /\ item[x].num < item[next[x]].num
              /\ \A y \in L : item[y].num =< item[x].num
                              \/ item[next[x]].num =< item[y].num
    BY DEF Listed
  <1>3. /\ p # n /\ item[p].num < item[n].num
        /\ \A y \in M : item[y].num =< item[p].num \/ item[n].num < item[y].num
    BY <1>1, <1>2
  <1>4. /\ next'[p] = next[n] /\ \A x \in M : x # p => next'[x] = next[x]
        /\ next[n] # NULL => next[n] \in M
    BY <1>1, <1>2 DEF ListTypeOK
  <1>5. \A x \in M : x # p => next[x] # n
    <2>1. SUFFICES ASSUME NEW x \in M, x # p, next[x] = n PROVE FALSE
      OBVIOUS
    <2>2. item[x].num < item[n].num /\ (item[p].num =< item[x].num)
      BY <1>1, <1>2, <1>3, <2>1
    <2>3. item[x].num =< item[p].num
      BY <1>1, <1>2, <1>3, <2>1, <2>2
    <2> QED
      BY <1>1, <2>1, <2>2, <2>3
  <1>6. {item[x] : x \in M} = {item[x] : x \in L} \ {item[n]}
    <2>1. \A x \in M : item[x] # item[n]
      BY <1>1
    <2> QED
      BY <2>1
  <1>7. Listed(M)'
    <2>1. \A x \in M : next'[x] = NULL => \A y \in M : item[y].num =< item[x].num
      <3>1. ASSUME NEW x \in M, next'[x] = NULL, NEW y \in M
            PROVE  item[y].num =< item[x].num
        <4>1. CASE x = p
          BY <1>1, <1>2, <1>3, <1>4, <3>1, <4>1
        <4>2. CASE x # p
          BY <1>2, <1>4, <3>1, <4>2
        <4> QED
          BY <4>1, <4>2
      <3> QED
        BY <3>1
    <2>2. ASSUME NEW x \in M, next'[x] # NULL
          PROVE  /\ next'[x] \in M /\ item[x].num < item[next'[x]].num
                 /\ \A y \in M : item[y].num =< item[x].num
                                 \/ item[next'[x]].num =< item[y].num
      <3>1. CASE x = p
        <4>1. /\ next[n] \in M /\ item[n].num < item[next[n]].num
              /\ \A y \in M : item[y].num =< item[n].num
                              \/ item[next[n]].num =< item[y].num
          BY <1>2, <1>4, <2>2, <3>1
        <4> QED
          BY <1>1, <1>3, <1>4, <3>1, <4>1
      <3>2. CASE x # p
        BY <1>2, <1>4, <1>5, <2>2, <3>2
      <3> QED
        BY <3>1, <3>2
    <2>3. /\ M \subseteq live' /\ head' \in M /\ head' # NULL
          /\ \A y \in M : item[head'].num =< item[y].num
      BY <1>1
    <2>4. /\ \A x \in M : item[x].num \in 1 .. sends
          /\ \A x, y \in M : item[x].num = item[y].num => x = y
      BY <1>1
    <2> HIDE DEF M
    <2> QED
      BY <2>1, <2>2, <2>3, <2>4 DEF Listed
  <1>8. Ends(M)'
    <2>1. tail' \in M => next'[tail'] = NULL
      <3>1. next[p] # NULL
        BY <1>1
      <3> QED
        BY <1>4, <3>1 DEF Ends
    <2>2. tail' = NULL => head' = NULL
      BY DEF Ends
    <2>3. ~ tailFreed' => tail' \in M /\ {item'[x] : x \in M} = expected'
      BY <1>1, <1>6 DEF Ends
    <2> QED
      BY <2>1, <2>2, <2>3 DEF Ends
  <1> QED
    BY <1>3, <1>4, <1>7, <1>8

\* A receive takes the first node and its work, which has the least number.
LEMMA ReceiveKeeps ==
    ASSUME ListInv, iot_util_queue_receive
    PROVE  ListInv'
  <1> USE UtilQueueAssumption
  <1>0. ListTypeOK
    BY DEF ListInv
  <1>1. PICK L \in SUBSET Nodes : IsList(L)
    BY DEF ListInv
  <1>2. PICK h : h = head
    OBVIOUS
  <1>3. /\ h # NULL /\ h \in Nodes /\ h \in L
        /\ item[h] \in Item /\ item[h].num \in 1 .. MaxSends
        /\ item[h].num =< sends /\ sends \in Nat
    BY <1>0, <1>1, <1>2
    DEF iot_util_queue_receive, ListTypeOK, Pointer, Item, IsList, Listed
  <1>4. /\ live' = live \ {h} /\ expected' = expected \ {item[h]}
        /\ received' = Append(received, item[h].num)
        /\ item' = item /\ sends' = sends /\ purge' = purge
        /\ destroyed' = destroyed /\ tailFreed' = tailFreed
        /\ purge.step = "none"
    BY <1>2 DEF iot_util_queue_receive
  <1>5. \/ /\ head = tail /\ head' = NULL /\ tail' = NULL /\ next' = next
        \/ /\ head # tail /\ head' = next[head] /\ tail' = tail
           /\ next' = [next EXCEPT ![h] = NULL]
    BY <1>2 DEF iot_util_queue_receive, Unlink
  <1>6. /\ next' \in [Nodes -> Pointer] /\ head' \in Pointer /\ tail' \in Pointer
        /\ head # tail => \A x \in Nodes : x # head => next'[x] = next[x]
    BY <1>0, <1>2, <1>3, <1>5 DEF ListTypeOK, Pointer
  <1>7. Listed(L \ {h})' /\ Ends(L \ {h})'
    BY <1>0, <1>1, <1>2, <1>3, <1>4, <1>5, <1>6, FirstRemoved DEF IsList
  <1>8. ListTypeOK'
    BY <1>0, <1>3, <1>4, <1>6 DEF ListTypeOK
  <1>9. Behind(L \ {h})'
    <2>1. received \in Seq(Nat)
      BY <1>0 DEF ListTypeOK
    <2>2. /\ \A i, j \in 1 .. Len(received) : i < j => received[i] < received[j]
          /\ \A i \in 1 .. Len(received) :
                received[i] =< sends /\ \A x \in L : received[i] < item[x].num
      BY <1>1 DEF IsList, Behind, ReceivedInOrder
    <2>3. \A x \in L \ {h} : item[h].num < item[x].num /\ item[x].num \in Nat
      BY <1>1, <1>2, <1>3 DEF IsList, Listed
    <2>4. /\ Len(received') = Len(received) + 1
          /\ \A i \in 1 .. Len(received) : received'[i] = received[i]
          /\ received'[Len(received) + 1] = item[h].num
      BY <1>3, <1>4, <2>1
    <2>5. \A i \in 1 .. Len(received') :
             \/ i \in 1 .. Len(received) /\ received'[i] = received[i]
             \/ i = Len(received) + 1 /\ received'[i] = item[h].num
      BY <2>1, <2>4
    <2>6. \A i \in 1 .. Len(received') :
             received'[i] =< sends /\ \A x \in L \ {h} : received'[i] < item[x].num
      BY <1>3, <2>2, <2>3, <2>5
    <2>7. \A i, j \in 1 .. Len(received') : i < j => received'[i] < received'[j]
      <3>1. SUFFICES ASSUME NEW i \in 1 .. Len(received'), NEW j \in 1 .. Len(received'),
                            i < j
                     PROVE  received'[i] < received'[j]
        OBVIOUS
      <3>2. i \in 1 .. Len(received) /\ received'[i] = received[i]
        BY <2>1, <2>4, <3>1
      <3> QED
        BY <1>3, <2>2, <2>5, <3>1, <3>2
    <2> QED
      BY <1>4, <2>6, <2>7 DEF Behind, ReceivedInOrder
  <1>10. Purging(L \ {h})'
    BY <1>4 DEF Purging, Locked
  <1> QED
    BY <1>7, <1>8, <1>9, <1>10 DEF ListInv, IsList

\* The delete takes out the node it is at: the first one, or one whose predecessor
\* it knows; only there can tail be left behind.
LEMMA RemoveKeeps ==
    ASSUME ListInv, DeleteRemove
    PROVE  ListInv'
  <1> USE UtilQueueAssumption
  <1>0. ListTypeOK
    BY DEF ListInv
  <1>1. PICK L \in SUBSET Nodes : IsList(L)
    BY DEF ListInv
  <1>2. PICK n : n = purge.iter
    OBVIOUS
  <1>3. /\ Locked /\ n # NULL /\ n \in L
        /\ \/ n = head /\ purge.prev = NULL
           \/ purge.prev \in L /\ next[purge.prev] = n
    BY <1>1, <1>2 DEF DeleteRemove, IsList, Purging
  <1>4. /\ live' = live \ {n} /\ expected' = expected \ {item[n]}
        /\ item' = item /\ sends' = sends /\ received' = received
        /\ destroyed' = destroyed /\ Excise
    BY <1>2 DEF DeleteRemove
  <1>5. /\ tailFreed' \in BOOLEAN
        /\ ~ tailFreed' => ~ tailFreed /\ tail' # n
    BY <1>2, Zenon DEF DeleteRemove
  <1>6. /\ head \in Nodes /\ \A y \in L : item[head].num =< item[y].num
        /\ head \in L /\ \A x \in L : item[x].num \in Nat
    BY <1>0, <1>1, <1>3 DEF IsList, Listed
  <1>7. CASE n = head
    <2>1. \/ /\ head = tail /\ head' = NULL /\ tail' = NULL /\ next' = next
             /\ purge' = [purge EXCEPT !.iter = NULL]
          \/ /\ head # tail /\ head' = next[head] /\ tail' = tail /\ next' = next
             /\ purge' = [purge EXCEPT !.iter = next[head]]
      BY <1>2, <1>4, <1>7 DEF Excise
    <2>2. tail' # n
      BY <1>3, <1>7, <2>1
    <2>3. ~ tailFreed' => ~ tailFreed
      BY <1>5
    <2>4. Listed(L \ {n})' /\ Ends(L \ {n})'
      BY <1>0, <1>1, <1>3, <1>4, <1>7, <2>1, <2>3, FirstRemoved DEF IsList
    <2>5. /\ purge'.iter = head' /\ purge'.step = "walk" /\ head' \in Pointer
          /\ purge'.prev = purge.prev
          /\ purge' \in [step : {"none", "begun", "walk", "unlocked"},
                         owner : Owners, iter : Pointer, prev : Pointer]
      BY <1>0, <1>3, <1>6, <2>1 DEF ListTypeOK, Pointer, Locked
    <2>6. ListTypeOK'
      BY <1>0, <1>4, <1>5, <2>1, <2>5 DEF ListTypeOK, Pointer
    <2>7. purge.prev = NULL
      <3>1. SUFFICES ASSUME purge.prev \in L, next[purge.prev] = n PROVE FALSE
        BY <1>3
      <3>2. item[purge.prev].num < item[n].num
        BY <1>1, <1>3, <3>1 DEF IsList, Listed
      <3> QED
        BY <1>6, <1>7, <3>1, <3>2
    <2>8. Purging(L \ {n})'
      BY <2>4, <2>5, <2>7 DEF Purging, Locked, Listed
    <2>9. Behind(L \ {n})'
      BY <1>1, <1>4 DEF IsList, Behind, ReceivedInOrder
    <2> QED
      BY <2>4, <2>6, <2>8, <2>9 DEF ListInv, IsList
  <1>8. CASE n # head
    <2>1. PICK p : p = purge.prev
      OBVIOUS
    <2>2. p \in L /\ next[p] = n
      BY <1>3, <1>8, <2>1
    <2>3. head # tail
      <3>1. SUFFICES ASSUME head = tail PROVE FALSE
        OBVIOUS
      <3>2. \A y \in L : item[y].num =< item[head].num
        BY <1>1, <1>6, <3>1 DEF IsList, Ends, Listed
      <3>3. item[n].num = item[head].num
        BY <1>3, <1>6, <3>2
      <3> QED
        BY <1>1, <1>3, <1>6, <1>8, <3>3 DEF IsList, Listed
    <2>4. /\ head' = head /\ tail' = tail /\ next' = [next EXCEPT ![p] = next[n]]
          /\ purge' = [purge EXCEPT !.iter = next[n]]
      BY <1>2, <1>4, <1>8, <2>1, <2>3 DEF Excise
    <2>5. ~ tailFreed' => ~ tailFreed /\ tail # n
      BY <1>5, <2>4
    <2>6. /\ Listed(L \ {n})' /\ Ends(L \ {n})'
          /\ p \in L \ {n} /\ next'[p] = next[n]
          /\ next[n] # NULL => next[n] \in L \ {n}
      <3>1. Listed(L) /\ Ends(L) /\ n \in L /\ n # head
        BY <1>1, <1>3, <1>8 DEF IsList
      <3>2. /\ head' = head /\ tail' = tail /\ next'[p] = next[n]
            /\ \A x \in Nodes : x # p => next'[x] = next[x]
            /\ live' = live \ {n} /\ expected' = expected \ {item[n]}
            /\ item' = item /\ sends' = sends
        BY <1>0, <1>4, <2>2, <2>4 DEF ListTypeOK
      <3> QED
        BY <1>0, <2>2, <2>5, <3>1, <3>2, InnerRemoved
    <2>7. /\ purge'.iter = next[n] /\ purge'.step = "walk" /\ purge'.prev = p
          /\ next[n] \in Pointer
          /\ purge' \in [step : {"none", "begun", "walk", "unlocked"},
                         owner : Owners, iter : Pointer, prev : Pointer]
      BY <1>0, <1>3, <2>1, <2>4 DEF ListTypeOK, Locked
    <2>8. ListTypeOK'
      BY <1>0, <1>4, <1>5, <2>4, <2>7 DEF ListTypeOK
    <2>9. Purging(L \ {n})'
      BY <2>6, <2>7 DEF Purging, Locked
    <2>10. Behind(L \ {n})'
      BY <1>1, <1>4 DEF IsList, Behind, ReceivedInOrder
    <2> QED
      BY <2>6, <2>8, <2>9, <2>10 DEF ListInv, IsList
  <1> QED
    BY <1>7, <1>8

\* The other steps of the delete leave the list alone.
LEMMA WalkKeeps ==
    ASSUME ListInv,
           \/ \E o \in Owners : DeleteBegin(o)
           \/ DeleteLock \/ DeleteSkip \/ DeleteEnd \/ DestroyEnd
           \/ UNCHANGED queueVars
    PROVE  ListInv'
  <1> USE UtilQueueAssumption
  <1>0. ListTypeOK
    BY DEF ListInv
  <1>1. PICK L \in SUBSET Nodes : IsList(L)
    BY DEF ListInv
  <1>2. UNCHANGED <<head, tail, next, live, item, sends, expected, received, tailFreed>>
    BY DEF DeleteBegin, DeleteLock, DeleteSkip, DeleteEnd, DestroyEnd, queueVars
  <1>3. Listed(L)' /\ Ends(L)' /\ Behind(L)'
    BY <1>1, <1>2 DEF IsList, Listed, Ends, Behind, ReceivedInOrder
  <1>4. SUFFICES /\ Purging(L)' /\ destroyed' \subseteq Owners
                 /\ purge' \in [step : {"none", "begun", "walk", "unlocked"},
                                owner : Owners, iter : Pointer, prev : Pointer]
    BY <1>0, <1>2, <1>3 DEF ListInv, IsList, ListTypeOK
  <1>5. /\ head \in Pointer /\ NULL \in Pointer /\ destroyed \subseteq Owners
        /\ purge \in [step : {"none", "begun", "walk", "unlocked"},
                      owner : Owners, iter : Pointer, prev : Pointer]
    BY <1>0 DEF ListTypeOK, Pointer
  <1>6. CASE \E o \in Owners : DeleteBegin(o)
    BY <1>2, <1>5, <1>6 DEF DeleteBegin, Purging, Locked
  <1>7. CASE DeleteLock
    <2>1. /\ purge.step = "begun" /\ purge' = [purge EXCEPT !.step = "walk"]
          /\ destroyed' = destroyed
      BY <1>7 DEF DeleteLock
    <2>2. purge.iter \in {NULL, head} /\ purge.prev = NULL
      BY <1>1, <2>1 DEF IsList, Purging
    <2>3. head # NULL => head \in L
      BY <1>1 DEF IsList, Listed
    <2> QED
      BY <1>2, <1>5, <2>1, <2>2, <2>3 DEF Purging, Locked
  <1>8. CASE DeleteSkip
    <2>1. /\ purge.step = "walk" /\ purge.iter # NULL /\ destroyed' = destroyed
          /\ purge' = [purge EXCEPT !.prev = purge.iter, !.iter = next[purge.iter]]
      BY <1>8 DEF DeleteSkip, Locked
    <2>2. purge.iter \in L
      BY <1>1, <2>1 DEF IsList, Purging, Locked
    <2>3. next[purge.iter] \in L \cup {NULL} /\ next[purge.iter] \in Pointer
      BY <1>1, <2>2 DEF IsList, Listed, Pointer
    <2> QED
      BY <1>2, <1>5, <2>1, <2>2, <2>3 DEF Purging, Locked
  <1>9. CASE DeleteEnd
    BY <1>2, <1>5, <1>9 DEF DeleteEnd, Purging, Locked
  <1>10. CASE DestroyEnd
    BY <1>2, <1>5, <1>10 DEF DestroyEnd, NoPurge, Purging, Locked
  <1>11. CASE UNCHANGED queueVars
    BY <1>1, <1>2, <1>5, <1>11 DEF queueVars, IsList, Purging, Locked
  <1> QED
    BY <1>6, <1>7, <1>8, <1>9, <1>10, <1>11

\* The inductive invariant of the list holds.
THEOREM ListInvHolds == QueueSpec => []ListInv
  <1>1. ListInv /\ [QueueNext]_queueVars => ListInv'
    BY SendKeeps, ReceiveKeeps, RemoveKeeps, WalkKeeps DEF QueueNext
  <1> QED
    BY <1>1, ListInit, PTL DEF QueueSpec

-----------------------------------------------------------------------------
(* The walk along the list meets its nodes and no others.                  *)

\* The walk of At exists as a function.
LEMMA AtWalks ==
    /\ At[0] = head
    /\ \A k \in 1 .. MaxSends : At[k] = IF At[k - 1] = NULL THEN NULL
                                        ELSE next[At[k - 1]]
  <1> USE UtilQueueAssumption
  <1> DEFINE B(g, k) == IF k = 0 THEN head
                        ELSE IF g[k - 1] = NULL THEN NULL ELSE next[g[k - 1]]
             IsWalk(g, n) == g = [k \in 0 .. n |-> B(g, k)]
             P(n) == \E g : IsWalk(g, n)
             Bad == {n \in 0 .. MaxSends : ~ P(n)}
  <1>1. P(0)
    <2> DEFINE g == [k \in 0 .. 0 |-> head]
    <2>1. g = [k \in 0 .. 0 |-> B(g, k)]
      OBVIOUS
    <2> QED
      BY <2>1
  <1>2. ASSUME NEW m \in 1 .. MaxSends, P(m - 1) PROVE P(m)
    <2>1. PICK g : IsWalk(g, m - 1)
      BY <1>2
    <2> DEFINE h == [k \in 0 .. m |-> IF k = m THEN B(g, m) ELSE g[k]]
    <2>2. ASSUME NEW k \in 0 .. m PROVE h[k] = B(h, k)
      <3>1. CASE k = m
        BY <3>1
      <3>2. CASE k # m
        <4>1. /\ k \in 0 .. m - 1 /\ h[k] = g[k]
              /\ k # 0 => k - 1 \in 0 .. m /\ h[k - 1] = g[k - 1]
          BY <3>2
        <4>2. g[k] = B(g, k)
          BY <2>1, <4>1
        <4> QED
          BY <4>1, <4>2
      <3> QED
        BY <3>1, <3>2
    <2>3. h = [k \in 0 .. m |-> B(h, k)]
      <3> HIDE DEF B
      <3> QED
        BY <2>2
    <2> QED
      BY <2>3
  <1>3. P(MaxSends)
    <2> HIDE DEF P
    <2>1. SUFFICES ASSUME ~ P(MaxSends) PROVE FALSE
      OBVIOUS
    <2>2. Bad \in SUBSET Nat /\ Bad # {}
      BY <2>1
    <2>3. PICK m \in Bad : \A k \in Bad : m =< k
      BY <2>2, LeastNumber
    <2>4. m \in 1 .. MaxSends /\ P(m - 1)
      BY <1>1, <2>3
    <2> QED
      BY <1>2, <2>3, <2>4
  <1>4. IsWalk(At, MaxSends)
    <2> DEFINE Walk(g) == IsWalk(g, MaxSends)
    <2>1. At = CHOOSE g : Walk(g)
      BY DEF At
    <2>2. \E g : Walk(g)
      BY <1>3
    <2> HIDE DEF Walk
    <2>3. Walk(At)
      BY <2>1, <2>2, Zenon
    <2> QED
      BY <2>3 DEF Walk
  <1>5. \A k \in 0 .. MaxSends : At[k] = B(At, k)
    <2> HIDE DEF B
    <2> QED
      BY <1>4
  <1> QED
    BY <1>5

\* From head the walk goes up in the numbers of the works.
LEMMA WalkGoesUp ==
    ASSUME ListTypeOK, NEW L \in SUBSET Nodes, Listed(L), NEW n \in 0 .. MaxSends
    PROVE  /\ At[n] \in L \cup {NULL}
           /\ At[n] # NULL =>
                 /\ item[At[n]].num > n
                 /\ \A j \in 0 .. n - 1 :
                       At[j] \in L /\ item[At[j]].num < item[At[n]].num
  <1> USE UtilQueueAssumption
  <1> DEFINE P(k) == /\ At[k] \in L \cup {NULL}
                     /\ At[k] # NULL =>
                           /\ item[At[k]].num > k
                           /\ \A j \in 0 .. k - 1 :
                                 At[j] \in L /\ item[At[j]].num < item[At[k]].num
             Bad == {k \in 0 .. MaxSends : ~ P(k)}
  <1>1. \A x \in L : item[x].num \in Nat /\ item[x].num > 0 /\ x # NULL
    BY DEF Listed, ListTypeOK
  <1>2. P(0)
    BY <1>1, AtWalks DEF Listed
  <1>3. ASSUME NEW k \in 1 .. MaxSends, P(k - 1) PROVE P(k)
    <2>1. CASE At[k - 1] = NULL
      BY <2>1, AtWalks
    <2>2. CASE At[k - 1] # NULL
      <3>1. PICK x : x = At[k - 1]
        OBVIOUS
      <3>2. /\ x \in L /\ At[k] = next[x] /\ item[x].num > k - 1
            /\ \A j \in 0 .. (k - 1) - 1 : At[j] \in L /\ item[At[j]].num < item[x].num
        BY <1>3, <2>2, <3>1, AtWalks
      <3>3. next[x] # NULL => next[x] \in L /\ item[x].num < item[next[x]].num
        BY <3>2 DEF Listed
      <3>4. ASSUME next[x] # NULL, NEW j \in 0 .. k - 1
            PROVE  At[j] \in L /\ item[At[j]].num < item[next[x]].num
        <4>1. CASE j = k - 1
          BY <3>1, <3>2, <3>3, <3>4, <4>1
        <4>2. CASE j # k - 1
          <5>1. j \in 0 .. (k - 1) - 1
            BY <4>2
          <5>2. At[j] \in L /\ item[At[j]].num < item[x].num
            BY <3>2, <5>1
          <5> QED
            BY <1>1, <3>2, <3>3, <3>4, <5>2
        <4> QED
          BY <4>1, <4>2
      <3>5. next[x] # NULL => item[next[x]].num > k
        BY <1>1, <3>2, <3>3
      <3> QED
        BY <3>2, <3>3, <3>4, <3>5
    <2> QED
      BY <2>1, <2>2
  <1>4. P(n)
    <2> HIDE DEF P
    <2>1. SUFFICES ASSUME ~ P(n) PROVE FALSE
      OBVIOUS
    <2>2. Bad \in SUBSET Nat /\ Bad # {}
      BY <2>1
    <2>3. PICK m \in Bad : \A k \in Bad : m =< k
      BY <2>2, LeastNumber
    <2>4. m \in 1 .. MaxSends /\ P(m - 1)
      BY <1>2, <2>3
    <2> QED
      BY <1>3, <2>3, <2>4
  <1> QED
    BY <1>4

\* Every node of the list is met.
LEMMA WalkMeetsAll ==
    ASSUME ListTypeOK, NEW L \in SUBSET Nodes, Listed(L), NEW z \in L
    PROVE  \E k \in OnList : At[k] = z
  <1> USE UtilQueueAssumption
  <1> DEFINE Unmet == {x \in L : \A k \in OnList : At[k] # x}
             U == {item[x].num : x \in Unmet}
  <1>1. SUFFICES ASSUME z \in Unmet PROVE FALSE
    OBVIOUS
  <1>2. /\ \A x \in L : item[x].num \in Nat /\ item[x].num =< sends /\ x # NULL
        /\ sends \in Nat /\ sends =< MaxSends
    BY DEF Listed, ListTypeOK
  <1>3. PICK u \in U : \A v \in U : u =< v
    <2>1. U \in SUBSET Nat
      BY <1>2
    <2>2. item[z].num \in U
      BY <1>1
    <2> HIDE DEF U
    <2> QED
      BY <2>1, <2>2, LeastNumber
  <1>4. PICK y \in Unmet : u = item[y].num
    BY <1>3
  <1>5. /\ y \in L /\ \A x \in L : item[x].num < item[y].num => x \notin Unmet
    BY <1>2, <1>3, <1>4
  <1>6. head \in L /\ head # y /\ item[head].num < item[y].num
    <2>1. head # NULL /\ head \in L /\ item[head].num =< item[y].num
      BY <1>5 DEF Listed
    <2>2. 0 \in OnList
      BY <2>1, AtWalks DEF OnList
    <2>3. head # y
      BY <1>4, <2>2, AtWalks
    <2> QED
      BY <1>2, <1>5, <2>1, <2>3 DEF Listed
  <1> DEFINE Below == {x \in L : item[x].num < item[y].num}
             D == {sends - item[x].num : x \in Below}
  <1>7. PICK x \in Below : \A v \in Below : item[v].num =< item[x].num
    <2>1. D \in SUBSET Nat /\ D # {}
      BY <1>2, <1>6
    <2>2. PICK d \in D : \A e \in D : d =< e
      <3> HIDE DEF D
      <3> QED
        BY <2>1, LeastNumber
    <2>3. PICK x \in Below : d = sends - item[x].num
      BY <2>2
    <2>4. ASSUME NEW v \in Below PROVE item[v].num =< item[x].num
      <3>1. d =< sends - item[v].num
        BY <2>2
      <3> QED
        BY <1>2, <2>3, <3>1
    <2> QED
      BY <2>3, <2>4
  <1>8. PICK k \in OnList : At[k] = x
    BY <1>5, <1>7
  <1>9. next[x] = y
    <2>1. next[x] # NULL
      BY <1>2, <1>5, <1>7 DEF Listed
    <2>2. /\ next[x] \in L /\ item[x].num < item[next[x]].num
          /\ item[y].num =< item[x].num \/ item[next[x]].num =< item[y].num
      BY <1>5, <1>7, <2>1 DEF Listed
    <2>3. ~ (item[next[x]].num < item[y].num)
      BY <1>2, <1>7, <2>2
    <2>4. item[next[x]].num = item[y].num
      BY <1>2, <1>5, <1>7, <2>2, <2>3
    <2> QED
      BY <1>5, <2>2, <2>4 DEF Listed
  <1>10. k \in 0 .. MaxSends /\ item[x].num > k
    BY <1>2, <1>7, <1>8, WalkGoesUp DEF OnList
  <1>11. k + 1 \in 1 .. MaxSends
    BY <1>2, <1>5, <1>7, <1>10
  <1>12. At[k + 1] = y
    <2>1. At[k + 1] = IF At[(k + 1) - 1] = NULL THEN NULL ELSE next[At[(k + 1) - 1]]
      BY <1>11, AtWalks
    <2>2. (k + 1) - 1 = k
      BY <1>10
    <2> QED
      BY <1>2, <1>7, <1>8, <1>9, <2>1, <2>2
  <1>13. k + 1 \in OnList
    BY <1>2, <1>5, <1>11, <1>12 DEF OnList
  <1> QED
    BY <1>4, <1>12, <1>13

\* For every set of addresses and every number of sends: a receive never touches
\* freed memory, and no node is on the list twice, whatever the delete does.
THEOREM ListIsAlwaysAllocated == QueueSpec => []ListIsAllocated
  <1>1. ASSUME ListInv PROVE ListIsAllocated
    <2>1. PICK L \in SUBSET Nodes : Listed(L) /\ ListTypeOK
      BY <1>1 DEF ListInv, IsList
    <2>2. \A k \in OnList : /\ k \in 0 .. MaxSends /\ At[k] \in L /\ At[k] \in live
                            /\ item[At[k]].num \in Nat
      BY <2>1, WalkGoesUp DEF OnList, Listed
    <2>3. ASSUME NEW j \in OnList, NEW k \in OnList, j < k PROVE At[j] # At[k]
      <3>1. j \in 0 .. k - 1 /\ At[k] # NULL
        BY <2>2, <2>3 DEF OnList
      <3>2. item[At[j]].num < item[At[k]].num
        BY <2>1, <2>2, <3>1, WalkGoesUp
      <3> QED
        BY <2>2, <3>2
    <2>4. \A j, k \in OnList : j # k => j < k \/ k < j
      BY DEF OnList
    <2> QED
      BY <2>1, <2>2, <2>3, <2>4 DEF ListIsAllocated
  <1> QED
    BY <1>1, ListInvHolds, PTL

\* For every set of addresses and every number of sends: works reach the task in
\* the order of the sends, and until a delete frees the node tail points to, the
\* list holds exactly the works that were sent and neither received nor deleted.
THEOREM QueueAlwaysUnlessTailFreed == QueueSpec => []QueueUnlessTailFreed
  <1>1. ASSUME ListInv PROVE QueueUnlessTailFreed
    <2>1. PICK L \in SUBSET Nodes : IsList(L) /\ ListTypeOK
      BY <1>1 DEF ListInv
    <2>2. Listed(L) /\ Ends(L) /\ Behind(L)
      BY <2>1 DEF IsList
    <2>3. \A k \in OnList : k \in 0 .. MaxSends /\ At[k] \in L
      BY <2>1, <2>2, WalkGoesUp DEF OnList
    <2>4. ASSUME NEW j \in OnList, NEW k \in OnList, j < k
          PROVE  item[At[j]].num < item[At[k]].num
      <3>1. j \in 0 .. k - 1 /\ At[k] # NULL
        BY <2>3, <2>4 DEF OnList
      <3> QED
        BY <2>1, <2>2, <2>3, <3>1, WalkGoesUp
    <2>5. ListInOrder
      BY <2>2, <2>3, <2>4 DEF ListInOrder, Behind
    <2>6. {item[At[k]] : k \in OnList} = {item[x] : x \in L}
      <3>1. \A x \in L : \E k \in OnList : At[k] = x
        BY <2>1, <2>2, WalkMeetsAll
      <3> QED
        BY <2>3, <3>1
    <2> QED
      BY <2>2, <2>5, <2>6 DEF QueueUnlessTailFreed, Ends, Behind
  <1> QED
    BY <1>1, ListInvHolds, PTL

=============================================================================

------------------------------ MODULE WorkQueue ------------------------------
(***************************************************************************)
(* The device work queue (iot_main.c): every thread of the SDK hands work  *)
(* to one task by appending to a queue and then setting a bit of an event  *)
(* group; the task sleeps on the bit, takes ONE work per wake-up, runs it  *)
(* and sets the bit again.  Queue and event group have separate locks, so  *)
(* the two halves of a put interleave with everything the task does, and   *)
(* the handler the task runs puts works itself.                            *)
(*                                                                         *)
(* The queue is a sequence here; UtilQueue has its pointers.               *)
(* DEVICE_WORK_QUEUE_KILL_SIGNAL is waited for but set nowhere in the SDK, *)
(* so the branch that leaves the task is never taken.                      *)
(***************************************************************************)
EXTENDS Naturals, Sequences, EventGroup

CONSTANTS Producers,    \* threads that call iot_put_device_work
          MaxWorks      \* bound: puts in one behaviour

ASSUME WorkQueueAssumption == MaxWorks \in Nat

PENDING == "PENDING"    \* DEVICE_PENDING_WORK_SIGNAL
KILL    == "KILL"       \* DEVICE_WORK_QUEUE_KILL_SIGNAL
SIGNAL_ALL == {PENDING, KILL}

Works == 1 .. MaxWorks

VARIABLES group,      \* ctx->work_queue_signal
          queue,      \* ctx->work_queue; works are numbered as they are put
          issued,     \* number of the last put
          refused,    \* puts that failed: the caller got an error
          putting,    \* per producer: it appended and has not signalled yet
          task,       \* where the task stands in its loop
          ready,      \* what the task's select() reported
          events,     \* what the task's wait_bits returned
          running,    \* the work in the task's handler: length 0 or 1
          handled     \* works whose handler returned, in order

vars == <<group, queue, issued, refused, putting, task, ready, events,
          running, handled>>

TaskSteps == {"wait", "selected", "timedout", "woken", "handling",
              "handling_putting", "rearm"}

Init == /\ group = EmptyGroup(SIGNAL_ALL)
        /\ queue = <<>>
        /\ issued = 0
        /\ refused = {}
        /\ putting = [p \in Producers |-> FALSE]
        /\ task = "wait"
        /\ ready = {}
        /\ events = {}
        /\ running = <<>>
        /\ handled = <<>>

-----------------------------------------------------------------------------
(* iot_put_device_work.  iot_util_queue_send is one step under the queue's *)
(* lock, or fails for want of memory and the caller is told.               *)

QueueSend == /\ issued < MaxWorks
             /\ issued' = issued + 1
             /\ queue' = Append(queue, issued + 1)
             /\ UNCHANGED refused

QueueSendFails == /\ issued < MaxWorks
                  /\ issued' = issued + 1
                  /\ refused' = refused \cup {issued + 1}
                  /\ UNCHANGED queue

SetPending == group' = SetBits(group, {PENDING})

PutSend(p) == /\ ~ putting[p]
              /\ QueueSend
              /\ putting' = [putting EXCEPT ![p] = TRUE]
              /\ UNCHANGED <<group, task, ready, events, running, handled>>

PutFails(p) == /\ ~ putting[p]
               /\ QueueSendFails
               /\ UNCHANGED <<group, putting, task, ready, events, running,
                              handled>>

PutSignal(p) == /\ putting[p]
                /\ SetPending
                /\ putting' = [putting EXCEPT ![p] = FALSE]
                /\ UNCHANGED <<queue, issued, refused, task, ready, events,
                               running, handled>>

-----------------------------------------------------------------------------
(* _device_work_queue_task.  Its wait_bits is a select() outside the       *)
(* group's mutex, then either the read of the reported pipes (clearing     *)
(* what was read) or, when select() timed out, a plain look at the status. *)

TaskSelect == /\ task = "wait"
              /\ Readable(group, SIGNAL_ALL) # {}
              /\ ready' = Readable(group, SIGNAL_ALL)
              /\ task' = "selected"
              /\ UNCHANGED <<group, queue, issued, refused, putting, events,
                             running, handled>>

TaskTimeout == /\ task = "wait"
               /\ Readable(group, SIGNAL_ALL) = {}
               /\ task' = "timedout"
               /\ UNCHANGED <<group, queue, issued, refused, putting, ready,
                              events, running, handled>>

TaskRead == /\ task = "selected"
            /\ group' = ReadBits(group, ready, ready)
            /\ events' = group.status
            /\ ready' = {}
            /\ task' = "woken"
            /\ UNCHANGED <<queue, issued, refused, putting, running, handled>>

TaskReadStatus == /\ task = "timedout"
                  /\ events' = group.status
                  /\ task' = "woken"
                  /\ UNCHANGED <<group, queue, issued, refused, putting,
                                 ready, running, handled>>

TaskReceive == /\ task = "woken"
               /\ PENDING \in events
               /\ queue # <<>>
               /\ running' = <<Head(queue)>>
               /\ queue' = Tail(queue)
               /\ task' = "handling"
               /\ events' = {}
               /\ UNCHANGED <<group, issued, refused, putting, ready, handled>>

TaskNothing == /\ task = "woken"
               /\ PENDING \notin events \/ queue = <<>>
               /\ task' = "wait"
               /\ events' = {}
               /\ UNCHANGED <<group, queue, issued, refused, putting, ready,
                              running, handled>>

\* work.handler(ctx, work.param): the handlers of the SDK put works themselves
\* (iot_command_send, _iot_mqtt_signal_pending_work).
HandlerSend == /\ task = "handling"
               /\ QueueSend
               /\ task' = "handling_putting"
               /\ UNCHANGED <<group, putting, ready, events, running, handled>>

HandlerSignal == /\ task = "handling_putting"
                 /\ SetPending
                 /\ task' = "handling"
                 /\ UNCHANGED <<queue, issued, refused, putting, ready, events,
                                running, handled>>

HandlerReturn == /\ task = "handling"
                 /\ handled' = handled \o running
                 /\ running' = <<>>
                 /\ task' = "rearm"
                 /\ UNCHANGED <<group, queue, issued, refused, putting, ready,
                                events>>

\* Mistake: the bit is not set again after a work.
TaskNoRearm == /\ task = "rearm"
               /\ task' = "wait"
               /\ UNCHANGED <<group, queue, issued, refused, putting, ready,
                              events, running, handled>>

\* "Set bit again to check whether the several cmds are already stacked up".
TaskRearm == /\ task = "rearm"
             /\ SetPending
             /\ task' = "wait"
             /\ UNCHANGED <<queue, issued, refused, putting, ready, events,
                            running, handled>>

-----------------------------------------------------------------------------
TaskStep == \/ TaskSelect \/ TaskTimeout \/ TaskRead \/ TaskReadStatus
            \/ TaskReceive \/ TaskNothing \/ HandlerSend \/ HandlerSignal
            \/ HandlerReturn \/ TaskRearm

ProducerStep(p) == PutSend(p) \/ PutFails(p) \/ PutSignal(p)

Next == TaskStep \/ (\E p \in Producers : ProducerStep(p))

(***************************************************************************)
(* Fairness: a runnable thread runs, so a producer that appended signals,  *)
(* the task keeps going and a handler returns (it puts finitely many works *)
(* before).  Nobody is forced to put anything.                             *)
(***************************************************************************)
Fairness == /\ WF_vars(TaskSelect) /\ WF_vars(TaskRead)
            /\ WF_vars(TaskReadStatus) /\ WF_vars(TaskReceive)
            /\ WF_vars(TaskNothing) /\ WF_vars(HandlerSignal)
            /\ WF_vars(HandlerReturn) /\ WF_vars(TaskRearm)
            /\ \A p \in Producers : WF_vars(PutSignal(p))

SafeSpec == Init /\ [][Next]_vars
Spec == SafeSpec /\ Fairness

-----------------------------------------------------------------------------
(* Properties.                                                             *)

TypeOK == /\ group \in GroupType(SIGNAL_ALL)
          /\ queue \in Seq(Works)
          /\ issued \in 0 .. MaxWorks
          /\ refused \in SUBSET Works
          /\ putting \in [Producers -> BOOLEAN]
          /\ task \in TaskSteps
          /\ ready \in SUBSET SIGNAL_ALL
          /\ events \in SUBSET SIGNAL_ALL
          /\ running \in Seq(Works)
          /\ handled \in Seq(Works)

\* The status byte and the pipes never disagree: a bit is set exactly when its
\* pipe holds one token.  A set bit with an empty pipe would make every later
\* iot_os_eventgroup_set_bits of it write nothing, and the task would sleep for
\* good; a token without the bit would wake it for nothing.
StatusMatchesPipe ==
    \A b \in SIGNAL_ALL :
        group.pipe[b] = IF b \in group.status THEN 1 ELSE 0

WakeUpComing == \/ group.pipe[PENDING] > 0
                \/ \E p \in Producers : putting[p]
                \/ task = "woken" /\ PENDING \in events
                \/ task \in {"handling", "handling_putting", "rearm"}

\* No wake-up is lost: while a work waits, either its wake-up is in the pipe, or
\* somebody who will set the bit is between append and set, or the task has
\* taken the wake-up and has not yet looked into the queue for the last time.
NoLostWakeup == queue # <<>> => WakeUpComing

Increasing(s) == \A i, j \in 1 .. Len(s) : i < j => s[i] < s[j]

AcceptedOnceInOrder ==
    LET all == handled \o running \o queue
    IN  /\ Increasing(all)
        /\ {all[i] : i \in 1 .. Len(all)} = (1 .. issued) \ refused

Promise == INSTANCE Mailbox WITH line <- queue, active <- running,
                                 done <- handled

\* The detailed queue implements the abstract one, liveness included: every work
\* that iot_put_device_work accepted is eventually run.  What is in line or was
\* run are exactly the accepted puts, each once, in the order of the puts.
ImplementsMailbox == []AcceptedOnceInOrder /\ Promise!Spec

-----------------------------------------------------------------------------
(* The inductive invariant behind NoLostWakeup and the refinement.         *)

\* What select() reported stays readable: only the task reads the pipes.
ReportedIsReadable == task = "selected" => ready \subseteq Readable(group, SIGNAL_ALL)

\* A work is in the handler exactly while the task is in the handler.
RunningInHandler == /\ task \in {"handling", "handling_putting"}
                          => running # <<>>
                    /\ task \notin {"handling", "handling_putting"}
                          => running = <<>>

WakeUpInv == /\ TypeOK
             /\ StatusMatchesPipe
             /\ ReportedIsReadable
             /\ RunningInHandler
             /\ NoLostWakeup

=============================================================================

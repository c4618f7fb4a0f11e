------------------------------ MODULE MqttClient ------------------------------
(***************************************************************************)
(* A connected MQTT client (iot_mqtt_client.c) and the three threads that  *)
(* run its code: the application's, which publishes; the work queue's,     *)
(* which runs the client's pending works and finally disconnects and       *)
(* destroys it; and the socket thread, which listens.  All three run the   *)
(* same read stream, the first two also the rest of _iot_mqtt_run_cycle.   *)
(*                                                                         *)
(* A packet is a chunk that wanders between the write queue, the queue of  *)
(* packets that wait for their ack, the queue of events for the callback,  *)
(* and the hand of a thread that popped it.  A synchronous call owns its   *)
(* chunk and polls chunk_state; a chunk without owner is freed by whoever  *)
(* finishes it.                                                            *)
(*                                                                         *)
(* Modelled: QoS 1, the only one the SDK uses; packet ids do not wrap      *)
(* around while a packet lives.  Queue operations are one step (each       *)
(* queue has its lock), client_manage_lock protects steps that are one     *)
(* anyway, and a check of magic is one step with the lock taken after it.  *)
(* The broker is external: it answers what it gets, or not.                *)
(***************************************************************************)
EXTENDS Naturals, Sequences

CONSTANTS Msgs,          \* messages to publish
          PublishRetry,  \* MQTT_PUBLISH_RETRY
          MaxInbox,      \* bound: packets on the wire to the client
          MaxOutside,    \* bound: messages from the broker and keep-alive
                         \*        periods that run out, together
          MaxWorks       \* bound: pending works told apart

ASSUME MqttClientAssumption ==
    /\ {PublishRetry, MaxInbox, MaxOutside, MaxWorks} \subseteq Nat
    /\ PublishRetry > 0
    /\ {"PING", "DISCONNECT", "PUBACK", "pub", "dup", "disconnected", "none"}
          \cap Msgs = {}

Threads == {"app", "work", "sock"}
Chunks == Msgs \cup {"PING", "DISCONNECT"}

VARIABLES
    connected, link,       \* isconnected; the socket: "up", or "broken" or closed
    inbox,                 \* packets the broker sent, by what they acknowledge
    wq, aq, eq,            \* write_pending, ack_pending, user_event_callback
    st, timer, tries,      \* chunk_state, expiry_time, retry_count
    pc, hand, failed,      \* each thread: where, popped chunk, rc < 0
    waits,                 \* chunk a thread is in _iot_mqtt_wait_for with
    readLock, writeLock,   \* holder or "none"
    sentOn, rcvdOn,        \* last_sent, last_received are active
    works,                 \* pending works of this client in the work queue
    handle,                \* socket_thread # NULL
    magic,                 \* the struct is valid
    outside,               \* what is left of MaxOutside
    got,                   \* messages that reached the broker
    result, async,         \* outcome of synchronous calls; messages sent async
    reported,              \* messages whose failure the callback was told
    lossTold               \* the callback was told ST_MQTT_EVENT_DISCONNECTED

net == <<connected, link, inbox>>
queues == <<wq, aq, eq>>
chunk == <<st, timer, tries>>
threads == <<pc, hand, failed, waits>>
locks == <<readLock, writeLock>>
idle == <<sentOn, rcvdOn, outside>>
life == <<works, handle, magic>>
told == <<got, result, async, reported, lossTold>>
vars == <<net, queues, chunk, threads, locks, idle, life, told>>

Owned(c) == c \in Chunks /\ c \notin async
InSeq(c, s) == \E i \in 1 .. Len(s) : s[i] = c

\* The queues are lists: the first match is unlinked.
Unlink(i, s) == [j \in 1 .. Len(s) - 1 |-> IF j < i THEN s[j] ELSE s[j + 1]]
Drop(c, s) == Unlink(CHOOSE i \in 1 .. Len(s) :
                        s[i] = c /\ \A j \in 1 .. i - 1 : s[j] # c, s)

\* st_mqtt_connect has got its CONNACK and started the socket thread; its handle
\* is not stored yet.
Init == /\ connected = TRUE /\ link = "up" /\ inbox = <<>>
        /\ wq = <<>> /\ aq = <<>> /\ eq = <<>>
        /\ st = [c \in Chunks |-> IF c = "PING" THEN "INIT" ELSE "none"]
        /\ timer = [c \in Chunks |-> "none"]
        /\ tries = [c \in Chunks |-> 0]
        /\ pc = [t \in Threads |-> CASE t = "app" -> "idle"
                                     [] t = "work" -> "starting"
                                     [] t = "sock" -> "poll"]
        /\ hand = [t \in Threads |-> "none"]
        /\ failed = [t \in Threads |-> FALSE]
        /\ waits = [t \in Threads |-> "none"]
        /\ readLock = "none" /\ writeLock = "none"
        /\ sentOn = TRUE /\ rcvdOn = TRUE /\ outside = MaxOutside
        /\ works = 0 /\ handle = FALSE /\ magic = TRUE
        /\ got = {} /\ async = {} /\ reported = {} /\ lossTold = FALSE
        /\ result = [m \in Msgs |-> "none"]

\* The client was not freed, nor a chunk under the thread that waits for it, nor
\* the PINGREQ the client keeps.  Once that happens a thread touches freed memory:
\* nothing is said of what comes then.
Alive == /\ pc["work"] # "freed" /\ st["PING"] # "freed"
         /\ \A t \in Threads : waits[t] \in Chunks => st[waits[t]] # "freed"

At(t, l) == pc[t] = l /\ Alive
Goto(t, l) == pc' = [pc EXCEPT ![t] = l]

\* Where a thread goes when _iot_mqtt_run_cycle (or the read stream, in the
\* socket thread) returns.
Return(t) == CASE t = "sock" -> "signal"
               [] t # "sock" /\ waits[t] # "none" -> "check"
               [] OTHER -> "callbacks"

\* _iot_mqtt_signal_pending_work
Signal == works' = IF works < MaxWorks THEN works + 1 ELSE works

\* _iot_mqtt_chunk_destroy
Free(c) == /\ st' = [st EXCEPT ![c] = "freed"]
           /\ timer' = [timer EXCEPT ![c] = "none"]
           /\ tries' = [tries EXCEPT ![c] = 0]

-----------------------------------------------------------------------------
(* _iot_mqtt_run_write_stream                                              *)

\* The lock is taken and a chunk popped; nothing to write: on to the read.
WritePop(t) ==
    /\ At(t, "write") /\ magic
    /\ writeLock = "none"
    /\ failed' = [failed EXCEPT ![t] = FALSE]
    /\ IF wq = <<>>
       THEN Goto(t, "read") /\ UNCHANGED <<hand, wq, writeLock>>
       ELSE /\ Goto(t, "send")
            /\ hand' = [hand EXCEPT ![t] = Head(wq)]
            /\ wq' = Tail(wq)
            /\ writeLock' = t
    /\ UNCHANGED <<net, aq, eq, chunk, waits, readLock, idle, life, told>>

\* The packet goes out.  The broker gets it and its answer is on the way, or it
\* seems lost to the client.
SendOk(t) ==
    /\ At(t, "send") /\ connected
    /\ Goto(t, "post")
    /\ \/ /\ link = "up" /\ hand[t] \in Msgs \cup {"PING"}
          /\ Len(inbox) < MaxInbox
          /\ inbox' = Append(inbox, hand[t])
          /\ got' = got \cup ({hand[t]} \cap Msgs)
       \/ UNCHANGED <<got, inbox>>
    /\ UNCHANGED <<connected, link, queues, chunk, hand, failed, waits,
                   locks, idle, life, result, async, reported, lossTold>>

\* _iot_mqtt_process_post_write, then unlock and restart last_sent.
PostWrite(t) ==
    /\ At(t, "post")
    /\ LET c == hand[t]
       IN  CASE c \in Msgs \cup {"PING"} ->
                   /\ st' = [st EXCEPT ![c] = "ACK_PENDING"]
                   /\ timer' = [timer EXCEPT ![c] = "active"]
                   /\ aq' = Append(aq, c)
             [] c = "DISCONNECT" ->
                   /\ st' = [st EXCEPT ![c] = "WRITE_COMPLETED"]
                   /\ UNCHANGED <<timer, aq>>
             [] c = "PUBACK" -> UNCHANGED <<st, timer, aq>>
    /\ hand' = [hand EXCEPT ![t] = "none"]
    /\ writeLock' = "none"
    /\ sentOn' = (sentOn \/ magic)
    /\ Goto(t, "read")
    /\ UNCHANGED <<net, wq, eq, tries, failed, waits, readLock, rcvdOn, outside,
                   life, told>>

\* Not connected, or the write fails: unlock, and chunk_state says so...
SendFails(t) ==
    /\ At(t, "send")
    /\ connected => link = "broken"
    /\ LET c == hand[t]
       IN  st' = IF c \in Chunks THEN [st EXCEPT ![c] = "WRITE_FAIL"] ELSE st
    /\ writeLock' = "none"
    /\ failed' = [failed EXCEPT ![t] = TRUE]
    /\ Goto(t, IF connected THEN "fail and close" ELSE "fail")
    /\ UNCHANGED <<net, queues, timer, tries, hand, waits, readLock, idle, life,
                   told>>

\* Mistake: the callback is not told of a packet nobody owns.
WriteFailedUntold(t) ==
    /\ At(t, "fail") \/ At(t, "fail and close")
    /\ UNCHANGED eq
    /\ hand' = [hand EXCEPT ![t] = "none"]
    /\ Goto(t, IF At(t, "fail") THEN Return(t) ELSE "close")
    /\ UNCHANGED <<net, wq, aq, chunk, failed, waits, locks, idle, life, told>>

\* ... before have_owner is looked at: without owner, the callback is told.
WriteFailed(t) ==
    /\ At(t, "fail") \/ At(t, "fail and close")
    /\ eq' = IF Owned(hand[t]) THEN eq ELSE Append(eq, hand[t])
    /\ hand' = [hand EXCEPT ![t] = "none"]
    /\ Goto(t, IF At(t, "fail") THEN Return(t) ELSE "close")
    /\ UNCHANGED <<net, wq, aq, chunk, failed, waits, locks, idle, life, told>>

\* A struct that was invalidated: every part of the cycle returns a failure.
CycleInvalid(t) ==
    /\ At(t, "write") \/ At(t, "read") \/ At(t, "expiry")
    /\ ~ magic
    /\ failed' = [failed EXCEPT ![t] = TRUE]
    /\ Goto(t, Return(t))
    /\ UNCHANGED <<net, queues, chunk, hand, waits, locks, idle, life, told>>

-----------------------------------------------------------------------------
(* _iot_mqtt_run_read_stream                                               *)

\* It takes the lock, and holds it over everything but the ack's last lines in
\* one step.
Reading(t) == At(t, "read") /\ magic /\ readLock = "none"

AfterRead(t) == IF t = "sock" THEN "signal" ELSE "expiry"

ReadNotConnected(t) ==
    /\ Reading(t) /\ ~ connected
    /\ failed' = [failed EXCEPT ![t] = TRUE]
    /\ Goto(t, Return(t))
    /\ UNCHANGED <<net, queues, chunk, hand, waits, locks, idle, life, told>>

ReadNothing(t) ==
    /\ Reading(t) /\ connected
    /\ inbox = <<>> /\ link = "up"
    /\ Goto(t, AfterRead(t))
    /\ UNCHANGED <<net, queues, chunk, hand, failed, waits, locks, idle, life,
                   told>>

ReadFails(t) ==
    /\ Reading(t) /\ connected
    /\ link = "broken"
    /\ failed' = [failed EXCEPT ![t] = TRUE]
    /\ Goto(t, "close")
    /\ UNCHANGED <<net, queues, chunk, hand, waits, locks, idle, life, told>>

\* A whole packet: last_received is restarted.
Received(t) == /\ Reading(t) /\ connected
               /\ inbox # <<>>
               /\ inbox' = Tail(inbox)
               /\ UNCHANGED <<connected, link>>

\* _iot_mqtt_process_received_publish: the ack is queued, and the message if its
\* DUP flag is not set.
ReadPublish(t) ==
    /\ Received(t) /\ Head(inbox) \in {"pub", "dup"}
    /\ wq' = Append(wq, "PUBACK")
    /\ eq' = IF Head(inbox) = "pub" THEN Append(eq, "pub") ELSE eq
    /\ rcvdOn' = TRUE
    /\ Goto(t, AfterRead(t))
    /\ UNCHANGED <<aq, chunk, hand, failed, waits, locks, sentOn, outside, life,
                   told>>

\* _iot_mqtt_process_received_ack: no packet waits for this ack ...
ReadStrayAck(t) ==
    /\ Received(t) /\ Head(inbox) \notin {"pub", "dup"}
    /\ ~ InSeq(Head(inbox), aq)
    /\ rcvdOn' = TRUE
    /\ Goto(t, AfterRead(t))
    /\ UNCHANGED <<queues, chunk, hand, failed, waits, locks, sentOn, outside,
                   life, told>>

\* ... or it is popped; nobody owns it: it is freed.
ReadAckAndFree(t) ==
    /\ Received(t) /\ InSeq(Head(inbox), aq) /\ ~ Owned(Head(inbox))
    /\ aq' = Drop(Head(inbox), aq)
    /\ Free(Head(inbox))
    /\ rcvdOn' = TRUE
    /\ Goto(t, AfterRead(t))
    /\ UNCHANGED <<wq, eq, hand, failed, waits, locks, sentOn, outside, life,
                   told>>

\* Somebody owns it: chunk_state is set first, the timer deleted after it.
ReadAck(t) ==
    /\ Received(t) /\ InSeq(Head(inbox), aq) /\ Owned(Head(inbox))
    /\ aq' = Drop(Head(inbox), aq)
    /\ hand' = [hand EXCEPT ![t] = Head(inbox)]
    /\ st' = [st EXCEPT ![Head(inbox)] = "ACKNOWLEDGED"]
    /\ readLock' = t
    /\ Goto(t, "acked")
    /\ UNCHANGED <<wq, eq, timer, tries, failed, waits, writeLock, idle, life,
                   told>>

AckedTimer(t) ==
    /\ At(t, "acked")
    /\ timer' = [timer EXCEPT ![hand[t]] = "none"]
    /\ hand' = [hand EXCEPT ![t] = "none"]
    /\ readLock' = "none"
    /\ rcvdOn' = (rcvdOn \/ magic)
    /\ Goto(t, AfterRead(t))
    /\ UNCHANGED <<net, queues, st, tries, failed, waits, writeLock, sentOn,
                   outside, life, told>>

-----------------------------------------------------------------------------
(* _iot_mqtt_process_pending_packets and _iot_mqtt_check_alive             *)

Expired == {i \in 1 .. Len(aq) : timer[aq[i]] = "expired"}

\* _iot_mqtt_queue_pop_by_expiry
PopExpired(t) ==
    /\ At(t, "expiry") /\ magic
    /\ \E i \in Expired : /\ \A j \in Expired : i =< j
                          /\ hand' = [hand EXCEPT ![t] = aq[i]]
                          /\ aq' = Unlink(i, aq)
    /\ Goto(t, "retry")
    /\ UNCHANGED <<net, wq, eq, chunk, failed, waits, locks, idle, life, told>>

\* Mistake: the owner of a packet given up is not told.
RetryWithoutTimeout(t) ==
    /\ At(t, "retry")
    /\ LET c == hand[t]
           again == tries[c] + 1 < PublishRetry
           tell == ~ again /\ ~ Owned(c)
       IN  IF ~ magic /\ (again \/ tell)
           THEN Free(c) /\ UNCHANGED <<wq, eq>>
           ELSE /\ tries' = [tries EXCEPT ![c] = @ + 1]
                /\ st' = [st EXCEPT ![c] = IF again THEN "WRITE_PENDING"
                                                    ELSE st[c]]
                /\ wq' = IF again THEN Append(wq, c) ELSE wq
                /\ eq' = IF tell THEN Append(eq, c) ELSE eq
                /\ UNCHANGED timer
    /\ hand' = [hand EXCEPT ![t] = "none"]
    /\ Goto(t, "expiry")
    /\ UNCHANGED <<net, aq, failed, waits, locks, idle, life, told>>

\* Written again, or given up: the owner sees TIMEOUT, without owner the callback
\* is told.  A chunk that was to be queued is freed when the struct is invalid.
Retry(t) ==
    /\ At(t, "retry")
    /\ LET c == hand[t]
           again == tries[c] + 1 < PublishRetry
           tell == ~ again /\ ~ Owned(c)
       IN  IF ~ magic /\ (again \/ tell)
           THEN Free(c) /\ UNCHANGED <<wq, eq>>
           ELSE /\ tries' = [tries EXCEPT ![c] = @ + 1]
                /\ st' = [st EXCEPT ![c] = IF again THEN "WRITE_PENDING"
                                                    ELSE "TIMEOUT"]
                /\ wq' = IF again THEN Append(wq, c) ELSE wq
                /\ eq' = IF tell THEN Append(eq, c) ELSE eq
                /\ UNCHANGED timer
    /\ hand' = [hand EXCEPT ![t] = "none"]
    /\ Goto(t, "expiry")
    /\ UNCHANGED <<net, aq, failed, waits, locks, idle, life, told>>

\* Nothing has expired: on to _iot_mqtt_check_alive.
Checking(t) == At(t, "expiry") /\ magic /\ Expired = {}

CheckAlive(t) ==
    /\ Checking(t)
    /\ \/ sentOn /\ rcvdOn
       \/ st["PING"] \notin {"INIT", "ACKNOWLEDGED", "TIMEOUT"}
    /\ Goto(t, Return(t))
    /\ UNCHANGED <<net, queues, chunk, hand, failed, waits, locks, idle, life,
                   told>>

CheckAlivePing(t) ==
    /\ Checking(t)
    /\ ~ (sentOn /\ rcvdOn) /\ st["PING"] \in {"INIT", "ACKNOWLEDGED"}
    /\ st' = [st EXCEPT !["PING"] = "WRITE_PENDING"]
    /\ tries' = [tries EXCEPT !["PING"] = 0]
    /\ wq' = Append(wq, "PING")
    /\ Goto(t, Return(t))
    /\ UNCHANGED <<net, aq, eq, timer, hand, failed, waits, locks, idle, life,
                   told>>

CheckAliveFails(t) ==
    /\ Checking(t)
    /\ ~ (sentOn /\ rcvdOn) /\ st["PING"] = "TIMEOUT"
    /\ st' = [st EXCEPT !["PING"] = "INIT"]
    /\ Goto(t, "close")
    /\ failed' = [failed EXCEPT ![t] = TRUE]
    /\ UNCHANGED <<net, queues, timer, tries, hand, waits, locks, idle, life,
                   told>>

\* port_net_close: what the broker sent is gone with the socket.
SocketClosed == connected' = FALSE /\ link' = "broken" /\ inbox' = <<>>

\* _iot_mqtt_close_net with both locks, then the event for the callback.
CloseNet(t) ==
    /\ At(t, "close")
    /\ readLock = "none" /\ writeLock = "none"
    /\ SocketClosed
    /\ Goto(t, "event")
    /\ UNCHANGED <<queues, chunk, hand, failed, waits, locks, idle, life, told>>

\* Mistake: no event for the callback.
DisconnectedUntold(t) ==
    /\ At(t, "event")
    /\ UNCHANGED eq
    /\ Goto(t, Return(t))
    /\ UNCHANGED <<net, wq, aq, chunk, hand, failed, waits, locks, idle, life,
                   told>>

PushDisconnected(t) ==
    /\ At(t, "event")
    /\ eq' = Append(eq, "disconnected")
    /\ Goto(t, Return(t))
    /\ UNCHANGED <<net, wq, aq, chunk, hand, failed, waits, locks, idle, life,
                   told>>

-----------------------------------------------------------------------------
(* The work thread: _iot_mqtt_pending_work.                                *)

\* iot_os_thread_create stores the handle after the thread was started.
StoreHandle ==
    /\ At("work", "starting")
    /\ handle' = TRUE
    /\ Goto("work", "idle")
    /\ UNCHANGED <<net, queues, chunk, hand, failed, waits, locks, idle, works,
                   magic, told>>

PendingWork ==
    /\ At("work", "idle") /\ works > 0
    /\ works' = works - 1
    /\ Goto("work", "write")
    /\ UNCHANGED <<net, queues, chunk, hand, failed, waits, locks, idle, handle,
                   magic, told>>

\* _iot_mqtt_process_user_callback, one event
Callback ==
    /\ At("work", "callbacks") /\ eq # <<>>
    /\ LET c == Head(eq)
       IN  /\ eq' = Tail(eq)
           /\ IF c \in Chunks THEN Free(c) ELSE UNCHANGED chunk
           /\ reported' = reported \cup ({c} \cap Msgs)
           /\ lossTold' = (lossTold \/ c = "disconnected")
    /\ UNCHANGED <<net, wq, aq, threads, locks, idle, life, got, result, async>>

CallbacksDone ==
    /\ At("work", "callbacks") /\ eq = <<>>
    /\ Goto("work", "pending")
    /\ UNCHANGED <<net, queues, chunk, hand, failed, waits, locks, idle, life,
                   told>>

\* _iot_mqtt_is_pending_work: another cycle for what was queued meanwhile.
IsPendingWork ==
    /\ At("work", "pending") /\ readLock = "none"
    /\ Goto("work", IF wq # <<>> \/ eq # <<>> THEN "write" ELSE "idle")
    /\ failed' = [failed EXCEPT !["work"] = FALSE]
    /\ UNCHANGED <<net, queues, chunk, hand, waits, locks, idle, life, told>>

-----------------------------------------------------------------------------
(* Publishing: _iot_mqtt_push_publish_packet, _iot_mqtt_wait_for.          *)

Fresh(m) == st[m] = "none" /\ m \in Msgs

st_mqtt_publish(m) ==
    /\ At("app", "idle") /\ Fresh(m) /\ magic
    /\ st' = [st EXCEPT ![m] = "WRITE_PENDING"]
    /\ wq' = Append(wq, m)
    /\ waits' = [waits EXCEPT !["app"] = m]
    /\ Goto("app", "write")
    /\ UNCHANGED <<net, aq, eq, timer, tries, hand, failed, locks, idle, life,
                   told>>

st_mqtt_publish_async(m) ==
    /\ At("app", "idle") /\ Fresh(m) /\ magic
    /\ st' = [st EXCEPT ![m] = "WRITE_PENDING"]
    /\ wq' = Append(wq, m)
    /\ async' = async \cup {m}
    /\ Signal
    /\ UNCHANGED <<net, aq, eq, timer, tries, threads, locks, idle, handle,
                   magic, got, result, reported, lossTold>>

\* An invalid struct: both calls fail, the asynchronous one signals all the same.
PublishAsyncInvalid ==
    /\ At("app", "idle") /\ ~ magic
    /\ Signal
    /\ UNCHANGED <<net, queues, chunk, threads, locks, idle, handle, magic, told>>

\* The waiter frees its chunk and returns; the work thread goes on to close.
WaitEnds(t, ok) ==
    LET c == waits[t]
    IN  /\ Free(c)
        /\ waits' = [waits EXCEPT ![t] = "none"]
        /\ result' = IF c \in Msgs
                     THEN [result EXCEPT ![c] = IF ok THEN "ok" ELSE "failed"]
                     ELSE result
        /\ failed' = [failed EXCEPT ![t] = FALSE]
        /\ Goto(t, IF t = "app" THEN "idle" ELSE "closing")
        /\ UNCHANGED <<net, eq, hand, locks, idle, life, got, async, reported,
                       lossTold>>

WaitDone(t) ==
    /\ At(t, "check")
    /\ st[waits[t]] \in {"WRITE_COMPLETED", "ACKNOWLEDGED"}
    /\ WaitEnds(t, TRUE)
    /\ UNCHANGED <<wq, aq>>

WaitFails(t) ==
    /\ At(t, "check")
    /\ st[waits[t]] \in {"QUEUE_DESTROYED", "WRITE_FAIL", "TIMEOUT"}
    /\ WaitEnds(t, FALSE)
    /\ UNCHANGED <<wq, aq>>

\* The cycle failed and the packet is still in its queue: take it back.
Abandoned(t) ==
    /\ failed[t]
    /\ \/ st[waits[t]] = "WRITE_PENDING" /\ InSeq(waits[t], wq)
       \/ st[waits[t]] = "ACK_PENDING" /\ InSeq(waits[t], aq)

\* Mistake: the packet is left in its queue.
AbandonInQueue(t) ==
    /\ At(t, "check") /\ Abandoned(t)
    /\ UNCHANGED wq
    /\ UNCHANGED aq
    /\ WaitEnds(t, FALSE)

WaitAbandons(t) ==
    /\ At(t, "check") /\ Abandoned(t)
    /\ wq' = IF st[waits[t]] = "WRITE_PENDING" THEN Drop(waits[t], wq) ELSE wq
    /\ aq' = IF st[waits[t]] = "ACK_PENDING" THEN Drop(waits[t], aq) ELSE aq
    /\ WaitEnds(t, FALSE)

WaitAgain(t) ==
    /\ At(t, "check")
    /\ st[waits[t]] \in {"WRITE_PENDING", "ACK_PENDING"}
    /\ ~ Abandoned(t)
    /\ Goto(t, "write")
    /\ UNCHANGED <<net, queues, chunk, hand, failed, waits, locks, idle, life,
                   told>>

-----------------------------------------------------------------------------
(* The socket thread: _iot_mqtt_listen_socket.                             *)

\* select() reports a packet, an error, or the shutdown of the socket.
Poll ==
    /\ At("sock", "poll")
    /\ inbox # <<>> \/ link = "broken"
    /\ Goto("sock", "read")
    /\ UNCHANGED <<net, queues, chunk, hand, failed, waits, locks, idle, life,
                   told>>

\* The socket was closed before select(): an error, and no signal.
PollFails ==
    /\ At("sock", "poll") /\ ~ connected
    /\ Goto("sock", "exit")
    /\ UNCHANGED <<net, queues, chunk, hand, failed, waits, locks, idle, life,
                   told>>

\* Mistake: the loop goes on after a failure.
ListenOn ==
    /\ At("sock", "signal")
    /\ Signal
    /\ Goto("sock", "poll")
    /\ failed' = [failed EXCEPT !["sock"] = FALSE]
    /\ UNCHANGED <<net, queues, chunk, hand, waits, locks, idle, handle, magic,
                   told>>

ListenSignal ==
    /\ At("sock", "signal")
    /\ Signal
    /\ Goto("sock", IF failed["sock"] \/ ~ connected THEN "exit" ELSE "poll")
    /\ failed' = [failed EXCEPT !["sock"] = FALSE]
    /\ UNCHANGED <<net, queues, chunk, hand, waits, locks, idle, handle, magic,
                   told>>

ListenExit ==
    /\ At("sock", "exit")
    /\ handle' = FALSE
    /\ Goto("sock", "gone")
    /\ UNCHANGED <<net, queues, chunk, hand, failed, waits, locks, idle, works,
                   magic, told>>

-----------------------------------------------------------------------------
(* The end: iot_es_disconnect in a handler on the work thread.             *)

\* st_mqtt_disconnect
Disconnect ==
    /\ At("work", "idle")
    /\ st' = [st EXCEPT !["DISCONNECT"] = "WRITE_PENDING"]
    /\ wq' = Append(wq, "DISCONNECT")
    /\ waits' = [waits EXCEPT !["work"] = "DISCONNECT"]
    /\ Goto("work", "write")
    /\ UNCHANGED <<net, aq, eq, timer, tries, hand, failed, locks, idle, life,
                   told>>

\* Its _iot_mqtt_close_net
DisconnectCloses ==
    /\ At("work", "closing")
    /\ readLock = "none" /\ writeLock = "none"
    /\ SocketClosed
    /\ Goto("work", "closed")
    /\ UNCHANGED <<queues, chunk, hand, failed, waits, locks, idle, life, told>>

\* st_mqtt_destroy invalidates the struct ...
DestroyBegin ==
    /\ At("work", "closed")
    /\ magic' = FALSE
    /\ Goto("work", "joining")
    /\ UNCHANGED <<net, queues, chunk, hand, failed, waits, locks, idle, works,
                   handle, told>>

\* ... takes the locks to find the socket closed, and waits for the socket
\* thread to be gone: works, queues, timers and the client go too.
DestroyEnd ==
    /\ At("work", "joining") /\ ~ handle
    /\ readLock = "none" /\ writeLock = "none"
    /\ works' = 0
    /\ st' = [c \in Chunks |->
                 IF c = "PING" THEN "freed"
                 ELSE IF InSeq(c, wq) \/ InSeq(c, aq) \/ InSeq(c, eq)
                      THEN IF Owned(c) THEN "QUEUE_DESTROYED" ELSE "freed"
                      ELSE st[c]]
    /\ timer' = [c \in Chunks |-> IF st'[c] = "freed" THEN "none" ELSE timer[c]]
    /\ wq' = <<>> /\ aq' = <<>> /\ eq' = <<>>
    /\ sentOn' = FALSE /\ rcvdOn' = FALSE /\ UNCHANGED outside
    /\ Goto("work", "freed")
    /\ UNCHANGED <<net, tries, hand, failed, waits, locks, handle, magic, told>>

-----------------------------------------------------------------------------
(* Broker, network, time.                                                  *)

BrokerPublishes ==
    /\ Alive /\ connected /\ link = "up"
    /\ outside > 0 /\ Len(inbox) < MaxInbox
    /\ outside' = outside - 1
    /\ \E p \in {"pub", "dup"} : inbox' = Append(inbox, p)
    /\ UNCHANGED <<connected, link, queues, chunk, threads, locks, sentOn, rcvdOn,
                   life, told>>

LinkBreaks ==
    /\ connected /\ link = "up" /\ Alive
    /\ link' = "broken"
    /\ UNCHANGED <<connected, inbox, queues, chunk, threads, locks,
                   idle, life, told>>

\* _iot_mqtt_chunk_expire_timeout
ChunkExpires(c) ==
    /\ timer[c] = "active" /\ Alive
    /\ timer' = [timer EXCEPT ![c] = "expired"]
    /\ Signal
    /\ UNCHANGED <<net, queues, st, tries, threads, locks, idle, handle, magic,
                   told>>

\* _iot_mqtt_ping_timeout
SentExpires == /\ sentOn /\ outside > 0 /\ Alive
               /\ outside' = outside - 1
               /\ sentOn' = FALSE
               /\ Signal
               /\ UNCHANGED <<net, queues, chunk, threads, locks, rcvdOn,
                              handle, magic, told>>

RcvdExpires == /\ rcvdOn /\ outside > 0 /\ Alive
               /\ outside' = outside - 1
               /\ rcvdOn' = FALSE
               /\ Signal
               /\ UNCHANGED <<net, queues, chunk, threads, locks, sentOn,
                              handle, magic, told>>

-----------------------------------------------------------------------------
WriteStream(t) == \/ WritePop(t) \/ SendOk(t) \/ PostWrite(t) \/ SendFails(t)
                  \/ WriteFailed(t) \/ CycleInvalid(t)
ReadStream(t) == \/ ReadNotConnected(t) \/ ReadNothing(t) \/ ReadFails(t)
                 \/ ReadPublish(t) \/ ReadStrayAck(t) \/ ReadAckAndFree(t)
                 \/ ReadAck(t) \/ AckedTimer(t)
Keeping(t) == \/ PopExpired(t) \/ Retry(t)
              \/ CheckAlive(t) \/ CheckAlivePing(t) \/ CheckAliveFails(t)
              \/ CloseNet(t) \/ PushDisconnected(t)
Waiting(t) == \/ WaitDone(t) \/ WaitFails(t) \/ WaitAbandons(t) \/ WaitAgain(t)

AppRuns == WriteStream("app") \/ ReadStream("app") \/ Keeping("app")
           \/ Waiting("app")
WorkRuns == \/ WriteStream("work") \/ ReadStream("work") \/ Keeping("work")
            \/ Waiting("work")
            \/ StoreHandle \/ PendingWork \/ Callback
            \/ CallbacksDone \/ IsPendingWork
            \/ DisconnectCloses \/ DestroyBegin \/ DestroyEnd
SockRuns == \/ ReadStream("sock") \/ CycleInvalid("sock")
            \/ CloseNet("sock") \/ PushDisconnected("sock")
            \/ Poll \/ PollFails \/ ListenSignal \/ ListenExit

Next == \/ AppRuns \/ WorkRuns \/ SockRuns
        \/ \E m \in Msgs : st_mqtt_publish(m) \/ st_mqtt_publish_async(m)
        \/ PublishAsyncInvalid \/ Disconnect
        \/ BrokerPublishes \/ LinkBreaks
        \/ \E c \in Chunks : ChunkExpires(c)
        \/ SentExpires \/ RcvdExpires

\* The three threads run, also past each other's locks, and the timers of packets
\* expire.
Fairness == /\ WF_vars(AppRuns) /\ WF_vars(WorkRuns) /\ WF_vars(SockRuns)
            /\ WF_vars(\E c \in Chunks : ChunkExpires(c))

Spec == Init /\ [][Next]_vars /\ Fairness

-----------------------------------------------------------------------------
(* Properties.                                                             *)

ChunkStates == {"none", "INIT", "WRITE_PENDING", "WRITE_COMPLETED", "WRITE_FAIL",
                "ACK_PENDING", "ACKNOWLEDGED", "TIMEOUT", "QUEUE_DESTROYED",
                "freed"}
Steps == {"idle", "starting", "write", "send", "post", "fail",
          "fail and close", "read", "acked", "expiry", "retry", "close",
          "event", "check", "callbacks", "pending", "poll", "signal", "exit",
          "gone", "closing", "closed", "joining", "freed"}

TypeOK == /\ connected \in BOOLEAN /\ link \in {"up", "broken"}
          /\ inbox \in Seq(Msgs \cup {"PING", "pub", "dup"})
          /\ outside \in 0 .. MaxOutside
          /\ wq \in Seq(Chunks \cup {"PUBACK"})
          /\ aq \in Seq(Msgs \cup {"PING"})
          /\ eq \in Seq(Msgs \cup {"PUBACK", "pub", "disconnected"})
          /\ st \in [Chunks -> ChunkStates]
          /\ timer \in [Chunks -> {"none", "active", "expired"}]
          /\ tries \in [Chunks -> 0 .. PublishRetry]
          /\ pc \in [Threads -> Steps]
          /\ hand \in [Threads -> Chunks \cup {"PUBACK", "none"}]
          /\ failed \in [Threads -> BOOLEAN]
          /\ waits \in [Threads -> Chunks \cup {"none"}]
          /\ {readLock, writeLock} \subseteq Threads \cup {"none"}
          /\ {sentOn, rcvdOn, handle, magic, lossTold} \subseteq BOOLEAN
          /\ works \in 0 .. MaxWorks
          /\ got \subseteq Msgs /\ async \subseteq Msgs /\ reported \subseteq Msgs
          /\ result \in [Msgs -> {"none", "ok", "failed"}]

\* A thread that popped a chunk holds it until it has put it somewhere; in the
\* last lines of the ack and of the failed write it only looks at it.
Holds(t) == pc[t] \in {"send", "post", "retry"}

\* The places where c is: a queue and a position in it, or the hand of a thread.
Places(c) == {<<"wq", i>> : i \in {j \in 1 .. Len(wq) : wq[j] = c}}
             \cup {<<"aq", i>> : i \in {j \in 1 .. Len(aq) : aq[j] = c}}
             \cup {<<"eq", i>> : i \in {j \in 1 .. Len(eq) : eq[j] = c}}
             \cup {<<"hand", t>> : t \in {u \in Threads : hand[u] = c /\ Holds(u)}}

InOnePlace ==
    Alive => \A c \in Chunks : /\ \A p, q \in Places(c) : p = q
                               /\ st[c] = "freed" => Places(c) = {}

\* st_mqtt_publish returns success only when the broker has the message, and as
\* long as the client is valid no asynchronous message vanishes: it is under way,
\* the broker has it, or the callback was told that it failed.
MessageIsAccounted ==
    /\ \A m \in Msgs : result[m] = "ok" => m \in got
    /\ Alive /\ magic => \A m \in async :
          \/ Places(m) # {} \/ m \in got \cup reported
          \/ \E t \in Threads : hand[t] = m

\* A connection that broke down is reported: the event is queued or was
\* delivered, unless the client is being closed.
ClosedIsReported ==
    ~ connected /\ pc["work"] # "closed" /\ magic =>
        \/ lossTold \/ InSeq("disconnected", eq)
        \/ \E t \in Threads : pc[t] = "event"

\* A synchronous publish returns, whatever broker and network do.
PublishReturns == pc["app"] # "idle" ~> (pc["app"] = "idle" \/ ~ Alive)

\* st_mqtt_destroy returns: the socket thread exits when the socket is closed.
\* Unless its handle was stored after it had cleared it (StoreHandle).
DestroyReturns ==
    pc["work"] = "joining" ~> \/ ~ Alive
                              \/ pc["sock"] = "gone" /\ handle

\* No chunk is in two queues, or in a queue and in the hand of a thread, and no
\* freed chunk is in either: retries, acks and abandoned calls hand it on.  A
\* packet that a thread has popped belongs to it: no other thread frees it or
\* queues it.  The exception is the moment after chunk_state was set to
\* WRITE_FAIL or ACKNOWLEDGED: the waiter polls it without a lock and may free
\* the packet while the thread that set it still uses its other fields.
PoppedIsOwned ==
    /\ TypeOK
    /\ InOnePlace
    /\ Alive => \A t \in Threads : hand[t] \in Chunks =>
          \/ /\ st[hand[t]] # "freed"
             /\ ~ InSeq(hand[t], wq) /\ ~ InSeq(hand[t], aq) /\ ~ InSeq(hand[t], eq)
          \/ pc[t] \in {"fail", "fail and close", "acked"}

=============================================================================

----------------------------- MODULE BleTransfer -----------------------------
(***************************************************************************)
(* Easy setup over BLE, the transfer layer: a message of the phone arrives *)
(* as chunks of segments and is put together in msg_state                  *)
(* (iot_easysetup_ble_msg.c), is handed to the BLE task through three      *)
(* globals and a flag (iot_easysetup_ble_task.c), and its answer is cut    *)
(* into indications that use the same msg_state.                           *)
(*                                                                         *)
(* Three threads share msg_state without a lock: the BLE host calls        *)
(* es_msg_assemble for every segment and es_reset_transferdata when the    *)
(* phone leaves, the BLE task answers, and the work thread sends the       *)
(* response to SETUPCOMPLETE from iot_easysetup_deinit.                    *)
(*                                                                         *)
(* A message is known by a number; of its bytes only the order of the      *)
(* segments and the end of each chunk matter.                              *)
(***************************************************************************)
EXTENDS Naturals, Sequences, FiniteSets

CONSTANTS Ordinary,    \* commands the task answers itself (cmd_num: step + 1)
          MaxMsgs,     \* bound: messages the phone begins
          MaxSegments, \* bound: segments of a chunk or of an answer
          MaxChunks,   \* bound: chunks of a message
          MaxRestarts  \* bound: how often the phone leaves or the task is ended

ASSUME BleTransferAssumption ==
    /\ Ordinary \subseteq 1 .. 7 /\ MaxMsgs \in Nat /\ MaxRestarts \in Nat
    /\ MaxSegments \in Nat \ {0} /\ MaxChunks \in 1 .. 2

SETUPCOMPLETE == 8
SETUPCOMPLETE_RESPONSE == 13
Cmds == Ordinary \cup {SETUPCOMPLETE}

IDLE == "idle"
ASSEMBLE == "assemble"
DISASSEMBLE == "disassemble"

VARIABLES ms,       \* msg_state; data holds the message of each chunk, 0: none
          phone,    \* the message being written: [id, cmd, chunks, segs, op]
          tid,      \* the phone's last transaction id
          conn,     \* the phone is connected
          host,     \* es_msg_dispatch between flag and data: [cmd, id], or NoCall
          flag,     \* g_check_process
          g,        \* g_write_cmd_num and rx_buffer: [cmd, id]
          task,     \* where the BLE task is; "none": es_ble_task_handle is NULL
          req,      \* the request it handles
          snd,      \* per sender, es_msg_disassemble: [pc, cmd, label, left, op]
          owed,     \* d2d_event_request: the response to SETUPCOMPLETE is due
          \* history
          cmdOf,    \* the command of each message
          restarts,
          mixed,    \* a message was given up in the middle or overtaken by a
                    \* sender, or the task's read was torn
          lost,     \* some request ended, or will end, without an answer
          reset,    \* senders that msg_state was reset under
          skipped,  \* the last message was skipped as a duplicate
          raced     \* senders overtaken between check and label

vars == <<ms, phone, tid, conn, host, flag, g, task, req, snd, owed, cmdOf,
          restarts, mixed, lost, reset, skipped, raced>>
hostVars == <<phone, tid, conn, host, cmdOf, mixed, skipped>>

Senders == {"task", "work"}
NoCall == [cmd |-> 0, id |-> 0]
NoMessage == [id |-> 0, cmd |-> 0, chunks |-> 0, segs |-> 0, op |-> 0]
NotSending == [pc |-> "idle", cmd |-> 0, label |-> 0, left |-> 0, op |-> 0]
FreshState == [state |-> IDLE, op |-> 0, cmd |-> 0, tid |-> 0, mtu |-> FALSE,
               cont |-> 0, idx |-> 0, data |-> <<>>]

Init == /\ ms = FreshState /\ phone = NoMessage /\ tid = 0 /\ conn = FALSE
        /\ host = NoCall /\ flag = FALSE /\ g = NoCall
        /\ task = "none" /\ req = NoCall /\ snd = [t \in Senders |-> NotSending]
        /\ owed = FALSE /\ cmdOf = [i \in 1 .. MaxMsgs |-> 0] /\ restarts = 0
        /\ mixed = FALSE /\ lost = FALSE /\ reset = {} /\ skipped = FALSE
        /\ raced = {}

Sending(t) == snd[t].pc = "send"

-----------------------------------------------------------------------------
\* es_msg_assemble

\* Mistake: the chunks received so far are kept.
ResetKeepsData(m) == [m EXCEPT !.state = IDLE, !.mtu = FALSE, !.op = 0,
                               !.cont = 0, !.idx = 0]

\* The command and the transaction id of the last message stay.
_es_msg_state_reset(m) ==
    [state |-> IDLE, op |-> 0, cmd |-> m.cmd, tid |-> m.tid, mtu |-> FALSE,
     cont |-> 0, idx |-> 0, data |-> <<>>]

\* What one call leaves: msg_state, whether a chunk is complete, and whether
\* its command equals the last one that was not answered.
Result(m, complete, duplicate) == [m |-> m, complete |-> complete, dup |-> duplicate]

\* A later segment must continue the one before; any other one, also the first
\* of another message, only resets the state.
LaterSegment(m, s) ==
    IF s.op = m.op + 1 /\ s.cmd = m.cmd /\ s.tid = m.tid
    THEN Result([m EXCEPT !.op = s.op], s.last, FALSE)
    ELSE Result(_es_msg_state_reset(m), FALSE, FALSE)

\* The first segment of a chunk: the array is made by the first chunk of a
\* message, and by a later message found in place.
FirstSegment(m, s) ==
    IF s.op # 0 \/ (s.tid <= m.tid /\ m.tid # 0)
    THEN Result(_es_msg_state_reset(m), FALSE, FALSE)
    ELSE LET data == IF m.data = <<>> THEN [i \in 1 .. s.cont + 1 |-> 0] ELSE m.data
             idx  == Len(data) - s.cont
         IN  Result([state |-> IF s.last THEN IDLE ELSE ASSEMBLE, op |-> 0,
                     cmd |-> s.cmd, tid |-> s.tid, mtu |-> TRUE, cont |-> s.cont,
                     idx |-> idx, data |-> [data EXCEPT ![idx] = s.id]],
                    s.last, m.cmd # 0 /\ m.cmd = s.cmd)

es_msg_assemble(m, s) ==
    CASE m.state = ASSEMBLE -> LaterSegment(m, s)
      [] m.state = DISASSEMBLE -> Result(_es_msg_state_reset(m), FALSE, FALSE)
      [] m.state = IDLE -> FirstSegment(m, s)

\* Out of memory: before or after the command and the id were noted.
NoMemory(m, s) == {_es_msg_state_reset(m),
                   _es_msg_state_reset([m EXCEPT !.cmd = s.cmd, !.tid = s.tid])}

\* The host thread writes segment s.  A complete last chunk is dispatched (the
\* flag is set first) unless it is a duplicate.
Write(s) ==
    LET r == es_msg_assemble(ms, s)
        whole == r.complete /\ r.m.cont = 0
        dispatch == whole /\ ~ r.dup
    IN  /\ \/ /\ ms' = IF whole THEN _es_msg_state_reset(r.m)
                       ELSE IF r.complete THEN [r.m EXCEPT !.state = IDLE] ELSE r.m
              /\ skipped' = (whole /\ r.dup)
              /\ host' = IF dispatch THEN [cmd |-> r.m.cmd, id |-> r.m.data[1]] ELSE NoCall
              /\ flag' = (flag \/ dispatch)
              /\ lost' = (lost \/ (dispatch /\ (flag \/ task = "none"))
                               \/ (whole /\ r.dup)
                               \/ (ms.state = ASSEMBLE /\ r.m.state = IDLE /\ ~ r.complete))
           \/ /\ ms.state = IDLE /\ s.op = 0
              /\ ms' \in NoMemory(ms, s)
              /\ lost' = TRUE
              /\ skipped' = FALSE /\ UNCHANGED <<host, flag>>
        /\ reset' = reset \cup {t \in Senders : Sending(t)}
        /\ raced' = raced \cup {t \in Senders : snd[t].pc = "start"}

\* The phone begins a message, perhaps in the middle of another one ...
NewMessage(cmd, chunks, segs) ==
    /\ conn /\ task # "crashed" /\ host = NoCall
    /\ \E id \in {i \in 1 .. MaxMsgs : cmdOf[i] = 0} :
          /\ \A i \in 1 .. id - 1 : cmdOf[i] # 0
          /\ cmdOf' = [cmdOf EXCEPT ![id] = cmd]
          /\ tid' = tid + 1
          /\ phone' = [id |-> id, cmd |-> cmd, chunks |-> chunks, segs |-> segs, op |-> 1]
          /\ mixed' = (mixed \/ (phone.id # 0 /\ (phone.chunks > 1
                                                  \/ phone.op < phone.segs)))
          /\ Write([op |-> 0, cmd |-> cmd, tid |-> tid + 1, cont |-> chunks - 1,
                    id |-> id, last |-> segs = 1])
    /\ UNCHANGED <<conn, g, task, req, snd, owed, restarts>>

\* ... and goes on with it: the next segment, or the next chunk, which has an
\* id of its own.
NextSegment ==
    /\ conn /\ task # "crashed" /\ host = NoCall /\ phone.id # 0
    /\ IF phone.op < phone.segs
       THEN /\ phone' = [phone EXCEPT !.op = @ + 1]
            /\ tid' = tid
            /\ Write([op |-> phone.op, cmd |-> phone.cmd, tid |-> tid,
                      cont |-> phone.chunks - 1, id |-> phone.id,
                      last |-> phone.op + 1 = phone.segs])
       ELSE /\ phone.chunks > 1
            /\ phone' = [phone EXCEPT !.chunks = @ - 1, !.op = 1]
            /\ tid' = tid + 1
            /\ Write([op |-> 0, cmd |-> phone.cmd, tid |-> tid + 1,
                      cont |-> phone.chunks - 2, id |-> phone.id,
                      last |-> phone.segs = 1])
    /\ UNCHANGED <<conn, g, task, req, snd, owed, cmdOf, restarts, mixed>>

\* The rest of es_msg_dispatch: command, length and data, chunk 0 only.
es_msg_dispatch ==
    /\ host # NoCall
    /\ g' = host
    /\ host' = NoCall
    /\ UNCHANGED <<ms, phone, tid, conn, flag, task, req, snd, owed, cmdOf,
                   restarts, mixed, lost, reset, skipped, raced>>

\* A phone joins; its transaction ids start over.
Join ==
    /\ ~ conn /\ task # "none"
    /\ conn' = TRUE /\ tid' = 0 /\ phone' = NoMessage
    /\ UNCHANGED <<ms, host, flag, g, task, req, snd, owed, cmdOf, restarts,
                   mixed, lost, reset, skipped, raced>>

\* es_reset_transferdata, from the event IOT_BLE_EVENT_GATT_LEAVE.
es_reset_transferdata ==
    /\ conn /\ host = NoCall
    /\ restarts < MaxRestarts
    /\ restarts' = restarts + 1
    /\ conn' = FALSE
    /\ ms' = _es_msg_state_reset([ms EXCEPT !.tid = 0])
    /\ owed' = FALSE
    /\ lost' = (lost \/ ms.cmd # 0)
    /\ reset' = reset \cup {t \in Senders : snd[t].pc \in {"start", "send"}}
    /\ UNCHANGED <<phone, tid, host, flag, g, task, req, snd, cmdOf, mixed,
                   skipped, raced>>

-----------------------------------------------------------------------------
\* The BLE task

\* es_ble_init creates it; es_ble_deinit deletes it wherever it is.
es_ble_init ==
    /\ task = "none"
    /\ task' = "poll"
    /\ UNCHANGED <<ms, hostVars, flag, g, req, snd, owed, restarts, lost, reset, raced>>

es_ble_deinit ==
    /\ task \notin {"none", "crashed"}
    /\ restarts < MaxRestarts
    /\ restarts' = restarts + 1
    /\ task' = "none" /\ req' = NoCall
    /\ snd' = [snd EXCEPT !["task"] = NotSending]
    /\ conn' = FALSE
    /\ lost' = TRUE
    /\ reset' = reset \ {"task"} /\ raced' = raced \ {"task"}
    /\ UNCHANGED <<ms, phone, tid, host, cmdOf, mixed, skipped, flag, g, owed>>

\* _es_process_accepted_connection: see the flag and clear it ...
TakeFlag ==
    /\ task = "poll" /\ flag
    /\ flag' = FALSE
    /\ task' = "taken"
    /\ UNCHANGED <<ms, hostVars, g, req, snd, owed, restarts, lost, reset, raced>>

\* ... and then read command and data, which the host may be writing.
ReadRequest ==
    /\ task = "taken"
    /\ IF host = NoCall
       THEN req' = g /\ UNCHANGED <<mixed, lost>>
       ELSE /\ req' \in [cmd : {g.cmd, host.cmd}, id : {g.id, host.id}]
            /\ mixed' = TRUE /\ lost' = TRUE
    /\ task' = "handle"
    /\ UNCHANGED <<ms, phone, tid, conn, host, cmdOf, skipped, flag, g, snd, owed,
                   restarts, reset, raced>>

\* iot_easysetup_ble_msg_handler: an answer, or none (SETUPCOMPLETE is answered
\* later by the work thread; an answer that cannot be encrypted is dropped).
iot_easysetup_ble_msg_handler ==
    /\ task = "handle"
    /\ \/ /\ \E n \in 1 .. MaxSegments :
                snd' = [snd EXCEPT !["task"] = [NotSending EXCEPT !.pc = "check",
                                                  !.cmd = req.cmd, !.left = n]]
          /\ task' = "send"
          /\ UNCHANGED <<owed, lost>>
       \/ /\ task' = "poll"
          /\ IF req.cmd = SETUPCOMPLETE THEN owed' = conn ELSE owed' = owed
          /\ lost' = (lost \/ req.cmd # SETUPCOMPLETE \/ ~ conn)
          /\ UNCHANGED snd
    /\ UNCHANGED <<ms, hostVars, flag, g, req, restarts, reset, raced>>

\* The work thread sends the response to SETUPCOMPLETE (iot_easysetup_deinit).
iot_easysetup_deinit ==
    /\ owed /\ snd["work"].pc = "idle" /\ task # "crashed"
    /\ owed' = FALSE
    /\ snd' = [snd EXCEPT !["work"] = [NotSending EXCEPT !.pc = "check",
                                        !.cmd = SETUPCOMPLETE_RESPONSE, !.left = 1]]
    /\ UNCHANGED <<ms, hostVars, flag, g, task, req, restarts, lost, reset, raced>>

-----------------------------------------------------------------------------
\* es_msg_disassemble, by sender t

\* Mistake: the command of the answer is not compared with the last request's.
CheckAnyCommand(t) ==
    /\ snd[t].pc = "check" /\ task # "crashed"
    /\ ms.state = IDLE
    /\ ms' = [ms EXCEPT !.mtu = TRUE]
    /\ snd' = [snd EXCEPT ![t].pc = "start"]
    /\ UNCHANGED <<hostVars, flag, g, task, req, owed, restarts, lost, reset, raced>>

\* The answer is dropped without an error when another command came meanwhile,
\* and with one when the state is not idle.
CheckFails(t) ==
    /\ snd[t].pc = "check" /\ task # "crashed"
    /\ \/ snd[t].cmd # SETUPCOMPLETE_RESPONSE /\ snd[t].cmd # ms.cmd
       \/ ms.state # IDLE
    /\ lost' = TRUE
    /\ snd' = [snd EXCEPT ![t] = NotSending]
    /\ task' = IF t = "task" THEN "poll" ELSE task
    /\ UNCHANGED <<reset, raced>>
    /\ UNCHANGED <<ms, hostVars, flag, g, req, owed, restarts>>

Check(t) ==
    /\ snd[t].pc = "check" /\ task # "crashed"
    /\ snd[t].cmd = SETUPCOMPLETE_RESPONSE \/ snd[t].cmd = ms.cmd
    /\ ms.state = IDLE
    /\ ms' = [ms EXCEPT !.mtu = TRUE]
    /\ snd' = [snd EXCEPT ![t].pc = "start"]
    /\ UNCHANGED <<hostVars, flag, g, task, req, owed, restarts, lost, reset, raced>>

\* The label is read after the check.
Start(t) ==
    /\ snd[t].pc = "start" /\ task # "crashed"
    /\ ms' = [ms EXCEPT !.state = DISASSEMBLE]
    /\ snd' = [snd EXCEPT ![t].pc = "send", ![t].label = ms.cmd]
    /\ mixed' = (mixed \/ ms.state # IDLE)
    /\ UNCHANGED <<phone, tid, conn, host, cmdOf, skipped, flag, g, task, req,
                   owed, restarts, lost, reset, raced>>

\* One indication, which may fail.  A segment after the first divides by mtu:
\* zero ends the device.
iot_send_indication(t) ==
    /\ Sending(t) /\ task # "crashed"
    /\ snd[t].left > 0
    /\ \/ /\ snd[t].op = 0 \/ ms.mtu
          /\ snd' = [snd EXCEPT ![t].op = @ + 1,
                                ![t].left = IF ms.mtu THEN @ - 1 ELSE @]
          /\ UNCHANGED <<task, lost>>
       \/ /\ snd[t].op = 0 \/ ms.mtu
          /\ snd' = [snd EXCEPT ![t].left = 0]
          /\ lost' = TRUE
          /\ UNCHANGED task
       \/ /\ snd[t].op > 0 /\ ~ ms.mtu
          /\ task' = "crashed"
          /\ UNCHANGED <<snd, lost>>
    /\ UNCHANGED <<ms, hostVars, flag, g, req, owed, restarts, reset, raced>>

\* Mistake: the command stays noted as unanswered.
FinishKeepsCommand(t) ==
    /\ Sending(t) /\ task # "crashed" /\ snd[t].left = 0
    /\ ms' = [ms EXCEPT !.state = IDLE]
    /\ snd' = [snd EXCEPT ![t] = NotSending]
    /\ task' = IF t = "task" THEN "poll" ELSE task
    /\ reset' = reset \ {t} /\ raced' = raced \ {t}
    /\ UNCHANGED <<hostVars, flag, g, req, owed, restarts, lost>>

\* The end: the state is idle and the command is answered, whichever it is now.
Finish(t) ==
    /\ Sending(t) /\ task # "crashed" /\ snd[t].left = 0
    /\ ms' = [ms EXCEPT !.state = IDLE, !.cmd = 0]
    /\ lost' = (lost \/ ms.cmd # snd[t].label)
    /\ snd' = [snd EXCEPT ![t] = NotSending]
    /\ task' = IF t = "task" THEN "poll" ELSE task
    /\ reset' = reset \ {t}
    /\ raced' = (raced \cup {u \in Senders : snd[u].pc = "start"}) \ {t}
    /\ UNCHANGED <<hostVars, flag, g, req, owed, restarts>>

-----------------------------------------------------------------------------
Next == \/ \E cmd \in Cmds, chunks \in 1 .. MaxChunks, segs \in 1 .. MaxSegments :
              NewMessage(cmd, chunks, segs)
        \/ NextSegment
        \/ es_msg_dispatch
        \/ Join
        \/ es_reset_transferdata
        \/ es_ble_init
        \/ es_ble_deinit
        \/ TakeFlag
        \/ ReadRequest
        \/ iot_easysetup_ble_msg_handler
        \/ iot_easysetup_deinit
        \/ \E t \in Senders : CheckFails(t)
        \/ \E t \in Senders : Check(t)
        \/ \E t \in Senders : Start(t)
        \/ \E t \in Senders : iot_send_indication(t)
        \/ \E t \in Senders : Finish(t)

Spec == Init /\ [][Next]_vars

-----------------------------------------------------------------------------
Requests == [cmd : 0 .. 13, id : 0 .. MaxMsgs]

\* Every variable has its type.
TypeOK ==
    /\ ms.state \in {IDLE, ASSEMBLE, DISASSEMBLE}
    /\ ms.mtu \in BOOLEAN /\ ms.cmd \in Cmds \cup {0} /\ ms.cont < MaxChunks
    /\ ms.data \in Seq(0 .. MaxMsgs) /\ Len(ms.data) <= MaxChunks
    /\ host \in Requests /\ g \in Requests /\ req \in Requests
    /\ task \in {"none", "poll", "taken", "handle", "send", "crashed"}
    /\ \A t \in Senders : snd[t].pc \in {"idle", "check", "start", "send"}
    /\ {flag, owed, conn, mixed, lost, skipped} \subseteq BOOLEAN

ChunkFits == ms.state = ASSEMBLE => ms.idx \in 1 .. Len(ms.data) \/ mixed

\* What es_msg_dispatch hands over is one whole message under its own command,
\* and the array of chunks has room for the chunk that is being received:
\* data_idx, an unsigned difference, stays inside data.  Unless the phone gave up
\* a message between two chunks or in one, or a sender took the state from a
\* message that was coming in.  (What an index outside the array overwrites is
\* not modelled.)
DispatchedIsWhole == /\ TypeOK
                     /\ ChunkFits
                     /\ host # NoCall => cmdOf[host.id] = host.cmd \/ mixed

\* An indication carries the command of the request it answers, although the
\* label is read from msg_state after the check, unless a segment was written
\* or the other sender ended exactly between the two.  The device divides by a
\* zero mtu only when msg_state was reset (a segment written, the phone gone)
\* after the sender had set it.
AnswerFitsRequest ==
    /\ Sending("task") => snd["task"].label = snd["task"].cmd \/ "task" \in raced
    /\ task = "crashed" => reset \cup raced # {}

\* A message is skipped as a duplicate only while an earlier request of the same
\* command is on its way (or got lost): an answer that went out makes room for
\* the next request of that command.  The first chunk of a message counts, too:
\* a second chunk that fits in one segment is skipped as its duplicate.
SkippedHasCause ==
    [][skipped' /\ ~ skipped =>
         LET c == cmdOf'[phone'.id]
         IN  \/ lost \/ mixed' \/ phone'.id = phone.id
             \/ flag /\ g.cmd = c
             \/ task \in {"taken", "handle"} /\ c \in {g.cmd, req.cmd}
             \/ owed /\ c = SETUPCOMPLETE
             \/ \E t \in Senders : snd[t].pc # "idle"]_vars

=============================================================================

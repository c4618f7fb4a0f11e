------------------------------ MODULE UserDelete ------------------------------
(***************************************************************************)
(* The handshake of st_conn_cleanup (iot_main.c): the application's thread *)
(* asks the cloud to delete the device card, and sleeps on the event group *)
(* usr_events until the work queue's thread has seen the cloud's           *)
(* DEV_DELETED notification.  The same notification, when nobody asked,    *)
(* makes the work thread wipe the device and reboot.  The two threads meet *)
(* in usr_delete_req, in the event group and in the connection.            *)
(*                                                                         *)
(* st_conn_lock admits one such call at a time.  The cloud is external: it *)
(* answers a delete request with one notification, and may delete a card   *)
(* on its own.                                                             *)
(***************************************************************************)
EXTENDS Naturals, Sequences, EventGroup

CONSTANT MaxRequests    \* bound: delete requests and card deletions

ASSUME UserDeleteAssumption == MaxRequests \in Nat

CMD_DONE == "CMD_DONE"  \* IOT_USR_INTERACT_BIT_CMD_DONE
UsrBits == {CMD_DONE}

VARIABLES connected,    \* evt_mqttcli set and curr_state CLOUD_CONNECTED
          usrDeleteReq, \* ctx->usr_delete_req
          group,        \* ctx->usr_events
          app,          \* where st_conn_cleanup stands
          result,       \* what _delete_dev_card_by_usr returned
          worker,       \* where the work thread stands in the notification
          requests,     \* number of the last request or deletion by the cloud
          current,      \* number of the request being served, or 0
          inflight,     \* notifications on their way, by request number
          commands,     \* NOTIFICATION_RECEIVED commands in the work queue
          answered,     \* requests the work thread has answered
          slept         \* the select() of the current wait timed out

deleteVars == <<connected, usrDeleteReq, group, app, result, worker, requests,
                current, inflight, commands, answered, slept>>

AppSteps == {"idle", "asked", "waiting", "selected", "timedout", "cleanup"}
Results == {"unset", "NONE", "BAD_REQ", "TIMEOUT"}

DeleteInit == /\ connected = TRUE
              /\ usrDeleteReq = FALSE
              /\ group = EmptyGroup(UsrBits)
              /\ app = "idle"
              /\ result = "unset"
              /\ worker = "idle"
              /\ requests = 0
              /\ current = 0
              /\ inflight = {}
              /\ commands = <<>>
              /\ answered = {}
              /\ slept = FALSE

-----------------------------------------------------------------------------
(* The application's thread: st_conn_cleanup, _delete_dev_card_by_usr.     *)

\* Not connected: no device card to delete, straight to iot_cleanup.
CallNotConnected ==
    /\ app = "idle" /\ ~ connected
    /\ result' = "NONE"
    /\ app' = "cleanup"
    /\ current' = 0
    /\ UNCHANGED <<connected, usrDeleteReq, group, worker, requests, inflight,
                   commands, answered, slept>>

\* Mistake: the flag is not set.
CallWithoutFlag ==
    /\ app = "idle" /\ connected
    /\ requests < MaxRequests
    /\ requests' = requests + 1
    /\ current' = requests + 1
    /\ group' = ClearBits(group, {CMD_DONE})
    /\ result' = "unset"
    /\ slept' = FALSE
    /\ app' = "asked"
    /\ UNCHANGED <<connected, usrDeleteReq, worker, inflight, commands, answered>>

\* The stale bit is cleared and the request flag set before anything is sent.
CallConnected ==
    /\ app = "idle" /\ connected
    /\ requests < MaxRequests
    /\ requests' = requests + 1
    /\ current' = requests + 1
    /\ group' = ClearBits(group, {CMD_DONE})
    /\ usrDeleteReq' = TRUE
    /\ result' = "unset"
    /\ slept' = FALSE
    /\ app' = "asked"
    /\ UNCHANGED <<connected, worker, inflight, commands, answered>>

\* st_mqtt_publish succeeded: the broker has the request.
PublishOk ==
    /\ app = "asked" /\ connected
    /\ inflight' = inflight \cup {current}
    /\ app' = "waiting"
    /\ UNCHANGED <<connected, usrDeleteReq, group, result, worker, requests,
                   current, commands, answered, slept>>

\* st_mqtt_publish failed: the request was lost, or only its ack was.
PublishFails ==
    /\ app = "asked"
    /\ inflight' \in {inflight} \cup (IF connected THEN {inflight \cup {current}}
                                                   ELSE {})
    /\ usrDeleteReq' = FALSE
    /\ result' = "BAD_REQ"
    /\ app' = "cleanup"
    /\ UNCHANGED <<connected, group, worker, requests, current, commands,
                   answered, slept>>

\* Mistake: an interrupted select counts as one that found something to read.
WaitInterrupted ==
    /\ app = "waiting"
    /\ app' = "selected"
    /\ UNCHANGED <<connected, usrDeleteReq, group, result, worker, requests,
                   current, inflight, commands, answered, slept>>

WaitSelect ==
    /\ app = "waiting"
    /\ Readable(group, UsrBits) # {}
    /\ app' = "selected"
    /\ UNCHANGED <<connected, usrDeleteReq, group, result, worker, requests,
                   current, inflight, commands, answered, slept>>

\* Mistake: a wait without a timeout.
WaitForever ==
    /\ app = "waiting"
    /\ Readable(group, UsrBits) = {}
    /\ UNCHANGED deleteVars

WaitTimeout ==
    /\ app = "waiting"
    /\ Readable(group, UsrBits) = {}
    /\ slept' = TRUE
    /\ app' = "timedout"
    /\ UNCHANGED <<connected, usrDeleteReq, group, result, worker, requests,
                   current, inflight, commands, answered>>

\* What the caller makes of the bits wait_bits returned.
Conclude(events) ==
    /\ IF CMD_DONE \in events
       THEN result' = "NONE" /\ UNCHANGED usrDeleteReq
       ELSE result' = "TIMEOUT" /\ usrDeleteReq' = FALSE
    /\ app' = "cleanup"

\* clear_on_exit: the bits read leave the status with their token.
WaitRead ==
    /\ app = "selected"
    /\ group' = ReadBits(group, UsrBits, UsrBits)
    /\ Conclude(group.status)
    /\ UNCHANGED <<connected, worker, requests, current, inflight, commands,
                   answered, slept>>

\* After a timeout the status is returned as it is, nothing is cleared or read.
WaitReadStatus ==
    /\ app = "timedout"
    /\ Conclude(group.status)
    /\ UNCHANGED <<connected, group, worker, requests, current, inflight,
                   commands, answered, slept>>

\* iot_cleanup without reboot: the client is destroyed, the state is back to
\* INITIALIZED; the work queue and the event group stay as they are.
CleanupStays ==
    /\ app = "cleanup"
    /\ connected' = FALSE
    /\ inflight' = {}
    /\ app' = "idle"
    /\ UNCHANGED <<usrDeleteReq, group, result, worker, requests, current,
                   commands, answered, slept>>

\* A new process: everything in memory is gone.
FreshProcess == /\ connected' = FALSE
                /\ usrDeleteReq' = FALSE
                /\ group' = EmptyGroup(UsrBits)
                /\ app' = "idle"
                /\ result' = "unset"
                /\ worker' = "idle"
                /\ current' = 0
                /\ inflight' = {}
                /\ commands' = <<>>
                /\ slept' = FALSE

CleanupReboots == /\ app = "cleanup"
                  /\ FreshProcess
                  /\ UNCHANGED <<requests, answered>>

-----------------------------------------------------------------------------
(* The cloud, and the onboarding that follows a cleanup.                   *)

CloudDeletes ==
    /\ connected
    /\ requests < MaxRequests
    /\ requests' = requests + 1
    /\ inflight' = inflight \cup {requests + 1}
    /\ UNCHANGED <<connected, usrDeleteReq, group, app, result, worker, current,
                   commands, answered, slept>>

\* iot_noti_sub_cb puts the notification into the work queue as a command.
NotificationArrives ==
    /\ connected
    /\ \E c \in inflight : /\ inflight' = inflight \ {c}
                           /\ commands' = Append(commands, c)
    /\ UNCHANGED <<connected, usrDeleteReq, group, app, result, worker, requests,
                   current, answered, slept>>

\* The link breaks; what the broker holds for the device stays there.
ConnectionLost ==
    /\ connected
    /\ connected' = FALSE
    /\ UNCHANGED <<usrDeleteReq, group, app, result, worker, requests, current,
                   inflight, commands, answered, slept>>

\* The work thread connects the device again, after a loss or a new onboarding,
\* behind every older command.
Reconnect ==
    /\ ~ connected
    /\ commands = <<>> /\ worker = "idle"
    /\ connected' = TRUE
    /\ UNCHANGED <<usrDeleteReq, group, app, result, worker, requests, current,
                   inflight, commands, answered, slept>>

-----------------------------------------------------------------------------
(* The work thread: _do_iot_main_command on a DEV_DELETED notification.    *)

NotiAnswersUser ==
    /\ worker = "idle" /\ commands # <<>>
    /\ usrDeleteReq
    /\ usrDeleteReq' = FALSE
    /\ commands' = Tail(commands)
    /\ answered' = answered \cup {current}
    /\ worker' = "answering"
    /\ UNCHANGED <<connected, group, app, result, requests, current, inflight,
                   slept>>

SetDone ==
    /\ worker = "answering"
    /\ group' = SetBits(group, {CMD_DONE})
    /\ worker' = "idle"
    /\ UNCHANGED <<connected, usrDeleteReq, app, result, requests, current,
                   inflight, commands, answered, slept>>

\* Nobody asked (any more): noti_cb, then iot_cleanup(ctx, true).
NotiWipesDevice ==
    /\ worker = "idle" /\ commands # <<>>
    /\ ~ usrDeleteReq
    /\ FreshProcess
    /\ UNCHANGED <<requests, answered>>

-----------------------------------------------------------------------------
AppStep == \/ CallNotConnected \/ CallConnected \/ PublishOk \/ PublishFails
           \/ WaitSelect \/ WaitTimeout \/ WaitRead \/ WaitReadStatus
           \/ CleanupStays \/ CleanupReboots

DeleteNext == \/ AppStep
        \/ CloudDeletes \/ NotificationArrives \/ ConnectionLost \/ Reconnect
        \/ NotiAnswersUser \/ SetDone \/ NotiWipesDevice

\* The threads run; publish, select and cleanup come to an end (the wait has a
\* timeout).  The cloud and the application owe nothing.
DeleteFairness == /\ WF_deleteVars(PublishOk \/ PublishFails)
                  /\ WF_deleteVars(WaitSelect \/ WaitTimeout)
                  /\ WF_deleteVars(WaitRead) /\ WF_deleteVars(WaitReadStatus)
                  /\ WF_deleteVars(CleanupStays \/ CleanupReboots)
                  /\ WF_deleteVars(NotiAnswersUser \/ NotiWipesDevice)
                  /\ WF_deleteVars(SetDone)

DeleteSpec == DeleteInit /\ [][DeleteNext]_deleteVars /\ DeleteFairness

-----------------------------------------------------------------------------
(* Properties.                                                             *)

Causes == 1 .. MaxRequests

DeleteTypeOK == /\ connected \in BOOLEAN
                /\ usrDeleteReq \in BOOLEAN
                /\ group \in GroupType(UsrBits)
                /\ app \in AppSteps
                /\ result \in Results
                /\ worker \in {"idle", "answering"}
                /\ requests \in 0 .. MaxRequests
                /\ current \in 0 .. MaxRequests
                /\ inflight \subseteq Causes
                /\ commands \in Seq(Causes)
                /\ answered \subseteq Causes
                /\ slept \in BOOLEAN

FlagEndsWithCall == app \in {"idle", "cleanup"} => ~ usrDeleteReq

SuccessIsAnswered == app = "cleanup" /\ result = "NONE" /\ current # 0
                        => current \in answered

TimeoutHasCause == result = "TIMEOUT" => slept \/ \E c \in answered : c < current

\* What _delete_dev_card_by_usr reports is true.  Success: the work thread
\* answered that very request; a CMD_DONE left over from an earlier one, which
\* came too late for its wait, is never taken for it.  Timeout: the time has
\* passed.  The one other cause is the token of an earlier request: its answer
\* came after its wait, and clear_bits clears the status but leaves the token in
\* the pipe, so that the next wait ends at once.
ResultIsTrue == DeleteTypeOK /\ SuccessIsAnswered /\ TimeoutHasCause

OpenRequest == /\ app \in {"asked", "waiting", "selected", "timedout"}
               /\ current \notin answered

\* The work thread never wipes and reboots the device under a user whose request
\* is still open: the notification reaches the user instead.  Nor does the
\* request flag outlive the call: left set, it would make the work thread swallow
\* a later deletion by the cloud instead of wiping the device.
FlagIsOfOpenRequest == /\ []FlagEndsWithCall
                       /\ [][OpenRequest => ~ NotiWipesDevice]_deleteVars

\* st_conn_cleanup always returns.
CleanupReturns == (app # "idle") ~> (app = "idle")

=============================================================================

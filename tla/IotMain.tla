------------------------------- MODULE IotMain -------------------------------
(***************************************************************************)
(* The device state machine (iot_main.c): the states from onboarding to a  *)
(* cloud connection, the commands that move it, and the actors that send   *)
(* commands: the handlers themselves, timers, the MQTT clients' events,    *)
(* the phone that provisions the device, and the application.              *)
(*                                                                         *)
(* Commands are handled one at a time in the order they were sent          *)
(* (WorkQueue).  A change of state is itself a command: iot_state_update   *)
(* only appends one, so whoever asks for a new state sees the old one      *)
(* until everything queued before has been handled.  Handlers that talk to *)
(* the network take long; timers, the application and the phone go on      *)
(* meanwhile, hence their Begin and End.                                   *)
(*                                                                         *)
(* Modelled: the build with SoftAP discovery and HTTP (cloud_con_timer is  *)
(* NULL, request_disconnect and cloud_connection_pause never set).         *)
(* Allocation failures are left out.  A reboot does not return.            *)
(***************************************************************************)
EXTENDS Naturals, Sequences, FiniteSets

CONSTANTS MaxFaults,     \* bound: failures and events of network and cloud
          MaxCalls,      \* bound: starts by the application, phone sessions
          MaxCleanups,   \* bound: cleanups by the application without reboot
          MaxQueue,      \* bound: queue length (see RegisterInvalid)
          CriticalRejectMax  \* IOT_MQTT_CONNECT_CRITICAL_REJECT_MAX

ASSUME IotMainAssumption == {MaxFaults, MaxCalls, MaxCleanups, MaxQueue,
                             CriticalRejectMax} \subseteq Nat

VARIABLES curr,          \* ctx->curr_state
          queue,         \* ctx->work_queue
          work,          \* what the work thread is in the middle of
          stateTimer,    \* ctx->state_timer: none, armed, spent
          stateFiring,   \* its callback has started and not read curr_state
          retryTimer,    \* ctx->next_connection_retry_timer, likewise
          retryFiring,
          station,       \* ctx->is_wifi_station
          softap,        \* ctx->es_http_ready: SoftAP and HTTP server are up
          session,       \* how far the phone got
          reg, evt,      \* the MQTT clients: [link, events]
          updated,       \* iot_reg_data.updated: the device id is known
          selfReged,     \* iot_reg_data.self_reged
          regRequested,  \* ctx->registered_msg_requested
          rejects,       \* ctx->mqtt_connect_critical_reject_count
          prov,          \* ctx->prov_data is loaded
          nvProv, nvId,  \* provisioning data, device id in non-volatile memory
          budget,        \* what is left of MaxFaults, MaxCalls, MaxCleanups
          excused        \* causes met so far that the properties except

cloud == <<reg, evt, updated, selfReged, regRequested, rejects>>
timers == <<stateTimer, stateFiring, retryTimer, retryFiring>>
wifi == <<station, softap, session>>
nv == <<prov, nvProv, nvId>>
vars == <<curr, queue, work, timers, wifi, cloud, nv, budget, excused>>

States == {"INITIALIZED", "PROV_ENTER", "PROV_SLEEP", "PROV_CONFIRM",
           "PROV_DONE", "CLOUD_DISCONNECTED", "CLOUD_CONNECTED"}

\* The works of the queue: commands, notifications, requests of the phone and
\* pending works of the clients.
UPDATE(s)   == <<"STATE_UPDATE", s>>
REGISTERING == <<"CLOUD", "REGISTERING">>
REGISTERED  == <<"CLOUD", "REGISTERED">>
CONNECTING  == <<"CLOUD", "CONNECTING">>
DEV_DELETED == <<"NOTI", "DEV_DELETED">>
JWT_EXPIRED == <<"NOTI", "JWT_EXPIRED">>
CONFIRM     == <<"EASYSETUP", "CONFIRM">>
PROVISION   == <<"EASYSETUP", "PROVISION">>
REG_EVENTS  == <<"MQTT", "reg">>
EVT_EVENTS  == <<"MQTT", "evt">>

WorkItems == {UPDATE(s) : s \in States} \cup
             {REGISTERING, REGISTERED, CONNECTING, DEV_DELETED, JWT_EXPIRED,
              CONFIRM, PROVISION, REG_EVENTS, EVT_EVENTS}

NoClient == [link |-> "none", events |-> <<>>]
Connected == [link |-> "up", events |-> <<>>]
RegEvents == {"response", "expired", "disconnected"}
EvtEvents == {"deleted", "expired", "disconnected"}

Queued(w) == \E i \in 1 .. Len(queue) : queue[i] = w

\* What memory holds after a reset: a new context in INITIALIZED.
Fresh == /\ curr' = "INITIALIZED"
         /\ queue' = <<>>
         /\ work' = "idle"
         /\ stateTimer' = "none" /\ stateFiring' = FALSE
         /\ retryTimer' = "none" /\ retryFiring' = FALSE
         /\ station' = FALSE /\ softap' = FALSE /\ session' = "none"
         /\ reg' = NoClient /\ evt' = NoClient
         /\ updated' = FALSE /\ selfReged' = FALSE /\ regRequested' = FALSE
         /\ rejects' = 0
         /\ prov' = FALSE
         /\ excused' = {}

\* The process starts on a new device, a provisioned or a registered one.
Init == /\ curr = "INITIALIZED"
        /\ queue = <<>>
        /\ work = "idle"
        /\ stateTimer = "none" /\ stateFiring = FALSE
        /\ retryTimer = "none" /\ retryFiring = FALSE
        /\ station = FALSE /\ softap = FALSE /\ session = "none"
        /\ reg = NoClient /\ evt = NoClient
        /\ updated = FALSE /\ selfReged = FALSE /\ regRequested = FALSE
        /\ rejects = 0
        /\ prov = FALSE
        /\ nvProv \in BOOLEAN /\ nvId \in {FALSE, nvProv}
        /\ budget = [faults |-> MaxFaults, calls |-> MaxCalls,
                     cleanups |-> MaxCleanups]
        /\ excused = {}

-----------------------------------------------------------------------------
(* Shared parts of the handlers.                                           *)

Spend(what) == /\ budget[what] > 0
               /\ budget' = [budget EXCEPT ![what] = @ - 1]

Fault == Spend("faults")

\* The work thread takes w from the queue.
Handle(w) == /\ work = "idle"
             /\ queue # <<>>
             /\ Head(queue) = w

\* iot_command_send, after the work in hand was taken from the queue.
Rest == Tail(queue)
Send(w) == queue' = Append(queue, w)
HandleAndSend(ws) == queue' = Rest \o ws

\* iot_es_disconnect walks the queue and takes the client's pending works out.
Without(q, w) ==
    LET kept[i \in 0 .. Len(q)] ==
            IF i = 0 THEN <<>>
            ELSE IF q[i] = w THEN kept[i - 1] ELSE Append(kept[i - 1], q[i])
    IN  kept[Len(q)]

\* iot_wifi_ctrl_request of STATION and OFF tear the SoftAP down first.
SoftApDown == softap' = FALSE /\ session' = "none"

\* iot_cleanup with the reboot its callers ask for.
WipeAndReboot == /\ Fresh
                 /\ nvProv' = FALSE /\ nvId' = FALSE

-----------------------------------------------------------------------------
(* _do_state_updating                                                      *)

Allowed(s) ==
    s \in CASE curr = "INITIALIZED" ->
                 {"PROV_ENTER", "PROV_DONE", "CLOUD_DISCONNECTED"}
            [] curr = "PROV_ENTER" -> {"PROV_CONFIRM", "PROV_SLEEP"}
            [] curr = "PROV_CONFIRM" -> {"PROV_DONE"}
            [] curr = "PROV_DONE" ->
                 {"CLOUD_DISCONNECTED", "PROV_ENTER", "PROV_CONFIRM"}
            [] curr = "CLOUD_DISCONNECTED" ->
                 {"CLOUD_CONNECTED", "PROV_CONFIRM"}
            [] curr = "CLOUD_CONNECTED" -> {"CLOUD_DISCONNECTED"}
            [] OTHER -> {}

StateIgnored(s) == /\ Handle(UPDATE(s))
                   /\ ~ Allowed(s)
                   /\ HandleAndSend(<<>>)
                   /\ UNCHANGED <<curr, work, timers, wifi, cloud, nv, budget,
                                  excused>>

\* Mistake: a state update never starts the state timer.
EnteredWithoutTimer(s) ==
    /\ curr' = s
    /\ stateTimer' = "none"
    /\ UNCHANGED <<work, stateFiring, retryTimer, retryFiring, cloud, nv>>

\* The end of every accepted update: the timer is made anew, or deleted, and
\* the state changes.
Entered(s) == /\ curr' = s
              /\ stateTimer' = IF s \in {"PROV_ENTER", "PROV_DONE"}
                               THEN "armed" ELSE "none"
              /\ UNCHANGED <<work, stateFiring, retryTimer, retryFiring, cloud,
                             nv>>

StateChange(s) ==
    /\ Handle(UPDATE(s))
    /\ Allowed(s)
    /\ s \notin {"PROV_ENTER", "PROV_SLEEP"}
    /\ Entered(s)
    /\ HandleAndSend(CASE s = "PROV_DONE" -> <<REGISTERING>>
                       [] s = "CLOUD_DISCONNECTED" -> <<CONNECTING>>
                       [] OTHER -> <<>>)
    /\ UNCHANGED <<wifi, budget, excused>>

\* Scan, then SoftAP and the HTTP server.
EnterProvisioning ==
    /\ Handle(UPDATE("PROV_ENTER"))
    /\ Allowed("PROV_ENTER")
    /\ Entered("PROV_ENTER")
    /\ HandleAndSend(<<>>)
    /\ station' = FALSE /\ softap' = TRUE /\ session' = "none"
    /\ UNCHANGED <<budget, excused>>

\* The Wi-Fi driver refuses the scan or the SoftAP: an early return, with the
\* state and its (expired) timer as they were.
EnterProvisioningFails ==
    /\ Handle(UPDATE("PROV_ENTER"))
    /\ Allowed("PROV_ENTER")
    /\ Fault
    /\ HandleAndSend(<<>>)
    /\ station' \in {station, FALSE}
    /\ excused' = excused \cup {"no SoftAP"}
    /\ UNCHANGED <<curr, work, timers, softap, session, cloud, nv>>

\* A failure to switch Wi-Fi off is only logged.
EnterSleep ==
    /\ Handle(UPDATE("PROV_SLEEP"))
    /\ Allowed("PROV_SLEEP")
    /\ Entered("PROV_SLEEP")
    /\ HandleAndSend(<<>>)
    /\ SoftApDown
    /\ station' = FALSE
    /\ UNCHANGED <<budget, excused>>

-----------------------------------------------------------------------------
(* The state timer and the retry timer.  A callback runs in a thread of its *)
(* own: deleting the timer does not stop one that has started.              *)

StateTimerExpires == /\ stateTimer = "armed"
                     /\ stateTimer' = "spent" /\ stateFiring' = TRUE
                     /\ UNCHANGED <<curr, queue, work, retryTimer, retryFiring,
                                    wifi, cloud, nv, budget, excused>>

_iot_state_timeout_cb ==
    /\ stateFiring
    /\ stateFiring' = FALSE
    /\ queue' = queue \o CASE curr = "PROV_ENTER" -> <<UPDATE("PROV_SLEEP")>>
                           [] curr = "PROV_DONE" -> <<UPDATE("PROV_ENTER")>>
                           [] OTHER -> <<>>
    /\ UNCHANGED <<curr, work, stateTimer, retryTimer, retryFiring, wifi,
                   cloud, nv, budget, excused>>

RetryTimerExpires == /\ retryTimer = "armed"
                     /\ retryTimer' = "spent" /\ retryFiring' = TRUE
                     /\ UNCHANGED <<curr, queue, work, stateTimer, stateFiring,
                                    wifi, cloud, nv, budget, excused>>

_next_connection_retry_timeout ==
    /\ retryFiring
    /\ retryFiring' = FALSE
    /\ Send(CONNECTING)
    /\ UNCHANGED <<curr, work, stateTimer, stateFiring, retryTimer, wifi,
                   cloud, nv, budget, excused>>

-----------------------------------------------------------------------------
(* IOT_COMMAND_CLOUD_REGISTERING.  No look at the state.                   *)

RegisterNoWifi ==
    /\ Handle(REGISTERING)
    /\ ~ station
    /\ Fault
    /\ SoftApDown
    /\ HandleAndSend(IF selfReged THEN <<REGISTERING>> ELSE <<>>)
    /\ UNCHANGED <<curr, work, timers, station, cloud, nv, excused>>

RegisterBegin ==
    /\ Handle(REGISTERING)
    /\ station' = TRUE
    /\ IF station THEN UNCHANGED <<softap, session>> ELSE SoftApDown
    /\ queue' = Without(Rest, REG_EVENTS)
    /\ reg' = NoClient
    /\ regRequested' = FALSE
    /\ work' = "registering"
    /\ UNCHANGED <<curr, timers, evt, updated, selfReged, rejects, nv, budget,
                   excused>>

RegisterOk ==
    /\ work = "registering" /\ prov
    /\ work' = "idle"
    /\ reg' = Connected
    /\ regRequested' = TRUE
    /\ updated' = FALSE
    /\ rejects' = 0
    /\ UNCHANGED <<curr, queue, timers, wifi, evt, selfReged, nv, budget,
                   excused>>

\* Any failure is answered by two commands: one unless a disconnect was
\* requested, and one always.
RegisterFails ==
    /\ work = "registering" /\ prov
    /\ Fault
    /\ work' = "idle"
    /\ queue' = queue \o <<REGISTERING, REGISTERING>>
    /\ updated' \in {updated, FALSE}
    /\ rejects' = 0
    /\ UNCHANGED <<curr, timers, wifi, reg, evt, selfReged, regRequested, nv,
                   excused>>

RegisterRejected ==
    /\ work = "registering" /\ prov
    /\ Fault
    /\ IF rejects < CriticalRejectMax
       THEN /\ rejects' = rejects + 1
            /\ work' = "idle"
            /\ queue' = queue \o <<REGISTERING, REGISTERING>>
            /\ UNCHANGED <<curr, timers, wifi, reg, evt, updated, selfReged,
                           regRequested, nv, excused>>
       ELSE WipeAndReboot

\* Without provisioning data (a cleanup went by) no connection is tried and the
\* command comes back twice, for ever: the queue grows up to the bound.
RegisterInvalid ==
    /\ work = "registering" /\ ~ prov
    /\ Len(queue) + 2 =< MaxQueue
    /\ work' = "idle"
    /\ queue' = queue \o <<REGISTERING, REGISTERING>>
    /\ UNCHANGED <<curr, timers, wifi, cloud, nv, budget, excused>>

-----------------------------------------------------------------------------
(* IOT_COMMAND_CLOUD_REGISTERED                                            *)

\* Mistake: the device id is not stored.
RegisteredNotStored ==
    /\ Handle(REGISTERED)
    /\ queue' = Append(Without(Rest, REG_EVENTS), UPDATE("CLOUD_DISCONNECTED"))
    /\ reg' = NoClient
    /\ selfReged' = FALSE
    /\ UNCHANGED <<curr, work, timers, wifi, evt, updated, regRequested,
                   rejects, nv, budget, excused>>

Registered ==
    /\ Handle(REGISTERED)
    /\ queue' = Append(Without(Rest, REG_EVENTS), UPDATE("CLOUD_DISCONNECTED"))
    /\ reg' = NoClient
    /\ nvId' = TRUE
    /\ selfReged' = FALSE
    /\ UNCHANGED <<curr, work, timers, wifi, evt, updated, regRequested,
                   rejects, prov, nvProv, budget, excused>>

-----------------------------------------------------------------------------
(* IOT_COMMAND_CLOUD_CONNECTING                                            *)

ConnectSkipped ==
    /\ Handle(CONNECTING)
    /\ curr # "CLOUD_DISCONNECTED"
    /\ HandleAndSend(<<>>)
    /\ UNCHANGED <<curr, work, timers, wifi, cloud, nv, budget, excused>>

ConnectNoWifi ==
    /\ Handle(CONNECTING)
    /\ curr = "CLOUD_DISCONNECTED"
    /\ ~ station
    /\ Fault
    /\ SoftApDown
    /\ HandleAndSend(<<CONNECTING>>)
    /\ UNCHANGED <<curr, work, timers, station, cloud, nv, excused>>

ConnectBegin ==
    /\ Handle(CONNECTING)
    /\ curr = "CLOUD_DISCONNECTED"
    /\ station' = TRUE
    /\ IF station THEN UNCHANGED <<softap, session>> ELSE SoftApDown
    /\ queue' = Without(Rest, EVT_EVENTS)
    /\ evt' = NoClient
    /\ work' = "connecting"
    /\ UNCHANGED <<curr, timers, reg, updated, selfReged, regRequested,
                   rejects, nv, budget, excused>>

(* iot_es_connect of the communication type.  Its yield loop runs the new  *)
(* client's callback: ws is what that callback sent before the return.     *)

\* iot_es_connect returned IOT_ERROR_NONE.
ConnectSucceeded(ws) ==
    /\ work' = "idle"
    /\ IF work = "connecting"
       THEN /\ retryTimer' = "none"
            /\ queue' = queue \o ws \o <<UPDATE("CLOUD_CONNECTED")>>
       ELSE /\ UNCHANGED retryTimer
            /\ queue' = queue \o ws
    /\ UNCHANGED <<curr, stateTimer, stateFiring, retryFiring, wifi, reg,
                   updated, selfReged, regRequested, nv>>

\* Mistake: the retry timer is made and not started.
ConnectFailedTimerStopped(ws) ==
    /\ work' = "idle"
    /\ retryTimer' = IF work = "connecting" THEN "spent" ELSE retryTimer
    /\ queue' = queue \o ws
    /\ excused' = IF work = "renewing" THEN excused \cup {"renewal failed"}
                                       ELSE excused
    /\ UNCHANGED <<curr, stateTimer, stateFiring, retryFiring, wifi, reg, evt,
                   updated, selfReged, regRequested, nv>>

\* iot_es_connect failed: the command arms the retry timer, the renewal after
\* JWT_EXPIRED only logs.
ConnectFailed(ws) ==
    /\ work' = "idle"
    /\ retryTimer' = IF work = "connecting" THEN "armed" ELSE retryTimer
    /\ queue' = queue \o ws
    /\ excused' = IF work = "renewing" THEN excused \cup {"renewal failed"}
                                       ELSE excused
    /\ UNCHANGED <<curr, stateTimer, stateFiring, retryFiring, wifi, reg, evt,
                   updated, selfReged, regRequested, nv>>

InConnect == work \in {"connecting", "renewing"}

\* No device id: iot_es_connect leaves through "out" with IOT_ERROR_NONE.
ConnectHollow ==
    /\ InConnect /\ ~ updated
    /\ ConnectSucceeded(<<>>)
    /\ excused' = excused \cup {"no device id"}
    /\ UNCHANGED <<evt, rejects, budget>>

ConnectOk ==
    /\ InConnect /\ updated /\ prov
    /\ ConnectSucceeded(<<>>)
    /\ evt' = Connected
    /\ rejects' = 0
    /\ UNCHANGED <<budget, excused>>

ConnectOkAndLost ==
    /\ InConnect /\ updated /\ prov
    /\ Fault
    /\ ConnectSucceeded(<<UPDATE("CLOUD_DISCONNECTED")>>)
    /\ evt' = [link |-> "down", events |-> <<>>]
    /\ rejects' = 0
    /\ excused' = IF work = "connecting" THEN excused \cup {"lost in sign-in"}
                                         ELSE excused

ConnectFails ==
    /\ InConnect /\ updated /\ prov
    /\ Fault
    /\ \E ws \in {<<>>, <<UPDATE("CLOUD_DISCONNECTED")>>} : ConnectFailed(ws)
    /\ rejects' = 0

ConnectRejected ==
    /\ InConnect /\ updated /\ prov
    /\ Fault
    /\ IF rejects < CriticalRejectMax
       THEN /\ rejects' = rejects + 1
            /\ ConnectFailed(<<>>)
       ELSE WipeAndReboot

\* IOT_ERROR_INVALID_ARGS: no broker to connect to.  The command treats it as a
\* deleted device.
ConnectInvalid ==
    /\ InConnect /\ updated /\ ~ prov
    /\ work' = "idle"
    /\ queue' = queue \o (IF work = "connecting" THEN <<DEV_DELETED>> ELSE <<>>)
    /\ excused' = IF work = "renewing" THEN excused \cup {"renewal failed"}
                                       ELSE excused
    /\ UNCHANGED <<curr, timers, wifi, cloud, nv, budget>>

-----------------------------------------------------------------------------
(* IOT_COMMAND_NOTIFICATION_RECEIVED (UserDelete has the other answer to   *)
(* DEV_DELETED; the remaining notifications only call the application).    *)

Deleted == /\ Handle(DEV_DELETED)
           /\ WipeAndReboot
           /\ UNCHANGED budget

RenewBegin ==
    /\ Handle(JWT_EXPIRED)
    /\ queue' = Without(Rest, EVT_EVENTS)
    /\ evt' = NoClient
    /\ work' = "renewing"
    /\ UNCHANGED <<curr, timers, wifi, reg, updated, selfReged, regRequested,
                   rejects, nv, budget, excused>>

-----------------------------------------------------------------------------
(* The MQTT clients.  The socket thread queues an event for the callback   *)
(* and a pending work; the pending work drains the events.                 *)

\* The cloud owes each registration one response; a second one (QoS 1 may repeat
\* it), an expired token and a lost link are faults.
Unanswered == /\ ~ updated
              /\ \A i \in 1 .. Len(reg.events) : reg.events[i] # "response"

RegEvent(e) ==
    /\ reg.link = "up"
    /\ IF e = "response" /\ Unanswered THEN UNCHANGED budget ELSE Fault
    /\ reg' = [link |-> IF e = "disconnected" THEN "down" ELSE "up",
               events |-> Append(reg.events, e)]
    /\ Send(REG_EVENTS)
    /\ UNCHANGED <<curr, work, timers, wifi, evt, updated, selfReged,
                   regRequested, rejects, nv, excused>>

EvtEvent(e) ==
    /\ evt.link = "up"
    /\ Fault
    /\ evt' = [link |-> IF e = "disconnected" THEN "down" ELSE "up",
               events |-> Append(evt.events, e)]
    /\ Send(EVT_EVENTS)
    /\ UNCHANGED <<curr, work, timers, wifi, reg, updated, selfReged,
                   regRequested, rejects, nv, excused>>

DrainBegin(w, step) ==
    /\ Handle(w)
    /\ HandleAndSend(<<>>)
    /\ work' = step
    /\ UNCHANGED <<curr, timers, wifi, cloud, nv, budget, excused>>

\* _iot_mqtt_registration_client_callback and mqtt_reg_sub_cb
RegCallback ==
    /\ work = "reg events" /\ reg.events # <<>>
    /\ reg' = [reg EXCEPT !.events = Tail(@)]
    /\ LET e == Head(reg.events)
       IN  \/ /\ e = "response" /\ ~ updated
              /\ updated' = TRUE
              /\ Send(REGISTERED)
           \/ /\ e = "response" /\ updated
              /\ UNCHANGED <<updated, queue>>
           \/ /\ e = "expired"
              /\ Send(REGISTERING)
              /\ UNCHANGED updated
           \/ /\ e = "disconnected"
              /\ IF curr = "PROV_DONE" /\ ~ updated /\ regRequested
                 THEN Send(REGISTERING) ELSE UNCHANGED queue
              /\ UNCHANGED updated
    /\ UNCHANGED <<curr, work, timers, wifi, evt, selfReged, regRequested,
                   rejects, nv, budget, excused>>

\* Mistake: the loss of the connection is not passed on.
EvtCallbackDeaf ==
    /\ work = "evt events" /\ evt.events # <<>>
    /\ evt' = [evt EXCEPT !.events = Tail(@)]
    /\ LET e == Head(evt.events)
       IN  queue' = queue \o CASE e = "deleted" -> <<DEV_DELETED>>
                               [] e = "expired" -> <<JWT_EXPIRED>>
                               [] e = "disconnected" -> <<>>
    /\ UNCHANGED <<curr, work, timers, wifi, reg, updated, selfReged,
                   regRequested, rejects, nv, budget, excused>>

\* _iot_mqtt_signin_client_callback and iot_noti_sub_cb
EvtCallback ==
    /\ work = "evt events" /\ evt.events # <<>>
    /\ evt' = [evt EXCEPT !.events = Tail(@)]
    /\ LET e == Head(evt.events)
       IN  Send(CASE e = "deleted" -> DEV_DELETED
                  [] e = "expired" -> JWT_EXPIRED
                  [] e = "disconnected" -> UPDATE("CLOUD_DISCONNECTED"))
    /\ UNCHANGED <<curr, work, timers, wifi, reg, updated, selfReged,
                   regRequested, rejects, nv, budget, excused>>

DrainEnd ==
    /\ \/ work = "reg events" /\ reg.events = <<>>
       \/ work = "evt events" /\ evt.events = <<>>
    /\ work' = "idle"
    /\ UNCHANGED <<curr, queue, timers, wifi, cloud, nv, budget, excused>>

-----------------------------------------------------------------------------
(* The phone: confirm, provision, complete (the HTTP server's thread puts  *)
(* the first two into the queue and sends the last state itself).          *)

PhoneConfirms ==
    /\ softap /\ session = "none"
    /\ Spend("calls")
    /\ Send(CONFIRM)
    /\ session' = "confirming"
    /\ UNCHANGED <<curr, work, timers, station, softap, cloud, nv, excused>>

\* The phone asks once more after a denial.
PhoneConfirmsAgain ==
    /\ session = "denied"
    /\ Send(CONFIRM)
    /\ session' = "asking again"
    /\ UNCHANGED <<curr, work, timers, station, softap, cloud, nv, budget,
                   excused>>

PhoneProvisions ==
    /\ session = "confirmed"
    /\ Send(PROVISION)
    /\ session' = "provisioning"
    /\ UNCHANGED <<curr, work, timers, station, softap, cloud, nv, budget,
                   excused>>

PhoneCompletes ==
    /\ session = "provisioned"
    /\ Send(UPDATE("PROV_DONE"))
    /\ session' = "none"
    /\ UNCHANGED <<curr, work, timers, station, softap, cloud, nv, budget,
                   excused>>

\* _es_confirm_check_manager: ask for the state, then wait for the button.
ConfirmBegin ==
    /\ Handle(CONFIRM)
    /\ HandleAndSend(<<UPDATE("PROV_CONFIRM")>>)
    /\ work' = "confirming"
    /\ UNCHANGED <<curr, timers, wifi, cloud, nv, budget, excused>>

Answered(accepted) ==
    session' = CASE session = "confirming" ->
                      IF accepted THEN "confirmed" ELSE "denied"
                 [] session = "asking again" ->
                      IF accepted THEN "confirmed" ELSE "none"
                 [] OTHER -> session

ConfirmAccepted ==
    /\ work = "confirming"
    /\ work' = "idle"
    /\ Answered(TRUE)
    /\ UNCHANGED <<curr, queue, timers, station, softap, cloud, nv, budget,
                   excused>>

\* Denied, or no button: iot_state_timeout_change, which gives up unless the
\* state is PROV_CONFIRM already and otherwise sets state_timer anew.
ConfirmDenied ==
    /\ work = "confirming"
    /\ curr = "PROV_CONFIRM" => stateTimer # "none"
    /\ stateTimer' = IF curr = "PROV_CONFIRM" THEN "armed" ELSE stateTimer
    /\ work' = "idle"
    /\ Answered(FALSE)
    /\ UNCHANGED <<curr, queue, stateFiring, retryTimer, retryFiring, station,
                   softap, cloud, nv, budget, excused>>

\* ... a null pointer: the process dies.
ConfirmDeniedCrash ==
    /\ work = "confirming"
    /\ curr = "PROV_CONFIRM" /\ stateTimer = "none"
    /\ Fresh
    /\ UNCHANGED <<nvProv, nvId, budget>>

Provisioned ==
    /\ Handle(PROVISION)
    /\ HandleAndSend(<<>>)
    /\ prov' = TRUE /\ nvProv' = TRUE
    /\ session' = IF session = "provisioning" THEN "provisioned" ELSE session
    /\ UNCHANGED <<curr, work, timers, station, softap, cloud, nvId, budget,
                   excused>>

-----------------------------------------------------------------------------
(* The application.                                                        *)

\* _check_prov_status: what non-volatile memory makes of a start.  A device
\* integration profile that differs from the stored one asks for a registration
\* without the user.
CheckProvStatus(differs) ==
    /\ prov' = nvProv
    /\ nvId' = (nvProv /\ nvId)
    /\ updated' = (updated \/ (nvProv /\ nvId /\ ~ differs))
    /\ selfReged' = (selfReged \/ (nvProv /\ nvId /\ differs))
    /\ UNCHANGED nvProv

st_conn_start ==
    /\ curr = "INITIALIZED"
    /\ Spend("calls")
    /\ \E differs \in BOOLEAN :
          /\ CheckProvStatus(differs)
          /\ Send(UPDATE(IF ~ (nvProv /\ nvId) THEN "PROV_ENTER"
                         ELSE IF differs THEN "PROV_DONE"
                         ELSE "CLOUD_DISCONNECTED"))
    /\ UNCHANGED <<curr, work, timers, wifi, reg, evt, regRequested, rejects,
                   excused>>

\* iot_cleanup without reboot: SoftAP and clients go, non-volatile memory is
\* erased; commands, timers and handlers under way stay.
CleanedUp == /\ curr' = "INITIALIZED"
             /\ SoftApDown
             /\ reg' = NoClient /\ evt' = NoClient
             /\ prov' = FALSE /\ nvProv' = FALSE /\ nvId' = FALSE
             /\ UNCHANGED <<work, timers, station, updated, selfReged,
                            regRequested, rejects>>

AfterCleanup == Without(Without(queue, REG_EVENTS), EVT_EVENTS)

st_conn_cleanup ==
    /\ Spend("cleanups")
    /\ CleanedUp
    /\ queue' = AfterCleanup
    /\ excused' = excused \cup {"cleanup"}

\* st_conn_start_ex from INITIALIZED, to connecting and to provisioning.
StartExConnecting ==
    /\ curr = "INITIALIZED"
    /\ Spend("calls")
    /\ \E differs \in BOOLEAN : CheckProvStatus(differs)
    /\ IF nvProv /\ nvId THEN Send(UPDATE("CLOUD_DISCONNECTED"))
                         ELSE UNCHANGED queue
    /\ UNCHANGED <<curr, work, timers, wifi, reg, evt, regRequested, rejects,
                   excused>>

StartExProvisioning ==
    /\ curr = "INITIALIZED"
    /\ Spend("calls")
    /\ Send(UPDATE("PROV_ENTER"))
    /\ UNCHANGED <<curr, work, timers, wifi, cloud, nv, excused>>

\* ... and from any other state: "stop & remove all cmd first".  With a start at
\* connecting the erased memory then refuses the call: that is st_conn_cleanup.
StartExRestart ==
    /\ curr # "INITIALIZED"
    /\ Spend("cleanups")
    /\ CleanedUp
    /\ queue' = Append(AfterCleanup, UPDATE("PROV_ENTER"))
    /\ excused' = excused \cup {"cleanup"}

\* Power is lost, or the application cleans up with a reboot after the handshake
\* of UserDelete.
PowerLoss == /\ Fault
             /\ Fresh
             /\ UNCHANGED <<nvProv, nvId>>

CleanupAndReboot == /\ curr # "INITIALIZED"
                    /\ Spend("calls")
                    /\ WipeAndReboot

-----------------------------------------------------------------------------
Updating == \E s \in States : StateIgnored(s) \/ StateChange(s)

Handlers == \/ Updating
            \/ EnterProvisioning \/ EnterProvisioningFails \/ EnterSleep
            \/ RegisterNoWifi \/ RegisterBegin \/ RegisterOk \/ RegisterFails
            \/ RegisterRejected \/ RegisterInvalid
            \/ Registered
            \/ ConnectSkipped \/ ConnectNoWifi \/ ConnectBegin
            \/ ConnectHollow \/ ConnectOk \/ ConnectOkAndLost \/ ConnectFails
            \/ ConnectRejected \/ ConnectInvalid
            \/ Deleted \/ RenewBegin
            \/ DrainBegin(REG_EVENTS, "reg events")
            \/ DrainBegin(EVT_EVENTS, "evt events")
            \/ RegCallback \/ EvtCallback \/ DrainEnd
            \/ ConfirmBegin \/ ConfirmAccepted \/ ConfirmDenied
            \/ ConfirmDeniedCrash \/ Provisioned

TimerSteps == \/ StateTimerExpires \/ _iot_state_timeout_cb
              \/ RetryTimerExpires \/ _next_connection_retry_timeout

Next == \/ Handlers
        \/ TimerSteps
        \/ \E e \in RegEvents : RegEvent(e)
        \/ \E e \in EvtEvents : EvtEvent(e)
        \/ PhoneConfirms \/ PhoneConfirmsAgain
        \/ PhoneProvisions \/ PhoneCompletes
        \/ st_conn_start \/ st_conn_cleanup
        \/ StartExConnecting \/ StartExProvisioning \/ StartExRestart
        \/ PowerLoss \/ CleanupAndReboot

\* The work thread runs and every call it makes returns; an armed timer expires
\* and its callback runs.  Network, phone and application owe nothing.
Fairness == WF_vars(Handlers) /\ WF_vars(StateTimerExpires)
            /\ WF_vars(_iot_state_timeout_cb) /\ WF_vars(RetryTimerExpires)
            /\ WF_vars(_next_connection_retry_timeout)

Spec == Init /\ [][Next]_vars /\ Fairness

-----------------------------------------------------------------------------
(* Properties.                                                             *)

Client(Events) == [link : {"none", "up", "down"}, events : Seq(Events)]

TypeOK == /\ curr \in States
          /\ queue \in Seq(WorkItems)
          /\ work \in {"idle", "registering", "connecting", "renewing",
                       "confirming", "reg events", "evt events"}
          /\ {stateTimer, retryTimer} \subseteq {"none", "armed", "spent"}
          /\ {stateFiring, retryFiring, station, softap, updated, selfReged,
              regRequested, prov, nvProv, nvId} \subseteq BOOLEAN
          /\ session \in {"none", "confirming", "denied", "asking again",
                          "confirmed", "provisioning", "provisioned"}
          /\ reg \in Client(RegEvents)
          /\ evt \in Client(EvtEvents)
          /\ rejects \in 0 .. CriticalRejectMax

\* Onboarding never hangs: PROV_ENTER and PROV_DONE are left by a timer or a
\* queued update, unless the SoftAP could not be started.
ProvisioningTimesOut ==
    curr \in {"PROV_ENTER", "PROV_DONE"} =>
        \/ stateTimer = "armed" \/ stateFiring
        \/ \E s \in States : Allowed(s) /\ Queued(UPDATE(s))
        \/ "no SoftAP" \in excused

\* A connected device notices that its link is gone: the client's event or the
\* update it causes is on its way, unless one of three things happened.
LossIsNoticed ==
    curr = "CLOUD_CONNECTED" /\ evt.link # "up" =>
        \/ Queued(UPDATE("CLOUD_DISCONNECTED")) \/ Queued(EVT_EVENTS)
        \/ work \in {"evt events", "renewing"}
        \/ excused \cap {"renewal failed", "lost in sign-in", "no device id",
                         "cleanup"} # {}

\* A device in the cloud states survives a power loss: what it needs to come
\* back connected is in non-volatile memory, unless the application erased it
\* while a command that leads there was still queued.
CloudStateIsStored ==
    /\ TypeOK
    /\ curr \in {"CLOUD_DISCONNECTED", "CLOUD_CONNECTED"} =>
          (nvProv /\ nvId) \/ "cleanup" \in excused

\* Under finitely many failures CLOUD_DISCONNECTED is always left, unless the
\* application erased what a connection needs.
ConnectionComesBack ==
    (curr = "CLOUD_DISCONNECTED")
        ~> (curr # "CLOUD_DISCONNECTED" \/ "cleanup" \in excused)

=============================================================================

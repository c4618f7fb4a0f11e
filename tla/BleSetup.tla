------------------------------- MODULE BleSetup -------------------------------
(***************************************************************************)
(* Easy setup over BLE above the transfer layer: the order of the steps    *)
(* and the response handshake of the BLE task (iot_easysetup_ble.c), the   *)
(* handlers on the work thread (iot_easysetup_d2d_ble.c), and the end of   *)
(* the onboarding, which the commands of iot_main.c report to the phone    *)
(* through iot_easysetup_deinit.                                           *)
(*                                                                         *)
(* The BLE task waits without a timeout for the work thread.  The work     *)
(* thread runs handlers and cloud commands one at a time.  The BLE host    *)
(* calls _iot_easysetup_ble_event_cb at any moment, and an application     *)
(* thread confirms, denies or cleans up, which deletes the BLE task        *)
(* wherever it is.                                                         *)
(***************************************************************************)
EXTENDS Naturals, Sequences, FiniteSets, EventGroup

CONSTANTS None,
          PhoneSteps,  \* the steps that phones ask for
          MaxTokens,   \* bound: unread tokens of the button
          MaxRequests, \* bound: requests in all
          MaxRestarts  \* bound: disconnections and cleanups

\* enum iot_easysetup_ble_step
DEVICEINFO == 0
KEYINFO == 1
CONFIRMINFO == 2
CONFIRM == 3
WIFISCANINFO == 4
WIFIPROVISIONINGINFO == 5
TNCAGREEMENTS == 6
SETUPCOMPLETE == 7
LOG_SYSTEMINFO == 8
LOG_GET_DUMP == 9
RECOVERY == 11
Steps == {DEVICEINFO, KEYINFO, CONFIRMINFO, CONFIRM, WIFISCANINFO,
          WIFIPROVISIONINGINFO, TNCAGREEMENTS, SETUPCOMPLETE, LOG_SYSTEMINFO,
          LOG_GET_DUMP, RECOVERY}

ASSUME BleSetupAssumption ==
    /\ MaxTokens \in Nat \ {0} /\ MaxRestarts \in Nat /\ MaxRequests \in Nat
    /\ PhoneSteps \subseteq Steps

RESP == "resp"
CONFIRMED == "confirmed"
DENIED == "denied"
Bits == {RESP, CONFIRMED, DENIED}

VARIABLES task,       \* where the BLE task is; "none": there is none
          asked,      \* the request it serves: [step, body]
          ref_step,
          ready,      \* ctx->es_ble_ready
          conn,       \* a phone is connected
          cipher,     \* what cipher_params holds; None: NULL
          worker,     \* "idle", or in a confirmation: "confirming", "button"
          request,    \* the work on the queue, or None
          resp,       \* easysetup_resp_queue: [step, err]
          group,      \* iot_events
          feature,    \* curr_otm_feature: "button" or another one
          allowed,    \* ownership_validation_type: button not used since KEYINFO
          confirm_check,
          wifi,       \* ctx->prov_data.wifi is set
          mem,        \* ctx->prov_data.cloud: "null", "live" or "freed"
          nv,         \* the parts in flash, of "wifi" and "cloud"
          cloud,      \* the cloud command that is queued, or "idle"
          d2d,        \* ctx->d2d_event_request
          net,        \* ctx->es_network_status: "ok" or "bad"
          timer,      \* cloud_con_timer: "null", "running" or "expired"
          pause,      \* ctx->cloud_connection_pause
          onboarded,  \* ctx->onboarding_complete
          restarts, requests,
          \* history
          killed,     \* the task was deleted in the middle of a request
          unstored,   \* storing the Wi-Fi data failed
          fresh,      \* CONFIRMED was set since the wait for the button began
          cause       \* why that wait may end in a denial

taskVars == <<task, asked>>
confirmVars == <<feature, allowed, confirm_check, fresh, cause>>
provVars == <<wifi, nv, mem, unstored>>
cloudVars == <<cloud, d2d, net, timer, pause, onboarded>>
lifeVars == <<ready, conn, restarts, requests, killed>>
vars == <<taskVars, ref_step, cipher, worker, request, resp, group, confirmVars,
          provVars, cloudVars, lifeVars>>

NoRequest == [step |-> DEVICEINFO, body |-> "none"]

Init == /\ task = "none" /\ asked = NoRequest /\ ref_step = 0
        /\ ready = FALSE /\ conn = FALSE /\ cipher = None
        /\ worker = "idle" /\ request = None /\ resp = <<>>
        /\ group = EmptyGroup(Bits)
        /\ feature = "other" /\ allowed = FALSE /\ confirm_check = FALSE
        /\ wifi = FALSE /\ nv = {} /\ mem = "null"
        /\ cloud = "idle" /\ d2d = FALSE /\ net = "ok" /\ timer = "null"
        /\ pause = FALSE /\ onboarded = FALSE /\ restarts = 0 /\ requests = 0
        /\ killed = FALSE
        /\ unstored = FALSE /\ fresh = FALSE /\ cause = {}

-----------------------------------------------------------------------------
\* The BLE task

\* iot_ble_ctrl_request and iot_easysetup_init; the task is created once.
iot_easysetup_init ==
    /\ worker = "idle" /\ ~ ready
    /\ ref_step' = 0
    /\ task' = "poll" /\ asked' = NoRequest
    /\ ready' = TRUE
    /\ UNCHANGED <<conn, restarts, requests, killed, cipher, worker, request, resp, group,
                   confirmVars, provVars, cloudVars>>

\* A body is empty (no payload, nothing to decrypt), or what its handler tells
\* apart: a confirmation by button or another one, provisioning data with or
\* without a broker.
Bodies(step) == CASE step = CONFIRMINFO -> {"none", "junk", "button", "other"}
                  [] step = WIFIPROVISIONINGINFO -> {"none", "whole", "nobroker"}
                  [] OTHER -> {"none", "text"}

CanCrypt == cipher = {"iv", "key"}

\* _iot_easysetup_ble_msg_decrypt
_iot_easysetup_ble_msg_decrypt(r) ==
    r.body = "none" \/ r.step \in {DEVICEINFO, KEYINFO, LOG_SYSTEMINFO, LOG_GET_DUMP}
                    \/ CanCrypt

\* _iot_easysetup_con_timer_init
_iot_easysetup_con_timer_init(r) == IF r.step = SETUPCOMPLETE THEN "running" ELSE timer

\* Steps that may be asked for at any time.
AnyTime == {CONFIRMINFO, WIFISCANINFO, SETUPCOMPLETE}

\* The order check of _iot_easysetup_gen_payload.
InOrder(step) == step \in AnyTime \cup {ref_step} \/ step >= LOG_SYSTEMINFO

\* iot_easysetup_ble_msg_handler, up to the order check.  A request that cannot
\* be decrypted or is out of order is answered with an error, if that can be
\* encrypted, and leaves ref_step alone.
iot_easysetup_ble_msg_handler ==
    /\ task = "poll" /\ conn /\ requests < MaxRequests
    /\ requests' = requests + 1
    /\ \E s \in PhoneSteps : \E b \in Bodies(s) :
          LET r == [step |-> s, body |-> b]
              taken == _iot_easysetup_ble_msg_decrypt(r) /\ InOrder(s) IN
          /\ timer' = _iot_easysetup_con_timer_init(r)
          /\ asked' = IF taken THEN r ELSE NoRequest
          /\ task' = IF taken THEN "advance" ELSE "poll"
          /\ ref_step' = IF taken /\ s < LOG_SYSTEMINFO THEN s ELSE ref_step
    /\ UNCHANGED <<cipher, worker, request, resp, group, confirmVars,
                   provVars, cloud, d2d, net, pause, onboarded, ready, conn, restarts,
                   killed>>

\* ... the increment and iot_easysetup_request, which may fail.
Advance ==
    /\ task = "advance"
    /\ ref_step' = IF asked.step < LOG_SYSTEMINFO THEN ref_step + 1 ELSE 0
    /\ \/ /\ request = None
          /\ request' = asked /\ task' = "wait"
          /\ asked' = [asked EXCEPT !.body = "none"]
       \/ task' = "poll" /\ asked' = NoRequest /\ UNCHANGED request
    /\ UNCHANGED <<cipher, worker, resp, group, confirmVars, provVars, cloudVars,
                   lifeVars>>

\* iot_os_eventgroup_wait_bits(RESP, clear_on_exit, no timeout) returns.
WakeTask ==
    /\ task = "wait"
    /\ Readable(group, {RESP}) # {}
    /\ group' = ReadBits(group, {RESP}, {RESP})
    /\ task' = "receive"
    /\ UNCHANGED <<asked, ref_step, cipher, worker, request, resp, confirmVars,
                   provVars, cloudVars, lifeVars>>

\* ... the response.  An error resets ref_step.  The answer is then encrypted and
\* sent (BleTransfer).
ReceiveResponse ==
    /\ task = "receive"
    /\ LET bad == resp = <<>> \/ Head(resp).step # asked.step \/ Head(resp).err
       IN  ref_step' = IF bad THEN 0 ELSE ref_step
    /\ resp' = IF resp = <<>> THEN <<>> ELSE Tail(resp)
    /\ task' = "poll" /\ asked' = NoRequest
    /\ UNCHANGED <<cipher, worker, request, group, confirmVars, provVars, cloudVars,
                   lifeVars>>

-----------------------------------------------------------------------------
\* Ending the onboarding

\* iot_device_cleanup frees the provisioning data and clears it, in RAM and flash.
iot_device_cleanup ==
    /\ wifi' = FALSE /\ nv' = {} /\ mem' = "null"
    /\ unstored' = FALSE

\* iot_easysetup_deinit with es_network_status = status.  While BLE is up it
\* reports the end of the onboarding: without a network error the device is
\* onboarded and the Wi-Fi data is stored (a failure to store is only logged);
\* then the response is sent, which may find that DHCP failed.  After a network
\* error the session goes on.  When BLE is down the task is deleted instead.
iot_easysetup_deinit(status) ==
    /\ \E dhcp, stored \in BOOLEAN :
          /\ net' = IF ready /\ ~ dhcp THEN "bad" ELSE status
          /\ nv' = IF ready /\ status = "ok" /\ stored
                   THEN nv \cup {"wifi"} ELSE nv
          /\ unstored' = (ready /\ status = "ok" /\ ~ stored)
    /\ d2d' = (d2d /\ ~ ready)
    /\ onboarded' = (ready /\ (onboarded \/ status = "ok"))
    /\ IF ready /\ net' = "bad"
       THEN UNCHANGED <<ref_step, group, cipher>>
       ELSE /\ ref_step' = 0
            /\ group' = ClearBits(group, {RESP})
            /\ cipher' = None
    /\ IF ready THEN UNCHANGED taskVars ELSE task' = "none" /\ asked' = NoRequest

\* IOT_COMMAND_CLOUD_REGISTERING, its ends with a report to the phone: the
\* timer expired; no Wi-Fi; the broker rejects.
RegisteringReports ==
    /\ worker = "idle" /\ cloud = "registering"
    /\ \/ timer = "expired" /\ iot_easysetup_deinit(net)
       \/ timer # "expired" /\ iot_easysetup_deinit("bad")
    /\ cloud' = "idle"
    /\ UNCHANGED <<worker, request, resp, confirmVars, wifi, mem, timer,
                   pause, lifeVars>>

\* ... and without one: no broker, try again; or connected, wait for the cloud.
IOT_COMMAND_CLOUD_REGISTERING ==
    /\ worker = "idle" /\ cloud = "registering" /\ timer # "expired"
    /\ wifi
    /\ d2d' = TRUE
    /\ \/ net' = "bad" /\ UNCHANGED cloud
       \/ mem = "live" /\ net' = "ok" /\ cloud' = "registered"
    /\ UNCHANGED <<taskVars, ref_step, cipher, worker, request, resp, group,
                   confirmVars, provVars, timer, pause, onboarded,
                   lifeVars>>

\* The cloud's answer: IOT_COMMAND_CLOUD_REGISTERED stores the device id.
IOT_COMMAND_CLOUD_REGISTERED ==
    /\ worker = "idle" /\ cloud = "registered"
    /\ net' \in {"ok", "bad"}
    /\ cloud' = "connecting"
    /\ UNCHANGED <<taskVars, ref_step, cipher, worker, request, resp, group,
                   confirmVars, provVars, d2d, timer, pause, onboarded, lifeVars>>

\* IOT_COMMAND_CLOUD_CONNECTING: the timer expired while the phone waits (and
\* the command is queued again), or connected while it waits.
ConnectingReports ==
    /\ worker = "idle" /\ cloud = "connecting" /\ d2d
    /\ \/ timer = "expired" /\ iot_easysetup_deinit(net) /\ UNCHANGED cloud
       \/ /\ timer # "expired" /\ ~ pause
          /\ iot_easysetup_deinit("ok") /\ cloud' = "connected"
    /\ UNCHANGED <<worker, request, resp, confirmVars, wifi, mem,
                   timer, pause, lifeVars>>

\* ... paused by a Wi-Fi scan, failed, or connected with nobody waiting.
IOT_COMMAND_CLOUD_CONNECTING ==
    /\ worker = "idle" /\ cloud = "connecting"
    /\ ~ (timer = "expired" /\ d2d)
    /\ \/ pause /\ UNCHANGED <<net, cloud>>
       \/ ~ pause /\ net' = "bad" /\ UNCHANGED cloud
       \/ ~ pause /\ ~ d2d /\ net' = "ok" /\ cloud' = "connected"
    /\ UNCHANGED <<taskVars, ref_step, cipher, worker, request, resp, group,
                   confirmVars, provVars, d2d, timer, pause, onboarded,
                   lifeVars>>

\* The 60 seconds of CLOUD_CON_TIMER_MS pass.
TimerExpires ==
    /\ timer = "running"
    /\ timer' = "expired"
    /\ UNCHANGED <<taskVars, ref_step, cipher, worker, request, resp, group,
                   confirmVars, provVars, cloud, d2d, net, pause, onboarded, lifeVars>>

-----------------------------------------------------------------------------
\* The handlers
\* The end of iot_easysetup_request_handler (the memory for the response is
\* there; without it the BLE task would wait for ever).
Respond(err) ==
    /\ resp' = Append(resp, [step |-> request.step, err |-> err])
    /\ group' = SetBits(group, {RESP})
    /\ request' = None

Handling(step) == worker = "idle" /\ request # None /\ request.step = step

\* Any handler may fail on memory or JSON; the steps without a handler do.
HandlerFails ==
    /\ worker = "idle" /\ request # None
    /\ Respond(TRUE)
    /\ UNCHANGED <<taskVars, ref_step, cipher, worker, confirmVars, provVars,
                   cloudVars, lifeVars>>

\* iot_easysetup_ble_ecdh_init makes a new security context, with its cipher;
\* _es_crypto_cipher_gen_iv gives it an iv.
_es_deviceinfo_handler ==
    /\ Handling(DEVICEINFO)
    /\ \/ cipher' = {} /\ Respond(TRUE)
       \/ cipher' = {"iv"} /\ \E err \in BOOLEAN : Respond(err)
    /\ UNCHANGED <<taskVars, ref_step, worker, confirmVars, provVars, cloudVars,
                   lifeVars>>

\* The optional date: all of its three parts, or an error.
KeyInfoTime == BOOLEAN

\* _es_keyinfo_handler: the shared secret becomes the cipher's key, also when
\* the date then fails; the ways to confirm are offered anew.
_es_keyinfo_handler ==
    /\ Handling(KEYINFO)
    /\ request.body # "none" /\ cipher # None
    /\ cipher' = cipher \cup {"key"}
    /\ \E err \in KeyInfoTime : /\ Respond(err)
                                /\ allowed' = (allowed \/ ~ err)
    /\ UNCHANGED <<taskVars, ref_step, worker, feature, confirm_check, fresh, cause,
                   provVars, cloudVars, lifeVars>>

\* _es_confirminfo_handler with a body that is no JSON: success, without payload.
ConfirmJunk ==
    /\ Handling(CONFIRMINFO) /\ request.body = "junk"
    /\ Respond(FALSE)
    /\ UNCHANGED <<taskVars, ref_step, cipher, worker, confirmVars, provVars,
                   cloudVars, lifeVars>>

\* _es_confirm_check_manager: clear the status bits (not the pipes), note the
\* feature, ask for the state PROV_CONFIRM ...
ConfirmBegin ==
    /\ Handling(CONFIRMINFO) /\ request.body \in {"button", "other"}
    /\ request.body = "button" => allowed
    /\ allowed' = (allowed /\ request.body # "button")
    /\ feature' = request.body
    /\ group' = ClearBits(group, {CONFIRMED, DENIED})
    /\ worker' = "confirming"
    /\ UNCHANGED <<taskVars, ref_step, cipher, request, resp, confirm_check, fresh,
                   cause, provVars, cloudVars, lifeVars>>

\* ... decide at once (just works, serial number, pin: accepted or not) ...
ConfirmAtOnce ==
    /\ worker = "confirming"
    /\ worker' = "idle"
    /\ \/ Respond(TRUE)
       \/ feature = "other" /\ Respond(FALSE)
    /\ UNCHANGED <<taskVars, ref_step, cipher, confirmVars, provVars, cloudVars,
                   lifeVars>>

\* Mistake: the answer of an earlier confirmation is kept.
ButtonKept ==
    /\ worker = "confirming" /\ feature = "button"
    /\ worker' = "button"
    /\ fresh' = FALSE
    /\ cause' = IF Readable(group, {CONFIRMED, DENIED}) # {} THEN {"early"} ELSE {}
    /\ UNCHANGED <<taskVars, ref_step, cipher, request, resp, group, feature, allowed,
                   confirm_check, provVars, cloudVars, lifeVars>>

\* ... or forget earlier answers and wait for the button.
ConfirmButton ==
    /\ worker = "confirming" /\ feature = "button"
    /\ worker' = "button"
    /\ confirm_check' = FALSE
    /\ fresh' = FALSE
    /\ cause' = IF Readable(group, {CONFIRMED, DENIED}) # {} THEN {"early"} ELSE {}
    /\ UNCHANGED <<taskVars, ref_step, cipher, request, resp, group, feature, allowed,
                   provVars, cloudVars, lifeVars>>

\* The wait ends: a token, or 100 seconds.  The answer is confirm_check, whatever
\* the bits say.
ButtonAnswered(late) ==
    /\ worker = "button"
    /\ LET r == Readable(group, {CONFIRMED, DENIED})
       IN  /\ late <=> r = {}
           /\ group' = SetBits(ReadBits(group, r, {}), {RESP})
    /\ resp' = Append(resp, [step |-> CONFIRMINFO, err |-> ~ confirm_check])
    /\ request' = None
    /\ confirm_check' = FALSE /\ cause' = {} /\ fresh' = FALSE
    /\ worker' = "idle"
    /\ UNCHANGED <<taskVars, ref_step, cipher, feature, allowed, provVars, cloudVars,
                   lifeVars>>

\* _es_confirm_handler: the right pin, after the feature was the pin.
_es_confirm_handler ==
    /\ Handling(CONFIRM)
    /\ feature = "other" /\ request.body # "none"
    /\ Respond(FALSE)
    /\ UNCHANGED <<taskVars, ref_step, cipher, worker, confirmVars, provVars,
                   cloudVars, lifeVars>>

\* _es_wifiscaninfo_handler pauses the cloud connection during the scan; without
\* memory for the list it returns with the pause in force.
_es_wifiscaninfo_handler ==
    /\ Handling(WIFISCANINFO)
    /\ \/ pause' = TRUE /\ Respond(TRUE)
       \/ pause' = FALSE /\ \E err \in BOOLEAN : Respond(err)
    /\ UNCHANGED <<taskVars, ref_step, cipher, worker, confirmVars, provVars, cloud,
                   d2d, net, timer, onboarded, lifeVars>>

\* iot_api_prov_data_mem_free leaves the pointers to what it freed.
iot_api_prov_data_mem_free == IF mem = "null" THEN "null" ELSE "freed"

\* _es_wifi_prov_parse took the Wi-Fi part, the old cloud part was freed, and
\* _es_cloud_prov_parse fails: before it stored the new part, or (no memory for
\* the copy) afterwards.
_es_cloud_prov_parse_fails ==
    /\ Handling(WIFIPROVISIONINGINFO) /\ request.body # "none"
    /\ wifi' = TRUE
    /\ mem' = iot_api_prov_data_mem_free
    /\ nv' \in {nv, nv \cup (IF request.body = "whole" THEN {"cloud"} ELSE {})}
    /\ Respond(TRUE)
    /\ UNCHANGED <<taskVars, ref_step, cipher, worker, confirmVars, unstored,
                   cloudVars, lifeVars>>

\* Mistake: the cloud part stays in RAM.
ProvisionInRam ==
    /\ Handling(WIFIPROVISIONINGINFO) /\ request.body = "whole"
    /\ wifi' = TRUE /\ mem' = "live"
    /\ \E err \in BOOLEAN : Respond(err)
    /\ UNCHANGED <<taskVars, ref_step, cipher, worker, confirmVars, nv, unstored,
                   cloudVars, lifeVars>>

\* _es_wifiprovisioninginfo_handler: Wi-Fi data in RAM, cloud data in RAM and in
\* flash.  It may still fail afterwards (lookup id, serial number).
_es_wifiprovisioninginfo_handler ==
    /\ Handling(WIFIPROVISIONINGINFO) /\ request.body = "whole"
    /\ wifi' = TRUE
    /\ nv' = nv \cup {"cloud"}
    /\ mem' = "live"
    /\ \E err \in BOOLEAN : Respond(err)
    /\ UNCHANGED <<taskVars, ref_step, cipher, worker, confirmVars, unstored,
                   cloudVars, lifeVars>>

\* _es_setupcomplete_handler: PROV_DONE is requested, whose update queues the
\* registration; the request may fail.
_es_setupcomplete_handler ==
    /\ Handling(SETUPCOMPLETE)
    /\ net' = "ok" /\ d2d' = TRUE
    /\ \/ cloud' = (IF cloud \in {"idle", "connected"} THEN "registering" ELSE cloud)
          /\ Respond(FALSE)
       \/ UNCHANGED cloud /\ Respond(TRUE)
    /\ UNCHANGED <<taskVars, ref_step, cipher, worker, confirmVars, provVars, timer,
                   pause, onboarded, lifeVars>>

\* _es_log_systeminfo_handler and _es_log_get_dump_handler only answer.
LogHandler ==
    /\ worker = "idle" /\ request # None
    /\ request.step \in {LOG_SYSTEMINFO, LOG_GET_DUMP}
    /\ Respond(FALSE)
    /\ UNCHANGED <<taskVars, ref_step, cipher, worker, confirmVars, provVars,
                   cloudVars, lifeVars>>

-----------------------------------------------------------------------------
\* Other threads

\* st_conn_ownership_confirm: it counts only when the button was chosen.
st_conn_ownership_confirm(confirm) ==
    LET bit == IF confirm THEN CONFIRMED ELSE DENIED IN
    IF feature = "button"
    THEN /\ confirm_check' = confirm
         /\ group.pipe[CONFIRMED] + group.pipe[DENIED] < MaxTokens
         /\ group' = SetBits(group, {bit})
         /\ fresh' = (worker = "button" /\ confirm)
         /\ cause' = IF worker = "button" /\ ~ confirm THEN cause \cup {DENIED} ELSE cause
    ELSE UNCHANGED <<confirm_check, group, fresh, cause>>

UserConfirms(confirm) ==
    /\ feature = "button"
    /\ st_conn_ownership_confirm(confirm)
    /\ UNCHANGED <<taskVars, ref_step, cipher, worker, request, resp, feature, allowed,
                   provVars, cloudVars, lifeVars>>

\* _iot_easysetup_ble_event_cb: a phone joins ...
GattJoin ==
    /\ task # "none" /\ ~ conn
    /\ conn' = TRUE
    /\ ref_step' = 0
    /\ timer' = "null"
    /\ UNCHANGED <<taskVars, cipher, worker, request, resp, group, confirmVars,
                   provVars, cloud, d2d, net, pause, onboarded, ready,
                   restarts, requests, killed>>

\* Mistake: the response that is due is thrown away with its token.
LeaveDrains(g) == [status |-> g.status \ {RESP}, pipe |-> [g.pipe EXCEPT ![RESP] = 0]]

LeaveClears(g) == ClearBits(g, {RESP})

\* ... or leaves: a confirmation is released, the RESP bit cleared, the cipher
\* ended, and a device that is not onboarded starts over.
GattLeave ==
    /\ conn /\ restarts < MaxRestarts
    /\ restarts' = restarts + 1
    /\ conn' = FALSE
    /\ timer' = "null"
    /\ IF feature = "button"
       THEN /\ confirm_check' = TRUE
            /\ group' = LeaveClears(SetBits(group, {CONFIRMED}))
            /\ fresh' = (worker = "button") /\ UNCHANGED cause
       ELSE group' = LeaveClears(group) /\ UNCHANGED <<confirm_check, fresh, cause>>
    /\ cipher' = None
    /\ IF onboarded
       THEN UNCHANGED <<provVars, cloud>>
       ELSE /\ iot_device_cleanup
            /\ cloud' = IF cloud = "registering" THEN cloud ELSE "idle"
    /\ d2d' = FALSE
    /\ UNCHANGED <<taskVars, ref_step, worker, request, resp, feature, allowed, net,
                   pause, onboarded, ready, requests, killed>>

\* iot_cleanup without reboot: BLE goes down, the task is deleted where it is.
iot_cleanup ==
    /\ ready /\ restarts < MaxRestarts
    /\ restarts' = restarts + 1
    /\ ready' = FALSE /\ conn' = FALSE
    /\ killed' = (killed \/ task \in {"wait", "receive"})
    /\ task' = "none" /\ asked' = NoRequest
    /\ onboarded' = FALSE
    /\ group' = ClearBits(group, {RESP})
    /\ ref_step' = 0 /\ cipher' = None
    /\ iot_device_cleanup
    /\ cloud' = IF cloud = "registering" THEN cloud ELSE "idle"
    /\ UNCHANGED <<worker, request, resp, confirmVars, d2d, net, timer, pause,
                   requests>>

-----------------------------------------------------------------------------
WorkThread == \/ HandlerFails \/ _es_deviceinfo_handler \/ _es_keyinfo_handler
              \/ ConfirmJunk \/ ConfirmBegin \/ ConfirmAtOnce \/ ConfirmButton
              \/ \E late \in BOOLEAN : ButtonAnswered(late)
              \/ _es_confirm_handler \/ _es_wifiscaninfo_handler
              \/ _es_cloud_prov_parse_fails \/ _es_wifiprovisioninginfo_handler
              \/ _es_setupcomplete_handler \/ LogHandler

Next == \/ iot_easysetup_init
        \/ iot_easysetup_ble_msg_handler
        \/ Advance
        \/ WakeTask
        \/ ReceiveResponse
        \/ RegisteringReports
        \/ IOT_COMMAND_CLOUD_REGISTERING
        \/ IOT_COMMAND_CLOUD_REGISTERED
        \/ ConnectingReports
        \/ IOT_COMMAND_CLOUD_CONNECTING
        \/ TimerExpires
        \/ HandlerFails
        \/ _es_deviceinfo_handler
        \/ _es_keyinfo_handler
        \/ ConfirmJunk
        \/ ConfirmBegin
        \/ ConfirmAtOnce
        \/ ConfirmButton
        \/ \E late \in BOOLEAN : ButtonAnswered(late)
        \/ _es_confirm_handler
        \/ _es_wifiscaninfo_handler
        \/ _es_cloud_prov_parse_fails
        \/ _es_wifiprovisioninginfo_handler
        \/ _es_setupcomplete_handler
        \/ LogHandler
        \/ \E confirm \in BOOLEAN : UserConfirms(confirm)
        \/ GattJoin
        \/ GattLeave
        \/ iot_cleanup

\* The scheduler runs the work thread and the BLE task.
Spec == /\ Init /\ [][Next]_vars
        /\ WF_vars(WorkThread)
        /\ WF_vars(WakeTask)
        /\ WF_vars(ReceiveResponse)

-----------------------------------------------------------------------------
Response == [step : Steps, err : BOOLEAN]

\* Every variable has its type; two responses are outstanding only when the task
\* that asked for the first was deleted.
TypeOK ==
    /\ task \in {"none", "poll", "advance", "wait", "receive"}
    /\ ref_step \in 0 .. 8
    /\ cipher = None \/ cipher \subseteq {"iv", "key"}
    /\ worker \in {"idle", "confirming", "button"}
    /\ resp \in Seq(Response) /\ (Len(resp) <= 1 \/ killed)
    /\ group \in GroupType(Bits)
    /\ nv \subseteq {"wifi", "cloud"} /\ mem \in {"null", "live", "freed"}
    /\ cloud \in {"idle", "registering", "registered", "connecting", "connected"}

TokenPerResponse ==
    Len(resp) = group.pipe[RESP] + (IF task = "receive" THEN 1 ELSE 0) \/ killed

\* A device that becomes onboarded has the data it will need after a reboot in
\* flash: the Wi-Fi data unless that write failed, and the cloud data if it has
\* any.
OnboardedIsStored ==
    [][onboarded' /\ ~ onboarded => /\ "wifi" \in nv' \/ unstored'
                                    /\ mem' = "live" => "cloud" \in nv']_vars

\* A button confirmation succeeds only on a CONFIRMED given while it waited.  It
\* fails only because the user denied it, or 100 seconds passed, or an answer was
\* given before the wait began.
ConfirmationHasCause ==
    [][worker = "button" /\ worker' = "idle" =>
         IF resp'[Len(resp')].err
         THEN cause # {} \/ Readable(group, {CONFIRMED, DENIED}) = {}
         ELSE fresh]_vars

\* A request put on the work queue is answered to the task that waits for it: the
\* RESP pipe holds a token exactly while a response is queued that the task was
\* not woken for, whatever a disconnection or the end of the onboarding clear,
\* until the task is deleted in the middle of a request.
RequestIsAnswered == /\ [](TypeOK /\ TokenPerResponse)
                     /\ task = "wait" ~> task # "wait"

=============================================================================

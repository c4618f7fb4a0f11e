------------------------------ MODULE HttpSetup ------------------------------
(***************************************************************************)
(* Easy setup over HTTP: the SoftAP's server thread es_tcp_task            *)
(* (iot_easysetup_httpd.c) with the order rules of the setup steps         *)
(* (iot_easysetup_http.c), the handlers that run on the device work queue  *)
(* (iot_easysetup_d2d_tcp.c) and what the two share: ref_step, the         *)
(* response queue and the event group.                                     *)
(*                                                                         *)
(* Four threads meet here.  The server thread reads a request, checks its  *)
(* step against ref_step, puts it on the work queue and waits without a    *)
(* timeout for the RESP bit.  The work thread runs the handlers, and also  *)
(* iot_easysetup_init and iot_easysetup_deinit, one at a time.  The Wi-Fi  *)
(* event thread resets ref_step when the station leaves.  The application  *)
(* answers the button confirmation and may clean up at any time.           *)
(*                                                                         *)
(* Nothing guards ref_step: its increment is a read (CheckOrder) and a     *)
(* write (Advance), with the other threads in between.                     *)
(***************************************************************************)
EXTENDS Naturals, Sequences, FiniteSets, EventGroup

CONSTANTS Payloads,   \* provisioning data a phone may send
          None,
          MaxTokens,  \* bound: unread tokens in the pipe of one bit
          MaxInits    \* bound: how often the SoftAP is opened

\* Provisioning data, in flash or in use: its wifi and its cloud part.
Data == [wifi : Payloads \cup {None}, cloud : Payloads \cup {None}]

ASSUME HttpSetupAssumption == None \notin Payloads \cup Data
                              /\ MaxTokens \in Nat \ {0} /\ MaxInits \in Nat

\* enum iot_easysetup_step
DEVICEINFO == 0
KEYINFO == 1
CONFIRMINFO == 2
CONFIRM == 3
WIFISCANINFO == 4
WIFIPROVISIONINGINFO == 5
SETUPCOMPLETE == 6
LOG_SYSTEMINFO == 7
LOG_CREATE_DUMP == 8
LOG_GET_DUMP == 9
INVALID_STEP == 10

RESP == "resp"
CONFIRMED == "confirmed"
DENIED == "denied"
Bits == {RESP, CONFIRMED, DENIED}

VARIABLES server,     \* where es_tcp_task is; "none": es_tcp_task_handle is NULL
          deinitFlag, \* deinit_processing
          http,       \* the request being served: [type, cmd, body]
          seen,       \* ref_step as the order check left it
          ref_step,
          ready,      \* ctx->es_http_ready
          cbOn,       \* the Wi-Fi event callback is registered
          cipher,     \* what cipher_params holds, of "iv" and "key"; None: NULL
          worker,     \* "idle", or "button" in the confirmation wait
          request,    \* the work on the queue: [step, body] or None
          resp,       \* easysetup_resp_queue: [step, err, payload]
          group,      \* iot_events
          feature,    \* curr_otm_feature; "none": neither button nor pin
          nv,         \* [wifi, cloud] in flash
          ram,        \* ctx->prov_data: [wifi, cloud] or None
          answers,    \* what the phone got: "none" yet, "ok", "error" or "closed"
          inits,
          \* history
          done,       \* PROV_DONE was requested
          skipped,    \* ref_step once counted a step whose request was not queued
          refused,    \* the last es_http_init found the previous thread
          fresh,      \* CONFIRMED was set since the confirmation began
          cause       \* why the button wait may end: CONFIRMED, DENIED, "left" (a token)

shared == <<ready, cbOn, cipher, deinitFlag, refused, inits>>
serverVars == <<server, http, seen, answers, done>>
workVars == <<worker, feature, nv, ram, cause>>
vars == <<server, deinitFlag, http, seen, ref_step, ready, cbOn, cipher, worker,
          request, resp, group, feature, nv, ram, answers, inits, done,
          skipped, refused, fresh, cause>>

Features == {"none", "button", "pin"}
NoData == [wifi |-> None, cloud |-> None]
NoRequest == [type |-> "none", cmd |-> INVALID_STEP, body |-> <<"null", None>>]

Init == /\ server = "none" /\ deinitFlag = FALSE /\ http = NoRequest /\ seen = 0
        /\ ref_step = 0 /\ ready = FALSE /\ cbOn = FALSE /\ cipher = None
        /\ worker = "idle" /\ request = None /\ resp = <<>>
        /\ group = EmptyGroup(Bits) /\ feature = "none"
        /\ nv = NoData /\ ram = None
        /\ answers = "none" /\ inits = 0
        /\ done = FALSE /\ skipped = FALSE /\ refused = FALSE
        /\ fresh = FALSE /\ cause = {}

-----------------------------------------------------------------------------
\* Bringing the server up and down, on the work thread (or, for a cleanup, on
\* the thread of the application).

\* es_http_init: it gives up while the previous thread has not ended, and then
\* leaves deinit_processing set.
es_http_init ==
    IF server # "none"
    THEN refused' = TRUE /\ UNCHANGED <<deinitFlag, server>>
    ELSE deinitFlag' = FALSE /\ refused' = FALSE /\ server' = "top"

iot_easysetup_init ==
    /\ worker = "idle"
    /\ inits < MaxInits
    /\ inits' = inits + 1
    /\ \/ /\ cipher' = {} /\ ref_step' = 0
          /\ cbOn' = TRUE
          /\ es_http_init
          /\ ready' = TRUE
       \/ UNCHANGED <<cipher, ref_step, cbOn, deinitFlag, refused,
                      server, ready>>               \* cipher_init failed
    /\ UNCHANGED <<http, seen, worker, request, resp, group, feature, nv,
                   ram, answers, done, skipped, fresh, cause>>

\* Mistake: the token of the RESP bit is taken out of its pipe as well.
DeinitDrains == /\ deinitFlag' = TRUE /\ cbOn' = FALSE
                /\ group' = [status |-> group.status \ {RESP},
                             pipe |-> [group.pipe EXCEPT ![RESP] = 0]]
                /\ cipher' = None

\* es_http_deinit sets a flag; the thread may sit in accept() or read() for long.
iot_easysetup_deinit ==
    /\ deinitFlag' = TRUE
    /\ cbOn' = FALSE
    /\ group' = ClearBits(group, {RESP})
    /\ cipher' = None

\* The work thread leaves the SoftAP (mode station or off, a registration that
\* timed out): es_http_ready is cleared by the mode change only.
LeaveSoftAp ==
    /\ worker = "idle"
    /\ ready
    /\ iot_easysetup_deinit
    /\ ready' \in BOOLEAN
    /\ UNCHANGED <<serverVars, workVars, ref_step, request, resp, inits,
                   skipped, refused, fresh>>

\* iot_cleanup on the application's thread, whatever the work thread does.
iot_cleanup ==
    /\ ready
    /\ ready' = FALSE
    /\ iot_easysetup_deinit
    /\ UNCHANGED <<serverVars, workVars, ref_step, request, resp, inits,
                   skipped, refused, fresh>>

-----------------------------------------------------------------------------
\* es_tcp_task.  The flag is read between two connections only.
es_tcp_task ==
    /\ server = "top"
    /\ server' = IF deinitFlag THEN "none" ELSE "listen"
    /\ answers' = "none" /\ done' = FALSE
    /\ UNCHANGED <<shared, workVars, http, seen, ref_step, request, resp, group,
                   skipped, fresh>>

\* port_net_listen returns a connection, or fails.
port_net_listen ==
    /\ server = "listen"
    /\ server' \in {"read", "top"}
    /\ UNCHANGED <<shared, workVars, http, seen, ref_step, request, resp, group,
                   answers, done, skipped, fresh>>

Null == <<"null", None>>
Torn == <<"torn", None>>

\* What a body of each step may hold, as far as its handler tells bodies apart.
Bodies(step) == CASE step = CONFIRMINFO -> {"none", "wrongsn", "button", "pin"} \X {None}
                  [] step = CONFIRM -> {<<"pin", None>>, <<"wrongpin", None>>}
                  [] step = WIFIPROVISIONINGINFO -> {"whole", "nocloud"} \X Payloads
                  [] step = KEYINFO -> {<<"key", None>>}
                  [] OTHER -> {}     \* the handler ignores it

\* http_packet_read_remaining: every piece after the first is read to the same
\* place of rx_buffer, so a body whose rest comes in two pieces is damaged.
http_packet_read_remaining(body, pieces) ==
    IF body = Null \/ pieces <= 1 THEN body ELSE Torn

\* es_msg_parser: method and URI select type and cmd; a POST with content-length
\* 0 has a NULL payload; no content-length, or another method, is an error.
GetRequests ==
    [type : {"get"}, body : {Null},
     cmd : {DEVICEINFO, WIFISCANINFO, LOG_SYSTEMINFO, LOG_GET_DUMP, INVALID_STEP}]

PostSteps == {KEYINFO, CONFIRMINFO, CONFIRM, WIFIPROVISIONINGINFO, SETUPCOMPLETE,
              LOG_CREATE_DUMP, INVALID_STEP}

PostRequests(c) == [type : {"post"}, cmd : {c}, body : Bodies(c) \cup {Null}]

ParseErrors == [type : {"error"}, cmd : {INVALID_STEP}, body : {Null}]

es_msg_parser ==
    GetRequests \cup ParseErrors \cup UNION {PostRequests(c) : c \in PostSteps}

\* process_accepted_connection, one request: read it, or lose the connection.
ReadRequest ==
    /\ server = "read"
    /\ \/ /\ \E r \in es_msg_parser, pieces \in 1 .. 2 :
                http' = [r EXCEPT !.body = http_packet_read_remaining(@, pieces)]
          /\ server' = "check" /\ answers' = "none" /\ done' = FALSE
       \/ server' = "top" /\ UNCHANGED <<http, answers, done>>
    /\ UNCHANGED <<shared, workVars, seen, ref_step, request, resp, group,
                   skipped, fresh>>

-----------------------------------------------------------------------------
\* http_msg_handler and process_accepted_connection, the answer: 200 with the
\* payload, an error page, or (an answer without a payload) a closed connection.
Answer(err, payload) ==
    /\ answers' = IF err # "none" THEN "error" ELSE IF payload THEN "ok" ELSE "closed"
    /\ http' = NoRequest /\ seen' = 0
    /\ server' \in IF err = "none" /\ ~payload THEN {"top"} ELSE {"read", "top"}

\* The steps that may be asked for out of their turn.
InTurn(r) ==
    \/ r.cmd = ref_step
    \/ r.cmd >= LOG_SYSTEMINFO
    \/ r.type = "get" /\ r.cmd = WIFISCANINFO
                      /\ ref_step \in {CONFIRM, WIFIPROVISIONINGINFO}
    \/ r.type = "post" /\ r.cmd = WIFIPROVISIONINGINFO
                       /\ ref_step \in {CONFIRM, CONFIRMINFO}

\* Requests answered before the order check, which leave ref_step as it is.
Malformed(r) == \/ r.type = "error" \/ r.cmd = INVALID_STEP
                \/ r.type = "post" /\ r.body = Null
                   /\ r.cmd \notin {SETUPCOMPLETE, LOG_CREATE_DUMP}

\* _iot_easysetup_gen_get_payload and _iot_easysetup_gen_post_payload up to the
\* increment of ref_step.
CheckOrder ==
    /\ server = "check"
    /\ \/ /\ Malformed(http)
          /\ Answer("fail", FALSE)
          /\ UNCHANGED ref_step
       \/ /\ ~ Malformed(http) /\ ~ InTurn(http)
          /\ ref_step' = 0
          /\ Answer("fail", FALSE)
       \/ /\ ~ Malformed(http) /\ InTurn(http)
          /\ ref_step' = IF http.cmd < LOG_SYSTEMINFO THEN http.cmd ELSE ref_step
          /\ seen' = ref_step'
          /\ server' = "advance"
          /\ UNCHANGED <<http, answers>>
    /\ UNCHANGED <<shared, workVars, request, resp, group, done, skipped, fresh>>

\* The increment: on the current value, or on the value read before.
Advanced == IF http.cmd < LOG_SYSTEMINFO THEN {ref_step + 1, seen + 1} ELSE {0}

\* ... and iot_easysetup_request.  When the work cannot be queued the call
\* returns with ref_step advanced.
Advance ==
    /\ server = "advance"
    /\ ref_step' \in Advanced
    /\ \/ /\ request' = [step |-> http.cmd, body |-> http.body]
          /\ server' = "wait" /\ seen' = 0
          /\ UNCHANGED <<http, answers, skipped>>
       \/ /\ Answer("fail", FALSE)
          /\ skipped' = TRUE
          /\ UNCHANGED request
    /\ UNCHANGED <<shared, workVars, resp, group, done, fresh>>

\* iot_os_eventgroup_wait_bits(RESP, clear_on_exit, no timeout) returns: there
\* is a token, whether or not the bit is still in the status byte.
WakeServer ==
    /\ server = "wait"
    /\ Readable(group, {RESP}) # {}
    /\ group' = ReadBits(group, {RESP}, {RESP})
    /\ server' = "receive"
    /\ UNCHANGED <<shared, workVars, http, seen, ref_step, request, resp,
                   answers, done, skipped, fresh>>

\* The response is taken out of the queue.  Any error resets ref_step; the end
\* of SETUPCOMPLETE requests PROV_DONE (which may fail to be queued).
ReceiveResponse ==
    /\ server = "receive"
    /\ LET r == Head(resp)
           err == IF resp = <<>> \/ r.step # http.cmd THEN "fail" ELSE r.err
       IN  /\ resp' = IF resp = <<>> THEN <<>> ELSE Tail(resp)
           /\ ref_step' = IF err # "none" THEN 0 ELSE ref_step
           /\ \/ /\ err = "none" /\ http.cmd = SETUPCOMPLETE
                 /\ \/ done' = TRUE /\ Answer("none", r.payload)
                    \/ Answer("fail", FALSE) /\ UNCHANGED done
              \/ /\ ~ (err = "none" /\ http.cmd = SETUPCOMPLETE)
                 /\ Answer(err, err = "none" /\ r.payload)
                 /\ UNCHANGED done
    /\ UNCHANGED <<shared, workVars, request, group, skipped, fresh>>

-----------------------------------------------------------------------------
\* The handlers, on the work thread.  A handler answers with Respond, the tail
\* of iot_easysetup_request_handler: queue the response, then set the bit.
Respond(err, payload) ==
    /\ resp' = Append(resp, [step |-> request.step, err |-> err, payload |-> payload])
    /\ group' = SetBits(group, {RESP})
    /\ request' = None

Handling(step) == worker = "idle" /\ request # None /\ request.step = step

handlerFrame == <<server, http, seen, answers, done, ready, cbOn, deinitFlag,
                  refused, inits, ref_step, skipped, fresh>>

\* iot_security_cipher_aes needs the iv and the key.
_encrypt_and_encode == cipher = {"iv", "key"}
_decode_and_decrypt == cipher = {"iv", "key"}

\* Whether there is a payload to send, and one to read.
_es_build_output_data == _encrypt_and_encode
_es_parse_input_data == _decode_and_decrypt /\ request.body # Torn

\* _es_crypto_cipher_gen_iv: a fresh iv joins what cipher_params holds.
_es_crypto_cipher_gen_iv == cipher \cup {"iv"}

\* Any handler may fail on memory, JSON or a lower layer.
HandlerFails ==
    /\ worker = "idle" /\ request # None
    /\ Respond("fail", FALSE)
    /\ UNCHANGED <<handlerFrame, workVars, cipher>>

\* _es_deviceinfo_handler makes a fresh iv.
_es_deviceinfo_handler ==
    /\ Handling(DEVICEINFO)
    /\ cipher # None
    /\ cipher' = _es_crypto_cipher_gen_iv
    /\ Respond("none", TRUE)
    /\ UNCHANGED <<handlerFrame, workVars>>

\* The optional date: without "datetime" the rest is skipped, with it the clock
\* is set (_es_time_set) and "regionaldatetime" and "timezoneid" must follow.
KeyInfoTime == {"none", "fail"}

\* _es_keyinfo_handler: the shared secret becomes the cipher's key, also when
\* the date then fails.
_es_keyinfo_handler ==
    /\ Handling(KEYINFO)
    /\ cipher # None /\ request.body # Torn
    /\ cipher' = cipher \cup {"key"}
    /\ \E err \in KeyInfoTime :
          Respond(err, err = "none" /\ "iv" \in cipher)
    /\ UNCHANGED <<handlerFrame, workVars>>

\* Mistake: the bits of an earlier confirmation are kept.
ConfirmUncleared == group

\* _es_confirm_check_manager clears the status bits first, not the pipes.
ConfirmCleared == ClearBits(group, {CONFIRMED, DENIED})

\* _es_confirminfo_handler with a feature that needs no user: nothing to check
\* ("none": just works, or a serial number that matches), a wrong serial number,
\* or the pin that CONFIRM will bring; or iot_state_update(PROV_CONFIRM) failed.
ConfirmAtOnce ==
    /\ Handling(CONFIRMINFO)
    /\ _es_parse_input_data
    /\ feature' = IF request.body[1] \in Features THEN request.body[1] ELSE "none"
    /\ \E err \in IF request.body[1] \in {"none", "pin"} THEN {"none", "fail"} ELSE {"fail"} :
          /\ resp' = Append(resp, [step |-> CONFIRMINFO, err |-> err,
                                    payload |-> err = "none"])
          /\ group' = SetBits(ConfirmCleared, {RESP})
    /\ request' = None
    /\ UNCHANGED <<handlerFrame, cipher, worker, nv, ram, cause>>

\* ... and with the button: the work thread waits for the user.
ConfirmButton ==
    /\ Handling(CONFIRMINFO)
    /\ _es_parse_input_data /\ request.body[1] = "button"
    /\ feature' = "button"
    /\ group' = ConfirmCleared
    /\ worker' = "button"
    /\ fresh' = FALSE
    /\ cause' = IF Readable(group, {CONFIRMED, DENIED}) # {} THEN {"left"} ELSE {}
    /\ UNCHANGED <<server, http, seen, answers, done, ready, cbOn, deinitFlag,
                   refused, inits, ref_step, skipped, cipher, request, resp,
                   nv, ram>>

\* The end of the wait: a token, or 100 seconds.  clear_on_exit is false: the
\* tokens are read and the status byte keeps the bits.
ButtonAnswered(late) ==
    /\ worker = "button"
    /\ LET r == Readable(group, {CONFIRMED, DENIED})
           ok == CONFIRMED \in group.status
       IN  /\ late <=> r = {}
           /\ resp' = Append(resp, [step |-> CONFIRMINFO,
                                     err |-> IF ok THEN "none" ELSE "fail",
                                     payload |-> ok /\ _es_build_output_data])
           /\ group' = SetBits(ReadBits(group, r, {}), {RESP})
    /\ cause' = {} /\ fresh' = FALSE
    /\ request' = None
    /\ worker' = "idle"
    /\ UNCHANGED <<server, http, seen, answers, done, ready, cbOn, deinitFlag,
                   refused, inits, ref_step, skipped, cipher, feature, nv, ram>>

\* _es_confirm_handler: the pin must be the device's.
_es_confirm_handler ==
    /\ Handling(CONFIRM)
    /\ feature = "pin" /\ _es_parse_input_data /\ request.body = <<"pin", None>>
    /\ Respond("none", TRUE)
    /\ UNCHANGED <<handlerFrame, workVars, cipher>>

\* _es_wifiscaninfo_handler (an empty scan is HandlerFails).
_es_wifiscaninfo_handler ==
    /\ Handling(WIFISCANINFO)
    /\ Respond("none", _es_build_output_data)
    /\ UNCHANGED <<handlerFrame, workVars, cipher>>

\* _es_wifi_prov_parse stored the wifi part and _es_cloud_prov_parse failed: the
\* flash holds halves of two payloads.
_es_cloud_prov_parse_fails ==
    /\ Handling(WIFIPROVISIONINGINFO)
    /\ _es_parse_input_data
    /\ nv' = [nv EXCEPT !.wifi = request.body[2]]
    /\ Respond("fail", FALSE)
    /\ UNCHANGED <<handlerFrame, worker, feature, ram, cause, cipher>>

\* Mistake: the result of _es_cloud_prov_parse is ignored.
ProvisionHalf ==
    /\ Handling(WIFIPROVISIONINGINFO)
    /\ _es_parse_input_data
    /\ nv' = [nv EXCEPT !.wifi = request.body[2]]
    /\ ram' = nv' /\ Respond("none", TRUE)
    /\ UNCHANGED <<handlerFrame, worker, feature, cause, cipher>>

\* _es_wifiprovisioninginfo_handler: both parts are stored, and the data in use
\* is freed and read back; when the read fails, there is none in use.
_es_wifiprovisioninginfo_handler ==
    /\ Handling(WIFIPROVISIONINGINFO)
    /\ _es_parse_input_data /\ request.body[1] = "whole"
    /\ nv' = [wifi |-> request.body[2], cloud |-> request.body[2]]
    /\ \/ ram' = nv' /\ Respond("none", TRUE)
       \/ ram' = None /\ Respond("fail", FALSE)
    /\ UNCHANGED <<handlerFrame, worker, feature, cause, cipher>>

\* _es_setupcomplete_handler and the three log handlers only answer.
_es_setupcomplete_handler ==
    /\ Handling(SETUPCOMPLETE)
    /\ Respond("none", _es_build_output_data)
    /\ UNCHANGED <<handlerFrame, workVars, cipher>>

LogHandler ==
    /\ worker = "idle" /\ request # None /\ request.step \in LOG_SYSTEMINFO .. LOG_GET_DUMP
    /\ Respond("none", TRUE)
    /\ UNCHANGED <<handlerFrame, workVars, cipher>>

-----------------------------------------------------------------------------
\* The two threads that set the confirmation bits.
Confirmation(bit) ==
    /\ group.pipe[bit] < MaxTokens
    /\ group' = SetBits(group, {bit})
    /\ fresh' = (worker = "button" /\ (fresh \/ bit = CONFIRMED))
    /\ cause' = IF worker = "button" THEN cause \cup {bit} ELSE {}

st_conn_ownership_confirm(confirm) ==
    /\ feature = "button"
    /\ Confirmation(IF confirm THEN CONFIRMED ELSE DENIED)
    /\ UNCHANGED <<shared, serverVars, worker, feature, nv, ram, ref_step, request,
                   resp, skipped>>

\* _iot_easysetup_wifi_event_cb, STA_LEAVE: the setup starts over, and a
\* confirmation that waits for the user is released with CONFIRMED.
StationLeaves ==
    /\ cbOn
    /\ ref_step <= SETUPCOMPLETE
    /\ ref_step' = 0
    /\ Confirmation(CONFIRMED)
    /\ UNCHANGED <<shared, serverVars, worker, feature, nv, ram, request, resp,
                   skipped>>

-----------------------------------------------------------------------------
WorkThread == \/ HandlerFails \/ _es_deviceinfo_handler \/ _es_keyinfo_handler
              \/ ConfirmAtOnce \/ ConfirmButton \/ _es_confirm_handler
              \/ _es_wifiscaninfo_handler \/ _es_cloud_prov_parse_fails
              \/ _es_wifiprovisioninginfo_handler \/ _es_setupcomplete_handler
              \/ LogHandler \/ \E late \in BOOLEAN : ButtonAnswered(late)

Next == \/ iot_easysetup_init
        \/ LeaveSoftAp
        \/ iot_cleanup
        \/ es_tcp_task
        \/ port_net_listen
        \/ ReadRequest
        \/ CheckOrder
        \/ Advance
        \/ WakeServer
        \/ ReceiveResponse
        \/ HandlerFails
        \/ _es_deviceinfo_handler
        \/ _es_keyinfo_handler
        \/ ConfirmAtOnce
        \/ ConfirmButton
        \/ \E late \in BOOLEAN : ButtonAnswered(late)
        \/ _es_confirm_handler
        \/ _es_wifiscaninfo_handler
        \/ _es_cloud_prov_parse_fails
        \/ _es_wifiprovisioninginfo_handler
        \/ _es_setupcomplete_handler
        \/ LogHandler
        \/ \E confirm \in BOOLEAN : st_conn_ownership_confirm(confirm)
        \/ StationLeaves

\* The scheduler runs the work thread and the server thread; nothing is assumed
\* of the phone, the user or the application.
Spec == /\ Init /\ [][Next]_vars
        /\ WF_vars(WorkThread)
        /\ WF_vars(WakeServer)
        /\ WF_vars(ReceiveResponse)

-----------------------------------------------------------------------------
Response == [step : 0 .. 10, err : {"none", "fail"}, payload : BOOLEAN]

\* Every variable has its type, and at most one response is outstanding.
TypeOK ==
    /\ server \in {"none", "top", "listen", "read", "check", "advance", "wait", "receive"}
    /\ {deinitFlag, ready, cbOn, done, skipped, refused, fresh} \subseteq BOOLEAN
    /\ ref_step \in 0 .. 7 /\ seen \in 0 .. 7
    /\ cipher = None \/ cipher \subseteq {"iv", "key"}
    /\ worker \in {"idle", "button"}
    /\ resp \in Seq(Response) /\ Len(resp) <= 1
    /\ group \in GroupType(Bits)
    /\ feature \in Features
    /\ nv \in Data /\ (ram = None \/ ram \in Data)
    /\ cause \subseteq {CONFIRMED, DENIED, "left"}

TokenPerResponse ==
    Len(resp) = group.pipe[RESP] + (IF server = "receive" THEN 1 ELSE 0)

OkIsProvisioned ==
    [][answers' = "ok" /\ answers # "ok" /\ http.cmd = WIFIPROVISIONINGINFO
         => /\ ram = [wifi |-> http.body[2], cloud |-> http.body[2]]
            /\ nv = ram]_vars

DoneIsProvisioned == [][done' /\ ~done => ram # None \/ skipped]_vars

\* A phone that is told 200 was answered by the handler of its own request: after
\* WIFIPROVISIONINGINFO the flash held, and the device uses, exactly what that
\* request carried.  PROV_DONE is requested only with provisioning data in use,
\* unless a request was counted in ref_step and never queued.
SuccessIsProvisioned == OkIsProvisioned /\ DoneIsProvisioned

\* A button confirmation succeeds only on a CONFIRMED that was set after it
\* began, although the pipes keep the tokens of earlier presses.  It fails only
\* because the user denied it, or 100 seconds passed, or a token was left in a
\* pipe before it began.
ConfirmationHasCause ==
    [][worker = "button" /\ worker' = "idle" =>
         LET err == resp'[Len(resp')].err
         IN  /\ err = "none" => fresh
             /\ err = "fail" => \/ cause \cap {DENIED, "left"} # {}
                               \/ Readable(group, {CONFIRMED, DENIED}) = {}]_vars

ReadyIsServed == ready /\ ~ refused => server # "none" \/ deinitFlag

\* A phone is served.  While the SoftAP is open a server thread runs that will go
\* on listening, unless es_http_init met the previous thread, or a deinit is in
\* force.  The RESP pipe holds a token exactly while a response is queued that the
\* server thread has not been woken for: clearing the bit in iot_easysetup_deinit
\* neither loses a response nor leaves one for the next request.  So a request put
\* on the work queue is answered: the server thread never stays in its wait.
RequestIsAnswered == /\ [](TypeOK /\ ReadyIsServed /\ TokenPerResponse)
                     /\ server = "wait" ~> server # "wait"

=============================================================================

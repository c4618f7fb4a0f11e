---------------------------- MODULE BleSetupProofs ----------------------------
(***************************************************************************)
(* For every set of steps that phones ask for and every number of requests *)
(* and restarts: a device that becomes onboarded has stored what it needs  *)
(* (OnboardedIsStored), a button confirmation ends for a reason            *)
(* (ConfirmationHasCause), and the response queue, the RESP pipe and the   *)
(* BLE task stay in step until the task is deleted in a request.           *)
(***************************************************************************)
EXTENDS BleSetup, TLAPS

(* The inductive invariant.                                                *)

Request == [step : Steps,
            body : {"none", "junk", "button", "other", "whole", "nobroker", "text"}]

\* The request of the task and the work on the queue came from a phone.
Asked == asked \in Request /\ (request = None \/ request \in Request)

\* There is a task only while BLE is up.
TaskIsReady == task # "none" => ready

\* Until a task was deleted in a request, the one work on the queue is what the
\* task waits for, and a response is queued only where it is waited for.
OneExchange == ~ killed => /\ request # None => task = "wait" /\ resp = <<>>
                           /\ task \notin {"wait", "receive"} => resp = <<>>

\* A RESP bit in the status has its token.
RespHasToken == RESP \in group.status => group.pipe[RESP] > 0

\* Between the order check and the increment only a reset touches ref_step.
StepIsChecked == task = "advance" /\ asked.step < LOG_SYSTEMINFO
                    => ref_step < LOG_SYSTEMINFO

\* Cloud data in use is in flash.
CloudIsStored == mem = "live" => "cloud" \in nv

\* A confirmation serves CONFIRMINFO; the answer the button wait will read was
\* given since it began, or something was there before.
Confirms ==
    /\ worker # "idle" => request # None /\ request.step = CONFIRMINFO
    /\ worker = "button" =>
          /\ confirm_check => fresh
          /\ ~ confirm_check /\ Readable(group, {CONFIRMED, DENIED}) # {}
                => cause # {}

BleInv == /\ TypeOK /\ TokenPerResponse /\ Asked /\ TaskIsReady /\ OneExchange
          /\ RespHasToken /\ StepIsChecked /\ CloudIsStored /\ Confirms

-----------------------------------------------------------------------------
(* What the event group's critical sections do to one bit.                 *)

\* iot_os_eventgroup_set_bits of one bit: it is set, it has a token if it had
\* one or was not set, and the other bits are left alone.
LEMMA SetOneBit ==
    ASSUME NEW g \in GroupType(Bits), NEW b \in Bits
    PROVE  LET h == SetBits(g, {b})
           IN  /\ h \in GroupType(Bits)
               /\ h.status = g.status \cup {b}
               /\ h.pipe[b] = IF b \in g.status THEN g.pipe[b] ELSE g.pipe[b] + 1
               /\ \A c \in Bits \ {b} : h.pipe[c] = g.pipe[c]
  BY DEF SetBits, GroupType

\* iot_os_eventgroup_clear_bits: the status byte only.
LEMMA ClearSomeBits ==
    ASSUME NEW g \in GroupType(Bits), NEW s \in SUBSET Bits
    PROVE  LET h == ClearBits(g, s)
           IN  /\ h \in GroupType(Bits)
               /\ h.status = g.status \ s
               /\ h.pipe = g.pipe
  BY DEF ClearBits, GroupType

-----------------------------------------------------------------------------
\* BLE is down, no data and no request.
LEMMA InitBleInv == Init => BleInv
  <1> SUFFICES ASSUME Init PROVE BleInv
    OBVIOUS
  <1>1. group \in GroupType(Bits) /\ group.pipe[RESP] = 0 /\ group.status = {}
    BY DEF Init, EmptyGroup, GroupType, Bits
  <1>2. TypeOK /\ RespHasToken
    BY <1>1 DEF Init, TypeOK, RespHasToken
  <1>3. TokenPerResponse /\ OneExchange
    BY <1>1 DEF Init, TokenPerResponse, OneExchange
  <1>4. Asked
    BY DEF Init, Asked, Request, NoRequest, Steps
  <1>5. TaskIsReady /\ StepIsChecked /\ CloudIsStored
    BY DEF Init, TaskIsReady, StepIsChecked, CloudIsStored
  <1>6. Confirms
    BY DEF Init, Confirms
  <1> QED
    BY <1>2, <1>3, <1>4, <1>5, <1>6 DEF BleInv

\* The tail of iot_easysetup_request_handler: a handler that answers the request
\* keeps the invariant, if it leaves cloud data in use only when it is in flash.
LEMMA AnswerKeepsBleInv ==
    ASSUME BleInv, request # None, NEW err \in BOOLEAN,
           NEW g \in GroupType(Bits),
           g.pipe[RESP] = group.pipe[RESP], RESP \in g.status <=> RESP \in group.status,
           resp' = Append(resp, [step |-> request.step, err |-> err]),
           group' = SetBits(g, {RESP}), request' = None, worker' = "idle",
           UNCHANGED <<task, asked, ref_step, ready, killed>>,
           cipher' = None \/ cipher' \subseteq {"iv", "key"},
           nv' \subseteq {"wifi", "cloud"}, mem' \in {"null", "live", "freed"},
           mem' = "live" => "cloud" \in nv',
           cloud' \in {"idle", "registering", "registered", "connecting", "connected"}
    PROVE  BleInv'
  <1> USE DEF BleInv
  <1>1. /\ RESP \in Bits /\ g.pipe[RESP] \in Nat
        /\ RESP \in g.status => g.pipe[RESP] > 0
    BY DEF Bits, GroupType, RespHasToken
  <1>2. /\ group' \in GroupType(Bits)
        /\ group'.pipe[RESP] = IF RESP \in g.status THEN g.pipe[RESP]
                                                    ELSE g.pipe[RESP] + 1
    BY <1>1, SetOneBit
  <1>3. group'.pipe[RESP] > 0
    BY <1>1, <1>2
  <1>4. [step |-> request.step, err |-> err] \in Response
    BY DEF Asked, Request, Response
  <1>5. resp' \in Seq(Response) /\ Len(resp') = Len(resp) + 1
    BY <1>4 DEF TypeOK
  <1>6. ~ killed => /\ task = "wait" /\ Len(resp) = 0 /\ g.pipe[RESP] = 0
                    /\ RESP \notin g.status
    BY <1>1 DEF OneExchange, TokenPerResponse
  <1>7. ~ killed => Len(resp') = 1 /\ group'.pipe[RESP] = 1
    BY <1>2, <1>5, <1>6
  <1>8. TypeOK'
    BY <1>2, <1>5, <1>7 DEF TypeOK
  <1>9. TokenPerResponse' /\ OneExchange'
    BY <1>6, <1>7 DEF TokenPerResponse, OneExchange
  <1>10. Asked' /\ TaskIsReady' /\ RespHasToken'
    BY <1>3 DEF Asked, TaskIsReady, RespHasToken
  <1>11. StepIsChecked' /\ CloudIsStored'
    BY DEF StepIsChecked, CloudIsStored
  <1>12. Confirms'
    BY DEF Confirms
  <1> QED
    BY <1>8, <1>9, <1>10, <1>11, <1>12

\* The handlers on the work thread.
LEMMA HandlersKeepBleInv == BleInv /\ WorkThread => BleInv'
  <1> SUFFICES ASSUME BleInv, WorkThread PROVE BleInv'
    OBVIOUS
  <1>type. /\ group \in GroupType(Bits)
           /\ cipher = None \/ cipher \subseteq {"iv", "key"}
           /\ nv \subseteq {"wifi", "cloud"} /\ mem \in {"null", "live", "freed"}
           /\ mem = "live" => "cloud" \in nv
           /\ cloud \in {"idle", "registering", "registered", "connecting", "connected"}
    BY DEF BleInv, TypeOK, CloudIsStored
  <1>bits. /\ RESP \in Bits /\ {CONFIRMED, DENIED} \in SUBSET Bits
           /\ RESP \notin {CONFIRMED, DENIED}
    BY DEF Bits, RESP, CONFIRMED, DENIED
  \* A handler that only answers.
  <1>plain. ASSUME request # None, NEW err \in BOOLEAN, Respond(err), worker' = "idle",
                   UNCHANGED <<task, asked, ref_step, ready, killed>>,
                   cipher' = None \/ cipher' \subseteq {"iv", "key"},
                   nv' \subseteq {"wifi", "cloud"}, mem' \in {"null", "live", "freed"},
                   mem' = "live" => "cloud" \in nv',
                   cloud' \in {"idle", "registering", "registered", "connecting",
                               "connected"}
            PROVE  BleInv'
    BY <1>plain, <1>type, AnswerKeepsBleInv DEF Respond
  <1>1. CASE HandlerFails
    <2>1. /\ request # None /\ worker' = "idle" /\ Respond(TRUE)
          /\ UNCHANGED <<task, asked, ref_step, ready, killed, cipher, nv, mem, cloud>>
      BY <1>1 DEF HandlerFails, taskVars, lifeVars, provVars, cloudVars
    <2> QED
      BY <2>1, <1>plain, <1>type
  <1>2. CASE _es_deviceinfo_handler
    <2>1. /\ request # None /\ worker' = "idle" /\ \E err \in BOOLEAN : Respond(err)
          /\ cipher' \subseteq {"iv", "key"}
          /\ UNCHANGED <<task, asked, ref_step, ready, killed, nv, mem, cloud>>
      BY <1>2 DEF _es_deviceinfo_handler, Handling, taskVars, lifeVars, provVars,
                  cloudVars
    <2> QED
      BY <2>1, <1>plain, <1>type
  <1>3. CASE _es_keyinfo_handler
    <2>1. /\ request # None /\ worker' = "idle" /\ \E err \in BOOLEAN : Respond(err)
          /\ cipher' \subseteq {"iv", "key"}
          /\ UNCHANGED <<task, asked, ref_step, ready, killed, nv, mem, cloud>>
      BY <1>3, <1>type DEF _es_keyinfo_handler, Handling, KeyInfoTime, taskVars,
                  lifeVars, provVars, cloudVars
    <2> QED
      BY <2>1, <1>plain, <1>type
  <1>4. CASE ConfirmJunk \/ _es_confirm_handler \/ LogHandler
    <2>1. /\ request # None /\ worker' = "idle" /\ Respond(FALSE)
          /\ UNCHANGED <<task, asked, ref_step, ready, killed, cipher, nv, mem, cloud>>
      BY <1>4 DEF ConfirmJunk, _es_confirm_handler, LogHandler, Handling, taskVars,
                  lifeVars, provVars, cloudVars
    <2> QED
      BY <2>1, <1>plain, <1>type
  <1>5. CASE _es_wifiscaninfo_handler
    <2>1. /\ request # None /\ worker' = "idle" /\ \E err \in BOOLEAN : Respond(err)
          /\ UNCHANGED <<task, asked, ref_step, ready, killed, cipher, nv, mem, cloud>>
      BY <1>5 DEF _es_wifiscaninfo_handler, Handling, taskVars, lifeVars, provVars
    <2> QED
      BY <2>1, <1>plain, <1>type
  <1>6. CASE _es_setupcomplete_handler
    <2>1. /\ request # None /\ worker' = "idle" /\ \E err \in BOOLEAN : Respond(err)
          /\ cloud' \in {cloud, "registering"}
          /\ UNCHANGED <<task, asked, ref_step, ready, killed, cipher, nv, mem>>
      BY <1>6 DEF _es_setupcomplete_handler, Handling, taskVars, lifeVars, provVars
    <2> QED
      BY <2>1, <1>plain, <1>type
  \* Provisioning: the old cloud part is freed before a new one is in use.
  <1>7. CASE _es_cloud_prov_parse_fails
    <2>1. /\ request # None /\ worker' = "idle" /\ Respond(TRUE)
          /\ mem' \in {"null", "freed"} /\ nv' \subseteq {"wifi", "cloud"}
          /\ UNCHANGED <<task, asked, ref_step, ready, killed, cipher, cloud>>
      BY <1>7, <1>type DEF _es_cloud_prov_parse_fails, iot_api_prov_data_mem_free,
                  Handling, taskVars, lifeVars, cloudVars
    <2> QED
      BY <2>1, <1>plain, <1>type
  <1>8. CASE _es_wifiprovisioninginfo_handler
    <2>1. /\ request # None /\ worker' = "idle" /\ \E err \in BOOLEAN : Respond(err)
          /\ mem' = "live" /\ nv' \subseteq {"wifi", "cloud"} /\ "cloud" \in nv'
          /\ UNCHANGED <<task, asked, ref_step, ready, killed, cipher, cloud>>
      BY <1>8, <1>type DEF _es_wifiprovisioninginfo_handler, Handling, taskVars,
                  lifeVars, cloudVars
    <2> QED
      BY <2>1, <1>plain, <1>type
  \* The confirmation, in three steps.
  <1>9. CASE ConfirmBegin
    <2>1. /\ worker' = "confirming" /\ request # None /\ request.step = CONFIRMINFO
          /\ group' = ClearBits(group, {CONFIRMED, DENIED})
          /\ UNCHANGED <<task, asked, ref_step, ready, killed, cipher, request, resp,
                         nv, mem, cloud>>
      BY <1>9 DEF ConfirmBegin, Handling, taskVars, lifeVars, provVars, cloudVars
    <2>2. /\ group' \in GroupType(Bits)
          /\ group'.status = group.status \ {CONFIRMED, DENIED}
          /\ group'.pipe = group.pipe
      BY <2>1, <1>type, <1>bits, ClearSomeBits
    <2>3. TypeOK' /\ TokenPerResponse'
      BY <2>1, <2>2 DEF BleInv, TypeOK, TokenPerResponse
    <2>4. Asked' /\ TaskIsReady' /\ OneExchange' /\ RespHasToken'
      BY <2>1, <2>2 DEF BleInv, Asked, TaskIsReady, OneExchange, RespHasToken
    <2>5. StepIsChecked' /\ CloudIsStored' /\ Confirms'
      BY <2>1 DEF BleInv, StepIsChecked, CloudIsStored, Confirms
    <2> QED
      BY <2>3, <2>4, <2>5 DEF BleInv
  <1>10. CASE ConfirmAtOnce
    <2>1. /\ request # None /\ worker' = "idle" /\ \E err \in BOOLEAN : Respond(err)
          /\ UNCHANGED <<task, asked, ref_step, ready, killed, cipher, nv, mem, cloud>>
      BY <1>10 DEF ConfirmAtOnce, BleInv, Confirms, taskVars, lifeVars, provVars,
                   cloudVars
    <2> QED
      BY <2>1, <1>plain, <1>type
  <1>11. CASE ConfirmButton
    <2>1. /\ worker = "confirming" /\ worker' = "button" /\ ~ confirm_check'
          /\ Readable(group, {CONFIRMED, DENIED}) # {} => cause' = {"early"}
          /\ UNCHANGED <<task, asked, ref_step, ready, killed, cipher, request, resp,
                         group, nv, mem, cloud>>
      BY <1>11 DEF ConfirmButton, taskVars, lifeVars, provVars, cloudVars
    <2>3. TypeOK' /\ TokenPerResponse'
      BY <2>1 DEF BleInv, TypeOK, TokenPerResponse
    <2>4. Asked' /\ TaskIsReady' /\ OneExchange' /\ RespHasToken'
      BY <2>1 DEF BleInv, Asked, TaskIsReady, OneExchange, RespHasToken
    <2>5. StepIsChecked' /\ CloudIsStored' /\ Confirms'
      BY <2>1 DEF BleInv, StepIsChecked, CloudIsStored, Confirms, Readable
    <2> QED
      BY <2>3, <2>4, <2>5 DEF BleInv
  <1>12. ASSUME NEW late \in BOOLEAN, ButtonAnswered(late) PROVE BleInv'
    <2> DEFINE r == Readable(group, {CONFIRMED, DENIED})
               g == ReadBits(group, r, {})
    <2>1. /\ worker = "button" /\ worker' = "idle" /\ request' = None
          /\ group' = SetBits(g, {RESP})
          /\ resp' = Append(resp, [step |-> CONFIRMINFO, err |-> ~ confirm_check])
          /\ UNCHANGED <<task, asked, ref_step, ready, killed, cipher, nv, mem, cloud>>
      BY <1>12 DEF ButtonAnswered, taskVars, lifeVars, provVars, cloudVars
    <2>2. request # None /\ request.step = CONFIRMINFO
      BY <2>1 DEF BleInv, Confirms
    <2>3. r \subseteq {CONFIRMED, DENIED} /\ \A b \in r : group.pipe[b] > 0
      BY DEF Readable
    <2>4. /\ g \in GroupType(Bits) /\ g.pipe[RESP] = group.pipe[RESP]
          /\ g.status = group.status
      <3> HIDE DEF r
      <3> QED
        BY <1>type, <1>bits, <2>3 DEF ReadBits, GroupType
    <2>5. (~ confirm_check) \in BOOLEAN
      OBVIOUS
    <2> HIDE DEF g
    <2> QED
      BY <1>type, <2>1, <2>2, <2>4, <2>5, AnswerKeepsBleInv
  <1> QED
    BY <1>1, <1>2, <1>3, <1>4, <1>5, <1>6, <1>7, <1>8, <1>9, <1>10, <1>11, <1>12
    DEF WorkThread

-----------------------------------------------------------------------------
\* The BLE task: it is created where there is none, so nothing is outstanding
\* unless one was deleted in a request.
LEMMA TaskKeepsBleInv ==
    BleInv /\ (\/ iot_easysetup_init \/ iot_easysetup_ble_msg_handler \/ Advance
               \/ WakeTask \/ ReceiveResponse)
       => BleInv'
  <1> SUFFICES ASSUME BleInv,
                      \/ iot_easysetup_init \/ iot_easysetup_ble_msg_handler \/ Advance
                      \/ WakeTask \/ ReceiveResponse
               PROVE  BleInv'
    OBVIOUS
  <1> USE DEF BleInv
  <1>none. NoRequest \in Request
    BY DEF NoRequest, Request, Steps
  <1>bits. RESP \in Bits /\ group.pipe[RESP] \in Nat
    BY DEF TypeOK, GroupType, Bits
  <1>1. CASE iot_easysetup_init
    <2>1. /\ ~ ready /\ ready' = TRUE /\ ref_step' = 0 /\ task' = "poll"
          /\ asked' = NoRequest
          /\ UNCHANGED <<killed, cipher, worker, request, resp, group, nv, mem, cloud,
                         confirm_check, fresh, cause>>
      BY <1>1 DEF iot_easysetup_init, confirmVars, provVars, cloudVars
    <2>2. task = "none"
      BY <2>1 DEF TaskIsReady
    <2>3. TypeOK' /\ TaskIsReady'
      BY <2>1 DEF TypeOK, TaskIsReady
    <2>4. TokenPerResponse' /\ OneExchange' /\ RespHasToken'
      BY <2>1, <2>2 DEF TokenPerResponse, OneExchange, RespHasToken
    <2>5. Asked' /\ StepIsChecked' /\ CloudIsStored'
      BY <2>1, <1>none DEF Asked, StepIsChecked, CloudIsStored
    <2>6. Confirms'
      BY <2>1 DEF Confirms
    <2> QED
      BY <2>3, <2>4, <2>5, <2>6
  <1>2. CASE iot_easysetup_ble_msg_handler
    <2>1. PICK s \in PhoneSteps : \E b \in Bodies(s) :
             LET r == [step |-> s, body |-> b]
                 taken == _iot_easysetup_ble_msg_decrypt(r) /\ InOrder(s)
             IN  /\ asked' = IF taken THEN r ELSE NoRequest
                 /\ task' = IF taken THEN "advance" ELSE "poll"
                 /\ ref_step' = IF taken /\ s < LOG_SYSTEMINFO THEN s ELSE ref_step
      BY <1>2 DEF iot_easysetup_ble_msg_handler
    <2>2. PICK b \in Bodies(s) :
             \/ /\ asked' = [step |-> s, body |-> b] /\ task' = "advance"
                /\ ref_step' = IF s < LOG_SYSTEMINFO THEN s ELSE ref_step
             \/ asked' = NoRequest /\ task' = "poll" /\ ref_step' = ref_step
      BY <2>1
    <2>3. /\ task = "poll"
          /\ UNCHANGED <<killed, ready, cipher, worker, request, resp, group, nv, mem,
                         cloud, confirm_check, fresh, cause>>
      BY <1>2 DEF iot_easysetup_ble_msg_handler, confirmVars, provVars
    <2>4. s \in Steps /\ b \in {"none", "junk", "button", "other", "whole", "nobroker",
                                "text"}
      <3>1. s \in Steps
        BY BleSetupAssumption
      <3>2. Bodies(s) \subseteq {"none", "junk", "button", "other", "whole",
                                 "nobroker", "text"}
        BY DEF Bodies
      <3> QED
        BY <3>1, <3>2
    <2>5. asked' \in Request
      BY <1>none, <2>2, <2>4 DEF Request
    <2>6. s \in Nat /\ LOG_SYSTEMINFO = 8
      BY <2>4 DEF Steps, DEVICEINFO, KEYINFO, CONFIRMINFO, CONFIRM, WIFISCANINFO,
         WIFIPROVISIONINGINFO, TNCAGREEMENTS, SETUPCOMPLETE, LOG_SYSTEMINFO,
         LOG_GET_DUMP, RECOVERY
    <2>7. ref_step' \in 0 .. 8 /\ StepIsChecked'
      BY <2>2, <2>6 DEF TypeOK, StepIsChecked
    <2>8. TypeOK'
      BY <2>2, <2>3, <2>7 DEF TypeOK
    <2>9. TokenPerResponse' /\ OneExchange' /\ RespHasToken'
      BY <2>2, <2>3 DEF TokenPerResponse, OneExchange, RespHasToken
    <2>10. Asked' /\ TaskIsReady' /\ CloudIsStored'
      BY <2>2, <2>3, <2>5 DEF Asked, TaskIsReady, CloudIsStored
    <2>11. Confirms'
      BY <2>3 DEF Confirms
    <2> QED
      BY <2>7, <2>8, <2>9, <2>10, <2>11
  <1>3. CASE Advance
    <2>1. /\ task = "advance"
          /\ ref_step' = IF asked.step < LOG_SYSTEMINFO THEN ref_step + 1 ELSE 0
          /\ \/ /\ request = None /\ request' = asked /\ task' = "wait"
                /\ asked' = [asked EXCEPT !.body = "none"]
             \/ task' = "poll" /\ asked' = NoRequest /\ UNCHANGED request
          /\ UNCHANGED <<killed, ready, cipher, worker, resp, group, nv, mem,
                         cloud, confirm_check, fresh, cause>>
      BY <1>3 DEF Advance, confirmVars, provVars, cloudVars, lifeVars
    <2>2. asked' \in Request
      BY <1>none, <2>1 DEF Asked, Request
    <2>3. ref_step' \in 0 .. 8
      BY <2>1 DEF TypeOK, StepIsChecked, LOG_SYSTEMINFO
    <2>4. TypeOK'
      BY <2>1, <2>3 DEF TypeOK
    <2>5. TokenPerResponse' /\ RespHasToken'
      BY <2>1 DEF TokenPerResponse, RespHasToken
    <2>6. OneExchange'
      BY <2>1 DEF OneExchange
    <2>7. Asked' /\ TaskIsReady' /\ CloudIsStored' /\ StepIsChecked'
      BY <2>1, <2>2 DEF Asked, TaskIsReady, CloudIsStored, StepIsChecked
    <2>8. Confirms'
      BY <2>1 DEF Confirms
    <2> QED
      BY <2>4, <2>5, <2>6, <2>7, <2>8
  <1>4. CASE WakeTask
    <2>1. /\ task = "wait" /\ task' = "receive" /\ group.pipe[RESP] > 0
          /\ group' = ReadBits(group, {RESP}, {RESP})
          /\ UNCHANGED <<asked, ref_step, killed, ready, cipher, worker, request, resp,
                         nv, mem, cloud, confirm_check, fresh, cause>>
      BY <1>4 DEF WakeTask, Readable, confirmVars, provVars, cloudVars, lifeVars
    <2>2. /\ group' \in GroupType(Bits) /\ group'.pipe[RESP] = group.pipe[RESP] - 1
          /\ group'.status = group.status \ {RESP}
          /\ \A c \in Bits \ {RESP} : group'.pipe[c] = group.pipe[c]
      BY <1>bits, <2>1 DEF ReadBits, GroupType, TypeOK
    <2>3. ~ killed => Len(resp) = group.pipe[RESP] /\ resp # <<>> /\ request = None
      BY <1>bits, <2>1 DEF TokenPerResponse, TypeOK, OneExchange
    <2>4. TypeOK'
      BY <2>1, <2>2 DEF TypeOK
    <2>5. TokenPerResponse' /\ RespHasToken' /\ OneExchange'
      <3>1. group'.pipe[RESP] + 1 = group.pipe[RESP]
        BY <1>bits, <2>2
      <3>2. TokenPerResponse'
        BY <2>1, <2>3, <3>1 DEF TokenPerResponse
      <3> QED
        BY <2>1, <2>2, <2>3, <3>2 DEF RespHasToken, OneExchange
    <2>6. Asked' /\ TaskIsReady' /\ CloudIsStored' /\ StepIsChecked'
      BY <2>1 DEF Asked, TaskIsReady, CloudIsStored, StepIsChecked
    <2>7. Confirms'
      <3>1. {CONFIRMED, DENIED} \subseteq Bits \ {RESP}
        BY DEF Bits, CONFIRMED, DENIED, RESP
      <3>2. Readable(group, {CONFIRMED, DENIED})' = Readable(group, {CONFIRMED, DENIED})
        BY <2>2, <3>1 DEF Readable
      <3> QED
        BY <2>1, <3>2 DEF Confirms
    <2> QED
      BY <2>4, <2>5, <2>6, <2>7
  <1>5. CASE ReceiveResponse
    <2>1. /\ task = "receive" /\ task' = "poll" /\ asked' = NoRequest
          /\ ref_step' \in {0, ref_step}
          /\ resp' = IF resp = <<>> THEN <<>> ELSE Tail(resp)
          /\ UNCHANGED <<killed, ready, cipher, worker, request, group,
                         nv, mem, cloud, confirm_check, fresh, cause>>
      BY <1>5 DEF ReceiveResponse, confirmVars, provVars, cloudVars, lifeVars
    <2>2. ~ killed => Len(resp) = 1 /\ group.pipe[RESP] = 0 /\ request = None
      <3>1. request # None => killed
        BY <2>1 DEF OneExchange
      <3>2. Len(resp) = group.pipe[RESP] + 1 \/ killed
        BY <2>1 DEF TokenPerResponse
      <3>3. (Len(resp) <= 1 \/ killed) /\ Len(resp) \in Nat
        BY DEF TypeOK
      <3>4. Len(resp) = group.pipe[RESP] + 1 /\ Len(resp) <= 1
               => Len(resp) = 1 /\ group.pipe[RESP] = 0
        BY <1>bits, <3>3
      <3> QED
        BY <3>1, <3>2, <3>3, <3>4, Zenon
    <2>3. ~ killed => resp' = <<>>
      BY <2>1, <2>2 DEF TypeOK
    <2>4. resp' \in Seq(Response)
      BY <2>1 DEF TypeOK
    <2>5. TypeOK'
      BY <2>1, <2>3, <2>4 DEF TypeOK
    <2>6. TokenPerResponse' /\ RespHasToken' /\ OneExchange'
      <3>1. ~ killed => Len(resp') = 0
        BY <2>3
      <3>2. TokenPerResponse'
        BY <2>1, <2>2, <3>1 DEF TokenPerResponse
      <3> QED
        BY <2>1, <2>2, <2>3, <3>2 DEF RespHasToken, OneExchange
    <2>7. Asked' /\ TaskIsReady' /\ CloudIsStored' /\ StepIsChecked'
      BY <1>none, <2>1 DEF Asked, TaskIsReady, CloudIsStored, StepIsChecked
    <2>8. Confirms'
      BY <2>1 DEF Confirms
    <2> QED
      BY <2>5, <2>6, <2>7, <2>8
  <1> QED
    BY <1>1, <1>2, <1>3, <1>4, <1>5

\* A step that leaves the exchange alone, but may start the order of the steps
\* over and clear the RESP bit without its token.
LEMMA ElsewhereKeepsBleInv ==
    ASSUME BleInv, UNCHANGED <<task, worker, request, resp, ready, killed>>,
           UNCHANGED asked \/ (task = "none" /\ asked' = NoRequest),
           ref_step' \in {0, ref_step},
           group' \in GroupType(Bits), group'.pipe[RESP] = group.pipe[RESP],
           RESP \in group'.status => RESP \in group.status,
           cipher' = None \/ cipher' \subseteq {"iv", "key"},
           nv' \subseteq {"wifi", "cloud"}, mem' \in {"null", "live", "freed"},
           mem' = "live" => "cloud" \in nv',
           cloud' \in {"idle", "registering", "registered", "connecting", "connected"},
           worker = "button" => /\ confirm_check' => fresh'
                                /\ \/ confirm_check' \/ cause' # {}
                                   \/ Readable(group', {CONFIRMED, DENIED}) = {}
    PROVE  BleInv'
  <1> USE DEF BleInv
  <1>1. TypeOK'
    BY DEF TypeOK
  <1>2. TokenPerResponse' /\ OneExchange' /\ RespHasToken'
    BY DEF TokenPerResponse, OneExchange, RespHasToken
  <1>3. Asked' /\ TaskIsReady' /\ StepIsChecked' /\ CloudIsStored'
    <2>1. NoRequest \in Request
      BY DEF NoRequest, Request, Steps
    <2> QED
      BY <2>1 DEF Asked, TaskIsReady, StepIsChecked, CloudIsStored, LOG_SYSTEMINFO
  <1>4. Confirms'
    BY DEF Confirms
  <1> QED
    BY <1>1, <1>2, <1>3, <1>4

\* iot_easysetup_deinit: when BLE is down there is no task left to delete.
LEMMA DeinitLeaves ==
    ASSUME BleInv, NEW status \in {"ok", "bad"} \cup {net}, iot_easysetup_deinit(status)
    PROVE  /\ UNCHANGED task
           /\ UNCHANGED asked \/ (task = "none" /\ asked' = NoRequest)
           /\ ref_step' \in {0, ref_step} /\ cipher' \in {None, cipher}
           /\ nv' \in {nv, nv \cup {"wifi"}}
           /\ group' \in {group, ClearBits(group, {RESP})}
  <1>1. ~ ready => task = "none"
    BY DEF BleInv, TaskIsReady
  <1>2. nv' \in {nv, nv \cup {"wifi"}}
    BY DEF iot_easysetup_deinit
  <1>3. /\ ref_step' \in {0, ref_step} /\ cipher' \in {None, cipher}
        /\ group' \in {group, ClearBits(group, {RESP})}
    BY DEF iot_easysetup_deinit
  <1>4. /\ UNCHANGED task
        /\ UNCHANGED asked \/ (task = "none" /\ asked' = NoRequest)
    BY <1>1 DEF iot_easysetup_deinit, taskVars
  <1> QED
    BY <1>2, <1>3, <1>4

\* The cloud commands and the end of the onboarding they report, the timer, the
\* user's button, and a phone that joins or leaves.
LEMMA OthersKeepBleInv ==
    BleInv /\ (\/ RegisteringReports \/ IOT_COMMAND_CLOUD_REGISTERING
               \/ IOT_COMMAND_CLOUD_REGISTERED \/ ConnectingReports
               \/ IOT_COMMAND_CLOUD_CONNECTING \/ TimerExpires
               \/ \E confirm \in BOOLEAN : UserConfirms(confirm)
               \/ GattJoin \/ GattLeave)
       => BleInv'
  <1>type. ASSUME BleInv
           PROVE  /\ group \in GroupType(Bits)
                  /\ cipher = None \/ cipher \subseteq {"iv", "key"}
                  /\ nv \subseteq {"wifi", "cloud"} /\ mem \in {"null", "live", "freed"}
                  /\ mem = "live" => "cloud" \in nv
                  /\ cloud \in {"idle", "registering", "registered", "connecting",
                                "connected"}
                  /\ worker = "button" =>
                        /\ confirm_check => fresh
                        /\ \/ confirm_check \/ cause # {}
                           \/ Readable(group, {CONFIRMED, DENIED}) = {}
    BY <1>type DEF BleInv, TypeOK, CloudIsStored, Confirms
  <1>bits. /\ {RESP} \in SUBSET Bits /\ {CONFIRMED, DENIED} \subseteq Bits
           /\ RESP \in Bits /\ RESP \notin {CONFIRMED, DENIED}
    BY DEF Bits, RESP, CONFIRMED, DENIED
  <1>1. ASSUME BleInv, RegisteringReports \/ ConnectingReports PROVE BleInv'
    <2>1. /\ \E status \in {"ok", "bad"} \cup {net} : iot_easysetup_deinit(status)
          /\ cloud' \in {cloud, "idle", "connected"}
          /\ UNCHANGED <<worker, request, resp, mem, ready, killed, confirm_check,
                         fresh, cause>>
      BY <1>1 DEF RegisteringReports, ConnectingReports, confirmVars, lifeVars
    <2>2. /\ UNCHANGED task
          /\ UNCHANGED asked \/ (task = "none" /\ asked' = NoRequest)
          /\ ref_step' \in {0, ref_step} /\ cipher' \in {None, cipher}
          /\ nv' \in {nv, nv \cup {"wifi"}}
          /\ group' \in {group, ClearBits(group, {RESP})}
      BY <1>1, <2>1, DeinitLeaves
    <2>3. /\ group' \in GroupType(Bits) /\ group'.pipe = group.pipe
          /\ RESP \in group'.status => RESP \in group.status
      BY <1>1, <1>type, <1>bits, <2>2, ClearSomeBits
    <2>4. Readable(group', {CONFIRMED, DENIED}) = Readable(group, {CONFIRMED, DENIED})
      BY <2>3 DEF Readable
    <2>5. /\ cipher' = None \/ cipher' \subseteq {"iv", "key"}
          /\ nv' \subseteq {"wifi", "cloud"} /\ mem' \in {"null", "live", "freed"}
          /\ mem' = "live" => "cloud" \in nv'
      BY <1>1, <1>type, <2>1, <2>2
    <2> QED
      BY <1>1, <1>type, <2>1, <2>2, <2>3, <2>4, <2>5, ElsewhereKeepsBleInv
  <1>2. ASSUME BleInv, \/ IOT_COMMAND_CLOUD_REGISTERING \/ IOT_COMMAND_CLOUD_REGISTERED
                       \/ IOT_COMMAND_CLOUD_CONNECTING \/ TimerExpires \/ GattJoin
        PROVE  BleInv'
    <2>1. /\ cloud' \in {cloud, "registered", "connecting", "connected"}
          /\ ref_step' \in {0, ref_step}
          /\ UNCHANGED <<task, asked, cipher, worker, request, resp, group, nv, mem,
                         ready, killed, confirm_check, fresh, cause>>
      BY <1>2 DEF IOT_COMMAND_CLOUD_REGISTERING, IOT_COMMAND_CLOUD_REGISTERED,
         IOT_COMMAND_CLOUD_CONNECTING, TimerExpires, GattJoin, taskVars, confirmVars,
         provVars, lifeVars
    <2> QED
      BY <1>2, <1>type, <2>1, ElsewhereKeepsBleInv
  <1>3. ASSUME BleInv, NEW confirm \in BOOLEAN, UserConfirms(confirm) PROVE BleInv'
    <2>1. /\ UNCHANGED <<task, asked, ref_step, cipher, worker, request, resp, nv, mem,
                         cloud, ready, killed>>
          /\ \E bit \in {CONFIRMED, DENIED} : group' = SetBits(group, {bit})
          /\ worker = "button" => /\ confirm_check' = confirm /\ fresh' = confirm
                                  /\ ~ confirm => cause' = cause \cup {DENIED}
      BY <1>3 DEF UserConfirms, st_conn_ownership_confirm, taskVars, provVars,
                  cloudVars, lifeVars
    <2>2. PICK bit \in {CONFIRMED, DENIED} : group' = SetBits(group, {bit})
      BY <2>1
    <2>3. /\ group' \in GroupType(Bits) /\ group'.pipe[RESP] = group.pipe[RESP]
          /\ group'.status = group.status \cup {bit}
      <3>1. group \in GroupType(Bits) /\ bit \in Bits /\ RESP \in Bits \ {bit}
        BY <1>3, <1>type, <1>bits
      <3> QED
        BY <2>2, <3>1 DEF SetBits, GroupType
    <2>4. worker = "button" => /\ confirm_check' => fresh'
                               /\ confirm_check' \/ cause' # {}
      BY <2>1
    <2>5. RESP \in group'.status => RESP \in group.status
      BY <1>bits, <2>3
    <2> QED
      BY <1>3, <1>type, <2>1, <2>3, <2>4, <2>5, ElsewhereKeepsBleInv
  <1>4. ASSUME BleInv, GattLeave PROVE BleInv'
    <2>1. /\ UNCHANGED <<task, asked, ref_step, worker, request, resp, ready, killed>>
          /\ cipher' = None
      BY <1>4 DEF GattLeave, taskVars
    <2>2. /\ nv' = {} /\ mem' = "null" /\ cloud' \in {cloud, "idle"}
          \/ UNCHANGED <<nv, mem, cloud>>
      BY <1>4 DEF GattLeave, iot_device_cleanup, provVars
    <2>3. PICK g \in {group, SetBits(group, {CONFIRMED})} :
             /\ group' = ClearBits(g, {RESP})
             /\ \/ confirm_check' /\ (worker = "button" => fresh')
                \/ g = group /\ UNCHANGED <<confirm_check, fresh, cause>>
      BY <1>4 DEF GattLeave, LeaveClears
    <2>4. /\ g \in GroupType(Bits) /\ g.pipe[RESP] = group.pipe[RESP]
          /\ RESP \in g.status => RESP \in group.status
      <3>1. /\ group \in GroupType(Bits) /\ CONFIRMED \in Bits
            /\ RESP \in Bits \ {CONFIRMED}
        BY <1>4, <1>type, <1>bits
      <3>2. CASE g = group
        BY <3>1, <3>2
      <3>3. CASE g = SetBits(group, {CONFIRMED})
        BY <3>1, <3>3 DEF SetBits, GroupType
      <3> QED
        BY <3>2, <3>3
    <2>5. /\ group' \in GroupType(Bits) /\ group'.pipe = g.pipe
          /\ group'.status = g.status \ {RESP}
      BY <1>bits, <2>3, <2>4, ClearSomeBits
    <2>6. Readable(group', {CONFIRMED, DENIED}) = Readable(g, {CONFIRMED, DENIED})
      BY <2>5 DEF Readable
    <2>7. worker = "button" => /\ confirm_check' => fresh'
                               /\ \/ confirm_check' \/ cause' # {}
                                  \/ Readable(group', {CONFIRMED, DENIED}) = {}
      BY <1>4, <1>type, <2>3, <2>6
    <2>8. /\ nv' \subseteq {"wifi", "cloud"} /\ mem' \in {"null", "live", "freed"}
          /\ mem' = "live" => "cloud" \in nv'
          /\ cloud' \in {"idle", "registering", "registered", "connecting", "connected"}
      BY <1>4, <1>type, <2>2
    <2>9. group'.pipe[RESP] = group.pipe[RESP] /\ RESP \notin group'.status
      BY <2>4, <2>5
    <2> QED
      BY <1>4, <2>1, <2>5, <2>7, <2>8, <2>9, ElsewhereKeepsBleInv
  <1> QED
    BY <1>1, <1>2, <1>3, <1>4

\* iot_cleanup deletes the task: from then on, if it was in a request, its answer
\* stays behind and killed says so; if not, nothing was outstanding.
LEMMA CleanupKeepsBleInv == BleInv /\ iot_cleanup => BleInv'
  <1> SUFFICES ASSUME BleInv, iot_cleanup PROVE BleInv'
    OBVIOUS
  <1> USE DEF BleInv
  <1>1. /\ killed' = (killed \/ task \in {"wait", "receive"})
        /\ task' = "none" /\ asked' = NoRequest /\ ref_step' = 0 /\ cipher' = None
        /\ group' = ClearBits(group, {RESP}) /\ nv' = {} /\ mem' = "null"
        /\ cloud' \in {cloud, "idle"}
        /\ UNCHANGED <<worker, request, resp, confirm_check, fresh, cause>>
    BY DEF iot_cleanup, iot_device_cleanup, confirmVars
  <1>2. {RESP} \in SUBSET Bits /\ group \in GroupType(Bits)
    BY DEF Bits, TypeOK
  <1>3. /\ group' \in GroupType(Bits) /\ group'.pipe = group.pipe
        /\ group'.status = group.status \ {RESP}
    BY <1>1, <1>2, ClearSomeBits
  <1>4. ~ killed' => ~ killed /\ task \notin {"wait", "receive"}
    BY <1>1
  <1>5. TypeOK'
    <2>1. Len(resp) <= 1 \/ killed'
      BY <1>4 DEF TypeOK
    <2> QED
      BY <1>1, <1>3, <2>1 DEF TypeOK
  <1>6. TokenPerResponse' /\ OneExchange' /\ RespHasToken'
    <2>1. ~ killed' => Len(resp) = group.pipe[RESP] + 0
      BY <1>4 DEF TokenPerResponse
    <2>2. TokenPerResponse'
      BY <1>1, <1>3, <2>1 DEF TokenPerResponse
    <2>3. OneExchange' /\ RespHasToken'
      BY <1>1, <1>3, <1>4 DEF OneExchange, RespHasToken
    <2> QED
      BY <2>2, <2>3
  <1>7. Asked' /\ TaskIsReady' /\ StepIsChecked' /\ CloudIsStored'
    BY <1>1 DEF Asked, TaskIsReady, StepIsChecked, CloudIsStored, NoRequest, Request,
                Steps
  <1>8. Confirms'
    <2>1. Readable(group, {CONFIRMED, DENIED})' = Readable(group, {CONFIRMED, DENIED})
      BY <1>3 DEF Readable
    <2> QED
      BY <1>1, <2>1 DEF Confirms
  <1> QED
    BY <1>5, <1>6, <1>7, <1>8

\* Every step of the BLE task, the work thread and the other threads keeps the
\* invariant.
LEMMA NextBleInv == BleInv /\ [Next]_vars => BleInv'
  <1>1. ASSUME BleInv, UNCHANGED vars PROVE BleInv'
    <2> USE <1>1 DEF vars, taskVars, confirmVars, provVars, cloudVars, lifeVars, BleInv
    <2>1. TypeOK' /\ TokenPerResponse' /\ Asked' /\ TaskIsReady'
      BY DEF TypeOK, TokenPerResponse, Asked, TaskIsReady
    <2>2. OneExchange' /\ RespHasToken' /\ StepIsChecked' /\ CloudIsStored' /\ Confirms'
      BY DEF OneExchange, RespHasToken, StepIsChecked, CloudIsStored, Confirms
    <2> QED
      BY <2>1, <2>2
  <1> QED
    BY <1>1, HandlersKeepBleInv, TaskKeepsBleInv, OthersKeepBleInv, CleanupKeepsBleInv
    DEF Next, WorkThread

-----------------------------------------------------------------------------
\* In every reachable state of the setup over BLE the invariant holds.
THEOREM BleInvHolds == Spec => []BleInv
  BY InitBleInv, NextBleInv, PTL DEF Spec

\* The variables stay in type, and until the BLE task is deleted in a request the
\* RESP pipe holds one token per response it was not woken for, whatever a
\* disconnection or the end of the onboarding clears: the safety part of
\* RequestIsAnswered.
THEOREM TokensMatchResponses == Spec => [](TypeOK /\ TokenPerResponse)
  <1>1. BleInv => TypeOK /\ TokenPerResponse
    BY DEF BleInv
  <1> QED
    BY <1>1, BleInvHolds, PTL

\* A device that becomes onboarded has the Wi-Fi data in flash, unless that write
\* failed, and the cloud data it uses.
THEOREM OnboardedIsAlwaysStored == Spec => OnboardedIsStored
  <1> DEFINE Stored == onboarded' /\ ~ onboarded =>
                          /\ "wifi" \in nv' \/ unstored'
                          /\ mem' = "live" => "cloud" \in nv'
  <1>1. BleInv /\ [Next]_vars => [Stored]_vars
    <2> SUFFICES ASSUME BleInv, [Next]_vars, onboarded', ~ onboarded PROVE Stored
      OBVIOUS
    <2>1. RegisteringReports \/ ConnectingReports
      <3>1. CASE WorkThread
        BY <3>1 DEF WorkThread, HandlerFails, _es_deviceinfo_handler,
           _es_keyinfo_handler, ConfirmJunk, ConfirmBegin, ConfirmAtOnce,
           ConfirmButton, ButtonAnswered, _es_confirm_handler,
           _es_wifiscaninfo_handler, _es_cloud_prov_parse_fails,
           _es_wifiprovisioninginfo_handler, _es_setupcomplete_handler, LogHandler,
           cloudVars
      <3>2. CASE \/ iot_easysetup_init \/ iot_easysetup_ble_msg_handler \/ Advance
                 \/ WakeTask \/ ReceiveResponse \/ UNCHANGED vars
        BY <3>2 DEF iot_easysetup_init, iot_easysetup_ble_msg_handler, Advance,
           WakeTask, ReceiveResponse, vars, cloudVars
      <3>3. CASE \/ IOT_COMMAND_CLOUD_REGISTERING \/ IOT_COMMAND_CLOUD_REGISTERED
                 \/ IOT_COMMAND_CLOUD_CONNECTING \/ TimerExpires
                 \/ \E confirm \in BOOLEAN : UserConfirms(confirm)
                 \/ GattJoin \/ GattLeave \/ iot_cleanup
        BY <3>3 DEF IOT_COMMAND_CLOUD_REGISTERING, IOT_COMMAND_CLOUD_REGISTERED,
           IOT_COMMAND_CLOUD_CONNECTING, TimerExpires, UserConfirms, GattJoin,
           GattLeave, iot_cleanup, cloudVars
      <3> QED
        BY <3>1, <3>2, <3>3 DEF Next, WorkThread
    <2>2. PICK status \in {"ok", "bad"} \cup {net} : iot_easysetup_deinit(status)
      BY <2>1 DEF RegisteringReports, ConnectingReports
    <2>3. ready /\ status = "ok"
      BY <2>2 DEF iot_easysetup_deinit
    <2>4. "wifi" \in nv' \/ unstored'
      BY <2>2, <2>3 DEF iot_easysetup_deinit
    <2>5. mem' = mem /\ nv \subseteq nv'
      BY <2>1, <2>2 DEF RegisteringReports, ConnectingReports, iot_easysetup_deinit
    <2> QED
      BY <2>4, <2>5 DEF BleInv, CloudIsStored
  <1> QED
    BY <1>1, BleInvHolds, PTL DEF Spec, OnboardedIsStored

\* The button wait ends with success only on a CONFIRMED given while it lasted,
\* and with failure only on a denial, an answer from before it, or after the 100
\* seconds.
THEOREM ConfirmationAlwaysHasCause == Spec => ConfirmationHasCause
  <1> DEFINE Caused == worker = "button" /\ worker' = "idle" =>
                          IF resp'[Len(resp')].err
                          THEN cause # {} \/ Readable(group, {CONFIRMED, DENIED}) = {}
                          ELSE fresh
  <1>1. BleInv /\ [Next]_vars => [Caused]_vars
    <2> SUFFICES ASSUME BleInv, [Next]_vars, worker = "button", worker' = "idle"
                 PROVE  Caused
      OBVIOUS
    <2>1. PICK late \in BOOLEAN : ButtonAnswered(late)
      BY DEF Next, vars, iot_easysetup_init, iot_easysetup_ble_msg_handler, Advance,
         WakeTask, ReceiveResponse, RegisteringReports, ConnectingReports,
         IOT_COMMAND_CLOUD_REGISTERING, IOT_COMMAND_CLOUD_REGISTERED,
         IOT_COMMAND_CLOUD_CONNECTING, TimerExpires, HandlerFails,
         _es_deviceinfo_handler, _es_keyinfo_handler, ConfirmJunk, ConfirmBegin,
         ConfirmAtOnce, ConfirmButton, _es_confirm_handler, _es_wifiscaninfo_handler,
         _es_cloud_prov_parse_fails, _es_wifiprovisioninginfo_handler,
         _es_setupcomplete_handler, LogHandler, Handling, UserConfirms, GattJoin,
         GattLeave, iot_cleanup
    <2>2. resp' = Append(resp, [step |-> CONFIRMINFO, err |-> ~ confirm_check])
      BY <2>1 DEF ButtonAnswered
    <2>3. /\ resp \in Seq(Response)
          /\ [step |-> CONFIRMINFO, err |-> ~ confirm_check] \in Response
      BY DEF BleInv, TypeOK, Response, CONFIRMINFO, Steps
    <2>4. resp'[Len(resp')].err = ~ confirm_check
      <3> DEFINE e == [step |-> CONFIRMINFO, err |-> ~ confirm_check]
      <3>1. e.err = ~ confirm_check
        OBVIOUS
      <3> HIDE DEF e
      <3>2. e \in Response /\ resp' = Append(resp, e)
        BY <2>2, <2>3 DEF e
      <3>3. Len(resp') = Len(resp) + 1 /\ resp'[Len(resp) + 1] = e
        BY <2>3, <3>2
      <3> QED
        BY <3>1, <3>3
    <2>5. IF ~ confirm_check
          THEN cause # {} \/ Readable(group, {CONFIRMED, DENIED}) = {}
          ELSE fresh
      BY DEF BleInv, Confirms
    <2>6. resp'[Len(resp')].err <=> ~ confirm_check
      BY <2>4
    <2> QED
      BY <2>5, <2>6
  <1> QED
    BY <1>1, BleInvHolds, PTL DEF Spec, ConfirmationHasCause

=============================================================================

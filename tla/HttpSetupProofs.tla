--------------------------- MODULE HttpSetupProofs ---------------------------
(***************************************************************************)
(* For every set of payloads: what the phone is told over HTTP is what the *)
(* device stored (SuccessIsProvisioned), a button confirmation ends for a  *)
(* reason (ConfirmationHasCause), and the response queue, the RESP pipe    *)
(* and the server thread stay in step.                                     *)
(***************************************************************************)
EXTENDS HttpSetup, TLAPS

(* The inductive invariant.                                                *)

\* The request being served came out of es_msg_parser, or there is none.
HttpParsed == http.cmd \in 0 .. 10 /\ http.body[2] \in Payloads \cup {None}

\* The one work on the queue is the request the server thread waits for, and a
\* response is queued only where it is waited for.
OneExchange == /\ request # None => /\ server = "wait" /\ resp = <<>>
                                    /\ request.step = http.cmd
                                    /\ request.body = http.body
               /\ server \notin {"wait", "receive"} => resp = <<>>

\* A RESP bit in the status has its token, though a token may have lost its bit.
RespHasToken == RESP \in group.status => group.pipe[RESP] > 0

\* Between the order check and the increment only a reset touches ref_step.
StepIsChecked == server = "advance" /\ http.cmd < LOG_SYSTEMINFO
                    => seen = http.cmd /\ ref_step \in {0, http.cmd}

\* The handler of WIFIPROVISIONINGINFO reported success on data in use.
ReportedInUse ==
    resp # <<>> /\ resp[1].err = "none" /\ resp[1].step = WIFIPROVISIONINGINFO
       => /\ ram = [wifi |-> http.body[2], cloud |-> http.body[2]]
          /\ nv = ram

\* SETUPCOMPLETE is in turn only behind a provisioning that succeeded, except
\* while that request is still being served.
CompleteIsBehind ==
    /\ ref_step = SETUPCOMPLETE
          => \/ ram # None \/ skipped
             \/ server \in {"wait", "receive"} /\ http.cmd = WIFIPROVISIONINGINFO
    /\ server \in {"advance", "wait", "receive"} /\ http.cmd = SETUPCOMPLETE
          => ram # None \/ skipped

\* The button wait serves CONFIRMINFO; what it finds in the event group was put
\* there after it began, or is a token that was left.
ButtonWaits ==
    worker = "button" =>
       /\ request # None /\ request.step = CONFIRMINFO
       /\ CONFIRMED \in group.status => fresh
       /\ CONFIRMED \notin group.status /\ Readable(group, {CONFIRMED, DENIED}) # {}
             => cause \cap {DENIED, "left"} # {}

SetupInv == /\ TypeOK /\ ReadyIsServed /\ TokenPerResponse
            /\ HttpParsed /\ OneExchange /\ RespHasToken /\ StepIsChecked
            /\ ReportedInUse /\ CompleteIsBehind /\ ButtonWaits

-----------------------------------------------------------------------------
(* What the event group's critical sections do to one bit.                 *)

\* iot_os_eventgroup_set_bits of one bit: it is set, it has a token if it had
\* one or was not set, and the other bits are left alone.
LEMMA SetOneBit ==
    ASSUME NEW g \in GroupType(Bits), NEW b \in Bits
    PROVE  LET h == SetBits(g, {b})
           IN  /\ h \in GroupType(Bits)
               /\ h.status = g.status \cup {b}
               /\ h.pipe[b] = IF b \in g.status THEN g.pipe[b] ELSE g.pipe[b] + 1
               /\ \A c \in Bits \ {b} : h.pipe[c] = g.pipe[c]
  BY DEF SetBits, GroupType

\* iot_os_eventgroup_clear_bits: the status byte only.
LEMMA ClearSomeBits ==
    ASSUME NEW g \in GroupType(Bits), NEW s \in SUBSET Bits
    PROVE  LET h == ClearBits(g, s)
           IN  /\ h \in GroupType(Bits)
               /\ h.status = g.status \ s
               /\ h.pipe = g.pipe
  BY DEF ClearBits, GroupType

-----------------------------------------------------------------------------
\* es_msg_parser and http_packet_read_remaining: whatever was read, the body's
\* data is a payload or none.
LEMMA ParsedRequest ==
    ASSUME NEW r \in es_msg_parser, NEW pieces \in 1 .. 2,
           NEW h, h = [r EXCEPT !.body = http_packet_read_remaining(@, pieces)]
    PROVE  h.cmd \in 0 .. 10 /\ h.body[2] \in Payloads \cup {None}
  <1> USE DEF DEVICEINFO, KEYINFO, CONFIRMINFO, CONFIRM, WIFISCANINFO,
              WIFIPROVISIONINGINFO, SETUPCOMPLETE, LOG_SYSTEMINFO,
              LOG_CREATE_DUMP, LOG_GET_DUMP, INVALID_STEP
  <1>1. \A c \in 0 .. 10 : \A b \in Bodies(c) \cup {Null} :
           b[2] \in Payloads \cup {None}
    <2> TAKE c \in 0 .. 10
    <2>1. \A S : \A b \in S \X {None} : b[2] = None
      OBVIOUS
    <2>2. \A S : \A b \in S \X Payloads : b[2] \in Payloads
      OBVIOUS
    <2>3. CASE c = CONFIRMINFO
      BY <2>1, <2>3 DEF Bodies, Null
    <2>4. CASE c = WIFIPROVISIONINGINFO
      BY <2>2, <2>4 DEF Bodies, Null
    <2>5. CASE c \notin {CONFIRMINFO, WIFIPROVISIONINGINFO}
      BY <2>5 DEF Bodies, Null
    <2> QED
      BY <2>3, <2>4, <2>5
  <1>2. r.cmd \in 0 .. 10 /\ r.body[2] \in Payloads \cup {None}
    <2>1. CASE r \in GetRequests \cup ParseErrors
      BY <2>1 DEF GetRequests, ParseErrors, Null
    <2>2. ASSUME NEW c \in PostSteps, r \in PostRequests(c)
          PROVE  r.cmd \in 0 .. 10 /\ r.body[2] \in Payloads \cup {None}
      <3>1. c \in 0 .. 10
        BY DEF PostSteps
      <3> QED
        BY <1>1, <2>2, <3>1 DEF PostRequests
    <2> QED
      BY <2>1, <2>2 DEF es_msg_parser
  <1>3. h.cmd = r.cmd /\ h.body \in {r.body, Torn}
    BY DEF es_msg_parser, GetRequests, PostRequests, ParseErrors,
           http_packet_read_remaining
  <1> QED
    BY <1>2, <1>3 DEF Torn

-----------------------------------------------------------------------------
\* The server thread is not started and nothing is stored.
LEMMA InitSetupInv == Init => SetupInv
  <1> SUFFICES ASSUME Init PROVE SetupInv
    OBVIOUS
  <1> USE HttpSetupAssumption
  <1>1. group \in GroupType(Bits) /\ group.pipe[RESP] = 0 /\ group.status = {}
    BY DEF Init, EmptyGroup, GroupType, Bits
  <1>2. {deinitFlag, ready, cbOn, done, skipped, refused, fresh} \subseteq BOOLEAN
    BY DEF Init
  <1>3. nv \in Data
    BY DEF Init, Data, NoData
  <1>4. TypeOK
    BY <1>1, <1>2, <1>3 DEF Init, TypeOK, Features
  <1>5. ReadyIsServed /\ RespHasToken
    BY <1>1 DEF Init, ReadyIsServed, RespHasToken
  <1>6. TokenPerResponse /\ OneExchange /\ ReportedInUse
    BY <1>1 DEF Init, TokenPerResponse, OneExchange, ReportedInUse
  <1>7. HttpParsed /\ StepIsChecked /\ CompleteIsBehind
    BY DEF Init, HttpParsed, StepIsChecked, CompleteIsBehind, NoRequest,
           INVALID_STEP, LOG_SYSTEMINFO, SETUPCOMPLETE
  <1>8. ButtonWaits
    BY DEF Init, ButtonWaits
  <1> QED
    BY <1>4, <1>5, <1>6, <1>7, <1>8 DEF SetupInv

-----------------------------------------------------------------------------
\* The tail of iot_easysetup_request_handler: a handler that answers the request
\* with the error err keeps the invariant, if it touches the data in use only on
\* WIFIPROVISIONINGINFO and then succeeds only with this request's data in use.
LEMMA AnswerKeepsSetupInv ==
    ASSUME SetupInv, request # None,
           NEW err \in {"none", "fail"}, NEW payload \in BOOLEAN,
           NEW g \in GroupType(Bits),
           g.pipe[RESP] = group.pipe[RESP], RESP \in g.status => RESP \in group.status,
           resp' = Append(resp, [step |-> request.step, err |-> err,
                                 payload |-> payload]),
           group' = SetBits(g, {RESP}), request' = None, worker' = "idle",
           UNCHANGED <<server, http, seen, done, ready, cbOn, deinitFlag, refused,
                       ref_step, skipped>>,
           fresh' \in BOOLEAN, cause' \subseteq {CONFIRMED, DENIED, "left"},
           cipher' = None \/ cipher' \subseteq {"iv", "key"},
           feature' \in Features, nv' \in Data, ram' = None \/ ram' \in Data,
           request.step # WIFIPROVISIONINGINFO => ram' = ram,
           err = "none" /\ request.step = WIFIPROVISIONINGINFO
              => /\ ram' = [wifi |-> request.body[2], cloud |-> request.body[2]]
                 /\ nv' = ram'
    PROVE  SetupInv'
  <1> USE DEF SetupInv
  <1>1. /\ server = "wait" /\ resp = <<>>
        /\ request.step = http.cmd /\ request.body = http.body
        /\ http.cmd \in 0 .. 10
    BY DEF OneExchange, HttpParsed
  <1>2. /\ resp' = <<[step |-> http.cmd, err |-> err, payload |-> payload]>>
        /\ Len(resp') = 1 /\ resp'[1].err = err /\ resp'[1].step = http.cmd
    BY <1>1
  <1>3. resp' \in Seq(Response)
    BY <1>1, <1>2 DEF Response
  <1>4. RESP \in Bits /\ g.pipe[RESP] = 0 /\ RESP \notin g.status
    <2>1. RESP \in Bits
      BY DEF Bits
    <2>2. group.pipe[RESP] \in Nat
      BY <2>1 DEF TypeOK, GroupType
    <2>3. group.pipe[RESP] = 0
      BY <1>1, <2>2 DEF TokenPerResponse
    <2> QED
      BY <2>1, <2>3 DEF RespHasToken
  <1>5. group' \in GroupType(Bits) /\ group'.pipe[RESP] = 1
    <2>1. LET h == SetBits(g, {RESP})
          IN  /\ h \in GroupType(Bits)
              /\ h.pipe[RESP] = IF RESP \in g.status THEN g.pipe[RESP]
                                                     ELSE g.pipe[RESP] + 1
      BY <1>4, SetOneBit
    <2> QED
      BY <1>4, <2>1
  <1>6. TypeOK'
    <2>1. {deinitFlag', ready', cbOn', done', skipped', refused', fresh'}
             \subseteq BOOLEAN
      BY DEF TypeOK
    <2> QED
      BY <1>2, <1>3, <1>5, <2>1 DEF TypeOK
  <1>7. ReadyIsServed'
    BY DEF ReadyIsServed
  <1>12. HttpParsed'
    BY DEF HttpParsed
  <1>8. TokenPerResponse' /\ OneExchange' /\ RespHasToken'
    BY <1>1, <1>2, <1>5 DEF TokenPerResponse, OneExchange, RespHasToken
  <1>9. StepIsChecked' /\ ReportedInUse'
    BY <1>1, <1>2 DEF StepIsChecked, ReportedInUse
  <1>10. CompleteIsBehind'
    BY <1>1 DEF CompleteIsBehind, SETUPCOMPLETE, WIFIPROVISIONINGINFO
  <1>11. ButtonWaits'
    BY DEF ButtonWaits
  <1> QED
    BY <1>6, <1>7, <1>8, <1>9, <1>10, <1>11, <1>12

\* The handlers on the work thread.
LEMMA HandlersKeepSetupInv == SetupInv /\ WorkThread => SetupInv'
  <1> SUFFICES ASSUME SetupInv, WorkThread PROVE SetupInv'
    OBVIOUS
  <1>type. /\ group \in GroupType(Bits) /\ feature \in Features
           /\ fresh \in BOOLEAN /\ cause \subseteq {CONFIRMED, DENIED, "left"}
           /\ cipher = None \/ cipher \subseteq {"iv", "key"}
           /\ nv \in Data /\ (ram = None \/ ram \in Data)
    BY DEF SetupInv, TypeOK
  <1>steps. {DEVICEINFO, KEYINFO, CONFIRMINFO, CONFIRM, WIFISCANINFO, SETUPCOMPLETE}
               \cap {WIFIPROVISIONINGINFO} = {}
    BY DEF DEVICEINFO, KEYINFO, CONFIRMINFO, CONFIRM, WIFISCANINFO, SETUPCOMPLETE,
           WIFIPROVISIONINGINFO
  <1>body. request # None => request.body[2] \in Payloads \cup {None}
    BY DEF SetupInv, OneExchange, HttpParsed
  \* A handler that leaves the data and the group's other bits alone.
  <1>plain. ASSUME request # None, worker = "idle",
                   NEW err \in {"none", "fail"}, NEW payload \in BOOLEAN,
                   err = "none" => request.step # WIFIPROVISIONINGINFO,
                   Respond(err, payload), UNCHANGED <<handlerFrame, workVars>>,
                   cipher' = None \/ cipher' \subseteq {"iv", "key"}
            PROVE  SetupInv'
    <2>1. UNCHANGED <<server, http, seen, done, ready, cbOn, deinitFlag, refused,
                      ref_step, skipped, fresh, worker, feature, nv, ram, cause>>
      BY <1>plain DEF handlerFrame, workVars
    <2> QED
      BY <1>plain, <1>type, <2>1, AnswerKeepsSetupInv DEF Respond
  <1>1. CASE HandlerFails
    BY <1>1, <1>plain, <1>type DEF HandlerFails
  <1>2. CASE _es_deviceinfo_handler
    BY <1>2, <1>plain, <1>type, <1>steps
    DEF _es_deviceinfo_handler, Handling, _es_crypto_cipher_gen_iv
  <1>3. CASE _es_keyinfo_handler
    BY <1>3, <1>plain, <1>type, <1>steps
    DEF _es_keyinfo_handler, Handling, KeyInfoTime
  <1>4. CASE _es_confirm_handler
    BY <1>4, <1>plain, <1>type, <1>steps DEF _es_confirm_handler, Handling
  <1>5. CASE _es_wifiscaninfo_handler
    BY <1>5, <1>plain, <1>type, <1>steps
    DEF _es_wifiscaninfo_handler, Handling, _es_build_output_data, _encrypt_and_encode
  <1>6. CASE _es_setupcomplete_handler
    BY <1>6, <1>plain, <1>type, <1>steps
    DEF _es_setupcomplete_handler, Handling, _es_build_output_data, _encrypt_and_encode
  <1>7. CASE LogHandler
    <2>1. request # None /\ request.step # WIFIPROVISIONINGINFO
      BY <1>7 DEF LogHandler, LOG_SYSTEMINFO, LOG_GET_DUMP, WIFIPROVISIONINGINFO
    <2> QED
      BY <1>7, <2>1, <1>plain, <1>type DEF LogHandler
  \* The two outcomes of provisioning that reach the flash.
  <1>8. CASE _es_cloud_prov_parse_fails
    <2>1. nv' \in Data
      BY <1>8, <1>type, <1>body DEF _es_cloud_prov_parse_fails, Handling, Data
    <2>2. /\ request # None /\ worker = "idle" /\ UNCHANGED <<ram, cipher, worker,
                feature, cause>>
          /\ UNCHANGED <<server, http, seen, done, ready, cbOn, deinitFlag,
                         refused, ref_step, skipped, fresh>>
      BY <1>8 DEF _es_cloud_prov_parse_fails, Handling, handlerFrame
    <2> QED
      BY <1>8, <1>type, <2>1, <2>2, AnswerKeepsSetupInv
      DEF _es_cloud_prov_parse_fails, Respond
  <1>9. CASE _es_wifiprovisioninginfo_handler
    <2>1. nv' \in Data /\ nv' = [wifi |-> request.body[2], cloud |-> request.body[2]]
      BY <1>9, <1>body DEF _es_wifiprovisioninginfo_handler, Handling, Data
    <2>2. /\ request # None /\ worker = "idle" /\ request.step = WIFIPROVISIONINGINFO
          /\ UNCHANGED <<cipher, worker, feature, cause>>
          /\ UNCHANGED <<server, http, seen, done, ready, cbOn, deinitFlag,
                         refused, ref_step, skipped, fresh>>
      BY <1>9 DEF _es_wifiprovisioninginfo_handler, Handling, handlerFrame
    <2>3. CASE ram' = nv' /\ Respond("none", TRUE)
      BY <2>3, <1>type, <2>1, <2>2, AnswerKeepsSetupInv DEF Respond
    <2>4. CASE ram' = None /\ Respond("fail", FALSE)
      BY <2>4, <1>type, <2>1, <2>2, AnswerKeepsSetupInv DEF Respond
    <2> QED
      BY <1>9, <2>3, <2>4 DEF _es_wifiprovisioninginfo_handler
  <1>bits. /\ RESP \in Bits /\ {CONFIRMED, DENIED} \in SUBSET Bits
           /\ RESP \notin {CONFIRMED, DENIED}
    BY DEF Bits, RESP, CONFIRMED, DENIED
  <1>clear. /\ ConfirmCleared \in GroupType(Bits)
            /\ ConfirmCleared.status = group.status \ {CONFIRMED, DENIED}
            /\ ConfirmCleared.pipe = group.pipe
    BY <1>type, <1>bits, ClearSomeBits DEF ConfirmCleared
  <1>10. CASE ConfirmAtOnce
    <2>1. PICK err \in {"none", "fail"} :
             /\ resp' = Append(resp, [step |-> CONFIRMINFO, err |-> err,
                                      payload |-> err = "none"])
             /\ group' = SetBits(ConfirmCleared, {RESP})
      BY <1>10 DEF ConfirmAtOnce
    <2>2. /\ request # None /\ worker = "idle" /\ request.step = CONFIRMINFO
          /\ request' = None /\ UNCHANGED <<cipher, worker, nv, ram, cause>>
          /\ UNCHANGED <<server, http, seen, done, ready, cbOn, deinitFlag,
                         refused, ref_step, skipped, fresh>>
      BY <1>10 DEF ConfirmAtOnce, Handling, handlerFrame
    <2>3. feature' \in Features
      BY <1>10 DEF ConfirmAtOnce, Features
    <2> QED
      BY <1>type, <1>steps, <1>clear, <1>bits, <2>1, <2>2, <2>3,
         AnswerKeepsSetupInv
  <1>11. CASE ConfirmButton
    <2>1. /\ request # None /\ request.step = CONFIRMINFO /\ worker' = "button"
          /\ feature' = "button" /\ group' = ConfirmCleared
          /\ UNCHANGED <<server, http, seen, done, ready, cbOn, deinitFlag,
                         refused, ref_step, skipped, cipher, request, resp, nv, ram>>
      BY <1>11 DEF ConfirmButton, Handling
    <2>2. fresh' = FALSE
      BY <1>11 DEF ConfirmButton
    <2>3. cause' = IF Readable(group, {CONFIRMED, DENIED}) # {} THEN {"left"} ELSE {}
      BY <1>11 DEF ConfirmButton
    <2>4. TypeOK'
      <3>1. {deinitFlag', ready', cbOn', done', skipped', refused', fresh'}
               \subseteq BOOLEAN
        BY <2>1, <2>2 DEF SetupInv, TypeOK
      <3> QED
        BY <2>1, <2>3, <1>clear, <3>1 DEF SetupInv, TypeOK, Features
    <2>5. ReadyIsServed'
      BY <2>1 DEF SetupInv, ReadyIsServed
    <2>6. /\ TokenPerResponse' /\ HttpParsed' /\ OneExchange' /\ RespHasToken'
      BY <2>1, <1>clear, <1>bits
      DEF SetupInv, TokenPerResponse, HttpParsed, OneExchange, RespHasToken
    <2>7. StepIsChecked' /\ ReportedInUse'
      BY <2>1 DEF SetupInv, StepIsChecked, ReportedInUse
    <2>8. CompleteIsBehind'
      BY <2>1 DEF SetupInv, CompleteIsBehind
    <2>9. ButtonWaits'
      BY <2>1, <2>3, <1>clear DEF ButtonWaits, Readable
    <2> QED
      BY <2>4, <2>5, <2>6, <2>7, <2>8, <2>9 DEF SetupInv
  <1>12. ASSUME NEW late \in BOOLEAN, ButtonAnswered(late) PROVE SetupInv'
    <2> DEFINE r == Readable(group, {CONFIRMED, DENIED})
               ok == CONFIRMED \in group.status
    <2>1. /\ resp' = Append(resp, [step |-> CONFIRMINFO,
                                   err |-> IF ok THEN "none" ELSE "fail",
                                   payload |-> ok /\ _es_build_output_data])
          /\ group' = SetBits(ReadBits(group, r, {}), {RESP})
          /\ worker = "button" /\ worker' = "idle" /\ request' = None /\ cause' = {}
          /\ UNCHANGED <<server, http, seen, done, ready, cbOn, deinitFlag,
                         refused, ref_step, skipped, cipher, feature, nv, ram>>
      BY <1>12 DEF ButtonAnswered
    <2>2. fresh' \in BOOLEAN
      BY <1>12 DEF ButtonAnswered
    <2>3. request # None /\ request.step = CONFIRMINFO
      BY <2>1 DEF SetupInv, ButtonWaits
    <2>4. r \in SUBSET Bits /\ RESP \notin r /\ \A b \in r : group.pipe[b] > 0
      BY <1>bits DEF Readable
    <2>5. /\ ReadBits(group, r, {}) \in GroupType(Bits)
          /\ ReadBits(group, r, {}).status = group.status
          /\ ReadBits(group, r, {}).pipe[RESP] = group.pipe[RESP]
      <3> HIDE DEF r
      <3> QED
        BY <1>type, <1>bits, <2>4 DEF ReadBits, GroupType
    <2>6. (ok /\ _es_build_output_data) \in BOOLEAN
      BY DEF _es_build_output_data, _encrypt_and_encode
    <2> QED
      BY <1>type, <1>steps, <2>1, <2>2, <2>3, <2>5, <2>6, AnswerKeepsSetupInv
  <1> QED
    BY <1>1, <1>2, <1>3, <1>4, <1>5, <1>6, <1>7, <1>8, <1>9, <1>10, <1>11, <1>12
    DEF WorkThread

\* es_tcp_task with the order check and the response: the server thread.
LEMMA ServerKeepsSetupInv ==
    SetupInv /\ (\/ es_tcp_task \/ port_net_listen \/ ReadRequest \/ CheckOrder
                 \/ Advance \/ WakeServer \/ ReceiveResponse)
       => SetupInv'
  <1> SUFFICES ASSUME SetupInv,
                      \/ es_tcp_task \/ port_net_listen \/ ReadRequest \/ CheckOrder
                      \/ Advance \/ WakeServer \/ ReceiveResponse
               PROVE  SetupInv'
    OBVIOUS
  <1> USE DEF SetupInv, DEVICEINFO, KEYINFO, CONFIRMINFO, CONFIRM, WIFISCANINFO,
              WIFIPROVISIONINGINFO, SETUPCOMPLETE, LOG_SYSTEMINFO, INVALID_STEP
  <1>0. RESP \in Bits /\ group.pipe[RESP] \in Nat
    BY DEF TypeOK, GroupType, Bits
  \* Between two exchanges there is neither work nor response.
  <1>between. ASSUME server \notin {"wait", "receive"}
              PROVE  request = None /\ resp = <<>> /\ worker = "idle"
    BY <1>between DEF OneExchange, ButtonWaits, TypeOK
  <1>1. CASE es_tcp_task
    <2>1. /\ server = "top" /\ server' \in {"none", "listen"}
          /\ UNCHANGED <<deinitFlag, http, seen, ref_step, ready, cbOn, cipher,
                worker, request, resp, group, feature, nv, ram, skipped, refused,
                fresh, cause>>
      BY <1>1 DEF es_tcp_task, shared, workVars
    <2>2. TypeOK'
      <3>1. done' \in BOOLEAN
        BY <1>1 DEF es_tcp_task
      <3> QED
        BY <2>1, <3>1 DEF TypeOK
    <2>3. ReadyIsServed'
      BY <1>1, <2>1 DEF es_tcp_task, ReadyIsServed
    <2>4. TokenPerResponse' /\ HttpParsed' /\ OneExchange' /\ RespHasToken'
      BY <2>1, <1>between DEF TokenPerResponse, HttpParsed, OneExchange, RespHasToken
    <2>5. StepIsChecked' /\ ReportedInUse' /\ CompleteIsBehind'
      BY <2>1, <1>between DEF StepIsChecked, ReportedInUse, CompleteIsBehind
    <2>6. ButtonWaits'
      BY <2>1, <1>between DEF ButtonWaits
    <2> QED
      BY <2>2, <2>3, <2>4, <2>5, <2>6
  <1>2. CASE port_net_listen
    <2>1. /\ server = "listen" /\ server' \in {"read", "top"}
          /\ UNCHANGED <<deinitFlag, http, seen, ref_step, ready, cbOn, cipher,
                worker, request, resp, group, feature, nv, ram, done, skipped,
                refused, fresh, cause>>
      BY <1>2 DEF port_net_listen, shared, workVars
    <2>2. TypeOK'
      BY <2>1 DEF TypeOK
    <2>3. ReadyIsServed'
      BY <2>1 DEF ReadyIsServed
    <2>4. TokenPerResponse' /\ HttpParsed' /\ OneExchange' /\ RespHasToken'
      BY <2>1, <1>between DEF TokenPerResponse, HttpParsed, OneExchange, RespHasToken
    <2>5. StepIsChecked' /\ ReportedInUse' /\ CompleteIsBehind'
      BY <2>1, <1>between DEF StepIsChecked, ReportedInUse, CompleteIsBehind
    <2>6. ButtonWaits'
      BY <2>1, <1>between DEF ButtonWaits
    <2> QED
      BY <2>2, <2>3, <2>4, <2>5, <2>6
  <1>3. CASE ReadRequest
    <2>1. /\ server = "read" /\ server' \in {"check", "top"}
          /\ UNCHANGED <<deinitFlag, seen, ref_step, ready, cbOn, cipher,
                worker, request, resp, group, feature, nv, ram, skipped,
                refused, fresh, cause>>
      BY <1>3 DEF ReadRequest, shared, workVars
    <2>2. TypeOK'
      <3>1. done' \in BOOLEAN
        BY <1>3 DEF ReadRequest, TypeOK
      <3> QED
        BY <2>1, <3>1 DEF TypeOK
    <2>3. ReadyIsServed'
      BY <2>1 DEF ReadyIsServed
    <2>4. HttpParsed'
      <3>1. CASE UNCHANGED http
        BY <3>1 DEF HttpParsed
      <3>2. ASSUME NEW r \in es_msg_parser, NEW pieces \in 1 .. 2,
                   http' = [r EXCEPT !.body = http_packet_read_remaining(@, pieces)]
            PROVE  HttpParsed'
        BY <3>2, ParsedRequest DEF HttpParsed
      <3> QED
        BY <1>3, <3>1, <3>2 DEF ReadRequest
    <2>5. TokenPerResponse' /\ OneExchange' /\ RespHasToken'
      BY <2>1, <1>between DEF TokenPerResponse, OneExchange, RespHasToken
    <2>6. StepIsChecked' /\ ReportedInUse' /\ CompleteIsBehind'
      BY <2>1, <1>between DEF StepIsChecked, ReportedInUse, CompleteIsBehind
    <2>7. ButtonWaits'
      BY <2>1, <1>between DEF ButtonWaits
    <2> QED
      BY <2>2, <2>3, <2>4, <2>5, <2>6, <2>7
  \* An answer ends the exchange.
  <1>answer. ASSUME NEW err, NEW payload, Answer(err, payload)
             PROVE  /\ server' \in {"read", "top"} /\ seen' = 0
                    /\ http'.cmd = INVALID_STEP /\ HttpParsed'
    BY <1>answer DEF Answer, NoRequest, HttpParsed
  <1>4. CASE CheckOrder
    <2>1. /\ server = "check"
          /\ UNCHANGED <<deinitFlag, ready, cbOn, cipher, worker, request, resp,
                group, feature, nv, ram, done, skipped, refused, fresh, cause>>
      BY <1>4 DEF CheckOrder, shared, workVars
    <2>2. \/ /\ server' \in {"read", "top"} /\ seen' = 0 /\ HttpParsed'
             /\ ref_step' \in {0, ref_step}
          \/ /\ server' = "advance" /\ UNCHANGED http /\ InTurn(http)
             /\ ref_step' = IF http.cmd < LOG_SYSTEMINFO THEN http.cmd ELSE ref_step
             /\ seen' = ref_step'
      BY <1>4, <1>answer DEF CheckOrder
    <2>3. HttpParsed' /\ http.cmd \in 0 .. 10
      BY <2>2 DEF HttpParsed
    <2>4. ref_step' \in 0 .. 7 /\ seen' \in 0 .. 7
      BY <2>2, <2>3 DEF TypeOK
    <2>5. TypeOK'
      BY <2>1, <2>2, <2>4 DEF TypeOK
    <2>6. ReadyIsServed'
      BY <2>1, <2>2 DEF ReadyIsServed
    <2>7. TokenPerResponse' /\ OneExchange' /\ RespHasToken'
      BY <2>1, <2>2, <1>between DEF TokenPerResponse, OneExchange, RespHasToken
    <2>8. StepIsChecked' /\ ReportedInUse'
      BY <2>1, <2>2, <1>between DEF StepIsChecked, ReportedInUse
    <2>9. CompleteIsBehind'
      BY <2>1, <2>2, <2>3, <1>between DEF CompleteIsBehind, InTurn, TypeOK
    <2>10. ButtonWaits'
      BY <2>1, <1>between DEF ButtonWaits
    <2> QED
      BY <2>3, <2>5, <2>6, <2>7, <2>8, <2>9, <2>10
  <1>5. CASE Advance
    <2>1. /\ server = "advance" /\ ref_step' \in Advanced
          /\ UNCHANGED <<deinitFlag, ready, cbOn, cipher, worker, resp, group,
                feature, nv, ram, done, refused, fresh, cause>>
      BY <1>5 DEF Advance, shared, workVars
    <2>2. \/ /\ server' = "wait" /\ seen' = 0 /\ UNCHANGED <<http, skipped>>
             /\ request' = [step |-> http.cmd, body |-> http.body]
          \/ /\ server' \in {"read", "top"} /\ seen' = 0 /\ HttpParsed'
             /\ skipped' = TRUE /\ UNCHANGED request
      BY <1>5, <1>answer DEF Advance
    <2>3. HttpParsed' /\ http.cmd \in 0 .. 10
      BY <2>2 DEF HttpParsed
    <2>4. /\ ref_step' \in 0 .. 7
          /\ ref_step' = SETUPCOMPLETE => http.cmd = WIFIPROVISIONINGINFO
      BY <2>1, <2>3 DEF Advanced, StepIsChecked
    <2>5. skipped' \in BOOLEAN
      <3>1. skipped \in BOOLEAN
        BY DEF TypeOK
      <3> QED
        BY <2>2, <3>1
    <2>6. TypeOK'
      <3>1. seen' \in 0 .. 7 /\ server' \in {"wait", "read", "top"}
        BY <2>2
      <3> QED
        BY <2>1, <2>4, <2>5, <3>1 DEF TypeOK
    <2>7. ReadyIsServed'
      BY <2>1, <2>2 DEF ReadyIsServed
    <2>8. TokenPerResponse' /\ OneExchange' /\ RespHasToken'
      BY <2>1, <2>2, <1>between DEF TokenPerResponse, OneExchange, RespHasToken
    <2>9. StepIsChecked' /\ ReportedInUse'
      BY <2>1, <2>2, <1>between DEF StepIsChecked, ReportedInUse
    <2>10. CompleteIsBehind'
      <3>1. CASE skipped' = TRUE
        BY <3>1 DEF CompleteIsBehind
      <3>2. CASE server' = "wait" /\ UNCHANGED <<http, skipped>>
        BY <2>1, <2>4, <3>2 DEF CompleteIsBehind
      <3> QED
        BY <2>2, <3>1, <3>2
    <2>11. ButtonWaits'
      BY <2>1, <1>between DEF ButtonWaits
    <2> QED
      BY <2>3, <2>6, <2>7, <2>8, <2>9, <2>10, <2>11
  <1>6. CASE WakeServer
    <2>1. /\ server = "wait" /\ server' = "receive"
          /\ group' = ReadBits(group, {RESP}, {RESP})
          /\ UNCHANGED <<deinitFlag, http, seen, ref_step, ready, cbOn, cipher,
                worker, request, resp, feature, nv, ram, done, skipped, refused,
                fresh, cause>>
      BY <1>6 DEF WakeServer, shared, workVars
    <2>2. group.pipe[RESP] > 0
      BY <1>6 DEF WakeServer, Readable
    <2>3. /\ group' \in GroupType(Bits) /\ RESP \notin group'.status
          /\ group'.pipe[RESP] = group.pipe[RESP] - 1
      BY <1>0, <2>1, <2>2 DEF ReadBits, GroupType, TypeOK
    <2>4. resp # <<>> /\ Len(resp) = 1
      BY <1>0, <2>1, <2>2 DEF TokenPerResponse, TypeOK
    <2>5. request = None /\ worker = "idle"
      BY <2>4 DEF OneExchange, ButtonWaits, TypeOK
    <2>6. TypeOK'
      BY <2>1, <2>3 DEF TypeOK
    <2>7. ReadyIsServed'
      BY <2>1 DEF ReadyIsServed
    <2>8. TokenPerResponse' /\ HttpParsed' /\ OneExchange' /\ RespHasToken'
      BY <1>0, <2>1, <2>3, <2>5
      DEF TokenPerResponse, HttpParsed, OneExchange, RespHasToken
    <2>9. StepIsChecked' /\ ReportedInUse' /\ CompleteIsBehind'
      BY <2>1 DEF StepIsChecked, ReportedInUse, CompleteIsBehind
    <2>10. ButtonWaits'
      BY <2>1, <2>5 DEF ButtonWaits
    <2> QED
      BY <2>6, <2>7, <2>8, <2>9, <2>10
  <1>7. CASE ReceiveResponse
    <2> DEFINE r == Head(resp)
               err == IF resp = <<>> \/ r.step # http.cmd THEN "fail" ELSE r.err
    <2>0. /\ server' \in {"read", "top"} /\ seen' = 0 /\ HttpParsed'
          /\ done' = TRUE \/ done' = done
      BY <1>7, <1>answer DEF ReceiveResponse
    <2>1. /\ server = "receive"
          /\ resp' = IF resp = <<>> THEN <<>> ELSE Tail(resp)
          /\ ref_step' = IF err # "none" THEN 0 ELSE ref_step
          /\ UNCHANGED <<deinitFlag, ready, cbOn, cipher, worker, request, group,
                feature, nv, ram, skipped, refused, fresh, cause>>
      BY <1>7 DEF ReceiveResponse, shared, workVars
    <2>b. done' \in BOOLEAN
      <3>1. done \in BOOLEAN
        BY DEF TypeOK
      <3> QED
        BY <2>0, <3>1
    <2>2. Len(resp) = 1 /\ group.pipe[RESP] = 0 /\ resp # <<>> /\ r = resp[1]
      BY <1>0, <2>1 DEF TokenPerResponse, TypeOK
    <2>3. resp' = <<>>
      BY <2>1, <2>2 DEF TypeOK
    <2>4. request = None /\ worker = "idle"
      BY <2>2 DEF OneExchange, ButtonWaits, TypeOK
    <2>5. TypeOK'
      BY <2>0, <2>b, <2>1, <2>3 DEF TypeOK
    <2>6. ReadyIsServed'
      BY <2>0, <2>1 DEF ReadyIsServed
    <2>7. TokenPerResponse' /\ OneExchange' /\ RespHasToken'
      BY <2>0, <2>1, <2>2, <2>3, <2>4 DEF TokenPerResponse, OneExchange, RespHasToken
    <2>8. StepIsChecked' /\ ReportedInUse'
      BY <2>0, <2>3 DEF StepIsChecked, ReportedInUse
    <2>9. CompleteIsBehind'
      <3>1. ASSUME ref_step' = SETUPCOMPLETE, http.cmd = WIFIPROVISIONINGINFO
            PROVE  ram # None
        <4>1. r.step = WIFIPROVISIONINGINFO /\ r.err = "none"
          BY <2>1, <3>1
        <4>2. ram = [wifi |-> http.body[2], cloud |-> http.body[2]]
          BY <2>2, <4>1 DEF ReportedInUse
        <4>3. ram \in Data
          BY <4>2 DEF HttpParsed, Data
        <4> QED
          BY <4>3, HttpSetupAssumption
      <3>2. ref_step' = SETUPCOMPLETE => ram # None \/ skipped
        BY <2>1, <3>1 DEF CompleteIsBehind
      <3> QED
        BY <2>0, <2>1, <3>2 DEF CompleteIsBehind
    <2>10. ButtonWaits'
      BY <2>1, <2>4 DEF ButtonWaits
    <2> QED
      BY <2>0, <2>5, <2>6, <2>7, <2>8, <2>9, <2>10
  <1> QED
    BY <1>1, <1>2, <1>3, <1>4, <1>5, <1>6, <1>7

\* iot_easysetup_init and the two ways to iot_easysetup_deinit, which clear the
\* RESP bit and leave its token.
LEMMA OpenCloseKeepsSetupInv ==
    SetupInv /\ (iot_easysetup_init \/ LeaveSoftAp \/ iot_cleanup) => SetupInv'
  <1> SUFFICES ASSUME SetupInv, iot_easysetup_init \/ LeaveSoftAp \/ iot_cleanup
               PROVE  SetupInv'
    OBVIOUS
  <1> USE DEF SetupInv
  <1>1. CASE iot_easysetup_init
    <2>1. UNCHANGED <<http, seen, worker, request, resp, group, feature, nv, ram,
                      done, skipped, fresh, cause>>
      BY <1>1 DEF iot_easysetup_init
    <2>2. \/ /\ cipher' = {} /\ ref_step' = 0 /\ cbOn' = TRUE /\ es_http_init
             /\ ready' = TRUE
          \/ UNCHANGED <<cipher, ref_step, cbOn, deinitFlag, refused, server, ready>>
      BY <1>1 DEF iot_easysetup_init
    <2>3. CASE UNCHANGED <<cipher, ref_step, cbOn, deinitFlag, refused, server, ready>>
      <3>1. TypeOK' /\ ReadyIsServed' /\ TokenPerResponse'
        BY <2>1, <2>3 DEF TypeOK, ReadyIsServed, TokenPerResponse
      <3>2. HttpParsed' /\ OneExchange' /\ RespHasToken' /\ ReportedInUse'
        BY <2>1, <2>3 DEF HttpParsed, OneExchange, RespHasToken, ReportedInUse
      <3>3. StepIsChecked' /\ CompleteIsBehind' /\ ButtonWaits'
        BY <2>1, <2>3 DEF StepIsChecked, CompleteIsBehind, ButtonWaits
      <3> QED
        BY <3>1, <3>2, <3>3
    <2>4. CASE /\ cipher' = {} /\ ref_step' = 0 /\ cbOn' = TRUE /\ es_http_init
               /\ ready' = TRUE
      <3>1. \/ refused' = TRUE /\ UNCHANGED <<deinitFlag, server>>
            \/ /\ deinitFlag' = FALSE /\ refused' = FALSE
               /\ server = "none" /\ server' = "top"
        BY <2>4 DEF es_http_init
      <3>2. {deinitFlag', ready', cbOn', done', skipped', refused', fresh'}
               \subseteq BOOLEAN
        BY <2>1, <2>4, <3>1 DEF TypeOK
      <3>3. /\ server' = server \/ (server = "none" /\ server' = "top")
            /\ server' \in {"none", "top", "listen", "read", "check", "advance",
                            "wait", "receive"}
        BY <3>1 DEF TypeOK
      <3>4. TypeOK'
        BY <2>1, <2>4, <3>2, <3>3 DEF TypeOK
      <3>5. ReadyIsServed'
        BY <3>1 DEF ReadyIsServed
      <3>6. HttpParsed' /\ OneExchange' /\ RespHasToken' /\ TokenPerResponse'
        BY <2>1, <3>3 DEF HttpParsed, OneExchange, RespHasToken, TokenPerResponse
      <3>7. StepIsChecked' /\ CompleteIsBehind'
        BY <2>1, <2>4, <3>3 DEF StepIsChecked, CompleteIsBehind, SETUPCOMPLETE
      <3>8. ReportedInUse' /\ ButtonWaits'
        BY <2>1 DEF ReportedInUse, ButtonWaits
      <3> QED
        BY <3>4, <3>5, <3>6, <3>7, <3>8
    <2> QED
      BY <2>2, <2>3, <2>4
  <1>2. CASE LeaveSoftAp \/ iot_cleanup
    <2>1. UNCHANGED <<server, http, seen, ref_step, worker, request, resp, feature,
                      nv, ram, done, skipped, refused, fresh, cause>>
      BY <1>2 DEF LeaveSoftAp, iot_cleanup, serverVars, workVars
    <2>2. /\ deinitFlag' = TRUE /\ cbOn' = FALSE /\ cipher' = None
          /\ group' = ClearBits(group, {RESP})
      BY <1>2 DEF LeaveSoftAp, iot_cleanup, iot_easysetup_deinit
    <2>3. ready' \in BOOLEAN
      BY <1>2 DEF LeaveSoftAp, iot_cleanup
    <2>4. RESP \in Bits /\ {RESP} \in SUBSET Bits /\ RESP # CONFIRMED
      BY DEF Bits, RESP, CONFIRMED
    <2>5. /\ group' \in GroupType(Bits) /\ group'.status = group.status \ {RESP}
          /\ group'.pipe = group.pipe
      BY <2>2, <2>4, ClearSomeBits DEF TypeOK
    <2>6. TypeOK'
      <3>1. {deinitFlag', ready', cbOn', done', skipped', refused', fresh'}
               \subseteq BOOLEAN
        BY <2>1, <2>2, <2>3 DEF TypeOK
      <3> QED
        BY <2>1, <2>2, <2>5, <3>1 DEF TypeOK
    <2>7. ReadyIsServed'
      BY <2>2 DEF ReadyIsServed
    <2>8. HttpParsed' /\ OneExchange' /\ RespHasToken' /\ TokenPerResponse'
      BY <2>1, <2>5 DEF HttpParsed, OneExchange, RespHasToken, TokenPerResponse
    <2>9. StepIsChecked' /\ CompleteIsBehind' /\ ReportedInUse'
      BY <2>1 DEF StepIsChecked, CompleteIsBehind, ReportedInUse
    <2>10. ButtonWaits'
      BY <2>1, <2>4, <2>5 DEF ButtonWaits, Readable
    <2> QED
      BY <2>6, <2>7, <2>8, <2>9, <2>10
  <1> QED
    BY <1>1, <1>2

\* The application's st_conn_ownership_confirm and the Wi-Fi thread's STA_LEAVE,
\* which may come at any time, also where no confirmation is awaited.
LEMMA ConfirmationKeepsSetupInv ==
    SetupInv /\ (\/ \E confirm \in BOOLEAN : st_conn_ownership_confirm(confirm)
                 \/ StationLeaves)
       => SetupInv'
  <1> SUFFICES ASSUME SetupInv,
                      \/ \E confirm \in BOOLEAN : st_conn_ownership_confirm(confirm)
                      \/ StationLeaves
               PROVE  SetupInv'
    OBVIOUS
  <1> USE DEF SetupInv
  <1>1. UNCHANGED <<server, deinitFlag, http, seen, ready, cbOn, cipher, worker,
                    request, resp, feature, nv, ram, done, skipped, refused>>
    BY DEF st_conn_ownership_confirm, StationLeaves, shared, serverVars
  <1>2. ref_step' \in {0, ref_step}
    BY DEF st_conn_ownership_confirm, StationLeaves
  <1>3. PICK bit \in {CONFIRMED, DENIED} : Confirmation(bit)
    BY DEF st_conn_ownership_confirm, StationLeaves
  <1>4. /\ bit \in Bits /\ RESP \in Bits \ {bit} /\ CONFIRMED # DENIED
        /\ {CONFIRMED, DENIED} \subseteq Bits
    BY DEF Bits, RESP, CONFIRMED, DENIED
  <1>5. /\ group' \in GroupType(Bits) /\ group'.status = group.status \cup {bit}
        /\ \A c \in Bits \ {bit} : group'.pipe[c] = group.pipe[c]
    <2>1. group' = SetBits(group, {bit}) /\ group \in GroupType(Bits)
      BY <1>3 DEF Confirmation, TypeOK
    <2> QED
      BY <1>4, <2>1 DEF SetBits, GroupType
  <1>6. fresh' \in BOOLEAN
    BY <1>3 DEF Confirmation
  <1>7. TypeOK'
    <2>1. {deinitFlag', ready', cbOn', done', skipped', refused', fresh'}
             \subseteq BOOLEAN
      BY <1>1, <1>6 DEF TypeOK
    <2>2. cause' \subseteq {CONFIRMED, DENIED, "left"}
      BY <1>3 DEF Confirmation, TypeOK
    <2> QED
      BY <1>1, <1>2, <1>5, <2>1, <2>2 DEF TypeOK
  <1>8. ReadyIsServed'
    BY <1>1 DEF ReadyIsServed
  <1>9. HttpParsed' /\ OneExchange' /\ RespHasToken' /\ TokenPerResponse'
    BY <1>1, <1>4, <1>5 DEF HttpParsed, OneExchange, RespHasToken, TokenPerResponse
  <1>10. StepIsChecked' /\ CompleteIsBehind' /\ ReportedInUse'
    BY <1>1, <1>2 DEF StepIsChecked, CompleteIsBehind, ReportedInUse, SETUPCOMPLETE
  <1>11. ButtonWaits'
    <2> SUFFICES ASSUME worker = "button" PROVE ButtonWaits'
      BY <1>1 DEF ButtonWaits
    <2>1. /\ fresh' = (fresh \/ bit = CONFIRMED)
          /\ cause' = cause \cup {bit}
      BY <1>3 DEF Confirmation
    <2>2. CONFIRMED \in group'.status => fresh'
      BY <1>5, <2>1 DEF ButtonWaits
    <2>3. CONFIRMED \notin group'.status => DENIED \in cause'
      BY <1>5, <2>1
    <2> QED
      BY <1>1, <2>2, <2>3 DEF ButtonWaits
  <1> QED
    BY <1>7, <1>8, <1>9, <1>10, <1>11

\* Every step of the four threads keeps the invariant.
LEMMA NextSetupInv == SetupInv /\ [Next]_vars => SetupInv'
  <1>1. ASSUME SetupInv, UNCHANGED vars PROVE SetupInv'
    <2> USE <1>1 DEF vars, SetupInv
    <2>1. TypeOK' /\ ReadyIsServed' /\ TokenPerResponse'
      BY DEF TypeOK, ReadyIsServed, TokenPerResponse
    <2>2. HttpParsed' /\ OneExchange' /\ RespHasToken' /\ ReportedInUse'
      BY DEF HttpParsed, OneExchange, RespHasToken, ReportedInUse
    <2>3. StepIsChecked' /\ CompleteIsBehind' /\ ButtonWaits'
      BY DEF StepIsChecked, CompleteIsBehind, ButtonWaits
    <2> QED
      BY <2>1, <2>2, <2>3
  <1> QED
    BY <1>1, HandlersKeepSetupInv, ServerKeepsSetupInv, OpenCloseKeepsSetupInv,
       ConfirmationKeepsSetupInv
    DEF Next, WorkThread

-----------------------------------------------------------------------------
\* In every reachable state of the setup over HTTP the invariant holds.
THEOREM SetupInvHolds == Spec => []SetupInv
  BY InitSetupInv, NextSetupInv, PTL DEF Spec

\* The variables stay in type, an open SoftAP has its server thread, and the RESP
\* pipe holds one token per response the server thread was not woken for: the
\* safety part of RequestIsAnswered.
THEOREM TokensMatchResponses ==
    Spec => [](TypeOK /\ ReadyIsServed /\ TokenPerResponse)
  <1>1. SetupInv => TypeOK /\ ReadyIsServed /\ TokenPerResponse
    BY DEF SetupInv
  <1> QED
    BY <1>1, SetupInvHolds, PTL

\* 200 on WIFIPROVISIONINGINFO means that this request's data is stored and in
\* use, and PROV_DONE is requested only with data in use (or after a step that
\* was counted and not queued).
THEOREM SuccessIsAlwaysProvisioned == Spec => SuccessIsProvisioned
  <1> DEFINE Ok == answers' = "ok" /\ answers # "ok" /\ http.cmd = WIFIPROVISIONINGINFO
                      => /\ ram = [wifi |-> http.body[2], cloud |-> http.body[2]]
                         /\ nv = ram
             Done == done' /\ ~done => ram # None \/ skipped
  <1>1. SetupInv /\ [Next]_vars => [Ok]_vars /\ [Done]_vars
    <2> SUFFICES ASSUME SetupInv, [Next]_vars PROVE Ok /\ Done
      OBVIOUS
    <2>1. CASE ReceiveResponse
      <3>1. resp # <<>> /\ Head(resp) = resp[1]
        <4>1. RESP \in Bits /\ group.pipe[RESP] \in Nat
          BY DEF SetupInv, TypeOK, GroupType, Bits
        <4>2. server = "receive"
          BY <2>1 DEF ReceiveResponse
        <4> QED
          BY <4>1, <4>2 DEF SetupInv, TokenPerResponse, TypeOK
      <3>2. Ok
        <4>1. ASSUME answers' = "ok", http.cmd = WIFIPROVISIONINGINFO
              PROVE  Head(resp).step = http.cmd /\ Head(resp).err = "none"
          BY <2>1, <4>1, <3>1
          DEF ReceiveResponse, Answer, SETUPCOMPLETE, WIFIPROVISIONINGINFO
        <4> QED
          BY <3>1, <4>1 DEF SetupInv, ReportedInUse
      <3>3. Done
        <4>1. server = "receive" /\ (http.cmd = SETUPCOMPLETE \/ UNCHANGED done)
          BY <2>1 DEF ReceiveResponse
        <4>2. http.cmd = SETUPCOMPLETE => ram # None \/ skipped
          BY <4>1 DEF SetupInv, CompleteIsBehind
        <4> QED
          BY <4>1, <4>2
      <3> QED
        BY <3>2, <3>3
    <2>2. CASE es_tcp_task \/ ReadRequest \/ CheckOrder \/ Advance
      BY <2>2 DEF es_tcp_task, ReadRequest, CheckOrder, Advance, Answer
    <2>3. ASSUME UNCHANGED <<answers, done>> PROVE Ok /\ Done
      BY <2>3
    <2>4. CASE WorkThread
      BY <2>3, <2>4 DEF WorkThread, HandlerFails, _es_deviceinfo_handler,
         _es_keyinfo_handler, ConfirmAtOnce, ConfirmButton, _es_confirm_handler,
         _es_wifiscaninfo_handler, _es_cloud_prov_parse_fails,
         _es_wifiprovisioninginfo_handler, _es_setupcomplete_handler, LogHandler,
         ButtonAnswered, handlerFrame
    <2>5. CASE iot_easysetup_init \/ LeaveSoftAp \/ iot_cleanup \/ port_net_listen
      BY <2>3, <2>5 DEF iot_easysetup_init, LeaveSoftAp, iot_cleanup,
         port_net_listen, serverVars
    <2>6. CASE \/ WakeServer \/ StationLeaves \/ UNCHANGED vars
               \/ \E confirm \in BOOLEAN : st_conn_ownership_confirm(confirm)
      BY <2>3, <2>6 DEF WakeServer, StationLeaves, st_conn_ownership_confirm,
         serverVars, vars
    <2> QED
      BY <2>1, <2>2, <2>4, <2>5, <2>6 DEF Next, WorkThread
  <1> QED
    BY <1>1, SetupInvHolds, PTL
    DEF Spec, SuccessIsProvisioned, OkIsProvisioned, DoneIsProvisioned

\* The button wait ends with success only on a CONFIRMED set since it began, and
\* with failure only on a denial, a leftover token or a wait that ran out.
THEOREM ConfirmationAlwaysHasCause == Spec => ConfirmationHasCause
  <1> DEFINE Caused == worker = "button" /\ worker' = "idle" =>
                LET err == resp'[Len(resp')].err
                IN  /\ err = "none" => fresh
                    /\ err = "fail" => \/ cause \cap {DENIED, "left"} # {}
                                       \/ Readable(group, {CONFIRMED, DENIED}) = {}
  <1>1. SetupInv /\ [Next]_vars => [Caused]_vars
    <2> SUFFICES ASSUME SetupInv, [Next]_vars, worker = "button", worker' = "idle"
                 PROVE  Caused
      OBVIOUS
    <2>1. PICK late \in BOOLEAN : ButtonAnswered(late)
      BY DEF Next, vars, iot_easysetup_init, LeaveSoftAp, iot_cleanup, es_tcp_task,
         port_net_listen, ReadRequest, CheckOrder, Advance, WakeServer,
         ReceiveResponse, HandlerFails, _es_deviceinfo_handler,
         _es_keyinfo_handler, ConfirmAtOnce, ConfirmButton, _es_confirm_handler,
         _es_wifiscaninfo_handler, _es_cloud_prov_parse_fails,
         _es_wifiprovisioninginfo_handler, _es_setupcomplete_handler, LogHandler,
         Handling, st_conn_ownership_confirm, StationLeaves, workVars
    <2>2. resp = <<>>
      BY DEF SetupInv, ButtonWaits, OneExchange
    <2>3. resp'[Len(resp')].err = IF CONFIRMED \in group.status THEN "none" ELSE "fail"
      BY <2>1, <2>2 DEF ButtonAnswered
    <2> QED
      BY <2>3 DEF SetupInv, ButtonWaits
  <1> QED
    BY <1>1, SetupInvHolds, PTL DEF Spec, ConfirmationHasCause

=============================================================================

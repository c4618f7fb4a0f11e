------------------------------ MODULE Capability ------------------------------
(***************************************************************************)
(* Capabilities (iot_capability.c): application threads send attributes    *)
(* with a sequence number while the work thread handles notifications, a   *)
(* timer ends a rate limit, and an expired token replaces the MQTT client; *)
(* none of them takes a lock.  (The sequential calls: CapabilityData.)     *)
(***************************************************************************)
EXTENDS Naturals, Sequences, SequencesExt

CONSTANTS Apps,       \* application threads
          MAX_SQNUM,  \* 0x7FFFFFFF in the code: 2^k - 1
          MaxEvents,  \* bound: events of one message
          MaxNotis    \* bound: rate limit and token notifications in all

ASSUME CapabilityAssumption == /\ MAX_SQNUM \in Nat \ {0}
                               /\ MaxEvents \in Nat \ {0} /\ MaxNotis \in Nat

VARIABLES sqnum,   \* ctx->event_sequence_num
          call,    \* call[t]: the call of st_cap_send_attr that t is in
          limit,   \* ctx->rate_limit
          timer,   \* ctx->rate_limit_timeout: "null", "armed" or "over"
          due,     \* its callback has been dispatched and not run
          client,  \* ctx->evt_mqttcli: "live", or NULL: "null", and "connecting"
                   \* while the work thread makes a new one
          notis,
          \* history
          late,    \* callbacks of deleted timers that were dispatched, not run
          early,   \* such a callback ran since the last rate limit
          stuck    \* the timer that should end the limit could not be made

vars == <<sqnum, call, limit, timer, due, client, notis, late, early, stuck>>
limitVars == <<limit, timer, due, late, early, stuck>>

\* left: events to make; num: number of the first event; same: the other events
\* have it, too; alone: no other call has been under way during this one.
NoNumber == MAX_SQNUM + 1
Idle == [pc |-> "idle", left |-> 0, n |-> 0, num |-> NoNumber, same |-> TRUE,
         alone |-> TRUE]

Init == /\ sqnum = 0 /\ call = [t \in Apps |-> Idle]
        /\ limit = FALSE /\ timer = "null" /\ due = FALSE
        /\ client = "live" /\ notis = 0
        /\ late = 0 /\ early = FALSE /\ stuck = FALSE

-----------------------------------------------------------------------------
\* st_cap_send_attr and st_cap_send_attr_v2 by thread t

Goto(t, pc) == call' = [call EXCEPT ![t].pc = pc]
Return(t) == call' = [call EXCEPT ![t] = Idle]

\* Refused: no client, or rate limited.
SendRefused == client # "live" \/ limit

Send(t, k) ==
    /\ call[t].pc = "idle"
    /\ ~ SendRefused
    /\ LET others == {u \in Apps \ {t} : call[u].pc # "idle"}
       IN  call' = [u \in Apps |->
                      IF u = t THEN [Idle EXCEPT !.pc = "wrap", !.left = k,
                                                  !.alone = others = {}]
                      ELSE [call[u] EXCEPT !.alone = u \notin others]]
    /\ UNCHANGED <<sqnum, limitVars, client, notis>>

\* The second version of the call takes the same steps.
st_cap_send_attr_v2(t, k) == Send(t, k)

\* Mistake: the number wraps to 0.
WrapOff(t) ==
    /\ call[t].pc = "wrap"
    /\ Goto(t, "read")
    /\ UNCHANGED <<sqnum, limitVars, client, notis>>

\* The highest number is followed by 1.
Wrap(t) ==
    /\ call[t].pc = "wrap"
    /\ sqnum' = IF sqnum = MAX_SQNUM THEN 0 ELSE sqnum
    /\ Goto(t, "read")
    /\ UNCHANGED <<limitVars, client, notis>>

\* event_sequence_num = (event_sequence_num + 1) & MAX_SQNUM: read ...
ReadNumber(t) ==
    /\ call[t].pc = "read"
    /\ call' = [call EXCEPT ![t].pc = "write", ![t].n = sqnum]
    /\ UNCHANGED <<sqnum, limitVars, client, notis>>

\* ... and write.
WriteNumber(t) ==
    /\ call[t].pc = "write"
    /\ sqnum' = (call[t].n + 1) % (MAX_SQNUM + 1)
    /\ call' = [call EXCEPT ![t].pc = "make", ![t].n = 0]
    /\ UNCHANGED <<limitVars, client, notis>>

\* _iot_make_evt_data for the next event, with the number as it is now.
MakeEvent(t) ==
    /\ call[t].pc = "make"
    /\ LET first == call[t].num = NoNumber
           left  == call[t].left - 1
       IN  call' = [call EXCEPT ![t].num = IF first THEN sqnum ELSE @,
                                ![t].same = first \/ (@ /\ call[t].num = sqnum),
                                ![t].left = left,
                                ![t].pc = IF left = 0 THEN "publish" ELSE "make"]
    /\ UNCHANGED <<sqnum, limitVars, client, notis>>

\* An event without capability or with a value of no known type, no memory for
\* the payload, or st_mqtt_publish_async fails.
SendFails(t) ==
    /\ call[t].pc \in {"make", "publish"}
    /\ Return(t)
    /\ UNCHANGED <<sqnum, limitVars, client, notis>>

\* st_mqtt_publish_async queues the message: evt_mqttcli is read again.
Publish(t) ==
    /\ call[t].pc = "publish"
    /\ client = "live"
    /\ Goto(t, "return")
    /\ UNCHANGED <<sqnum, limitVars, client, notis>>

\* The call returns event_sequence_num as it is now.
ReturnNumber(t) ==
    /\ call[t].pc = "return"
    /\ Return(t)
    /\ UNCHANGED <<sqnum, limitVars, client, notis>>

-----------------------------------------------------------------------------
\* Notifications, on the work thread

\* iot_noti_sub_cb with a rate limit: the old timer is deleted, a new one made
\* and started, and only then the limit set.  A callback of the old timer that
\* has been dispatched still runs.
RateLimitReached ==
    /\ notis < MaxNotis /\ client = "live"
    /\ notis' = notis + 1
    /\ late' = IF due THEN late + 1 ELSE late
    /\ due' = FALSE /\ early' = FALSE
    /\ \/ timer' = "armed" /\ limit' = TRUE /\ stuck' = FALSE
       \/ timer' \in {"null", "over"} /\ stuck' = limit /\ UNCHANGED limit
    /\ UNCHANGED <<sqnum, call, client>>

\* IOT_RATE_LIMIT_BREAK_TIME has passed.
TimerExpires ==
    /\ timer = "armed"
    /\ timer' = "over" /\ due' = TRUE
    /\ UNCHANGED <<sqnum, call, limit, client, notis, late, early, stuck>>

\* Mistake: the limit is kept.
RateLimitKept ==
    /\ due
    /\ due' = FALSE
    /\ UNCHANGED <<sqnum, call, limit, timer, client, notis, late, early, stuck>>

\* The callback of the timer in use ...
_iot_noti_rate_limit_cb ==
    /\ due
    /\ due' = FALSE
    /\ limit' = FALSE
    /\ UNCHANGED <<sqnum, call, timer, client, notis, late, early, stuck>>

\* ... and of a deleted one.
LateCallback ==
    /\ late > 0
    /\ late' = late - 1
    /\ limit' = FALSE
    /\ early' = TRUE
    /\ UNCHANGED <<sqnum, call, timer, due, client, notis, stuck>>

\* _IOT_NOTI_TYPE_JWT_EXPIRED: iot_es_disconnect forgets the client and
\* destroys it ...
JwtExpired ==
    /\ notis < MaxNotis /\ client = "live"
    /\ notis' = notis + 1
    /\ client' = "connecting"
    /\ UNCHANGED <<sqnum, call, limitVars>>

\* ... and iot_es_connect makes a new one, unless it fails, as it does while
\* the limit holds; that is logged, and the state stays CLOUD_CONNECTED.
iot_es_connect ==
    /\ client = "connecting"
    /\ \/ client' = "live" /\ ~ limit
       \/ client' = "null"
    /\ UNCHANGED <<sqnum, call, limitVars, notis>>

Next == \/ \E t \in Apps, k \in 1 .. MaxEvents : Send(t, k)
        \/ \E t \in Apps, k \in 1 .. MaxEvents : st_cap_send_attr_v2(t, k)
        \/ \E t \in Apps : Wrap(t)
        \/ \E t \in Apps : ReadNumber(t)
        \/ \E t \in Apps : WriteNumber(t)
        \/ \E t \in Apps : MakeEvent(t)
        \/ \E t \in Apps : SendFails(t)
        \/ \E t \in Apps : Publish(t)
        \/ \E t \in Apps : ReturnNumber(t)
        \/ RateLimitReached
        \/ TimerExpires
        \/ _iot_noti_rate_limit_cb
        \/ LateCallback
        \/ JwtExpired
        \/ iot_es_connect

\* A timer expires and its callback is run.
Spec == /\ Init /\ [][Next]_vars
        /\ WF_vars(TimerExpires)
        /\ WF_vars(_iot_noti_rate_limit_cb)
        /\ WF_vars(LateCallback)

-----------------------------------------------------------------------------
\* Every variable has its type.
TypeOK ==
    /\ sqnum \in 0 .. MAX_SQNUM
    /\ \A t \in Apps : /\ call[t].pc \in {"idle", "wrap", "read", "write", "make",
                                          "publish", "return"}
                        /\ call[t].num \in 0 .. NoNumber /\ call[t].left \in 0 .. MaxEvents
                        /\ call[t].pc \in {"publish", "return"} => call[t].num # NoNumber
    /\ timer \in {"null", "armed", "over"} /\ late \in 0 .. MaxNotis
    /\ client \in {"live", "connecting", "null"}

\* The number that a call returns identifies its message: every event of the
\* message has it, and it is never 0.  The failure of a publication is reported
\* with that number.  Calls that overlap share one unlocked counter, and for
\* them nothing is promised.
NumberIdentifiesMessage ==
    [][\A t \in Apps : ReturnNumber(t) /\ call[t].alone =>
         call[t].num = sqnum /\ call[t].same /\ sqnum \in 1 .. MAX_SQNUM]_vars

LimitedWhileTimed == timer = "armed" => limit \/ early

\* A rate limit ends, unless the timer that replaces the one which would have
\* ended it cannot be made.  While its timer runs, attributes are refused, unless
\* the callback of the timer it replaced came late.
RateLimitEnds == /\ [](TypeOK /\ LimitedWhileTimed)
                 /\ limit ~> ~ limit \/ stuck

=============================================================================

--------------------------- MODULE CapabilityProofs ---------------------------
(***************************************************************************)
(* For every set of application threads, every highest number and every    *)
(* length of a message: the number st_cap_send_attr returns identifies its *)
(* message (NumberIdentifiesMessage), and attributes are refused while the *)
(* rate limit's timer runs (LimitedWhileTimed).                            *)
(***************************************************************************)
EXTENDS Capability, TLAPS

(* The inductive invariant.                                                *)

Steps == {"idle", "wrap", "read", "write", "make", "publish", "return"}
CallType == [pc : Steps, left : 0 .. MaxEvents, n : 0 .. MAX_SQNUM,
             num : 0 .. NoNumber, same : BOOLEAN, alone : BOOLEAN]

\* A call c has, at each step, what its next step needs ...
StepFits(c) == /\ c.pc \in {"wrap", "read", "write", "make"} => c.left # 0
               /\ c.pc \in {"wrap", "read", "write"} => c.num = NoNumber
               /\ c.pc \in {"publish", "return"} => c.num # NoNumber

\* ... and a call that has the counter q for itself finds it as it left it.
NumberFits(c, q) ==
    c.alone =>
       /\ c.pc \in {"read", "write"} => q # MAX_SQNUM
       /\ c.pc = "write" => c.n = q
       /\ c.pc \in {"make", "publish", "return"}
             => q # 0 /\ (c.num # NoNumber => c.num = q /\ c.same)

CallsTyped == call \in [Apps -> CallType] /\ sqnum \in 0 .. MAX_SQNUM

\* A call that is marked so is the only one under way.
AloneIsAlone == \A t, u \in Apps :
    call[t].alone /\ call[t].pc # "idle" /\ call[u].pc # "idle" => u = t

CallsFit == \A t \in Apps : StepFits(call[t]) /\ NumberFits(call[t], sqnum)

NumberInv == CallsTyped /\ AloneIsAlone /\ CallsFit

\* Timers and callbacks are counted by the notifications that made them.
LimitTyped == /\ timer \in {"null", "armed", "over"}
              /\ client \in {"live", "connecting", "null"}
              /\ {limit, due, early} \subseteq BOOLEAN
              /\ notis \in 0 .. MaxNotis /\ late \in Nat
              /\ late + (IF due \/ timer = "armed" THEN 1 ELSE 0) <= notis
              /\ timer = "armed" => ~ due

LimitInv == LimitTyped /\ LimitedWhileTimed

CapabilityInv == NumberInv /\ LimitInv

-----------------------------------------------------------------------------
\* (event_sequence_num + 1) & MAX_SQNUM, below the highest number and at it.
LEMMA NextNumber ==
    ASSUME NEW n \in 0 .. MAX_SQNUM
    PROVE  /\ (n + 1) % (MAX_SQNUM + 1) \in 0 .. MAX_SQNUM
           /\ n # MAX_SQNUM => (n + 1) % (MAX_SQNUM + 1) = n + 1
  BY CapabilityAssumption

\* A thread that is in a call takes a step of it: the other calls see nothing of
\* it, or share the counter and are promised nothing.
LEMMA OwnStep ==
    ASSUME NumberInv, NEW t \in Apps, call[t].pc # "idle",
           NEW c \in CallType, call' = [call EXCEPT ![t] = c],
           c.alone => call[t].alone \/ c.pc = "idle",
           sqnum' \in 0 .. MAX_SQNUM,
           StepFits(c), NumberFits(c, sqnum')
    PROVE  NumberInv'
  <1> USE DEF NumberInv
  <1>1. /\ call' \in [Apps -> CallType] /\ call'[t] = c
        /\ \A u \in Apps \ {t} : call'[u] = call[u]
    BY DEF CallsTyped
  <1>2. CallsTyped'
    BY <1>1 DEF CallsTyped
  <1>3. AloneIsAlone'
    BY <1>1 DEF AloneIsAlone
  <1>4. ASSUME NEW u \in Apps \ {t} PROVE NumberFits(call[u], sqnum')
    BY DEF AloneIsAlone, CallsFit, NumberFits
  <1>5. CallsFit'
    BY <1>1, <1>4 DEF CallsFit
  <1> QED
    BY <1>2, <1>3, <1>5

-----------------------------------------------------------------------------
\* Every step of the threads that send, and of the others, keeps NumberInv.
LEMMA NextNumberInv == NumberInv /\ [Next]_vars => NumberInv'
  <1> SUFFICES ASSUME NumberInv, [Next]_vars PROVE NumberInv'
    OBVIOUS
  <1> USE CapabilityAssumption
  <1>type. call \in [Apps -> CallType] /\ sqnum \in 0 .. MAX_SQNUM
    BY DEF NumberInv, CallsTyped
  <1>fit. \A t \in Apps : StepFits(call[t]) /\ NumberFits(call[t], sqnum)
    BY DEF NumberInv, CallsFit
  <1>idle. Idle \in CallType /\ StepFits(Idle) /\ \A q : NumberFits(Idle, q)
    BY DEF Idle, CallType, Steps, NoNumber, StepFits, NumberFits
  <1>zero. 0 \in 0 .. MAX_SQNUM /\ NoNumber \in 0 .. NoNumber
    BY DEF NoNumber
  <1>1. ASSUME UNCHANGED <<sqnum, call>> PROVE NumberInv'
    BY <1>1 DEF NumberInv, CallsTyped, AloneIsAlone, CallsFit
  <1>2. ASSUME NEW t \in Apps, NEW k \in 1 .. MaxEvents, Send(t, k) PROVE NumberInv'
    <2> DEFINE others == {u \in Apps \ {t} : call[u].pc # "idle"}
               c == [Idle EXCEPT !.pc = "wrap", !.left = k, !.alone = others = {}]
    <2>1. /\ call' = [u \in Apps |-> IF u = t THEN c
                                     ELSE [call[u] EXCEPT !.alone = u \notin others]]
          /\ sqnum' = sqnum
      BY <1>2 DEF Send
    <2>2. c \in CallType /\ c.pc = "wrap" /\ c.left = k /\ c.num = NoNumber
      <3>1. k \in 0 .. MaxEvents /\ (others = {}) \in BOOLEAN
        OBVIOUS
      <3> HIDE DEF others
      <3> QED
        BY <1>zero, <3>1 DEF Idle, CallType, Steps
    <2>3. ASSUME NEW u \in Apps \ {t}
          PROVE  /\ call'[u] \in CallType
                 /\ call'[u].pc = call[u].pc /\ call'[u].left = call[u].left
                 /\ call'[u].num = call[u].num
                 /\ call'[u].alone => call[u].pc = "idle"
      BY <2>1, <1>type DEF CallType
    <2>4. call'[t] = c /\ (c.alone => \A u \in Apps \ {t} : call[u].pc = "idle")
      BY <2>1 DEF Idle
    <2>5. CallsTyped'
      BY <2>1, <2>2, <2>3, <2>4, <1>type DEF CallsTyped
    <2>6. AloneIsAlone'
      <3> HIDE DEF c
      <3> SUFFICES ASSUME NEW v \in Apps, NEW u \in Apps, call'[v].alone,
                          call'[v].pc # "idle", call'[u].pc # "idle"
                   PROVE  u = v
        BY DEF AloneIsAlone
      <3>1. v = t
        BY <2>3
      <3> QED
        BY <2>3, <2>4, <3>1
    <2>7. StepFits(c) /\ NumberFits(c, sqnum')
      BY <2>2 DEF StepFits, NumberFits
    <2>8. ASSUME NEW u \in Apps \ {t}
          PROVE  StepFits(call'[u]) /\ NumberFits(call'[u], sqnum')
      BY <1>fit, <2>3 DEF StepFits, NumberFits
    <2> HIDE DEF c
    <2>9. CallsFit'
      BY <2>4, <2>7, <2>8 DEF CallsFit
    <2> QED
      BY <2>5, <2>6, <2>9 DEF NumberInv
  <1>3. ASSUME NEW t \in Apps, Wrap(t) PROVE NumberInv'
    <2> DEFINE c == [call[t] EXCEPT !.pc = "read"]
    <2>1. call' = [call EXCEPT ![t] = c] /\ call[t].pc = "wrap"
      BY <1>3, <1>type DEF Wrap, Goto
    <2>2. sqnum' \in 0 .. MAX_SQNUM /\ sqnum' # MAX_SQNUM
      BY <1>3, <1>type DEF Wrap
    <2>3. /\ c \in CallType /\ c.pc = "read" /\ c.alone = call[t].alone
          /\ c.left = call[t].left /\ c.num = call[t].num
      BY <1>type DEF CallType, Steps
    <2>4. StepFits(c) /\ NumberFits(c, sqnum')
      BY <1>fit, <2>1, <2>2, <2>3 DEF StepFits, NumberFits
    <2> QED
      BY <2>1, <2>2, <2>3, <2>4, OwnStep
  <1>4. ASSUME NEW t \in Apps, ReadNumber(t) PROVE NumberInv'
    <2> DEFINE c == [call[t] EXCEPT !.pc = "write", !.n = sqnum]
    <2>1. call' = [call EXCEPT ![t] = c] /\ call[t].pc = "read" /\ sqnum' = sqnum
      BY <1>4, <1>type DEF ReadNumber
    <2>2. /\ c \in CallType /\ c.pc = "write" /\ c.alone = call[t].alone
          /\ c.left = call[t].left /\ c.num = call[t].num /\ c.n = sqnum
      BY <1>type DEF CallType, Steps
    <2>3. StepFits(c) /\ NumberFits(c, sqnum')
      BY <1>fit, <2>1, <2>2 DEF StepFits, NumberFits
    <2> QED
      BY <1>type, <2>1, <2>2, <2>3, OwnStep
  <1>5. ASSUME NEW t \in Apps, WriteNumber(t) PROVE NumberInv'
    <2> DEFINE c == [call[t] EXCEPT !.pc = "make", !.n = 0]
    <2>1. call' = [call EXCEPT ![t] = c] /\ call[t].pc = "write"
      BY <1>5, <1>type DEF WriteNumber
    <2>2. /\ c \in CallType /\ c.pc = "make" /\ c.alone = call[t].alone
          /\ c.left = call[t].left /\ c.num = call[t].num
      BY <1>type, <1>zero DEF CallType, Steps
    <2>3. call[t].n \in 0 .. MAX_SQNUM /\ sqnum' = (call[t].n + 1) % (MAX_SQNUM + 1)
      BY <1>5, <1>type DEF WriteNumber, CallType
    <2>4. /\ sqnum' \in 0 .. MAX_SQNUM
          /\ call[t].n # MAX_SQNUM => sqnum' = call[t].n + 1
      BY <2>3, NextNumber
    <2>5. call[t].alone => sqnum' # 0
      BY <1>fit, <2>1, <2>3, <2>4 DEF NumberFits
    <2>6. StepFits(c) /\ NumberFits(c, sqnum')
      BY <1>fit, <2>1, <2>2, <2>5 DEF StepFits, NumberFits
    <2> QED
      BY <2>1, <2>2, <2>4, <2>6, OwnStep
  <1>6. ASSUME NEW t \in Apps, MakeEvent(t) PROVE NumberInv'
    <2> DEFINE first == call[t].num = NoNumber
               left == call[t].left - 1
               c == [call[t] EXCEPT !.num = IF first THEN sqnum ELSE @,
                                    !.same = first \/ (@ /\ call[t].num = sqnum),
                                    !.left = left,
                                    !.pc = IF left = 0 THEN "publish" ELSE "make"]
    <2>1. call' = [call EXCEPT ![t] = c] /\ call[t].pc = "make" /\ sqnum' = sqnum
      BY <1>6, <1>type DEF MakeEvent
    <2>2. call[t].left \in 0 .. MaxEvents /\ call[t].left # 0
      BY <1>type, <1>fit, <2>1 DEF CallType, StepFits
    <2>3. /\ c \in CallType /\ c.pc = (IF left = 0 THEN "publish" ELSE "make")
          /\ c.alone = call[t].alone /\ c.left = left
          /\ c.num = (IF first THEN sqnum ELSE call[t].num)
          /\ c.same = (first \/ (call[t].same /\ call[t].num = sqnum))
      <3>1. left \in 0 .. MaxEvents /\ sqnum \in 0 .. NoNumber
        BY <1>type, <2>2 DEF NoNumber
      <3>2. (first \/ (call[t].same /\ call[t].num = sqnum)) \in BOOLEAN
        BY <1>type DEF CallType
      <3> HIDE DEF left, first
      <3> QED
        BY <1>type, <3>1, <3>2 DEF CallType, Steps
    <2>4. StepFits(c)
      BY <1>type, <2>2, <2>3 DEF StepFits, NoNumber
    <2>5. NumberFits(c, sqnum')
      <3>1. call[t].alone => sqnum # 0 /\ (first \/ (call[t].num = sqnum /\ call[t].same))
        BY <1>fit, <2>1 DEF NumberFits
      <3> HIDE DEF c, left, first
      <3>2. c.pc \in {"publish", "make"}
        BY <2>3
      <3>3. c.alone => c.num = sqnum /\ c.same
        BY <2>3, <3>1
      <3> QED
        BY <2>1, <2>3, <3>1, <3>2, <3>3 DEF NumberFits
    <2> QED
      BY <1>type, <2>1, <2>3, <2>4, <2>5, OwnStep
  <1>7. ASSUME NEW t \in Apps, SendFails(t) \/ ReturnNumber(t) PROVE NumberInv'
    <2>1. /\ call' = [call EXCEPT ![t] = Idle] /\ call[t].pc # "idle"
          /\ sqnum' = sqnum
      BY <1>7 DEF SendFails, ReturnNumber, Return
    <2> QED
      BY <1>type, <1>idle, <2>1, OwnStep DEF Idle
  <1>8. ASSUME NEW t \in Apps, Publish(t) PROVE NumberInv'
    <2> DEFINE c == [call[t] EXCEPT !.pc = "return"]
    <2>1. call' = [call EXCEPT ![t] = c] /\ call[t].pc = "publish" /\ sqnum' = sqnum
      BY <1>8, <1>type DEF Publish, Goto
    <2>2. /\ c \in CallType /\ c.pc = "return" /\ c.alone = call[t].alone
          /\ c.num = call[t].num /\ c.same = call[t].same
      BY <1>type DEF CallType, Steps
    <2>3. StepFits(c) /\ NumberFits(c, sqnum')
      BY <1>fit, <2>1, <2>2 DEF StepFits, NumberFits
    <2> QED
      BY <1>type, <2>1, <2>2, <2>3, OwnStep
  <1>9. CASE \/ RateLimitReached \/ TimerExpires \/ _iot_noti_rate_limit_cb
             \/ LateCallback \/ JwtExpired \/ iot_es_connect \/ UNCHANGED vars
    BY <1>1, <1>9 DEF RateLimitReached, TimerExpires, _iot_noti_rate_limit_cb,
       LateCallback, JwtExpired, iot_es_connect, vars
  <1> QED
    BY <1>2, <1>3, <1>4, <1>5, <1>6, <1>7, <1>8, <1>9
    DEF Next, st_cap_send_attr_v2

\* Every step of the work thread, of the timer and of its callbacks keeps
\* LimitInv; the threads that send do not touch the limit.
LEMMA NextLimitInv == LimitInv /\ [Next]_vars => LimitInv'
  <1> SUFFICES ASSUME LimitInv, [Next]_vars PROVE LimitInv'
    OBVIOUS
  <1> USE CapabilityAssumption DEF LimitInv, LimitTyped, LimitedWhileTimed
  <1>1. ASSUME UNCHANGED <<limitVars, client, notis>> PROVE LimitInv'
    BY <1>1 DEF limitVars
  <1>2. CASE RateLimitReached
    <2>1. due' = FALSE /\ early' = FALSE /\ UNCHANGED client
      BY <1>2 DEF RateLimitReached
    <2>2. /\ notis' \in 0 .. MaxNotis /\ late' \in Nat
          /\ late' + 1 <= notis' /\ late' + 0 <= notis'
      <3>1. notis' = notis + 1 /\ notis < MaxNotis
        BY <1>2 DEF RateLimitReached
      <3>2. CASE due
        BY <1>2, <3>1, <3>2 DEF RateLimitReached
      <3>3. CASE ~ due
        BY <1>2, <3>1, <3>3 DEF RateLimitReached
      <3> QED
        BY <3>2, <3>3
    <2>3. \/ timer' = "armed" /\ limit' = TRUE
          \/ timer' \in {"null", "over"} /\ UNCHANGED limit
      BY <1>2 DEF RateLimitReached
    <2>4. {limit', due', early'} \subseteq BOOLEAN
      BY <2>1, <2>3
    <2>5. LimitedWhileTimed'
      BY <2>3
    <2>6. ~ due'
      BY <2>1
    <2>7. late' + (IF due' \/ timer' = "armed" THEN 1 ELSE 0) <= notis'
      BY <2>2
    <2>8. timer' \in {"null", "armed", "over"} /\ client' = client
      BY <2>1, <2>3
    <2>9. LimitTyped'
      BY <2>2, <2>4, <2>6, <2>7, <2>8
    <2> QED
      BY <2>5, <2>9
  <1>3. CASE TimerExpires
    <2>1. /\ timer = "armed" /\ timer' = "over"
          /\ UNCHANGED <<limit, client, notis, late, early>>
      BY <1>3 DEF TimerExpires
    <2>2. due' = TRUE
      BY <1>3 DEF TimerExpires
    <2>3. {limit', due', early'} \subseteq BOOLEAN
      BY <2>1, <2>2
    <2>4. late + 1 <= notis
      BY <2>1
    <2> QED
      BY <2>1, <2>3, <2>4
  <1>4. CASE _iot_noti_rate_limit_cb
    <2>1. due /\ timer # "armed" /\ UNCHANGED <<timer, client, notis, late, early>>
      BY <1>4 DEF _iot_noti_rate_limit_cb
    <2>2. {limit', due', early'} \subseteq BOOLEAN
      BY <1>4 DEF _iot_noti_rate_limit_cb
    <2>3. late + 1 <= notis
      BY <2>1
    <2> QED
      BY <2>1, <2>2, <2>3
  <1>5. CASE LateCallback
    <2>1. /\ late > 0 /\ late' = late - 1
          /\ UNCHANGED <<timer, due, client, notis>>
      BY <1>5 DEF LateCallback
    <2>2. limit' = FALSE /\ early' = TRUE
      BY <1>5 DEF LateCallback
    <2>3. {limit', due', early'} \subseteq BOOLEAN
      BY <2>1, <2>2
    <2>4. LimitedWhileTimed'
      BY <2>2
    <2> QED
      BY <2>1, <2>3, <2>4
  <1>6. CASE JwtExpired
    BY <1>6 DEF JwtExpired, limitVars
  <1>7. CASE iot_es_connect
    BY <1>7 DEF iot_es_connect, limitVars
  <1>8. CASE UNCHANGED vars
    BY <1>1, <1>8 DEF vars, limitVars
  <1>9. ASSUME NEW t \in Apps,
               \/ \E k \in 1 .. MaxEvents : Send(t, k)
               \/ Wrap(t) \/ ReadNumber(t) \/ WriteNumber(t) \/ MakeEvent(t)
               \/ SendFails(t) \/ Publish(t) \/ ReturnNumber(t)
        PROVE  LimitInv'
    <2>1. UNCHANGED <<limitVars, client, notis>>
      BY <1>9 DEF Send, Wrap, ReadNumber, WriteNumber, MakeEvent, SendFails,
         Publish, ReturnNumber
    <2> QED
      BY <2>1, <1>1
  <1> QED
    BY <1>2, <1>3, <1>4, <1>5, <1>6, <1>7, <1>8, <1>9 DEF Next, st_cap_send_attr_v2

\* No call, no limit and no timer.
LEMMA InitCapabilityInv == Init => CapabilityInv
  <1> SUFFICES ASSUME Init PROVE CapabilityInv
    OBVIOUS
  <1> USE CapabilityAssumption
  <1>1. Idle \in CallType /\ StepFits(Idle) /\ NumberFits(Idle, sqnum)
    BY DEF Idle, CallType, Steps, NoNumber, StepFits, NumberFits
  <1>2. NumberInv
    <2>1. \A t \in Apps : call[t] = Idle
      BY DEF Init
    <2>2. CallsTyped
      BY <1>1 DEF Init, CallsTyped
    <2>3. AloneIsAlone
      BY <2>1 DEF AloneIsAlone, Idle
    <2>4. CallsFit
      BY <1>1, <2>1 DEF CallsFit
    <2> QED
      BY <2>2, <2>3, <2>4 DEF NumberInv
  <1>3. {limit, due, early} \subseteq BOOLEAN /\ ~ due
    BY DEF Init
  <1>4. LimitInv
    BY <1>3 DEF Init, LimitInv, LimitTyped, LimitedWhileTimed
  <1> QED
    BY <1>2, <1>4 DEF CapabilityInv

-----------------------------------------------------------------------------
\* In every reachable state the invariant holds.
THEOREM CapabilityInvHolds == Spec => []CapabilityInv
  <1>1. CapabilityInv /\ [Next]_vars => CapabilityInv'
    BY NextNumberInv, NextLimitInv DEF CapabilityInv
  <1> QED
    BY <1>1, InitCapabilityInv, PTL DEF Spec

\* The number that st_cap_send_attr returns is the number of every event of the
\* message, and not 0, for a call during which there was no other.
THEOREM NumberAlwaysIdentifies == Spec => NumberIdentifiesMessage
  <1> DEFINE Identified == \A t \in Apps : ReturnNumber(t) /\ call[t].alone =>
                call[t].num = sqnum /\ call[t].same /\ sqnum \in 1 .. MAX_SQNUM
  <1>1. CapabilityInv => Identified
    <2> SUFFICES ASSUME CapabilityInv, NEW t \in Apps, ReturnNumber(t), call[t].alone
                 PROVE  call[t].num = sqnum /\ call[t].same /\ sqnum \in 1 .. MAX_SQNUM
      OBVIOUS
    <2>1. call[t].pc = "return"
      BY DEF ReturnNumber
    <2>2. StepFits(call[t]) /\ NumberFits(call[t], sqnum) /\ sqnum \in 0 .. MAX_SQNUM
      BY DEF CapabilityInv, NumberInv, CallsFit, CallsTyped
    <2>3. sqnum # 0 /\ call[t].num = sqnum /\ call[t].same
      BY <2>1, <2>2 DEF StepFits, NumberFits
    <2> QED
      BY <2>2, <2>3, CapabilityAssumption
  <1> QED
    BY <1>1, CapabilityInvHolds, PTL DEF NumberIdentifiesMessage

\* The variables stay in type, and attributes are refused while the timer of the
\* rate limit runs: the safety part of RateLimitEnds.
THEOREM LimitedWhileTimerRuns == Spec => [](TypeOK /\ LimitedWhileTimed)
  <1>1. CapabilityInv => TypeOK /\ LimitedWhileTimed
    <2> SUFFICES ASSUME CapabilityInv PROVE TypeOK /\ LimitedWhileTimed
      OBVIOUS
    <2>1. late \in 0 .. MaxNotis
      <3>1. CASE due \/ timer = "armed"
        BY <3>1, CapabilityAssumption DEF CapabilityInv, LimitInv, LimitTyped
      <3>2. CASE ~ (due \/ timer = "armed")
        BY <3>2, CapabilityAssumption DEF CapabilityInv, LimitInv, LimitTyped
      <3> QED
        BY <3>1, <3>2
    <2>2. ASSUME NEW t \in Apps
          PROVE  /\ call[t].pc \in Steps
                 /\ call[t].num \in 0 .. NoNumber /\ call[t].left \in 0 .. MaxEvents
                 /\ call[t].pc \in {"publish", "return"} => call[t].num # NoNumber
      BY DEF CapabilityInv, NumberInv, CallsTyped, CallsFit, StepFits, CallType
    <2> QED
      BY <2>1, <2>2 DEF CapabilityInv, NumberInv, LimitInv, CallsTyped, LimitTyped,
         TypeOK, Steps
  <1> QED
    BY <1>1, CapabilityInvHolds, PTL

=============================================================================

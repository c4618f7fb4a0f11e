--------------------------- MODULE BleTransferProofs ---------------------------
(***************************************************************************)
(* For every number of messages, chunks and segments: what is dispatched   *)
(* is one whole message (DispatchedIsWhole), an indication carries the     *)
(* command of its request (AnswerFitsRequest), and a message is skipped as *)
(* a duplicate only while a request of its command is unanswered           *)
(* (SkippedHasCause).                                                      *)
(***************************************************************************)
EXTENDS BleTransfer, Integers, SequenceTheorems, TLAPS

(* The inductive invariant.                                                *)

Command == Cmds \cup {0}
State == [state : {IDLE, ASSEMBLE, DISASSEMBLE}, op : Nat, cmd : Command, tid : Nat,
          mtu : BOOLEAN, cont : 0 .. MaxChunks - 1, idx : Int, data : Seq(0 .. MaxMsgs)]
Message == [id : 0 .. MaxMsgs, cmd : Command, chunks : 0 .. MaxChunks,
            segs : 0 .. MaxSegments, op : 0 .. MaxSegments]
Call == [cmd : Command, id : 0 .. MaxMsgs]
Sender == [pc : {"idle", "check", "start", "send"},
           cmd : Command \cup {SETUPCOMPLETE_RESPONSE}, label : Command,
           left : 0 .. MaxSegments, op : Nat]

\* The transfer state, the message being written and the hand-over.
Typed == /\ ms \in State /\ Len(ms.data) <= MaxChunks
         /\ phone \in Message /\ tid \in Nat /\ cmdOf \in [1 .. MaxMsgs -> Command]
         /\ {host, g, req} \subseteq Call
         /\ task \in {"none", "poll", "taken", "handle", "send", "crashed"}
         /\ snd \in [Senders -> Sender] /\ snd["task"].cmd \in Command
         /\ {flag, owed, conn, mixed, lost, skipped} \subseteq BOOLEAN

\* The phone's message has a command and is at one of its segments.
PhoneWrites == phone.id # 0 => /\ cmdOf[phone.id] = phone.cmd /\ phone.cmd # 0
                               /\ phone.chunks > 0 /\ tid > 0
                               /\ phone.op \in 1 .. phone.segs

\* The phone is in the middle of its message.
Midway == phone.id # 0 /\ (phone.chunks > 1 \/ phone.op < phone.segs)

\* A segment is awaited only when the chunks have their array.
ArrayIsThere == ms.state = ASSEMBLE => ms.data # <<>>

\* Chunks that are held belong to the message the phone writes, and the array
\* is long enough for those to come; or the phone that wrote them is gone, and
\* the ids of the next one start below theirs.
ChunksAreOfMessage ==
    ~ mixed /\ ms.data # <<>> =>
       /\ ms.tid > 0
       /\ \/ ~ conn
          \/ phone.id = 0 /\ tid = 0
          \/ /\ Midway /\ ms.data[1] = phone.id /\ Len(ms.data) >= phone.chunks
             /\ ms.state = ASSEMBLE => ms.cont = phone.chunks - 1

HostIsWhole == host # NoCall /\ ~ mixed => host.id # 0 /\ cmdOf[host.id] = host.cmd

\* What a sender found when it checked is still so, unless it was overtaken.
CheckedIsCurrent ==
    /\ snd["task"].pc = "start" => ms.cmd = snd["task"].cmd \/ "task" \in raced
    /\ \A t \in Senders : snd[t].pc \in {"start", "send"} => ms.mtu \/ t \in reset \cup raced

\* Where the request is whose command msg_state notes as unanswered.
Arriving == /\ phone.id # 0
            /\ \/ ms.state = ASSEMBLE /\ phone.op < phone.segs
               \/ /\ ms.state = IDLE /\ phone.op = phone.segs /\ phone.chunks > 1
                  /\ ms.tid = tid
HandedOver == /\ flag \/ task = "taken"
              /\ ms.cmd = IF host = NoCall THEN g.cmd ELSE host.cmd
InHand == \/ task = "handle" /\ ms.cmd = req.cmd
          \/ owed /\ ms.cmd = SETUPCOMPLETE
          \/ \E t \in Senders : snd[t].pc # "idle"
UnansweredIsUnderWay ==
    ~ lost /\ ~ mixed /\ ms.cmd # 0 => conn /\ (Arriving \/ HandedOver \/ InHand)

TransferInv == /\ Typed /\ PhoneWrites /\ ArrayIsThere /\ ChunksAreOfMessage /\ ChunkFits
               /\ HostIsWhole /\ CheckedIsCurrent /\ AnswerFitsRequest
               /\ UnansweredIsUnderWay

-----------------------------------------------------------------------------
LEMMA InitTransferInv == Init => TransferInv
  <1> SUFFICES ASSUME Init PROVE TransferInv
    OBVIOUS
  <1> USE BleTransferAssumption
  <1>0. /\ MaxChunks \in Nat /\ MaxChunks > 0 /\ 0 \in Command /\ 0 \in 0 .. MaxMsgs
        /\ 0 \in 0 .. MaxChunks /\ 0 \in 0 .. MaxChunks - 1 /\ 0 \in 0 .. MaxSegments
        /\ <<>> \in Seq(0 .. MaxMsgs) /\ Len(<<>>) = 0
    BY DEF Command
  <1>1. ms \in State /\ Len(ms.data) <= MaxChunks
    BY <1>0 DEF Init, FreshState, State, IDLE, ASSEMBLE, DISASSEMBLE
  <1>2. phone \in Message /\ {host, g, req} \subseteq Call
    BY <1>0 DEF Init, NoMessage, Message, NoCall, Call
  <1>3. snd \in [Senders -> Sender] /\ snd["task"].cmd \in Command
    <2>1. NotSending \in Sender /\ NotSending.cmd = 0
      BY <1>0 DEF NotSending, Sender
    <2> QED
      BY <1>0, <2>1 DEF Init, Senders
  <1>4. {flag, owed, conn, mixed, lost, skipped} \subseteq BOOLEAN
    BY DEF Init
  <1>5. cmdOf \in [1 .. MaxMsgs -> Command] /\ tid \in Nat /\ task = "none"
    BY <1>0 DEF Init
  <1>6. Typed
    BY <1>1, <1>2, <1>3, <1>4, <1>5 DEF Typed
  <1>7. PhoneWrites /\ ArrayIsThere /\ ChunksAreOfMessage /\ ChunkFits
    BY DEF Init, PhoneWrites, ArrayIsThere, ChunksAreOfMessage, ChunkFits, NoMessage,
           FreshState, IDLE, ASSEMBLE
  <1>8. HostIsWhole /\ UnansweredIsUnderWay
    BY DEF Init, HostIsWhole, UnansweredIsUnderWay, FreshState
  <1>9. CheckedIsCurrent /\ AnswerFitsRequest
    BY DEF Init, CheckedIsCurrent, AnswerFitsRequest, Senders, NotSending, Sending
  <1> QED
    BY <1>6, <1>7, <1>8, <1>9 DEF TransferInv

-----------------------------------------------------------------------------
(* es_msg_assemble                                                         *)

Segment == [op : Nat, cmd : Cmds, tid : Nat \ {0}, cont : 0 .. MaxChunks - 1,
            id : 1 .. MaxMsgs, last : BOOLEAN]

\* _es_msg_state_reset leaves no chunk and keeps the command and the id.
LEMMA ResetState ==
    ASSUME NEW m \in State
    PROVE  LET n == _es_msg_state_reset(m)
           IN  /\ n \in State /\ n.state = IDLE /\ n.data = <<>> /\ n.mtu = FALSE
               /\ n.cmd = m.cmd /\ n.tid = m.tid
  <1>1. 0 \in 0 .. MaxChunks - 1
    BY BleTransferAssumption
  <1> QED
    BY <1>1 DEF _es_msg_state_reset, State, IDLE

\* The array of chunks: made with room for all, and written in place (an index
\* outside it changes nothing here).
LEMMA NewArray ==
    ASSUME NEW k \in Nat
    PROVE  LET d == [i \in 1 .. k |-> 0]
           IN  d \in Seq(0 .. MaxMsgs) /\ Len(d) = k
  <1> DEFINE d == [i \in 1 .. k |-> 0]
  <1>1. 0 \in 0 .. MaxMsgs
    BY BleTransferAssumption
  <1>2. d \in [1 .. k -> 0 .. MaxMsgs]
    BY <1>1
  <1>3. d \in Seq(0 .. MaxMsgs)
    BY <1>2, SeqDef
  <1>4. DOMAIN d = 1 .. Len(d) /\ DOMAIN d = 1 .. k /\ Len(d) \in Nat
    BY <1>3, LenProperties
  <1>5. Len(d) = k
    <2> HIDE DEF d
    <2>1. CASE Len(d) < k
      <3>1. k \in 1 .. k /\ k \notin 1 .. Len(d)
        BY <1>4, <2>1
      <3> QED
        BY <1>4, <3>1
    <2>2. CASE Len(d) > k
      <3>1. Len(d) \in 1 .. Len(d) /\ Len(d) \notin 1 .. k
        BY <1>4, <2>2
      <3> QED
        BY <1>4, <3>1
    <2>3. Len(d) \in Nat
      BY <1>4
    <2> QED
      BY <2>1, <2>2, <2>3
  <1> QED
    BY <1>3, <1>5

LEMMA ArrayWritten ==
    ASSUME NEW S, NEW d \in Seq(S), d # <<>>, NEW i \in Int, NEW e \in S
    PROVE  LET n == [d EXCEPT ![i] = e]
           IN  /\ n \in Seq(S) /\ Len(n) = Len(d)
               /\ n[1] = IF i = 1 THEN e ELSE d[1]
  <1>1. Len(d) \in Nat \ {0} /\ DOMAIN d = 1 .. Len(d) /\ d \in [1 .. Len(d) -> S]
    BY EmptySeq, LenProperties
  <1>2. CASE i \in 1 .. Len(d)
    BY <1>1, <1>2, ExceptSeq
  <1>3. CASE i \notin 1 .. Len(d)
    <2> DEFINE n == [d EXCEPT ![i] = e]
    <2>1. n = d
      <3>1. DOMAIN n = DOMAIN d /\ n = [j \in DOMAIN n |-> n[j]]
        OBVIOUS
      <3>2. \A j \in DOMAIN d : n[j] = d[j]
        BY <1>1, <1>3
      <3>3. d = [j \in DOMAIN d |-> d[j]]
        BY <1>1
      <3> HIDE DEF n
      <3> QED
        BY <3>1, <3>2, <3>3
    <2>2. i # 1
      BY <1>1, <1>3
    <2>3. n \in Seq(S) /\ Len(n) = Len(d) /\ n[1] = d[1]
      <3> HIDE DEF n
      <3> QED
        BY <2>1
    <2> QED
      BY <2>2, <2>3
  <1> QED
    BY <1>2, <1>3

\* A first segment is refused, or its chunk gets its place in the array.
Refused(m, s) == s.op # 0 \/ (s.tid <= m.tid /\ m.tid # 0)
Placed(m, s, n) ==
    \/ m.data = <<>> /\ Len(n.data) = s.cont + 1 /\ n.data[1] = s.id /\ n.idx = 1
    \/ /\ m.data # <<>> /\ Len(n.data) = Len(m.data)
       /\ n.data[1] \in {m.data[1], s.id} /\ n.idx = Len(m.data) - s.cont

LEMMA FirstOfChunk ==
    ASSUME NEW m \in State, Len(m.data) <= MaxChunks, NEW s \in Segment
    PROVE  LET r == FirstSegment(m, s)
               dup == m.cmd # 0 /\ m.cmd = s.cmd IN
           \/ Refused(m, s) /\ r = Result(_es_msg_state_reset(m), FALSE, FALSE)
           \/ /\ s.op = 0 /\ (s.tid > m.tid \/ m.tid = 0)
              /\ r = Result(r.m, s.last, dup)
              /\ r.m \in State /\ Len(r.m.data) <= MaxChunks /\ r.m.data # <<>>
              /\ r.m.state = IF s.last THEN IDLE ELSE ASSEMBLE
              /\ r.m.cmd = s.cmd /\ r.m.tid = s.tid /\ r.m.cont = s.cont
              /\ Placed(m, s, r.m)
  <1> DEFINE data == IF m.data = <<>> THEN [i \in 1 .. s.cont + 1 |-> 0] ELSE m.data
             idx  == Len(data) - s.cont
             new  == [data EXCEPT ![idx] = s.id]
             n    == [state |-> IF s.last THEN IDLE ELSE ASSEMBLE, op |-> 0,
                      cmd |-> s.cmd, tid |-> s.tid, mtu |-> TRUE, cont |-> s.cont,
                      idx |-> idx, data |-> new]
             dup  == m.cmd # 0 /\ m.cmd = s.cmd
  <1>0. /\ MaxChunks \in Nat /\ s.cont \in 0 .. MaxChunks - 1 /\ s.cont + 1 \in Nat
        /\ s.id \in 0 .. MaxMsgs /\ m.tid \in Nat /\ s.tid \in Nat
        /\ m.data \in Seq(0 .. MaxMsgs)
    BY BleTransferAssumption DEF Segment, State
  <1>1. CASE Refused(m, s)
    BY <1>1 DEF FirstSegment, Refused
  <1>2. CASE ~ Refused(m, s)
    <2>1. FirstSegment(m, s) = Result(n, s.last, dup)
      BY <1>2 DEF FirstSegment, Refused
    <2>2. s.op = 0 /\ (s.tid > m.tid \/ m.tid = 0)
      BY <1>0, <1>2 DEF Refused
    <2>3. /\ data \in Seq(0 .. MaxMsgs) /\ data # <<>> /\ Len(data) <= MaxChunks
          /\ m.data = <<>> => Len(data) = s.cont + 1
      <3>1. CASE m.data = <<>>
        <4>1. data = [i \in 1 .. s.cont + 1 |-> 0]
          BY <3>1
        <4>2. data \in Seq(0 .. MaxMsgs) /\ Len(data) = s.cont + 1
          BY <1>0, <4>1, NewArray
        <4>3. Len(<<>>) = 0
          BY EmptySeq
        <4> HIDE DEF data
        <4> QED
          BY <1>0, <4>2, <4>3
      <3>2. CASE m.data # <<>>
        BY <1>0, <3>2
      <3> QED
        BY <3>1, <3>2
    <2>4. m.data # <<>> => data = m.data
      OBVIOUS
    <2> HIDE DEF data
    <2>5. idx \in Int /\ (m.data = <<>> => idx = 1)
      BY <1>0, <2>3
    <2>6. m.data # <<>> => idx = Len(m.data) - s.cont
      BY <2>4
    <2> HIDE DEF idx
    <2>7. /\ new \in Seq(0 .. MaxMsgs) /\ Len(new) = Len(data)
          /\ new[1] = IF idx = 1 THEN s.id ELSE data[1]
      BY <1>0, <2>3, <2>5, ArrayWritten
    <2>8. new # <<>>
      <3>1. Len(data) # 0
        BY <2>3, EmptySeq
      <3> QED
        BY <2>7, <3>1, EmptySeq
    <2> HIDE DEF new
    <2>9. n \in State
      BY <1>0, <2>5, <2>7 DEF State, Segment, Command
    <2>10. /\ n.data = new /\ n.idx = idx /\ n.cmd = s.cmd /\ n.tid = s.tid
           /\ n.cont = s.cont /\ n.state = IF s.last THEN IDLE ELSE ASSEMBLE
      OBVIOUS
    <2>11. Placed(m, s, n)
      BY <2>3, <2>4, <2>5, <2>6, <2>7, <2>10 DEF Placed
    <2>12. Result(n, s.last, dup).m = n
      BY DEF Result
    <2> HIDE DEF n
    <2> QED
      BY <2>1, <2>2, <2>3, <2>7, <2>8, <2>9, <2>10, <2>11, <2>12
  <1> QED
    BY <1>1, <1>2

\* A segment that is taken, as the first or as a later one of its chunk, leaves n.
Taken(m, s, n) ==
    /\ n \in State /\ Len(n.data) <= MaxChunks /\ n.data # <<>>
    /\ n.cmd = s.cmd /\ n.tid = s.tid /\ (s.last \/ n.state = ASSEMBLE)
    /\ \/ /\ m.state = IDLE /\ s.op = 0 /\ (s.tid > m.tid \/ m.tid = 0)
          /\ n.cont = s.cont /\ Placed(m, s, n)
       \/ /\ m.state = ASSEMBLE /\ s.op > 0 /\ s.cmd = m.cmd /\ s.tid = m.tid
          /\ n.cont = m.cont /\ n.idx = m.idx /\ n.data = m.data

Duplicate(m, s) == m.state = IDLE /\ m.cmd # 0 /\ m.cmd = s.cmd

LEMMA Assembled ==
    ASSUME NEW m \in State, Len(m.data) <= MaxChunks, NEW s \in Segment,
           m.state = ASSEMBLE => m.data # <<>>
    PROVE  \/ /\ es_msg_assemble(m, s) = Result(_es_msg_state_reset(m), FALSE, FALSE)
              /\ m.state = IDLE => Refused(m, s)
           \/ \E n : /\ Taken(m, s, n)
                     /\ es_msg_assemble(m, s) = Result(n, s.last, Duplicate(m, s))
  <1>0. /\ m.state \in {IDLE, ASSEMBLE, DISASSEMBLE} /\ m.op \in Nat /\ s.op \in Nat
        /\ IDLE # ASSEMBLE /\ IDLE # DISASSEMBLE /\ ASSEMBLE # DISASSEMBLE
    BY DEF State, Segment, IDLE, ASSEMBLE, DISASSEMBLE
  <1>1. CASE m.state = DISASSEMBLE
    BY <1>0, <1>1 DEF es_msg_assemble
  <1>2. CASE m.state = IDLE
    <2>1. es_msg_assemble(m, s) = FirstSegment(m, s)
      BY <1>0, <1>2 DEF es_msg_assemble
    <2> DEFINE r == FirstSegment(m, s)
    <2>2. \/ Refused(m, s) /\ r = Result(_es_msg_state_reset(m), FALSE, FALSE)
          \/ /\ s.op = 0 /\ (s.tid > m.tid \/ m.tid = 0)
             /\ r = Result(r.m, s.last, m.cmd # 0 /\ m.cmd = s.cmd)
             /\ r.m \in State /\ Len(r.m.data) <= MaxChunks /\ r.m.data # <<>>
             /\ r.m.state = IF s.last THEN IDLE ELSE ASSEMBLE
             /\ r.m.cmd = s.cmd /\ r.m.tid = s.tid /\ r.m.cont = s.cont
             /\ Placed(m, s, r.m)
      BY FirstOfChunk
    <2> HIDE DEF r
    <2>3. \/ Refused(m, s) /\ r = Result(_es_msg_state_reset(m), FALSE, FALSE)
          \/ Taken(m, s, r.m) /\ r = Result(r.m, s.last, m.cmd # 0 /\ m.cmd = s.cmd)
      BY <1>2, <2>2 DEF Taken
    <2>4. Duplicate(m, s) = (m.cmd # 0 /\ m.cmd = s.cmd)
      BY <1>2 DEF Duplicate
    <2>5. es_msg_assemble(m, s) = r
      BY <2>1 DEF r
    <2>6. CASE Refused(m, s) /\ r = Result(_es_msg_state_reset(m), FALSE, FALSE)
      BY <2>5, <2>6
    <2>7. CASE Taken(m, s, r.m) /\ r = Result(r.m, s.last, m.cmd # 0 /\ m.cmd = s.cmd)
      <3>1. r = Result(r.m, s.last, Duplicate(m, s))
        BY <2>4, <2>7
      <3> QED
        BY <2>5, <2>7, <3>1
    <2> QED
      BY <2>3, <2>6, <2>7
  <1>3. CASE m.state = ASSEMBLE
    <2>1. es_msg_assemble(m, s) = LaterSegment(m, s)
      BY <1>0, <1>3 DEF es_msg_assemble
    <2>2. CASE ~ (s.op = m.op + 1 /\ s.cmd = m.cmd /\ s.tid = m.tid)
      BY <1>0, <1>3, <2>1, <2>2 DEF LaterSegment
    <2>3. CASE s.op = m.op + 1 /\ s.cmd = m.cmd /\ s.tid = m.tid
      <3> DEFINE n == [m EXCEPT !.op = s.op]
      <3>1. es_msg_assemble(m, s) = Result(n, s.last, FALSE)
        BY <2>1, <2>3 DEF LaterSegment
      <3>2. /\ n \in State /\ n.state = m.state /\ n.cmd = m.cmd /\ n.tid = m.tid
            /\ n.cont = m.cont /\ n.idx = m.idx /\ n.data = m.data
        BY <1>0 DEF State
      <3>3. s.op > 0
        BY <1>0, <2>3
      <3> HIDE DEF n
      <3>4. Taken(m, s, n)
        BY <1>3, <2>3, <3>2, <3>3 DEF Taken
      <3>5. Duplicate(m, s) = FALSE
        BY <1>0, <1>3 DEF Duplicate
      <3> QED
        BY <3>1, <3>4, <3>5
    <2> QED
      BY <2>2, <2>3
  <1> QED
    BY <1>0, <1>1, <1>2, <1>3

\* What the host thread leaves when it writes a segment: nothing (the segment was
\* refused, or there was no memory), the chunk so far, or the whole message, which
\* is dispatched or skipped.
Dropped(s) == /\ ms' \in State /\ ms'.state = IDLE /\ ms'.data = <<>>
              /\ skipped' = FALSE /\ flag' = flag /\ host' = NoCall
              /\ \/ lost'
                 \/ /\ ms'.cmd = ms.cmd /\ ms.state # ASSEMBLE
                    /\ ms.state = IDLE => Refused(ms, s)
Held(s, n) == /\ ~ s.last \/ n.cont # 0
              /\ ms' \in State /\ ms'.state = IF s.last THEN IDLE ELSE ASSEMBLE
              /\ ms'.cmd = n.cmd /\ ms'.tid = n.tid /\ ms'.cont = n.cont
              /\ ms'.idx = n.idx /\ ms'.data = n.data
              /\ skipped' = FALSE /\ flag' = flag /\ host' = NoCall
Dispatched(n) == /\ ms' \in State /\ ms'.state = IDLE /\ ms'.data = <<>>
                 /\ ms'.cmd = n.cmd /\ skipped' = FALSE /\ flag' = TRUE
                 /\ host' = [cmd |-> n.cmd, id |-> n.data[1]]
Skipped(s) == /\ ms' \in State /\ ms'.state = IDLE /\ ms'.data = <<>>
              /\ Duplicate(ms, s) /\ skipped' = TRUE /\ flag' = flag
              /\ host' = NoCall /\ lost'

LEMMA WriteOutcome ==
    ASSUME Typed, ArrayIsThere, host = NoCall, NEW s \in Segment, Write(s)
    PROVE  /\ lost => lost'
           /\ {flag', lost', skipped'} \subseteq BOOLEAN
           /\ \/ Dropped(s)
              \/ \E n : Taken(ms, s, n) /\ (Held(s, n) \/ Dispatched(n) \/ Skipped(s))
  <1> DEFINE r == es_msg_assemble(ms, s)
             whole == r.complete /\ r.m.cont = 0
             dispatch == whole /\ ~ r.dup
             NoMem == ms.state = IDLE /\ s.op = 0 /\ ms' \in NoMemory(ms, s)
                      /\ lost' = TRUE /\ skipped' = FALSE /\ UNCHANGED <<host, flag>>
             Mem == /\ ms' = IF whole THEN _es_msg_state_reset(r.m)
                             ELSE IF r.complete THEN [r.m EXCEPT !.state = IDLE] ELSE r.m
                    /\ skipped' = (whole /\ r.dup)
                    /\ host' = IF dispatch THEN [cmd |-> r.m.cmd, id |-> r.m.data[1]]
                               ELSE NoCall
                    /\ flag' = (flag \/ dispatch)
                    /\ lost' = (lost \/ (dispatch /\ (flag \/ task = "none"))
                                     \/ (whole /\ r.dup)
                                     \/ (/\ ms.state = ASSEMBLE /\ r.m.state = IDLE
                                         /\ ~ r.complete))
  <1>0. /\ ms \in State /\ Len(ms.data) <= MaxChunks
        /\ ms.state = ASSEMBLE => ms.data # <<>>
    BY DEF Typed, ArrayIsThere
  <1>b. {flag, lost, skipped} \subseteq BOOLEAN
    BY DEF Typed
  <1>1. Mem \/ NoMem
    BY DEF Write
  <1>2. ASSUME NoMem
        PROVE  Dropped(s) /\ lost' /\ {flag', lost', skipped'} \subseteq BOOLEAN
    <2>1. [ms EXCEPT !.cmd = s.cmd, !.tid = s.tid] \in State
      BY <1>0 DEF State, Segment, Command
    <2>2. ms' \in State /\ ms'.state = IDLE /\ ms'.data = <<>>
      BY <1>0, <1>2, <2>1, ResetState DEF NoMemory
    <2> QED
      BY <1>2, <1>b, <2>2 DEF Dropped
  <1>3. ASSUME Mem
        PROVE  /\ lost => lost'
               /\ {flag', lost', skipped'} \subseteq BOOLEAN
               /\ \/ Dropped(s)
                  \/ \E n : Taken(ms, s, n)
                            /\ (Held(s, n) \/ Dispatched(n) \/ Skipped(s))
    <2>0. (lost => lost') /\ {flag', lost', skipped'} \subseteq BOOLEAN
      BY <1>3
    <2>1. CASE /\ r = Result(_es_msg_state_reset(ms), FALSE, FALSE)
               /\ ms.state = IDLE => Refused(ms, s)
      <3>1. r.m = _es_msg_state_reset(ms) /\ r.complete = FALSE /\ r.dup = FALSE
        BY <2>1 DEF Result
      <3>2. /\ r.m \in State /\ r.m.state = IDLE /\ r.m.data = <<>> /\ r.m.cmd = ms.cmd
        BY <1>0, <3>1, ResetState
      <3> HIDE DEF r
      <3>3. /\ ms' = r.m /\ skipped' = FALSE /\ host' = NoCall
            /\ ms.state = ASSEMBLE => lost'
        BY <1>3, <3>1, <3>2
      <3>4. flag' = flag
        BY <1>3, <1>b, <3>1
      <3> QED
        BY <2>0, <2>1, <3>2, <3>3, <3>4 DEF Dropped
    <2>2. ASSUME NEW n, Taken(ms, s, n), r = Result(n, s.last, Duplicate(ms, s))
          PROVE  Held(s, n) \/ Dispatched(n) \/ Skipped(s)
      <3>1. r.m = n /\ r.complete = s.last /\ r.dup = Duplicate(ms, s)
        BY <2>2 DEF Result
      <3>2. n \in State
        BY <2>2 DEF Taken
      <3>3. LET q == _es_msg_state_reset(n)
            IN  q \in State /\ q.state = IDLE /\ q.data = <<>> /\ q.cmd = n.cmd
        BY <3>2, ResetState
      <3> HIDE DEF r
      <3>4. CASE s.last /\ n.cont = 0 /\ ~ Duplicate(ms, s)
        <4>1. /\ ms' = _es_msg_state_reset(n)
              /\ host' = [cmd |-> n.cmd, id |-> n.data[1]]
          BY <1>3, <3>1, <3>4
        <4>2. flag' = TRUE /\ skipped' = FALSE
          BY <1>3, <3>1, <3>4
        <4> QED
          BY <3>3, <4>1, <4>2 DEF Dispatched
      <3>5. CASE s.last /\ n.cont = 0 /\ Duplicate(ms, s)
        <4>1. ms' = _es_msg_state_reset(n) /\ host' = NoCall
          BY <1>3, <3>1, <3>5
        <4>2. flag' = flag /\ skipped' = TRUE /\ lost'
          BY <1>3, <1>b, <3>1, <3>5
        <4> QED
          BY <3>3, <3>5, <4>1, <4>2 DEF Skipped
      <3>6. CASE ~ (s.last /\ n.cont = 0)
        <4>1. ms' = (IF s.last THEN [n EXCEPT !.state = IDLE] ELSE n) /\ host' = NoCall
          BY <1>3, <3>1, <3>6
        <4>2. flag' = flag /\ skipped' = FALSE
          BY <1>3, <1>b, <3>1, <3>6
        <4>3. LET q == [n EXCEPT !.state = IDLE]
              IN  /\ q \in State /\ q.state = IDLE /\ q.cmd = n.cmd /\ q.tid = n.tid
                  /\ q.cont = n.cont /\ q.idx = n.idx /\ q.data = n.data
          BY <3>2 DEF State
        <4>4. s.last \/ n.state = ASSEMBLE
          BY <2>2 DEF Taken
        <4> QED
          BY <3>2, <3>6, <4>1, <4>2, <4>3, <4>4 DEF Held
      <3> QED
        BY <3>4, <3>5, <3>6
    <2> QED
      BY <1>0, <2>0, <2>1, <2>2, Assembled
  <1> QED
    BY <1>1, <1>2, <1>3

-----------------------------------------------------------------------------
(* The phone writes.                                                       *)

\* The segment s is the one at which the phone's message then is.
SegmentOf(s) ==
    /\ s \in Segment /\ s.cmd = phone'.cmd /\ s.tid = tid' /\ s.id = phone'.id
    /\ s.op = phone'.op - 1 /\ s.cont = phone'.chunks - 1
    /\ s.last = (phone'.op = phone'.segs)

\* It begins a message ...
Begins(s) == s.op = 0 /\ tid' = tid + 1 /\ (Midway => mixed')

\* ... or is the next one of the same chunk or of the next.
Continues(s) ==
    /\ phone.id # 0 /\ phone'.id = phone.id /\ mixed' = mixed
    /\ \/ /\ s.op = phone.op /\ tid' = tid /\ phone'.chunks = phone.chunks
          /\ phone.op < phone.segs
       \/ /\ s.op = 0 /\ tid' = tid + 1 /\ phone'.chunks = phone.chunks - 1
          /\ phone.op = phone.segs

LEMMA PhoneStep ==
    ASSUME TransferInv,
           \/ \E cmd \in Cmds, chunks \in 1 .. MaxChunks, segs \in 1 .. MaxSegments :
                 NewMessage(cmd, chunks, segs)
           \/ NextSegment
    PROVE  /\ conn /\ host = NoCall /\ task # "crashed"
           /\ UNCHANGED <<conn, g, task, req, snd, owed>>
           /\ phone' \in Message /\ tid' \in Nat /\ cmdOf' \in [1 .. MaxMsgs -> Command]
           /\ PhoneWrites' /\ phone'.id # 0 /\ mixed' \in BOOLEAN /\ (mixed => mixed')
           /\ \E s : SegmentOf(s) /\ Write(s) /\ (Begins(s) \/ Continues(s))
  <1>0. /\ MaxMsgs \in Nat /\ MaxChunks \in Nat /\ MaxSegments \in Nat
        /\ phone \in Message /\ tid \in Nat /\ cmdOf \in [1 .. MaxMsgs -> Command]
    BY BleTransferAssumption DEF TransferInv, Typed
  <1>b. mixed \in BOOLEAN
    BY DEF TransferInv, Typed
  <1>c. Cmds \subseteq Command /\ 0 \notin Cmds
    BY BleTransferAssumption DEF Cmds, Command, SETUPCOMPLETE
  <1>1. ASSUME NEW cmd \in Cmds, NEW chunks \in 1 .. MaxChunks,
               NEW segs \in 1 .. MaxSegments, NewMessage(cmd, chunks, segs)
        PROVE  /\ conn /\ host = NoCall /\ task # "crashed"
               /\ UNCHANGED <<conn, g, task, req, snd, owed>>
               /\ phone' \in Message /\ tid' \in Nat
               /\ cmdOf' \in [1 .. MaxMsgs -> Command]
               /\ PhoneWrites' /\ phone'.id # 0 /\ mixed' \in BOOLEAN /\ (mixed => mixed')
               /\ \E s : SegmentOf(s) /\ Write(s) /\ Begins(s)
    <2>1. PICK id \in 1 .. MaxMsgs :
             /\ cmdOf' = [cmdOf EXCEPT ![id] = cmd]
             /\ tid' = tid + 1
             /\ phone' = [id |-> id, cmd |-> cmd, chunks |-> chunks, segs |-> segs,
                          op |-> 1]
             /\ mixed' = (mixed \/ (phone.id # 0 /\ (phone.chunks > 1
                                                     \/ phone.op < phone.segs)))
             /\ Write([op |-> 0, cmd |-> cmd, tid |-> tid + 1, cont |-> chunks - 1,
                       id |-> id, last |-> segs = 1])
      BY <1>1 DEF NewMessage
    <2>2. /\ conn /\ host = NoCall /\ task # "crashed"
          /\ UNCHANGED <<conn, g, task, req, snd, owed>>
      BY <1>1 DEF NewMessage
    <2>3. phone' \in Message /\ tid' \in Nat /\ cmdOf' \in [1 .. MaxMsgs -> Command]
      BY <1>0, <1>c, <2>1 DEF Message
    <2>4. mixed' \in BOOLEAN /\ (mixed => mixed') /\ (Midway => mixed')
      BY <2>1 DEF Midway
    <2>5. PhoneWrites' /\ phone'.id # 0
      <3>1. cmdOf'[id] = cmd /\ phone'.id = id /\ phone'.cmd = cmd
        BY <1>0, <2>1
      <3>2. phone'.chunks > 0 /\ tid' > 0 /\ phone'.op \in 1 .. phone'.segs /\ id # 0
        BY <1>0, <2>1
      <3>3. cmd # 0
        BY <1>c
      <3> QED
        BY <3>1, <3>2, <3>3 DEF PhoneWrites
    <2> DEFINE s == [op |-> 0, cmd |-> cmd, tid |-> tid + 1, cont |-> chunks - 1,
                     id |-> id, last |-> segs = 1]
    <2>6. s \in Segment
      BY <1>0 DEF Segment
    <2>7. /\ s.cmd = phone'.cmd /\ s.tid = tid' /\ s.id = phone'.id
          /\ s.op = phone'.op - 1 /\ s.cont = phone'.chunks - 1 /\ s.op = 0
      BY <2>1
    <2>8. s.last = (phone'.op = phone'.segs)
      BY <2>1
    <2>9. Write(s)
      BY <2>1
    <2> HIDE DEF s
    <2> QED
      BY <2>1, <2>2, <2>3, <2>4, <2>5, <2>6, <2>7, <2>8, <2>9 DEF SegmentOf, Begins
  <1>2. ASSUME NextSegment
        PROVE  /\ conn /\ host = NoCall /\ task # "crashed"
               /\ UNCHANGED <<conn, g, task, req, snd, owed>>
               /\ phone' \in Message /\ tid' \in Nat
               /\ cmdOf' \in [1 .. MaxMsgs -> Command]
               /\ PhoneWrites' /\ phone'.id # 0 /\ mixed' \in BOOLEAN /\ (mixed => mixed')
               /\ \E s : SegmentOf(s) /\ Write(s) /\ Continues(s)
    <2>1. /\ conn /\ host = NoCall /\ task # "crashed" /\ phone.id # 0
          /\ UNCHANGED <<conn, g, task, req, snd, owed, cmdOf, mixed>>
      BY <1>2 DEF NextSegment
    <2>2. /\ phone.cmd # 0 /\ phone.chunks > 0 /\ tid > 0 /\ phone.op \in 1 .. phone.segs
          /\ cmdOf[phone.id] = phone.cmd
      BY <2>1 DEF TransferInv, PhoneWrites
    <2>3. phone.cmd \in Cmds /\ phone.id \in 1 .. MaxMsgs
      BY <1>0, <2>1, <2>2 DEF Message, Command
    <2>4. CASE phone.op < phone.segs
      <3> DEFINE s == [op |-> phone.op, cmd |-> phone.cmd, tid |-> tid,
                       cont |-> phone.chunks - 1, id |-> phone.id,
                       last |-> phone.op + 1 = phone.segs]
      <3>1. phone' = [phone EXCEPT !.op = @ + 1] /\ tid' = tid /\ Write(s)
        BY <1>2, <2>4 DEF NextSegment
      <3>2. /\ phone' \in Message /\ phone'.id = phone.id /\ phone'.cmd = phone.cmd
            /\ phone'.chunks = phone.chunks /\ phone'.segs = phone.segs
            /\ phone'.op = phone.op + 1
        <4>1. phone.op + 1 \in 0 .. MaxSegments
          BY <1>0, <2>2, <2>4 DEF Message
        <4> QED
          BY <1>0, <3>1, <4>1 DEF Message
      <3>3. s \in Segment
        BY <1>0, <2>2, <2>3 DEF Segment, Message
      <3>4. /\ s.cmd = phone'.cmd /\ s.tid = tid' /\ s.id = phone'.id
            /\ s.op = phone'.op - 1 /\ s.cont = phone'.chunks - 1 /\ s.op = phone.op
        BY <1>0, <3>1, <3>2 DEF Message
      <3>5. s.last = (phone'.op = phone'.segs)
        BY <3>2
      <3>6. PhoneWrites' /\ phone'.id # 0
        BY <1>0, <2>1, <2>2, <2>4, <3>1, <3>2 DEF PhoneWrites, Message
      <3> HIDE DEF s
      <3>7. SegmentOf(s) /\ Write(s) /\ Continues(s)
        BY <2>1, <2>4, <3>1, <3>2, <3>3, <3>4, <3>5 DEF SegmentOf, Continues
      <3> QED
        BY <1>0, <1>b, <2>1, <3>1, <3>2, <3>6, <3>7
    <2>5. CASE ~ (phone.op < phone.segs)
      <3> DEFINE s == [op |-> 0, cmd |-> phone.cmd, tid |-> tid + 1,
                       cont |-> phone.chunks - 2, id |-> phone.id,
                       last |-> phone.segs = 1]
      <3>1. /\ phone.chunks > 1 /\ phone' = [phone EXCEPT !.chunks = @ - 1, !.op = 1]
            /\ tid' = tid + 1 /\ Write(s)
        BY <1>2, <2>5 DEF NextSegment
      <3>2. /\ phone' \in Message /\ phone'.id = phone.id /\ phone'.cmd = phone.cmd
            /\ phone'.chunks = phone.chunks - 1 /\ phone'.segs = phone.segs
            /\ phone'.op = 1
        <4>1. phone.chunks - 1 \in 0 .. MaxChunks /\ 1 \in 0 .. MaxSegments
          BY <1>0, <2>2, <3>1, BleTransferAssumption DEF Message
        <4>2. phone' = [[phone EXCEPT !.chunks = phone.chunks - 1] EXCEPT !.op = 1]
          BY <3>1
        <4> QED
          BY <1>0, <4>1, <4>2 DEF Message
      <3>3. s \in Segment
        BY <1>0, <2>2, <2>3, <3>1 DEF Segment, Message
      <3>4. /\ s.cmd = phone'.cmd /\ s.tid = tid' /\ s.id = phone'.id
            /\ s.op = phone'.op - 1 /\ s.cont = phone'.chunks - 1 /\ s.op = 0
        BY <1>0, <3>1, <3>2 DEF Message
      <3>5. s.last = (phone'.op = phone'.segs)
        BY <3>2
      <3>6. PhoneWrites' /\ phone'.id # 0
        BY <1>0, <2>1, <2>2, <3>1, <3>2 DEF PhoneWrites, Message
      <3>8. phone.op = phone.segs
        BY <1>0, <2>2, <2>5 DEF Message
      <3> HIDE DEF s
      <3>7. SegmentOf(s) /\ Write(s) /\ Continues(s)
        BY <2>1, <3>1, <3>2, <3>3, <3>4, <3>5, <3>8 DEF SegmentOf, Continues
      <3> QED
        BY <1>0, <1>b, <2>1, <3>1, <3>2, <3>6, <3>7
    <2> QED
      BY <2>4, <2>5
  <1> QED
    BY <1>1, <1>2

\* A segment that is taken belongs to the phone's message, in its array of chunks,
\* unless the phone gave up a message for this one.
LEMMA TakenIsOfMessage ==
    ASSUME TransferInv, conn, phone' \in Message, phone'.id # 0, PhoneWrites',
           tid' \in Nat, mixed => mixed', ~ mixed', NEW s, SegmentOf(s),
           Begins(s) \/ Continues(s), NEW n, Taken(ms, s, n)
    PROVE  /\ n.data[1] = phone'.id /\ Len(n.data) >= phone'.chunks
           /\ n.cont = phone'.chunks - 1 /\ n.idx \in 1 .. Len(n.data)
  <1>0. /\ ~ mixed /\ s.id = phone'.id /\ s.cont = phone'.chunks - 1 /\ s.tid = tid'
        /\ s.op = phone'.op - 1
    BY DEF SegmentOf
  <1>1. /\ phone' \in Message /\ phone \in Message /\ ms.tid \in Nat /\ tid \in Nat
        /\ Len(n.data) \in Nat /\ Len(ms.data) \in Nat
        /\ phone'.chunks > 0 /\ phone'.chunks \in Nat /\ phone.chunks \in Nat
        /\ phone.id # 0 => phone.op > 0 /\ phone.op \in Nat
    <2>1. ms.tid \in Nat /\ n.data \in Seq(0 .. MaxMsgs) /\ ms.data \in Seq(0 .. MaxMsgs)
      BY DEF TransferInv, Typed, Taken, State
    <2>2. phone.id # 0 => phone.op > 0 /\ phone.op \in Nat
      BY DEF TransferInv, PhoneWrites, Typed, Message
    <2>3. phone'.chunks > 0
      BY DEF PhoneWrites
    <2>4. phone'.chunks \in Nat /\ phone.chunks \in Nat
      BY BleTransferAssumption DEF TransferInv, Typed, Message
    <2>5. Len(n.data) \in Nat /\ Len(ms.data) \in Nat
      BY <2>1
    <2> QED
      BY <2>1, <2>2, <2>3, <2>4, <2>5 DEF TransferInv, Typed
  <1>2. CASE ms.state = IDLE /\ s.op = 0 /\ ms.data = <<>> /\ Placed(ms, s, n)
             /\ n.cont = s.cont
    <2>1. Len(n.data) = s.cont + 1 /\ n.data[1] = s.id /\ n.idx = 1
      BY <1>2 DEF Placed
    <2>2. Len(n.data) = phone'.chunks
      BY <1>0, <1>1, <2>1
    <2>3. n.idx \in 1 .. Len(n.data) /\ Len(n.data) >= phone'.chunks
      BY <1>1, <2>1, <2>2
    <2> QED
      BY <1>0, <1>2, <2>1, <2>3
  <1>3. CASE ms.data # <<>>
    <2>1. /\ ms.tid > 0
          /\ \/ phone.id = 0 /\ tid = 0
             \/ /\ Midway /\ ms.data[1] = phone.id /\ Len(ms.data) >= phone.chunks
                /\ ms.state = ASSEMBLE => ms.cont = phone.chunks - 1
      BY <1>0, <1>3 DEF TransferInv, ChunksAreOfMessage
    <2>2. CASE /\ ms.state = IDLE /\ s.op = 0 /\ (s.tid > ms.tid \/ ms.tid = 0)
               /\ n.cont = s.cont /\ Placed(ms, s, n)
      <3>1. s.tid > ms.tid
        BY <1>1, <2>1, <2>2
      <3>2. ~ (phone.id = 0 /\ tid = 0)
        BY <1>0, <1>1, <2>1, <3>1 DEF Begins, Continues
      <3>3. ~ Begins(s)
        BY <2>1, <3>2 DEF Begins
      <3>4. phone'.id = phone.id /\ phone'.chunks = phone.chunks - 1
        <4>1. Continues(s) /\ s.op = 0
          BY <2>2, <3>3
        <4>2. s.op # phone.op
          BY <1>1, <4>1 DEF Continues
        <4> QED
          BY <4>1, <4>2 DEF Continues
      <3>5. ms.data[1] = phone.id /\ Len(ms.data) >= phone.chunks
        BY <2>1, <3>2
      <3>6. /\ Len(n.data) = Len(ms.data) /\ n.data[1] \in {ms.data[1], s.id}
            /\ n.idx = Len(ms.data) - s.cont
        BY <1>3, <2>2 DEF Placed
      <3>7. n.data[1] = phone'.id
        BY <1>0, <3>4, <3>5, <3>6
      <3>8. Len(n.data) >= phone'.chunks
        BY <1>1, <3>4, <3>5, <3>6
      <3>9. n.idx = Len(n.data) - (phone'.chunks - 1)
        BY <1>0, <3>6
      <3>10. n.idx \in 1 .. Len(n.data)
        BY <1>1, <3>8, <3>9
      <3> QED
        BY <1>0, <2>2, <3>7, <3>8, <3>10
    <2>3. CASE /\ ms.state = ASSEMBLE /\ s.op > 0 /\ n.cont = ms.cont /\ n.idx = ms.idx
               /\ n.data = ms.data
      <3>1. ~ Begins(s)
        BY <2>3 DEF Begins
      <3>2. phone.id # 0 /\ phone'.id = phone.id /\ phone'.chunks = phone.chunks
        BY <2>3, <3>1 DEF Continues
      <3>3. /\ ms.data[1] = phone.id /\ Len(ms.data) >= phone.chunks
            /\ ms.cont = phone.chunks - 1
        BY <2>1, <2>3, <3>2
      <3>4. ms.idx \in 1 .. Len(ms.data)
        BY <1>0, <2>3 DEF TransferInv, ChunkFits
      <3> QED
        BY <2>3, <3>2, <3>3, <3>4
    <2> QED
      BY <2>2, <2>3 DEF Taken
  <1> QED
    <2>1. ms.state = ASSEMBLE => ms.data # <<>>
      BY DEF TransferInv, ArrayIsThere
    <2> QED
      BY <1>2, <1>3, <2>1 DEF Taken

LEMMA WritingKeepsTransferInv ==
    ASSUME TransferInv,
           \/ \E cmd \in Cmds, chunks \in 1 .. MaxChunks, segs \in 1 .. MaxSegments :
                 NewMessage(cmd, chunks, segs)
           \/ NextSegment
    PROVE  TransferInv'
  <1>0. /\ conn /\ host = NoCall /\ task # "crashed"
        /\ UNCHANGED <<conn, g, task, req, snd, owed>>
        /\ phone' \in Message /\ tid' \in Nat /\ cmdOf' \in [1 .. MaxMsgs -> Command]
        /\ PhoneWrites' /\ phone'.id # 0 /\ mixed' \in BOOLEAN /\ (mixed => mixed')
        /\ \E s : SegmentOf(s) /\ Write(s) /\ (Begins(s) \/ Continues(s))
    BY PhoneStep
  <1>1. PICK s : SegmentOf(s) /\ Write(s) /\ (Begins(s) \/ Continues(s))
    BY <1>0
  <1>2. /\ s \in Segment /\ s.cmd = phone'.cmd /\ s.tid = tid' /\ s.id = phone'.id
        /\ s.op = phone'.op - 1 /\ s.cont = phone'.chunks - 1
        /\ s.last = (phone'.op = phone'.segs)
    BY <1>1 DEF SegmentOf
  <1>3. /\ lost => lost'
        /\ {flag', lost', skipped'} \subseteq BOOLEAN
        /\ \/ Dropped(s)
           \/ \E n : Taken(ms, s, n) /\ (Held(s, n) \/ Dispatched(n) \/ Skipped(s))
    BY <1>0, <1>1, <1>2, WriteOutcome DEF TransferInv
  <1>4. /\ reset' = reset \cup {t \in Senders : Sending(t)}
        /\ raced' = raced \cup {t \in Senders : snd[t].pc = "start"}
    BY <1>1 DEF Write
  <1>5. phone'.op \in 1 .. phone'.segs /\ phone'.cmd # 0 /\ cmdOf'[phone'.id] = phone'.cmd
    BY <1>0 DEF PhoneWrites
  <1>6. /\ MaxChunks \in Nat /\ phone'.op \in Nat /\ phone'.segs \in Nat
        /\ phone'.chunks \in Nat /\ phone \in Message /\ tid \in Nat /\ ms \in State
    BY <1>0, BleTransferAssumption DEF Message, TransferInv, Typed
  <1>7. ASSUME ~ mixed', NEW n, Taken(ms, s, n)
        PROVE  /\ n.data[1] = phone'.id /\ Len(n.data) >= phone'.chunks
               /\ n.cont = phone'.chunks - 1 /\ n.idx \in 1 .. Len(n.data)
    BY <1>0, <1>1, <1>7, TakenIsOfMessage
  <1>8. ASSUME ms' \in State, Len(ms'.data) <= MaxChunks, host' \in Call
        PROVE  Typed'
    <2>1. {host', g', req'} \subseteq Call
      BY <1>0, <1>8 DEF TransferInv, Typed
    <2>2. {flag', owed', conn', mixed', lost', skipped'} \subseteq BOOLEAN
      <3>1. {owed', conn'} \subseteq BOOLEAN
        BY <1>0 DEF TransferInv, Typed
      <3> QED
        BY <1>0, <1>3, <3>1
    <2>3. snd' \in [Senders -> Sender] /\ snd'["task"].cmd \in Command
      BY <1>0 DEF TransferInv, Typed
    <2>4. task' \in {"none", "poll", "taken", "handle", "send", "crashed"}
      BY <1>0 DEF TransferInv, Typed
    <2> QED
      BY <1>0, <1>8, <2>1, <2>2, <2>3, <2>4 DEF Typed
  <1>9. CheckedIsCurrent' /\ AnswerFitsRequest'
    <2>1. CheckedIsCurrent'
      BY <1>0, <1>4 DEF CheckedIsCurrent, Senders, Sending
    <2>2. AnswerFitsRequest'
      BY <1>0, <1>4 DEF TransferInv, AnswerFitsRequest, Senders, Sending
    <2> QED
      BY <2>1, <2>2
  <1>10. NoCall \in Call
    BY BleTransferAssumption DEF NoCall, Call, Command
  <1>11. Len(<<>>) = 0 /\ IDLE # ASSEMBLE /\ IDLE # DISASSEMBLE
    BY EmptySeq DEF IDLE, ASSEMBLE, DISASSEMBLE
  <1>12. ASSUME ms' \in State, ms'.state = IDLE, ms'.data = <<>>
         PROVE  ArrayIsThere' /\ ChunksAreOfMessage' /\ ChunkFits' /\ Len(ms'.data) <= MaxChunks
    BY <1>6, <1>11, <1>12 DEF ArrayIsThere, ChunksAreOfMessage, ChunkFits
  <1>13. CASE Dropped(s)
    <2>1. ms' \in State /\ ms'.state = IDLE /\ ms'.data = <<>> /\ host' = NoCall
      BY <1>13 DEF Dropped
    <2>2. ArrayIsThere' /\ ChunksAreOfMessage' /\ ChunkFits' /\ Typed'
      BY <1>8, <1>10, <1>12, <2>1
    <2>3. HostIsWhole'
      BY <2>1 DEF HostIsWhole
    <2>4. UnansweredIsUnderWay'
      <3> SUFFICES ASSUME ~ lost', ~ mixed', ms'.cmd # 0
                   PROVE  conn' /\ (HandedOver' \/ InHand')
        BY DEF UnansweredIsUnderWay
      <3>1. /\ ms'.cmd = ms.cmd /\ ms.state # ASSEMBLE /\ flag' = flag
            /\ ms.state = IDLE => Refused(ms, s)
        BY <1>13 DEF Dropped
      <3>2. Arriving \/ HandedOver \/ InHand
        BY <1>0, <1>3, <3>1 DEF TransferInv, UnansweredIsUnderWay
      <3>3. ~ Arriving
        <4> SUFFICES ASSUME Arriving PROVE FALSE
          OBVIOUS
        <4>1. /\ ms.state = IDLE /\ phone.op = phone.segs /\ phone.chunks > 1
              /\ ms.tid = tid /\ phone.id # 0
          BY <3>1 DEF Arriving
        <4>2. Continues(s)
          BY <1>1, <4>1 DEF Begins, Midway
        <4>3. s.op = 0 /\ tid' = tid + 1
          BY <1>6, <4>1, <4>2 DEF Continues, Message
        <4>4. s.tid <= ms.tid
          BY <3>1, <4>1, <4>3 DEF Refused
        <4> QED
          BY <1>2, <1>6, <4>1, <4>3, <4>4
      <3>4. HandedOver => HandedOver'
        BY <1>0, <2>1, <3>1 DEF HandedOver
      <3>5. InHand => InHand'
        BY <1>0, <3>1 DEF InHand
      <3> QED
        BY <1>0, <3>2, <3>3, <3>4, <3>5
    <2> QED
      BY <1>0, <1>9, <2>2, <2>3, <2>4 DEF TransferInv
  <1>14. ASSUME NEW n, Taken(ms, s, n), Held(s, n)
         PROVE  TransferInv'
    <2>1. /\ ms' \in State /\ ms'.state = IF s.last THEN IDLE ELSE ASSEMBLE
          /\ ms'.cmd = n.cmd /\ ms'.tid = n.tid /\ ms'.cont = n.cont
          /\ ms'.idx = n.idx /\ ms'.data = n.data /\ host' = NoCall
          /\ ~ s.last \/ n.cont # 0
      BY <1>14 DEF Held
    <2>2. Len(n.data) <= MaxChunks /\ n.data # <<>> /\ n.cmd = s.cmd /\ n.tid = s.tid
      BY <1>14 DEF Taken
    <2>3. Typed' /\ ArrayIsThere'
      BY <1>8, <1>10, <2>1, <2>2 DEF ArrayIsThere
    <2>4. ~ s.last => phone'.op < phone'.segs
      <3>1. ~ s.last => phone'.op # phone'.segs
        BY <1>2
      <3>2. phone'.op # phone'.segs => phone'.op < phone'.segs
        BY <1>5, <1>6
      <3> QED
        BY <3>1, <3>2
    <2>5. ASSUME ~ mixed'
          PROVE  /\ ms'.data[1] = phone'.id /\ Len(ms'.data) >= phone'.chunks
                 /\ ms'.cont = phone'.chunks - 1 /\ ms'.idx \in 1 .. Len(ms'.data)
                 /\ s.last => phone'.chunks > 1
      <3>1. /\ n.data[1] = phone'.id /\ Len(n.data) >= phone'.chunks
            /\ n.cont = phone'.chunks - 1 /\ n.idx \in 1 .. Len(n.data)
        BY <1>7, <1>14, <2>5
      <3>2. s.last => phone'.chunks > 1
        <4>1. phone'.chunks > 0
          BY <1>0 DEF PhoneWrites
        <4> QED
          BY <1>6, <2>1, <3>1, <4>1
      <3> QED
        BY <2>1, <3>1, <3>2
    <2>6. Midway' \/ mixed'
      BY <1>0, <2>4, <2>5 DEF Midway
    <2>7. s.tid > 0
      BY <1>2 DEF Segment
    <2>8. ChunksAreOfMessage'
      BY <2>1, <2>2, <2>5, <2>6, <2>7 DEF ChunksAreOfMessage
    <2>9. ChunkFits' /\ HostIsWhole'
      BY <2>1, <2>5 DEF ChunkFits, HostIsWhole
    <2>10. Arriving' \/ mixed'
      <3>1. CASE s.last
        BY <1>0, <1>2, <2>1, <2>2, <2>5, <3>1 DEF Arriving
      <3>2. CASE ~ s.last
        BY <1>0, <2>1, <2>4, <3>2 DEF Arriving
      <3> QED
        BY <3>1, <3>2
    <2>11. UnansweredIsUnderWay'
      BY <1>0, <2>10 DEF UnansweredIsUnderWay
    <2> QED
      BY <1>0, <1>9, <2>3, <2>8, <2>9, <2>11 DEF TransferInv
  <1>15. ASSUME NEW n, Taken(ms, s, n), Dispatched(n)
         PROVE  TransferInv'
    <2>1. /\ ms' \in State /\ ms'.state = IDLE /\ ms'.data = <<>> /\ ms'.cmd = n.cmd
          /\ host' = [cmd |-> n.cmd, id |-> n.data[1]]
      BY <1>15 DEF Dispatched
    <2>2. flag'
      BY <1>15 DEF Dispatched
    <2>3. /\ n \in State /\ n.data # <<>> /\ n.cmd = s.cmd
      BY <1>15 DEF Taken
    <2>4. n.cmd \in Command /\ n.data \in Seq(0 .. MaxMsgs)
      BY <2>3 DEF State
    <2>5. n.data[1] \in 0 .. MaxMsgs
      <3>1. Len(n.data) \in Nat /\ Len(n.data) # 0
        BY <2>3, <2>4, EmptySeq
      <3>2. 1 \in 1 .. Len(n.data)
        BY <3>1
      <3> QED
        BY <2>4, <3>2, ElementOfSeq
    <2>6. host' \in Call
      BY <2>1, <2>4, <2>5 DEF Call
    <2>7. ArrayIsThere' /\ ChunksAreOfMessage' /\ ChunkFits' /\ Typed'
      BY <1>8, <1>12, <2>1, <2>6
    <2>8. host'.cmd = phone'.cmd /\ host'.id = n.data[1] /\ host' # NoCall
      BY <1>2, <1>5, <2>1, <2>3 DEF NoCall
    <2>9. HostIsWhole'
      <3>1. ASSUME ~ mixed' PROVE n.data[1] = phone'.id
        BY <1>7, <1>15, <3>1
      <3> QED
        BY <1>0, <1>5, <2>8, <3>1 DEF HostIsWhole
    <2>10. HandedOver'
      BY <2>1, <2>2, <2>8 DEF HandedOver
    <2>11. UnansweredIsUnderWay'
      BY <1>0, <2>10 DEF UnansweredIsUnderWay
    <2> QED
      BY <1>0, <1>9, <2>7, <2>9, <2>11 DEF TransferInv
  <1>16. CASE Skipped(s)
    <2>1. ms' \in State /\ ms'.state = IDLE /\ ms'.data = <<>> /\ host' = NoCall /\ lost'
      BY <1>16 DEF Skipped
    <2>2. ArrayIsThere' /\ ChunksAreOfMessage' /\ ChunkFits' /\ Typed'
      BY <1>8, <1>10, <1>12, <2>1
    <2>3. HostIsWhole' /\ UnansweredIsUnderWay'
      BY <2>1 DEF HostIsWhole, UnansweredIsUnderWay
    <2> QED
      BY <1>0, <1>9, <2>2, <2>3 DEF TransferInv
  <1> QED
    BY <1>3, <1>13, <1>14, <1>15, <1>16

-----------------------------------------------------------------------------
(* The hand-over, and the phone that joins and leaves.                     *)

LEMMA HostKeepsTransferInv ==
    ASSUME TransferInv, es_msg_dispatch \/ Join \/ es_reset_transferdata
    PROVE  TransferInv'
  <1>0. Typed /\ NoCall \in Call /\ NoMessage \in Message
    BY BleTransferAssumption
    DEF TransferInv, NoCall, Call, Command, NoMessage, Message
  <1>1. CASE es_msg_dispatch
    <2>1. Typed'
      BY <1>0, <1>1 DEF es_msg_dispatch, Typed
    <2>2. /\ PhoneWrites' /\ ArrayIsThere' /\ ChunksAreOfMessage' /\ ChunkFits'
          /\ CheckedIsCurrent' /\ AnswerFitsRequest'
      <3>1. UNCHANGED <<ms, phone, tid, conn, task, snd, cmdOf, mixed, reset, raced>>
        BY <1>1 DEF es_msg_dispatch
      <3> QED
        BY <3>1 DEF TransferInv, PhoneWrites, ArrayIsThere, ChunksAreOfMessage,
                    ChunkFits, CheckedIsCurrent, AnswerFitsRequest, Midway, Sending
    <2>3. HostIsWhole'
      BY <1>1 DEF es_msg_dispatch, HostIsWhole
    <2>4. UnansweredIsUnderWay'
      BY <1>1 DEF es_msg_dispatch, TransferInv, UnansweredIsUnderWay, Arriving,
                  HandedOver, InHand
    <2> QED
      BY <2>1, <2>2, <2>3, <2>4 DEF TransferInv
  <1>2. CASE Join
    <2>0. /\ UNCHANGED <<ms, host, flag, g, task, req, snd, owed, cmdOf, mixed, lost,
                         reset, skipped, raced>>
          /\ ~ conn /\ conn' = TRUE /\ tid' = 0 /\ phone' = NoMessage
      BY <1>2 DEF Join
    <2>1. Typed'
      BY <1>0, <2>0 DEF Typed
    <2>2. ArrayIsThere' /\ ChunkFits' /\ HostIsWhole' /\ CheckedIsCurrent' /\ AnswerFitsRequest'
      BY <2>0 DEF TransferInv, ArrayIsThere, ChunkFits, HostIsWhole, CheckedIsCurrent,
                  AnswerFitsRequest, Sending
    <2>3. PhoneWrites' /\ ChunksAreOfMessage'
      BY <2>0 DEF NoMessage, TransferInv, PhoneWrites, ChunksAreOfMessage
    <2>4. UnansweredIsUnderWay'
      BY <2>0 DEF TransferInv, UnansweredIsUnderWay
    <2> QED
      BY <2>1, <2>2, <2>3, <2>4 DEF TransferInv
  <1>3. CASE es_reset_transferdata
    <2>0. /\ UNCHANGED <<phone, tid, host, flag, g, task, req, snd, cmdOf, mixed,
                         skipped, raced>>
          /\ conn' = FALSE /\ owed' = FALSE /\ host = NoCall
          /\ ms' = _es_msg_state_reset([ms EXCEPT !.tid = 0])
          /\ lost' = (lost \/ ms.cmd # 0)
          /\ reset' = reset \cup {t \in Senders : snd[t].pc \in {"start", "send"}}
      BY <1>3 DEF es_reset_transferdata
    <2>1. /\ [ms EXCEPT !.tid = 0] \in State /\ [ms EXCEPT !.tid = 0].cmd = ms.cmd
      BY <1>0 DEF Typed, State
    <2>2. ms' \in State /\ ms'.state = IDLE /\ ms'.data = <<>> /\ ms'.cmd = ms.cmd
      BY <2>0, <2>1, ResetState
    <2>3. Len(ms'.data) <= MaxChunks
      BY <2>2, EmptySeq, BleTransferAssumption
    <2>4. {flag', owed', conn', mixed', lost', skipped'} \subseteq BOOLEAN
      BY <1>0, <2>0 DEF Typed
    <2>5. Typed'
      BY <1>0, <2>0, <2>2, <2>3, <2>4 DEF Typed
    <2>6. ArrayIsThere' /\ ChunksAreOfMessage' /\ ChunkFits'
      BY <2>2 DEF ArrayIsThere, ChunksAreOfMessage, ChunkFits, IDLE, ASSEMBLE
    <2>7. PhoneWrites' /\ HostIsWhole'
      BY <2>0 DEF TransferInv, PhoneWrites, HostIsWhole
    <2>8. CheckedIsCurrent' /\ AnswerFitsRequest'
      BY <2>0, <2>2 DEF TransferInv, CheckedIsCurrent, AnswerFitsRequest, Sending, Senders
    <2>9. UnansweredIsUnderWay'
      BY <2>0, <2>2 DEF UnansweredIsUnderWay
    <2> QED
      BY <2>5, <2>6, <2>7, <2>8, <2>9 DEF TransferInv
  <1> QED
    BY <1>1, <1>2, <1>3

(* The BLE task.                                                           *)

\* A step that leaves msg_state and the message being written alone keeps what
\* the invariant says of them.
LEMMA TransferUntouched ==
    ASSUME TransferInv, UNCHANGED <<ms, phone, tid, cmdOf>>, mixed => mixed',
           UNCHANGED conn \/ ~ conn'
    PROVE  PhoneWrites' /\ ArrayIsThere' /\ ChunksAreOfMessage' /\ ChunkFits'
  <1>1. PhoneWrites' /\ ArrayIsThere' /\ ChunkFits'
    BY DEF TransferInv, PhoneWrites, ArrayIsThere, ChunkFits
  <1>2. ChunksAreOfMessage'
    BY DEF TransferInv, ChunksAreOfMessage, Midway
  <1> QED
    BY <1>1, <1>2

\* A sender at the beginning of es_msg_disassemble.
LEMMA AnswerIsChecked ==
    ASSUME NEW c \in Command \cup {SETUPCOMPLETE_RESPONSE}, NEW n \in 0 .. MaxSegments
    PROVE  LET q == [NotSending EXCEPT !.pc = "check", !.cmd = c, !.left = n]
           IN  q \in Sender /\ q.cmd = c /\ q.pc = "check"
  <1> DEFINE q1 == [NotSending EXCEPT !.pc = "check"]
             q2 == [q1 EXCEPT !.cmd = c]
             q3 == [q2 EXCEPT !.left = n]
  <1>1. q1 \in Sender /\ q1.pc = "check"
    BY BleTransferAssumption DEF NotSending, Sender, Command
  <1>2. q2 \in Sender /\ q2.pc = "check" /\ q2.cmd = c
    <2> HIDE DEF q1
    <2> QED
      BY <1>1 DEF Sender
  <1>3. q3 \in Sender /\ q3.pc = "check" /\ q3.cmd = c
    <2> HIDE DEF q1, q2
    <2> QED
      BY <1>2 DEF Sender
  <1>4. [NotSending EXCEPT !.pc = "check", !.cmd = c, !.left = n] = q3
    OBVIOUS
  <1> HIDE DEF q3
  <1> QED
    BY <1>3, <1>4

LEMMA TaskKeepsTransferInv ==
    ASSUME TransferInv,
           es_ble_init \/ es_ble_deinit \/ TakeFlag \/ ReadRequest
           \/ iot_easysetup_ble_msg_handler
    PROVE  TransferInv'
  <1>0. Typed /\ NoCall \in Call /\ NotSending \in Sender /\ NotSending.cmd \in Command
    BY BleTransferAssumption
    DEF TransferInv, NoCall, Call, Command, NotSending, Sender
  <1>1. UNCHANGED <<ms, phone, tid, cmdOf, host, skipped, g>>
    BY DEF es_ble_init, es_ble_deinit, TakeFlag, ReadRequest,
           iot_easysetup_ble_msg_handler, hostVars
  <1>2. CASE es_ble_init
    <2>1. /\ UNCHANGED <<conn, mixed, flag, req, snd, owed, lost, reset, raced>>
          /\ task = "none" /\ task' = "poll"
      BY <1>2 DEF es_ble_init, hostVars
    <2>2. Typed'
      BY <1>0, <1>1, <2>1 DEF Typed
    <2>3. PhoneWrites' /\ ArrayIsThere' /\ ChunksAreOfMessage' /\ ChunkFits'
      BY <1>1, <2>1, TransferUntouched
    <2>4. HostIsWhole' /\ CheckedIsCurrent' /\ AnswerFitsRequest'
      BY <1>1, <2>1 DEF TransferInv, HostIsWhole, CheckedIsCurrent, AnswerFitsRequest, Sending
    <2>5. UnansweredIsUnderWay'
      BY <1>1, <2>1 DEF TransferInv, UnansweredIsUnderWay, Arriving, HandedOver, InHand
    <2> QED
      BY <2>2, <2>3, <2>4, <2>5 DEF TransferInv
  <1>3. CASE es_ble_deinit
    <2>1. /\ UNCHANGED <<mixed, flag, owed>>
          /\ task' = "none" /\ req' = NoCall /\ conn' = FALSE /\ lost' = TRUE
          /\ snd' = [snd EXCEPT !["task"] = NotSending]
          /\ reset' = reset \ {"task"} /\ raced' = raced \ {"task"}
      BY <1>3 DEF es_ble_deinit
    <2>2. /\ snd' \in [Senders -> Sender] /\ snd'["task"] = NotSending
          /\ snd'["work"] = snd["work"] /\ "work" # "task"
      BY <1>0, <2>1 DEF Typed, Senders
    <2>3. {flag', owed', conn', mixed', lost', skipped'} \subseteq BOOLEAN
      BY <1>0, <1>1, <2>1 DEF Typed
    <2>4. Typed'
      BY <1>0, <1>1, <2>1, <2>2, <2>3 DEF Typed
    <2>5. PhoneWrites' /\ ArrayIsThere' /\ ChunksAreOfMessage' /\ ChunkFits'
      BY <1>1, <2>1, TransferUntouched
    <2>6. HostIsWhole' /\ UnansweredIsUnderWay'
      BY <1>1, <2>1 DEF TransferInv, HostIsWhole, UnansweredIsUnderWay
    <2>7. CheckedIsCurrent' /\ AnswerFitsRequest'
      BY <1>1, <2>1, <2>2
      DEF TransferInv, CheckedIsCurrent, AnswerFitsRequest, Sending, Senders, NotSending
    <2> QED
      BY <2>4, <2>5, <2>6, <2>7 DEF TransferInv
  <1>4. CASE TakeFlag
    <2>1. /\ UNCHANGED <<conn, mixed, req, snd, owed, lost, reset, raced>>
          /\ task = "poll" /\ task' = "taken" /\ flag' = FALSE
      BY <1>4 DEF TakeFlag, hostVars
    <2>2. Typed'
      BY <1>0, <1>1, <2>1 DEF Typed
    <2>3. PhoneWrites' /\ ArrayIsThere' /\ ChunksAreOfMessage' /\ ChunkFits'
      BY <1>1, <2>1, TransferUntouched
    <2>4. HostIsWhole' /\ CheckedIsCurrent' /\ AnswerFitsRequest'
      BY <1>1, <2>1 DEF TransferInv, HostIsWhole, CheckedIsCurrent, AnswerFitsRequest, Sending
    <2>5. UnansweredIsUnderWay'
      BY <1>1, <2>1 DEF TransferInv, UnansweredIsUnderWay, Arriving, HandedOver, InHand
    <2> QED
      BY <2>2, <2>3, <2>4, <2>5 DEF TransferInv
  <1>5. CASE ReadRequest
    <2>1. /\ UNCHANGED <<conn, flag, snd, owed, reset, raced>>
          /\ task = "taken" /\ task' = "handle"
          /\ \/ host = NoCall /\ req' = g /\ UNCHANGED <<mixed, lost>>
             \/ /\ req' \in [cmd : {g.cmd, host.cmd}, id : {g.id, host.id}]
                /\ mixed' = TRUE /\ lost' = TRUE
      BY <1>5 DEF ReadRequest
    <2>2. req' \in Call
      BY <1>0, <2>1 DEF Typed, Call
    <2>3. {flag', owed', conn', mixed', lost', skipped'} \subseteq BOOLEAN /\ (mixed => mixed')
      <3>1. {flag', owed', conn', skipped'} \subseteq BOOLEAN
        BY <1>0, <1>1, <2>1 DEF Typed
      <3>2. {mixed, lost} \subseteq BOOLEAN
        BY <1>0 DEF Typed
      <3>3. CASE UNCHANGED <<mixed, lost>>
        BY <3>1, <3>2, <3>3
      <3>4. CASE mixed' = TRUE /\ lost' = TRUE
        BY <3>1, <3>4
      <3> QED
        BY <2>1, <3>3, <3>4
    <2>4. Typed'
      BY <1>0, <1>1, <2>1, <2>2, <2>3 DEF Typed
    <2>5. PhoneWrites' /\ ArrayIsThere' /\ ChunksAreOfMessage' /\ ChunkFits'
      BY <1>1, <2>1, <2>3, TransferUntouched
    <2>6. HostIsWhole' /\ CheckedIsCurrent' /\ AnswerFitsRequest'
      BY <1>1, <2>1, <2>3
      DEF TransferInv, HostIsWhole, CheckedIsCurrent, AnswerFitsRequest, Sending
    <2>7. UnansweredIsUnderWay'
      BY <1>1, <2>1 DEF TransferInv, UnansweredIsUnderWay, Arriving, HandedOver, InHand
    <2> QED
      BY <2>4, <2>5, <2>6, <2>7 DEF TransferInv
  <1>6. CASE iot_easysetup_ble_msg_handler
    <2>1. /\ UNCHANGED <<conn, mixed, flag, req, reset, raced>> /\ task = "handle"
      BY <1>6 DEF iot_easysetup_ble_msg_handler, hostVars
    <2>2. PhoneWrites' /\ ArrayIsThere' /\ ChunksAreOfMessage' /\ ChunkFits' /\ HostIsWhole'
      BY <1>1, <2>1, TransferUntouched DEF TransferInv, HostIsWhole
    <2>3. ASSUME NEW n \in 1 .. MaxSegments,
                 snd' = [snd EXCEPT !["task"] = [NotSending EXCEPT !.pc = "check",
                                                   !.cmd = req.cmd, !.left = n]],
                 task' = "send", UNCHANGED <<owed, lost>>
          PROVE  TransferInv'
      <3> DEFINE q == [NotSending EXCEPT !.pc = "check", !.cmd = req.cmd, !.left = n]
      <3>2. req.cmd \in Command /\ 0 \in Command /\ n \in 0 .. MaxSegments
        BY <1>0, BleTransferAssumption DEF Typed, Call, Command
      <3>3. q \in Sender /\ q.cmd \in Command /\ q.pc = "check"
        BY <3>2, AnswerIsChecked
      <3> HIDE DEF q
      <3>4. /\ snd' \in [Senders -> Sender] /\ snd'["task"] = q
            /\ snd'["work"] = snd["work"] /\ "work" # "task"
        BY <1>0, <2>3, <3>3 DEF Typed, Senders, q
      <3>5. Typed'
        BY <1>0, <1>1, <2>1, <2>3, <3>3, <3>4 DEF Typed
      <3>6. CheckedIsCurrent' /\ AnswerFitsRequest'
        BY <1>1, <2>1, <2>3, <3>3, <3>4
        DEF TransferInv, CheckedIsCurrent, AnswerFitsRequest, Sending, Senders
      <3>7. InHand'
        BY <3>3, <3>4 DEF InHand, Senders
      <3>8. UnansweredIsUnderWay'
        BY <1>1, <2>1, <2>3, <3>7 DEF TransferInv, UnansweredIsUnderWay
      <3> QED
        BY <2>2, <3>5, <3>6, <3>8 DEF TransferInv
    <2>4. ASSUME task' = "poll", UNCHANGED snd,
                 IF req.cmd = SETUPCOMPLETE THEN owed' = conn ELSE owed' = owed,
                 lost' = (lost \/ req.cmd # SETUPCOMPLETE \/ ~ conn)
          PROVE  TransferInv'
      <3>1. {flag', owed', conn', mixed', lost', skipped'} \subseteq BOOLEAN
        BY <1>0, <1>1, <2>1, <2>4 DEF Typed
      <3>2. Typed'
        BY <1>0, <1>1, <2>1, <2>4, <3>1 DEF Typed
      <3>3. CheckedIsCurrent' /\ AnswerFitsRequest'
        BY <1>1, <2>1, <2>4 DEF TransferInv, CheckedIsCurrent, AnswerFitsRequest, Sending
      <3>4. UnansweredIsUnderWay'
        <4> SUFFICES ASSUME ~ lost', ~ mixed', ms'.cmd # 0
                     PROVE  conn' /\ (Arriving' \/ HandedOver' \/ InHand')
          BY DEF UnansweredIsUnderWay
        <4>1. ~ lost /\ req.cmd = SETUPCOMPLETE /\ conn
          BY <2>4
        <4>2. owed' = conn
          BY <2>4, <4>1
        <4>3. Arriving \/ HandedOver \/ InHand
          BY <1>1, <2>1, <4>1 DEF TransferInv, UnansweredIsUnderWay
        <4>4. Arriving => Arriving'
          BY <1>1 DEF Arriving
        <4>5. HandedOver => HandedOver'
          BY <1>1, <2>1 DEF HandedOver
        <4>6. InHand => InHand'
          BY <1>1, <2>1, <2>4, <4>1, <4>2 DEF InHand
        <4> QED
          BY <2>1, <4>1, <4>3, <4>4, <4>5, <4>6
      <3> QED
        BY <2>2, <3>2, <3>3, <3>4 DEF TransferInv
    <2> QED
      BY <1>6, <2>3, <2>4 DEF iot_easysetup_ble_msg_handler
  <1> QED
    BY <1>2, <1>3, <1>4, <1>5, <1>6

(* The senders.                                                            *)

LEMMA CheckKeepsTransferInv ==
    ASSUME TransferInv,
           \/ iot_easysetup_deinit
           \/ \E t \in Senders : CheckFails(t)
           \/ \E t \in Senders : Check(t)
    PROVE  TransferInv'
  <1>0. Typed /\ NotSending \in Sender /\ NotSending.cmd \in Command
    BY BleTransferAssumption DEF TransferInv, Command, NotSending, Sender
  <1>1. UNCHANGED <<phone, tid, conn, host, cmdOf, mixed, skipped, flag, g, req, reset,
                    raced>>
    BY DEF iot_easysetup_deinit, CheckFails, Check, hostVars
  <1>2. CASE iot_easysetup_deinit
    <2>1. UNCHANGED <<ms, task, lost>> /\ owed' = FALSE
      BY <1>2 DEF iot_easysetup_deinit
    <2> DEFINE q == [NotSending EXCEPT !.pc = "check", !.cmd = SETUPCOMPLETE_RESPONSE,
                                       !.left = 1]
    <2>2. q \in Sender /\ q.pc = "check"
      <3>1. 1 \in 0 .. MaxSegments
        BY BleTransferAssumption
      <3> QED
        BY <3>1, AnswerIsChecked
    <2>3. snd' = [snd EXCEPT !["work"] = q]
      BY <1>2 DEF iot_easysetup_deinit
    <2> HIDE DEF q
    <2>4. /\ snd' \in [Senders -> Sender] /\ snd'["work"] = q
          /\ snd'["task"] = snd["task"] /\ "work" # "task"
      BY <1>0, <2>2, <2>3 DEF Typed, Senders
    <2>5. Typed'
      BY <1>0, <1>1, <2>1, <2>4 DEF Typed
    <2>6. PhoneWrites' /\ ArrayIsThere' /\ ChunksAreOfMessage' /\ ChunkFits' /\ HostIsWhole'
      BY <1>1, <2>1, TransferUntouched DEF TransferInv, HostIsWhole
    <2>7. CheckedIsCurrent' /\ AnswerFitsRequest'
      BY <1>1, <2>1, <2>2, <2>4
      DEF TransferInv, CheckedIsCurrent, AnswerFitsRequest, Sending, Senders
    <2>8. InHand'
      BY <2>2, <2>4 DEF InHand, Senders
    <2>9. UnansweredIsUnderWay'
      BY <1>1, <2>1, <2>8 DEF TransferInv, UnansweredIsUnderWay
    <2> QED
      BY <2>5, <2>6, <2>7, <2>9 DEF TransferInv
  <1>3. ASSUME NEW t \in Senders, CheckFails(t)
        PROVE  TransferInv'
    <2>1. /\ UNCHANGED <<ms, owed>> /\ lost' = TRUE /\ task # "crashed"
          /\ snd' = [snd EXCEPT ![t] = NotSending]
          /\ task' = IF t = "task" THEN "poll" ELSE task
      BY <1>3 DEF CheckFails
    <2>2. /\ snd' \in [Senders -> Sender] /\ snd'[t].pc = "idle"
          /\ \A u \in Senders \ {t} : snd'[u] = snd[u]
      BY <1>0, <2>1 DEF Typed, NotSending
    <2>3. snd'["task"].cmd \in Command
      BY <1>0, <2>1 DEF Typed, Senders
    <2>4. /\ task' \in {"none", "poll", "taken", "handle", "send", "crashed"}
          /\ task' # "crashed"
      BY <1>0, <2>1 DEF Typed
    <2>5. {flag', owed', conn', mixed', lost', skipped'} \subseteq BOOLEAN
      BY <1>0, <1>1, <2>1 DEF Typed
    <2>6. Typed'
      BY <1>0, <1>1, <2>1, <2>2, <2>3, <2>4, <2>5 DEF Typed
    <2>7. PhoneWrites' /\ ArrayIsThere' /\ ChunksAreOfMessage' /\ ChunkFits' /\ HostIsWhole'
      BY <1>1, <2>1, TransferUntouched DEF TransferInv, HostIsWhole
    <2>8. CheckedIsCurrent' /\ AnswerFitsRequest'
      BY <1>1, <2>1, <2>2, <2>4
      DEF TransferInv, CheckedIsCurrent, AnswerFitsRequest, Sending, Senders
    <2>9. UnansweredIsUnderWay'
      BY <2>1 DEF UnansweredIsUnderWay
    <2> QED
      BY <2>6, <2>7, <2>8, <2>9 DEF TransferInv
  <1>4. ASSUME NEW t \in Senders, Check(t)
        PROVE  TransferInv'
    <2>1. /\ UNCHANGED <<task, owed, lost>> /\ ms' = [ms EXCEPT !.mtu = TRUE]
          /\ snd' = [snd EXCEPT ![t].pc = "start"] /\ task # "crashed"
          /\ snd[t].cmd = SETUPCOMPLETE_RESPONSE \/ snd[t].cmd = ms.cmd
      BY <1>4 DEF Check, hostVars
    <2>2. /\ ms' \in State /\ ms'.mtu /\ ms'.state = ms.state /\ ms'.cmd = ms.cmd
          /\ ms'.tid = ms.tid /\ ms'.cont = ms.cont /\ ms'.idx = ms.idx
          /\ ms'.data = ms.data
      BY <1>0, <2>1 DEF Typed, State
    <2>3. /\ snd' \in [Senders -> Sender] /\ snd'[t].pc = "start"
          /\ \A u \in Senders : snd'[u].cmd = snd[u].cmd /\ snd'[u].label = snd[u].label
          /\ \A u \in Senders \ {t} : snd'[u] = snd[u]
      BY <1>0, <2>1 DEF Typed, Sender
    <2>4. snd["task"].cmd \in Command /\ SETUPCOMPLETE_RESPONSE \notin Command
      BY <1>0, BleTransferAssumption
      DEF Typed, Command, Cmds, SETUPCOMPLETE, SETUPCOMPLETE_RESPONSE
    <2>5. Typed'
      BY <1>0, <1>1, <2>1, <2>2, <2>3 DEF Typed, Senders
    <2>6. PhoneWrites' /\ ArrayIsThere' /\ ChunkFits' /\ HostIsWhole'
      BY <1>1, <2>2 DEF TransferInv, PhoneWrites, ArrayIsThere, ChunkFits, HostIsWhole
    <2>7. ChunksAreOfMessage'
      BY <1>1, <2>2 DEF TransferInv, ChunksAreOfMessage, Midway
    <2>8. CheckedIsCurrent'
      <3>1. t = "task" => ms.cmd = snd["task"].cmd
        BY <2>1, <2>4
      <3> QED
        BY <1>1, <2>2, <2>3, <3>1 DEF TransferInv, CheckedIsCurrent, Senders
    <2>9. AnswerFitsRequest'
      BY <1>1, <2>1, <2>3 DEF TransferInv, AnswerFitsRequest, Sending, Senders
    <2>10. InHand'
      BY <2>3 DEF InHand
    <2>11. UnansweredIsUnderWay'
      BY <1>1, <2>1, <2>2, <2>10 DEF TransferInv, UnansweredIsUnderWay
    <2> QED
      BY <2>5, <2>6, <2>7, <2>8, <2>9, <2>11 DEF TransferInv
  <1> QED
    BY <1>2, <1>3, <1>4

LEMMA SendKeepsTransferInv ==
    ASSUME TransferInv,
           \/ \E t \in Senders : Start(t)
           \/ \E t \in Senders : iot_send_indication(t)
           \/ \E t \in Senders : Finish(t)
    PROVE  TransferInv'
  <1>0. Typed /\ NotSending \in Sender /\ NotSending.cmd \in Command
    BY BleTransferAssumption DEF TransferInv, Command, NotSending, Sender
  <1>1. UNCHANGED <<phone, tid, conn, host, cmdOf, skipped, flag, g, req, owed>>
    BY DEF Start, iot_send_indication, Finish, hostVars
  <1>d. IDLE # ASSEMBLE /\ DISASSEMBLE # ASSEMBLE /\ IDLE # DISASSEMBLE
    BY DEF IDLE, ASSEMBLE, DISASSEMBLE
  <1>2. ASSUME NEW t \in Senders, Start(t)
        PROVE  TransferInv'
    <2>1. /\ UNCHANGED <<task, lost, reset, raced>> /\ snd[t].pc = "start"
          /\ ms' = [ms EXCEPT !.state = DISASSEMBLE] /\ task # "crashed"
          /\ snd' = [snd EXCEPT ![t].pc = "send", ![t].label = ms.cmd]
          /\ mixed' = (mixed \/ ms.state # IDLE)
      BY <1>2 DEF Start
    <2>2. /\ ms' \in State /\ ms'.state = DISASSEMBLE /\ ms'.cmd = ms.cmd
          /\ ms'.mtu = ms.mtu
          /\ ms'.tid = ms.tid /\ ms'.cont = ms.cont /\ ms'.data = ms.data
      BY <1>0, <2>1 DEF Typed, State
    <2>3. /\ snd' \in [Senders -> Sender] /\ snd'[t].pc = "send" /\ snd'[t].label = ms.cmd
          /\ snd'[t].cmd = snd[t].cmd
          /\ \A u \in Senders \ {t} : snd'[u] = snd[u]
      <3> DEFINE one == [snd EXCEPT ![t].pc = "send"]
      <3>1. /\ one \in [Senders -> Sender] /\ one[t].pc = "send" /\ one[t].cmd = snd[t].cmd
            /\ \A u \in Senders \ {t} : one[u] = snd[u]
        BY <1>0 DEF Typed, Sender
      <3>2. snd' = [one EXCEPT ![t].label = ms.cmd]
        BY <1>0, <2>1 DEF Typed, Sender
      <3>3. ms.cmd \in Command
        BY <1>0 DEF Typed, State
      <3> HIDE DEF one
      <3> QED
        BY <3>1, <3>2, <3>3 DEF Sender
    <2>4. snd'["task"].cmd \in Command
      BY <1>0, <2>3 DEF Typed, Senders
    <2>5. {flag', owed', conn', mixed', lost', skipped'} \subseteq BOOLEAN
      BY <1>0, <1>1, <2>1 DEF Typed
    <2>6. Typed'
      BY <1>0, <1>1, <2>1, <2>2, <2>3, <2>4, <2>5 DEF Typed
    <2>7. PhoneWrites' /\ ArrayIsThere' /\ ChunkFits' /\ HostIsWhole'
      BY <1>1, <1>d, <2>1, <2>2 DEF TransferInv, PhoneWrites, ArrayIsThere, ChunkFits, HostIsWhole
    <2>8. ChunksAreOfMessage'
      BY <1>1, <1>d, <2>1, <2>2 DEF TransferInv, ChunksAreOfMessage, Midway
    <2>9. CheckedIsCurrent'
      BY <2>1, <2>2, <2>3 DEF TransferInv, CheckedIsCurrent, Senders
    <2>10. AnswerFitsRequest'
      BY <2>1, <2>2, <2>3 DEF TransferInv, AnswerFitsRequest, CheckedIsCurrent, Sending, Senders
    <2>11. InHand'
      BY <2>3 DEF InHand
    <2>12. UnansweredIsUnderWay'
      BY <1>1, <2>1, <2>2, <2>11 DEF TransferInv, UnansweredIsUnderWay
    <2> QED
      BY <2>6, <2>7, <2>8, <2>9, <2>10, <2>12 DEF TransferInv
  <1>3. ASSUME NEW t \in Senders, iot_send_indication(t)
        PROVE  TransferInv'
    <2>1. /\ UNCHANGED <<ms, mixed, reset, raced>> /\ snd[t].pc = "send" /\ task # "crashed"
          /\ snd[t].left > 0
          /\ \/ /\ snd' = [snd EXCEPT ![t].op = @ + 1,
                                      ![t].left = IF ms.mtu THEN @ - 1 ELSE @]
                /\ UNCHANGED <<task, lost>>
             \/ snd' = [snd EXCEPT ![t].left = 0] /\ lost' = TRUE /\ task' = task
             \/ ~ ms.mtu /\ task' = "crashed" /\ UNCHANGED <<snd, lost>>
      BY <1>3 DEF iot_send_indication, Sending, hostVars
    <2>2. /\ snd' \in [Senders -> Sender]
          /\ \A u \in Senders : /\ snd'[u].pc = snd[u].pc /\ snd'[u].cmd = snd[u].cmd
                                /\ snd'[u].label = snd[u].label
      <3>0. snd \in [Senders -> Sender] /\ snd[t].op \in Nat /\ snd[t].left \in 0 .. MaxSegments
        BY <1>0 DEF Typed, Sender
      <3>1. CASE snd' = [snd EXCEPT ![t].op = @ + 1,
                                    ![t].left = IF ms.mtu THEN @ - 1 ELSE @]
        <4> DEFINE one == [snd EXCEPT ![t].op = @ + 1]
                   left == IF ms.mtu THEN snd[t].left - 1 ELSE snd[t].left
        <4>1. left \in 0 .. MaxSegments
          <5>1. MaxSegments \in Nat /\ snd[t].left > 0
            BY <2>1, BleTransferAssumption
          <5> QED
            BY <3>0, <5>1
        <4>2. /\ one \in [Senders -> Sender]
              /\ \A u \in Senders : /\ one[u].pc = snd[u].pc /\ one[u].cmd = snd[u].cmd
                                    /\ one[u].label = snd[u].label
          BY <3>0 DEF Sender
        <4>3. snd' = [one EXCEPT ![t].left = left]
          BY <3>0, <3>1 DEF Sender
        <4> HIDE DEF one, left
        <4> QED
          BY <4>1, <4>2, <4>3 DEF Sender
      <3>2. CASE snd' = [snd EXCEPT ![t].left = 0]
        <4>1. 0 \in 0 .. MaxSegments
          BY BleTransferAssumption
        <4> QED
          BY <3>0, <3>2, <4>1 DEF Sender
      <3> QED
        BY <2>1, <3>0, <3>1, <3>2
    <2>3. snd'["task"].cmd \in Command
      BY <1>0, <2>2 DEF Typed, Senders
    <2>4. {flag', owed', conn', mixed', lost', skipped'} \subseteq BOOLEAN
      <3>1. {flag', owed', conn', mixed', skipped', lost} \subseteq BOOLEAN
        BY <1>0, <1>1, <2>1 DEF Typed
      <3>2. lost' = lost \/ lost' = TRUE
        BY <2>1
      <3> QED
        BY <3>1, <3>2
    <2>5. task' \in {"none", "poll", "taken", "handle", "send", "crashed"}
      BY <1>0, <2>1 DEF Typed
    <2>6. Typed'
      BY <1>0, <1>1, <2>1, <2>2, <2>3, <2>4, <2>5 DEF Typed
    <2>7. PhoneWrites' /\ ArrayIsThere' /\ ChunksAreOfMessage' /\ ChunkFits' /\ HostIsWhole'
      BY <1>1, <2>1, TransferUntouched DEF TransferInv, HostIsWhole
    <2>8. CheckedIsCurrent'
      BY <2>1, <2>2 DEF TransferInv, CheckedIsCurrent, Senders
    <2>9. AnswerFitsRequest'
      <3>1. Sending("task")' => snd'["task"].label = snd'["task"].cmd \/ "task" \in raced'
        BY <2>1, <2>2 DEF TransferInv, AnswerFitsRequest, Sending, Senders
      <3>2. task' = "crashed" => ~ ms.mtu
        BY <2>1
      <3>3. ~ ms.mtu => t \in reset \cup raced
        BY <2>1 DEF TransferInv, CheckedIsCurrent
      <3> QED
        BY <2>1, <3>1, <3>2, <3>3 DEF AnswerFitsRequest
    <2>10. InHand'
      BY <2>1, <2>2 DEF InHand
    <2>11. lost => lost'
      BY <2>1
    <2>12. UnansweredIsUnderWay'
      BY <1>1, <2>1, <2>10, <2>11 DEF TransferInv, UnansweredIsUnderWay
    <2> QED
      BY <2>6, <2>7, <2>8, <2>9, <2>12 DEF TransferInv
  <1>4. ASSUME NEW t \in Senders, Finish(t)
        PROVE  TransferInv'
    <2>1. /\ UNCHANGED mixed /\ task # "crashed"
          /\ ms' = [ms EXCEPT !.state = IDLE, !.cmd = 0]
          /\ lost' = (lost \/ ms.cmd # snd[t].label)
          /\ snd' = [snd EXCEPT ![t] = NotSending]
          /\ task' = IF t = "task" THEN "poll" ELSE task
          /\ reset' = reset \ {t}
          /\ raced' = (raced \cup {u \in Senders : snd[u].pc = "start"}) \ {t}
      BY <1>4 DEF Finish, hostVars
    <2>2. /\ ms' \in State /\ ms'.state = IDLE /\ ms'.cmd = 0 /\ ms'.mtu = ms.mtu
          /\ ms'.tid = ms.tid /\ ms'.data = ms.data
      <3> DEFINE one == [ms EXCEPT !.state = IDLE]
      <3>1. /\ one \in State /\ one.state = IDLE /\ one.mtu = ms.mtu
            /\ one.tid = ms.tid /\ one.data = ms.data
        BY <1>0 DEF Typed, State
      <3>2. ms' = [one EXCEPT !.cmd = 0]
        BY <2>1
      <3>3. 0 \in Command
        BY DEF Command
      <3> HIDE DEF one
      <3> QED
        BY <3>1, <3>2, <3>3 DEF State
    <2>3. /\ snd' \in [Senders -> Sender] /\ snd'[t].pc = "idle"
          /\ \A u \in Senders \ {t} : snd'[u] = snd[u]
      BY <1>0, <2>1 DEF Typed, NotSending
    <2>4. snd'["task"].cmd \in Command
      BY <1>0, <2>1 DEF Typed, Senders
    <2>5. /\ task' \in {"none", "poll", "taken", "handle", "send", "crashed"}
          /\ task' # "crashed"
      BY <1>0, <2>1 DEF Typed
    <2>6. {flag', owed', conn', mixed', lost', skipped'} \subseteq BOOLEAN
      BY <1>0, <1>1, <2>1 DEF Typed
    <2>7. Typed'
      BY <1>0, <1>1, <2>1, <2>2, <2>3, <2>4, <2>5, <2>6 DEF Typed
    <2>8. PhoneWrites' /\ ArrayIsThere' /\ ChunkFits' /\ HostIsWhole'
      BY <1>1, <1>d, <2>1, <2>2 DEF TransferInv, PhoneWrites, ArrayIsThere, ChunkFits, HostIsWhole
    <2>9. ChunksAreOfMessage'
      BY <1>1, <1>d, <2>1, <2>2 DEF TransferInv, ChunksAreOfMessage, Midway
    <2>10. CheckedIsCurrent'
      <3>1. \A u \in Senders : snd'[u].pc # "idle" => u # t /\ snd'[u] = snd[u]
        BY <2>3
      <3>2. snd'["task"].pc = "start" => "task" \in raced'
        BY <2>1, <3>1 DEF Senders
      <3>3. \A u \in Senders : snd'[u].pc \in {"start", "send"}
                                  => ms'.mtu \/ u \in reset' \cup raced'
        BY <2>1, <2>2, <3>1 DEF TransferInv, CheckedIsCurrent
      <3> QED
        BY <3>2, <3>3 DEF CheckedIsCurrent
    <2>11. AnswerFitsRequest'
      BY <2>1, <2>3, <2>5 DEF TransferInv, AnswerFitsRequest, Sending, Senders
    <2>12. UnansweredIsUnderWay'
      BY <2>2 DEF UnansweredIsUnderWay
    <2> QED
      BY <2>7, <2>8, <2>9, <2>10, <2>11, <2>12 DEF TransferInv
  <1> QED
    BY <1>2, <1>3, <1>4

LEMMA NextTransferInv == TransferInv /\ [Next]_vars => TransferInv'
  <1>1. ASSUME TransferInv, UNCHANGED vars PROVE TransferInv'
    <2> USE <1>1 DEF vars
    <2>1. Typed'
      BY DEF TransferInv, Typed
    <2>2. PhoneWrites' /\ ArrayIsThere' /\ ChunksAreOfMessage' /\ ChunkFits' /\ HostIsWhole'
      BY TransferUntouched DEF TransferInv, HostIsWhole
    <2>3. CheckedIsCurrent' /\ AnswerFitsRequest'
      BY DEF TransferInv, CheckedIsCurrent, AnswerFitsRequest, Sending
    <2>4. UnansweredIsUnderWay'
      BY DEF TransferInv, UnansweredIsUnderWay, Arriving, HandedOver, InHand
    <2> QED
      BY <2>1, <2>2, <2>3, <2>4 DEF TransferInv
  <1> QED
    BY <1>1, WritingKeepsTransferInv, HostKeepsTransferInv, TaskKeepsTransferInv,
       CheckKeepsTransferInv, SendKeepsTransferInv
    DEF Next

-----------------------------------------------------------------------------
\* In every reachable state of the transfer layer the invariant holds.
THEOREM TransferInvHolds == Spec => []TransferInv
  BY InitTransferInv, NextTransferInv, PTL DEF Spec

\* es_msg_dispatch hands over one whole message under its own command, and the
\* chunk being received has its place in the array, unless the phone gave up a
\* message or a sender took the state from one that was coming in.
THEOREM DispatchedIsAlwaysWhole == Spec => []DispatchedIsWhole
  <1>1. TransferInv => DispatchedIsWhole
    <2> SUFFICES ASSUME TransferInv PROVE DispatchedIsWhole
      OBVIOUS
    <2>0. Typed /\ ChunkFits /\ HostIsWhole
      BY DEF TransferInv
    <2>1. Command \subseteq 0 .. 13
      BY BleTransferAssumption DEF Command, Cmds, SETUPCOMPLETE
    <2>2. /\ ms.state \in {IDLE, ASSEMBLE, DISASSEMBLE} /\ ms.cmd \in Cmds \cup {0}
          /\ ms.cont < MaxChunks /\ ms.data \in Seq(0 .. MaxMsgs)
          /\ Len(ms.data) <= MaxChunks
      BY <2>0, BleTransferAssumption DEF Typed, State, Command
    <2>3. ms.mtu \in BOOLEAN
      BY <2>0 DEF Typed, State
    <2>4. host \in Requests /\ g \in Requests /\ req \in Requests
      BY <2>0, <2>1 DEF Typed, Call, Requests
    <2>5. \A t \in Senders : snd[t].pc \in {"idle", "check", "start", "send"}
      BY <2>0 DEF Typed, Sender
    <2>6. TypeOK
      BY <2>0, <2>2, <2>3, <2>4, <2>5 DEF TypeOK, Typed
    <2> QED
      BY <2>0, <2>6 DEF DispatchedIsWhole, HostIsWhole
  <1> QED
    BY <1>1, TransferInvHolds, PTL

\* An indication carries the command of the request it answers unless the sender
\* was overtaken between check and label, and es_msg_disassemble divides by a zero
\* mtu only when msg_state was reset under a sender.
THEOREM AnswerAlwaysFits == Spec => []AnswerFitsRequest
  <1>1. TransferInv => AnswerFitsRequest
    BY DEF TransferInv
  <1> QED
    BY <1>1, TransferInvHolds, PTL

\* A message is skipped as a duplicate only while an earlier request of its command
\* is under way or got lost.
THEOREM SkippedAlwaysHasCause == Spec => SkippedHasCause
  <1> DEFINE Caused ==
               skipped' /\ ~ skipped =>
                 LET c == cmdOf'[phone'.id]
                 IN  \/ lost \/ mixed' \/ phone'.id = phone.id
                     \/ flag /\ g.cmd = c
                     \/ task \in {"taken", "handle"} /\ c \in {g.cmd, req.cmd}
                     \/ owed /\ c = SETUPCOMPLETE
                     \/ \E t \in Senders : snd[t].pc # "idle"
  <1>1. TransferInv /\ [Next]_vars => [Caused]_vars
    <2> SUFFICES ASSUME TransferInv, [Next]_vars, skipped', ~ skipped,
                        ~ lost, ~ mixed', phone'.id # phone.id
                 PROVE  LET c == cmdOf'[phone'.id]
                        IN  \/ flag /\ g.cmd = c
                            \/ task \in {"taken", "handle"} /\ c \in {g.cmd, req.cmd}
                            \/ owed /\ c = SETUPCOMPLETE
                            \/ \E t \in Senders : snd[t].pc # "idle"
      OBVIOUS
    <2>1. \/ \E cmd \in Cmds, chunks \in 1 .. MaxChunks, segs \in 1 .. MaxSegments :
                NewMessage(cmd, chunks, segs)
          \/ NextSegment
      BY DEF Next, vars, hostVars, es_msg_dispatch, Join, es_reset_transferdata,
         es_ble_init, es_ble_deinit, TakeFlag, ReadRequest,
         iot_easysetup_ble_msg_handler, iot_easysetup_deinit, CheckFails, Check, Start,
         iot_send_indication, Finish
    <2>2. /\ host = NoCall /\ phone'.id # 0 /\ PhoneWrites' /\ (mixed => mixed')
          /\ \E s : SegmentOf(s) /\ Write(s) /\ (Begins(s) \/ Continues(s))
      BY <2>1, PhoneStep
    <2>3. PICK s : SegmentOf(s) /\ Write(s) /\ (Begins(s) \/ Continues(s))
      BY <2>2
    <2>4. s \in Segment /\ s.cmd = cmdOf'[phone'.id]
      BY <2>2, <2>3 DEF SegmentOf, PhoneWrites
    <2>5. \/ Dropped(s)
          \/ \E n : Taken(ms, s, n) /\ (Held(s, n) \/ Dispatched(n) \/ Skipped(s))
      BY <2>2, <2>3, <2>4, WriteOutcome DEF TransferInv
    <2>6. Duplicate(ms, s)
      BY <2>5 DEF Dropped, Held, Dispatched, Skipped
    <2>7. ms.state = IDLE /\ ms.cmd # 0 /\ ms.cmd = cmdOf'[phone'.id]
      BY <2>4, <2>6 DEF Duplicate
    <2>8. Arriving \/ HandedOver \/ InHand
      BY <2>2, <2>7 DEF TransferInv, UnansweredIsUnderWay
    <2>9. ~ Arriving
      BY <2>3, <2>7 DEF Arriving, Midway, Begins, Continues, IDLE, ASSEMBLE
    <2>10. HandedOver => (flag \/ task = "taken") /\ g.cmd = cmdOf'[phone'.id]
      BY <2>2, <2>7 DEF HandedOver
    <2>11. InHand => \/ task = "handle" /\ req.cmd = cmdOf'[phone'.id]
                     \/ owed /\ cmdOf'[phone'.id] = SETUPCOMPLETE
                     \/ \E t \in Senders : snd[t].pc # "idle"
      BY <2>7 DEF InHand
    <2> QED
      BY <2>8, <2>9, <2>10, <2>11
  <1> QED
    BY <1>1, TransferInvHolds, PTL DEF Spec, SkippedHasCause

=============================================================================

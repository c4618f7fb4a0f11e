------------------------------ MODULE MqttPacket ------------------------------
(***************************************************************************)
(* The MQTT packet codec (mqtt/packet) as operators on sequences of bytes, *)
(* checked for all small packets and, for lengths, around the boundaries   *)
(* of the variable-length length field.  The client allocates, writes and  *)
(* sends as many bytes as the ..._size operators say.                      *)
(***************************************************************************)
EXTENDS Integers, Sequences, SequencesExt

CONNECT == 1
CONNACK == 2
PUBLISH == 3
PUBACK == 4
PUBREC == 5
PUBREL == 6
PUBCOMP == 7
SUBSCRIBE == 8
SUBACK == 9
UNSUBSCRIBE == 10
UNSUBACK == 11
PINGREQ == 12
DISCONNECT == 14

MAX_NUM_OF_REMAINING_LENGTH_BYTES == 4

-----------------------------------------------------------------------------
\* Lengths

\* The digits of n to the base 128, lowest first, all but the last marked.
MQTTPacket_encode(n) ==
    LET enc[k \in Nat] == IF k < 128 THEN <<k>> ELSE <<128 + (k % 128)>> \o enc[k \div 128]
    IN  enc[n]

\* The value of the first k digits.
Value(b, k) ==
    LET val[i \in 0 .. k] == IF i = 0 THEN 0 ELSE val[i - 1] + (b[i] % 128) * 128 ^ (i - 1)
    IN  val[k]

\* The number of digits (five if the fourth is marked) and their value.
MQTTPacket_decode(b) ==
    LET last == SelectInSeq(b, LAMBDA d : d < 128)
        bad  == last = 0 \/ last > MAX_NUM_OF_REMAINING_LENGTH_BYTES
        k    == IF bad THEN MAX_NUM_OF_REMAINING_LENGTH_BYTES ELSE last
    IN  [len |-> IF bad THEN k + 1 ELSE k, value |-> Value(b, k)]

\* The limits are compared with a length that includes the header byte.
MQTTPacket_len(remLen) ==
    LET n == remLen + 1
    IN  n + (IF n < 128 THEN 1 ELSE IF n < 16384 THEN 2
             ELSE IF n < 2097151 THEN 3 ELSE 4)

\* The lengths around which the field grows.
Boundaries == {0, 1, 126, 127, 128, 16382, 16383, 16384, 2097150, 2097151, 2097152}

\* What the client allocates for a packet, and later sends, is the packet: never
\* too small, and one byte too long only just below the lengths at which the
\* length field grows.  That byte has no value and would be taken for the next
\* packet.
ChunkIsPacket ==
    \A n \in Boundaries :
        LET written == 1 + Len(MQTTPacket_encode(n)) + n
        IN  \/ MQTTPacket_len(n) = written
            \/ n \in {127, 16383, 2097150, 2097151} /\ MQTTPacket_len(n) = written + 1

-----------------------------------------------------------------------------
\* Fields

writeInt(n) == <<(n \div 256) % 256, n % 256>>
readInt(b, at) == 256 * b[at] + b[at + 1]
writeMQTTString(s) == writeInt(Len(s)) \o s

\* A string at position at of b, not past position end; next is behind it.
readMQTTLenString(b, at, end) ==
    IF end - at < 1 THEN [ok |-> FALSE, s |-> <<>>, next |-> at]
    ELSE LET n == readInt(b, at)
         IN  IF at + 1 + n <= end
             THEN [ok |-> TRUE, s |-> SubSeq(b, at + 2, at + 1 + n), next |-> at + 2 + n]
             ELSE [ok |-> FALSE, s |-> <<>>, next |-> at + 2]

Header(type, dup, qos, retain) == 16 * type + 8 * dup + 2 * qos + retain
Type(b) == b[1] \div 16
Dup(b) == (b[1] \div 8) % 2
Qos(b) == (b[1] \div 2) % 4
Retain(b) == b[1] % 2

Packet(header, body) == <<header>> \o MQTTPacket_encode(Len(body)) \o body

\* Of a packet: where its body begins, and its last byte.
Body(b) ==
    LET d == MQTTPacket_decode(Tail(b))
    IN  [at |-> 2 + d.len, end |-> 1 + d.len + d.value]

-----------------------------------------------------------------------------
\* Packets the client sends

Concat(ss) == FoldLeft(LAMBDA x, y : x \o y, <<>>, ss)

MQTTSerialize_zero(type) == Packet(Header(type, 0, 0, 0), <<>>)
MQTTSerialize_disconnect == MQTTSerialize_zero(DISCONNECT)
MQTTSerialize_pingreq == MQTTSerialize_zero(PINGREQ)

\* c: clientID, clean, keepAlive and, if given (a sequence of one), will (topic,
\* message, qos, retain), username, password.  Version 4.
MQTTSerialize_connectLength(c) ==
    10 + Len(c.clientID) + 2
       + (IF c.will = <<>> THEN 0 ELSE Len(c.will[1].topic) + 2 + Len(c.will[1].message) + 2)
       + (IF c.username = <<>> THEN 0 ELSE Len(c.username[1]) + 2)
       + (IF c.password = <<>> THEN 0 ELSE Len(c.password[1]) + 2)

MQTT == <<77, 81, 84, 84>>
MQIsdp == <<77, 81, 73, 115, 100, 112>>
Protocol == writeMQTTString(MQTT) \o <<4>>

MQTTSerialize_connect(c) ==
    LET will  == IF c.will = <<>> THEN 0
                 ELSE 4 + 8 * c.will[1].qos + 32 * c.will[1].retain
        flags == 2 * c.clean + will + 64 * Len(c.password) + 128 * Len(c.username)
    IN  Packet(Header(CONNECT, 0, 0, 0),
               Protocol \o <<flags>> \o writeInt(c.keepAlive) \o writeMQTTString(c.clientID)
                 \o (IF c.will = <<>> THEN <<>>
                     ELSE writeMQTTString(c.will[1].topic) \o writeMQTTString(c.will[1].message))
                 \o Concat([i \in DOMAIN c.username |-> writeMQTTString(c.username[i])])
                 \o Concat([i \in DOMAIN c.password |-> writeMQTTString(c.password[i])]))

MQTTSerialize_publishLength(qos, topic, payload) ==
    2 + Len(topic) + Len(payload) + (IF qos > 0 THEN 2 ELSE 0)

\* MQTTSerialize_publish_header is this without the payload.
MQTTSerialize_publish(dup, qos, retain, id, topic, payload) ==
    Packet(Header(PUBLISH, dup, qos, retain),
           writeMQTTString(topic) \o (IF qos > 0 THEN writeInt(id) ELSE <<>>) \o payload)

\* PUBACK, PUBREC, PUBREL and PUBCOMP.
MQTTSerialize_ack(type, dup, id) ==
    Packet(Header(type, dup, IF type = PUBREL THEN 1 ELSE 0, 0), writeInt(id))

MQTTSerialize_subscribeLength(topics) ==
    FoldLeft(LAMBDA n, t : n + 2 + Len(t) + 1, 2, topics)

MQTTSerialize_subscribe(dup, id, topics, qoss) ==
    Packet(Header(SUBSCRIBE, dup, 1, 0),
           writeInt(id) \o Concat([i \in DOMAIN topics |->
                                     writeMQTTString(topics[i]) \o <<qoss[i]>>]))

MQTTSerialize_unsubscribeLength(topics) == FoldLeft(LAMBDA n, t : n + 2 + Len(t), 2, topics)

MQTTSerialize_unsubscribe(dup, id, topics) ==
    Packet(Header(UNSUBSCRIBE, dup, 1, 0),
           writeInt(id) \o Concat([i \in DOMAIN topics |-> writeMQTTString(topics[i])]))

\* The packets that a server sends.
MQTTSerialize_connack(code, session) == Packet(Header(CONNACK, 0, 0, 0), <<session, code>>)
MQTTSerialize_suback(id, qoss) == Packet(Header(SUBACK, 0, 0, 0), writeInt(id) \o qoss)
MQTTSerialize_unsuback(id) == Packet(Header(UNSUBACK, 0, 0, 0), writeInt(id))

-----------------------------------------------------------------------------
\* Packets the client receives.  rc is 1 on success, but also after a failure
\* behind a length field of one byte.

MQTTDeserialize_connack(b) ==
    LET body == Body(b) IN
    IF Type(b) # CONNACK THEN [rc |-> 0, parsed |-> FALSE]
    ELSE IF body.end - body.at < 1 THEN [rc |-> body.at - 2, parsed |-> FALSE]
    ELSE [rc |-> 1, parsed |-> TRUE, session |-> b[body.at] % 2, code |-> b[body.at + 1]]

\* The id is read without looking at end.
MQTTDeserialize_publish(b) ==
    LET body  == Body(b)
        topic == readMQTTLenString(b, body.at, body.end)
        at    == IF Qos(b) > 0 THEN topic.next + 2 ELSE topic.next
    IN  IF Type(b) # PUBLISH THEN [rc |-> 0, parsed |-> FALSE]
        ELSE IF ~ topic.ok THEN [rc |-> body.at - 2, parsed |-> FALSE]
        ELSE [rc |-> 1, parsed |-> TRUE, dup |-> Dup(b), qos |-> Qos(b), retain |-> Retain(b),
              id |-> IF Qos(b) > 0 THEN readInt(b, topic.next) ELSE 0,
              topic |-> topic.s, payload |-> SubSeq(b, at, body.end)]

MQTTDeserialize_ack(b) ==
    LET body == Body(b) IN
    IF body.end - body.at < 1 THEN [rc |-> body.at - 2, parsed |-> FALSE]
    ELSE [rc |-> 1, parsed |-> TRUE, type |-> Type(b), dup |-> Dup(b), id |-> readInt(b, body.at)]

MQTTDeserialize_suback(b, max) ==
    LET body == Body(b) IN
    IF Type(b) # SUBACK THEN [rc |-> 0, parsed |-> FALSE]
    ELSE IF body.end - body.at < 1 THEN [rc |-> body.at - 2, parsed |-> FALSE]
    ELSE LET qoss == SubSeq(b, body.at + 2, body.end)
         IN  [rc |-> IF Len(qoss) <= max THEN 1 ELSE -1, parsed |-> TRUE, id |-> readInt(b, body.at),
              qoss |-> IF Len(qoss) <= max THEN qoss ELSE SubSeq(qoss, 1, max)]

MQTTDeserialize_unsuback(b) ==
    LET ack == MQTTDeserialize_ack(b)
    IN  IF Type(b) = UNSUBACK THEN [ack EXCEPT !.rc = 1] ELSE ack

MQTTPacket_getPacketId(b) ==
    LET at == Body(b).at IN
    CASE Type(b) = PUBLISH -> IF Qos(b) = 0 THEN 0 ELSE readInt(b, at + 2 + readInt(b, at))
      [] Type(b) \in PUBACK .. UNSUBACK -> readInt(b, at)
      [] OTHER -> 0

-----------------------------------------------------------------------------
\* Packets a server receives: the repeated part of a (un)subscription.

Filters(b, from, end, qos) ==
    LET at[i \in Nat] == \* where filter i + 1 begins
            IF i = 0 THEN from
            ELSE LET r == readMQTTLenString(b, at[i - 1], end)
                 IN  r.next + (IF qos THEN 1 ELSE 0)
        count == CHOOSE n \in 0 .. Len(b) : at[n] > end /\ \A m \in 0 .. n - 1 : at[m] <= end
    IN  [i \in 1 .. count |-> readMQTTLenString(b, at[i - 1], end).s]

MQTTDeserialize_subscribe(b) ==
    LET body == Body(b)
    IN  [dup |-> Dup(b), id |-> readInt(b, body.at),
         topics |-> Filters(b, body.at + 2, body.end, TRUE)]

MQTTDeserialize_unsubscribe(b) ==
    LET body == Body(b)
    IN  [dup |-> Dup(b), id |-> readInt(b, body.at),
         topics |-> Filters(b, body.at + 2, body.end, FALSE)]

\* The names are compared over the shorter of the two lengths.
MQTTPacket_checkVersion(name, version) ==
    \/ version = 3 /\ IsPrefix(SubSeq(name, 1, IF Len(name) < 6 THEN Len(name) ELSE 6), MQIsdp)
    \/ version = 4 /\ IsPrefix(SubSeq(name, 1, IF Len(name) < 4 THEN Len(name) ELSE 4), MQTT)

\* A user name or password of no bytes is refused, and so is a password alone.
MQTTDeserialize_connect(b) ==
    LET body   == Body(b)
        proto  == readMQTTLenString(b, body.at, body.end)
        flags  == b[proto.next + 1]
        client == readMQTTLenString(b, proto.next + 4, body.end)
        will   == (flags \div 4) % 2 = 1
        topic  == readMQTTLenString(b, client.next, body.end)
        msg    == readMQTTLenString(b, topic.next, body.end)
        atUser == IF will THEN msg.next ELSE client.next
        user   == readMQTTLenString(b, atUser, body.end)
        named  == flags \div 128 = 1
        secret == (flags \div 64) % 2 = 1
        pass   == readMQTTLenString(b, user.next, body.end)
        bad    == \/ named /\ (body.end - atUser < 2 \/ ~ user.ok)
                  \/ named /\ secret /\ (body.end - user.next < 2 \/ ~ pass.ok)
                  \/ secret /\ ~ named
    IN  IF ~ MQTTPacket_checkVersion(proto.s, b[proto.next]) \/ bad THEN <<>>
        ELSE <<[clientID |-> client.s, clean |-> (flags \div 2) % 2,
                keepAlive |-> readInt(b, proto.next + 2),
                will |-> IF ~ will THEN <<>>
                         ELSE <<[topic |-> topic.s, message |-> msg.s,
                                 qos |-> (flags \div 8) % 4, retain |-> (flags \div 32) % 2]>>,
                username |-> IF named THEN <<user.s>> ELSE <<>>,
                password |-> IF secret THEN <<pass.s>> ELSE <<>>]>>

-----------------------------------------------------------------------------
\* Readers

\* MQTTPacket_read and _iot_mqtt_run_read_stream: header, length, and as many
\* bytes as the length says.
MQTTPacket_read(b, buflen) ==
    LET d == MQTTPacket_decode(Tail(b))
        p == <<b[1]>> \o MQTTPacket_encode(d.value) \o SubSeq(b, 2 + d.len, 1 + d.len + d.value)
    IN  IF Len(p) > buflen THEN <<>> ELSE p

\* The reader that is called again: step (MQTTTransport.state), bytes taken,
\* digits of the length so far, bytes still to come, and the packet; rc is -1
\* after an error, 0 for "call again".
Reader == [step |-> 0, pos |-> 0, digits |-> <<>>, rem |-> 0, packet |-> <<>>, rc |-> 0]

ReadHeader(r, b, avail) ==
    IF r.step # 0 \/ r.pos >= avail THEN r
    ELSE [r EXCEPT !.step = 1, !.pos = @ + 1, !.packet = <<b[r.pos + 1]>>, !.digits = <<>>]

\* Mistake: the digits taken by an earlier call are forgotten.
DecodeAnew(r, b, avail, buflen) ==
    IF r.step # 1 THEN r
    ELSE LET here == SubSeq(b, r.pos + 1, avail)
             last == SelectInSeq(here, LAMBDA d : d < 128)
             taken == IF last = 0 THEN Len(here) ELSE last
             all  == SubSeq(here, 1, taken)
             p    == r.packet \o MQTTPacket_encode(Value(all, Len(all)))
         IN  IF Len(all) > MAX_NUM_OF_REMAINING_LENGTH_BYTES THEN [r EXCEPT !.step = 0, !.rc = -1]
             ELSE IF last = 0 THEN [r EXCEPT !.pos = @ + taken]
             ELSE IF Value(all, Len(all)) + Len(p) > buflen THEN [r EXCEPT !.step = 0, !.rc = -1]
             ELSE [r EXCEPT !.step = 2, !.pos = @ + taken, !.rem = Value(all, Len(all)), !.packet = p]

\* MQTTPacket_decodenb, and the length put back into the buffer.
MQTTPacket_decodenb(r, b, avail, buflen) ==
    IF r.step # 1 THEN r
    ELSE LET here == SubSeq(b, r.pos + 1, avail)
             last == SelectInSeq(here, LAMBDA d : d < 128)
             taken == IF last = 0 THEN Len(here) ELSE last
             all  == r.digits \o SubSeq(here, 1, taken)
             p    == r.packet \o MQTTPacket_encode(Value(all, Len(all)))
         IN  IF Len(all) > MAX_NUM_OF_REMAINING_LENGTH_BYTES THEN [r EXCEPT !.step = 0, !.rc = -1]
             ELSE IF last = 0 THEN [r EXCEPT !.pos = @ + taken, !.digits = all]
             ELSE IF Value(all, Len(all)) + Len(p) > buflen THEN [r EXCEPT !.step = 0, !.rc = -1]
             ELSE [r EXCEPT !.step = 2, !.pos = @ + taken, !.rem = Value(all, Len(all)), !.packet = p]

ReadBody(r, b, avail) ==
    IF r.step # 2 THEN r
    ELSE LET n == IF avail - r.pos < r.rem THEN avail - r.pos ELSE r.rem
             p == r.packet \o SubSeq(b, r.pos + 1, r.pos + n)
         IN  IF n = r.rem THEN [r EXCEPT !.step = 0, !.pos = @ + n, !.rem = 0, !.packet = p, !.rc = Type(p)]
             ELSE [r EXCEPT !.pos = @ + n, !.rem = @ - n, !.packet = p]

\* One call of MQTTPacket_readnb when avail bytes of b have arrived.
MQTTPacket_readnb(r, b, avail, buflen) ==
    IF r.rc # 0 THEN r
    ELSE ReadBody(MQTTPacket_decodenb(ReadHeader(r, b, avail), b, avail, buflen), b, avail)

-----------------------------------------------------------------------------
\* Properties

Strings == {<<>>, <<7>>, <<7, 130>>}
Ids == {1, 256, 65535}
Bit == {0, 1}

PublishRoundTrip ==
    \A dup, retain \in Bit, qos \in 0 .. 2, id \in Ids, topic, payload \in Strings :
        LET b == MQTTSerialize_publish(dup, qos, retain, id, topic, payload)
        IN  /\ MQTTDeserialize_publish(b) =
                  [rc |-> 1, parsed |-> TRUE, dup |-> dup, qos |-> qos, retain |-> retain,
                   id |-> IF qos > 0 THEN id ELSE 0, topic |-> topic, payload |-> payload]
            /\ MQTTPacket_getPacketId(b) = IF qos > 0 THEN id ELSE 0
            /\ Body(b).end - Body(b).at + 1 = MQTTSerialize_publishLength(qos, topic, payload)

Topics == BoundedSeq(Strings, 2) \ {<<>>}

AckRoundTrip ==
    \A id \in Ids, topics \in Topics, dup \in Bit :
        LET sub   == MQTTSerialize_subscribe(dup, id, topics, [i \in DOMAIN topics |-> 1])
            unsub == MQTTSerialize_unsubscribe(dup, id, topics)
            acks  == {MQTTSerialize_ack(t, dup, id) : t \in PUBACK .. PUBCOMP}
            suback == MQTTSerialize_suback(id, <<dup>>)
            unsuback == MQTTSerialize_unsuback(id)
        IN  /\ MQTTDeserialize_subscribe(sub) = [dup |-> dup, id |-> id, topics |-> topics]
            /\ MQTTDeserialize_unsubscribe(unsub) = [dup |-> dup, id |-> id, topics |-> topics]
            /\ Body(sub).end - Body(sub).at + 1 = MQTTSerialize_subscribeLength(topics)
            /\ Body(unsub).end - Body(unsub).at + 1 = MQTTSerialize_unsubscribeLength(topics)
            /\ \A a \in acks : MQTTDeserialize_ack(a) =
                  [rc |-> 1, parsed |-> TRUE, type |-> Type(a), dup |-> dup, id |-> id]
            /\ MQTTDeserialize_suback(suback, 1) =
                  [rc |-> 1, parsed |-> TRUE, id |-> id, qoss |-> <<dup>>]
            /\ MQTTDeserialize_unsuback(unsuback).id = id
            /\ \A b \in acks \cup {sub, unsub, suback, unsuback} : MQTTPacket_getPacketId(b) = id

Connects ==
    [clientID : Strings, clean : Bit, keepAlive : {0, 300},
     will : {<<>>} \cup {<<[topic |-> t, message |-> <<9>>, qos |-> q, retain |-> r]>> :
                          t \in Strings, q \in 0 .. 2, r \in Bit},
     username : {<<>>, <<<<>>>>, <<<<5>>>>}, password : {<<>>, <<<<>>>>, <<<<6, 6>>>>}]

\* What a client asks for, a server understands, unless the client gives a
\* password without a name, or one of them is empty, which is refused.
ConnectRoundTrip ==
    /\ \A c \in Connects :
          LET b == MQTTSerialize_connect(c)
              refused == \/ c.username = <<<<>>>> /\ c.password # <<<<6, 6>>>>
                         \/ c.username # <<>> /\ c.password = <<<<>>>>
                         \/ c.username = <<>> /\ c.password # <<>>
          IN  /\ MQTTDeserialize_connect(b) = IF refused THEN <<>> ELSE <<c>>
              /\ Body(b).end - Body(b).at + 1 = MQTTSerialize_connectLength(c)
    /\ \A code \in 0 .. 5, session \in Bit :
          MQTTDeserialize_connack(MQTTSerialize_connack(code, session)) =
              [rc |-> 1, parsed |-> TRUE, session |-> session, code |-> code]

SmallPackets == {Packet(Header(PUBLISH, 0, 0, 0), [i \in 1 .. n |-> i % 256]) : n \in {0, 1, 3, 129, 130}}

\* The points at which a packet may have arrived so far: early ones, where the
\* header and the length are, and one late one.
Cuts(b) == SUBSET ({1, 2, 3, 4, Len(b) - 1} \cap 1 .. Len(b) - 1)

PiecesMakePacket ==
    \A b \in SmallPackets : \A cuts \in Cuts(b) :
        LET avails == SetToSortSeq(cuts \cup {Len(b)}, <)
            r == FoldLeft(LAMBDA x, a : MQTTPacket_readnb(x, b, a, 200), Reader, avails)
        IN  /\ r.rc = PUBLISH /\ r.packet = b /\ r.pos = Len(b)
            /\ MQTTPacket_read(b, 200) = b

LengthRoundTrip ==
    \A n \in Boundaries \cup {268435455} :
        MQTTPacket_decode(MQTTPacket_encode(n)) = [len |-> Len(MQTTPacket_encode(n)), value |-> n]

=============================================================================

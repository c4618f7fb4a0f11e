--------------------------- MODULE MqttClientProofs ---------------------------
(***************************************************************************)
(* For every number of messages, retries and works: a packet is in one     *)
(* place, and a thread that popped it owns it (PoppedIsOwned); no message  *)
(* is lost unnoticed (MessageIsAccounted); a connection that broke down is *)
(* reported (ClosedIsReported).                                            *)
(***************************************************************************)
EXTENDS MqttClient, WellFoundedInduction, TLAPS

(* Induction, in the form the provers can use.                             *)

\* A set of natural numbers that is not empty has a least element.
LEMMA LeastNumber ==
    ASSUME NEW T \in SUBSET Nat, T # {}
    PROVE  \E x \in T : \A y \in T : x =< y
  <1>1. PICK x \in T : \A y \in T : ~ (<<y, x>> \in OpToRel(<, Nat))
    BY NatLessThanWellFounded, WFMin, Zenon
  <1>2. \A y \in T : ~ (y < x)
    BY <1>1 DEF OpToRel
  <1> HIDE <1>1
  <1> QED
    BY ONLY <1>2, T \in SUBSET Nat, x \in T

-----------------------------------------------------------------------------
(* The inductive invariant.                                                *)

OnceIn(q) == \A i, j \in 1 .. Len(q) : q[i] = q[j] /\ q[i] \in Chunks => i = j

\* What chunk_state says of a packet: in which queue it is, how often it may still
\* be sent, and that the broker has what it acknowledged.
ChunkOk(c) ==
    /\ InSeq(c, wq) => st[c] = "WRITE_PENDING"
    /\ InSeq(c, aq) => st[c] = "ACK_PENDING"
    /\ InSeq(c, eq) => c \in async /\ st[c] \in {"WRITE_FAIL", "TIMEOUT"}
    /\ st[c] = "none" => tries[c] = 0 /\ c \notin async
    /\ st[c] \in {"WRITE_PENDING", "ACK_PENDING"} => tries[c] < PublishRetry
    /\ c \in Msgs => /\ st[c] = "ACKNOWLEDGED" => c \in got
                     /\ st[c] # "WRITE_COMPLETED"

QueueInv == /\ OnceIn(wq) /\ OnceIn(aq) /\ OnceIn(eq)
            /\ \A c \in Chunks : ChunkOk(c)

Sending(t) == pc[t] \in {"send", "post"}
Failing(t) == pc[t] \in {"fail", "fail and close"}
Busy == {"send", "post", "fail", "fail and close", "retry", "acked"}

\* What a thread has in its hand, in each of its steps.
HandOk(t) ==
    /\ Sending(t) => /\ writeLock = t
                     /\ hand[t] \in Chunks \cup {"PUBACK"}
                     /\ hand[t] \in Chunks =>
                           st[hand[t]] = "WRITE_PENDING" /\ ~ InSeq(hand[t], wq)
    /\ pc[t] = "retry" => /\ hand[t] \in Msgs \cup {"PING"}
                          /\ st[hand[t]] = "ACK_PENDING" /\ ~ InSeq(hand[t], aq)
    /\ Failing(t) => /\ hand[t] \in Chunks \cup {"PUBACK"}
                     /\ hand[t] \in async =>
                           st[hand[t]] = "WRITE_FAIL" /\ ~ InSeq(hand[t], eq)
    /\ pc[t] = "acked" => hand[t] \in Msgs \cup {"PING"} /\ hand[t] \notin async
    /\ hand[t] \in Chunks => st[hand[t]] # "none"
    /\ pc[t] \notin Busy => hand[t] = "none"

HandInv == \A t \in Threads : HandOk(t)

\* Two threads do not give up or retry the same packet.
TwoHandsInv ==
    \A t, u \in Threads : t # u =>
       /\ pc[t] = "retry" /\ pc[u] = "retry" => hand[t] # hand[u]
       /\ Failing(t) /\ Failing(u) /\ hand[t] \in async => hand[t] # hand[u]

\* The steps of a thread outside st_mqtt_publish and st_mqtt_disconnect.
Unwaited == {"idle", "starting", "callbacks", "pending", "closing", "closed",
             "joining"}

\* The packets that calls wait for, and where the calls are.
WaitInv ==
    /\ waits["app"] \in Msgs \cup {"none"}
    /\ waits["work"] \in {"DISCONNECT", "none"}
    /\ waits["sock"] = "none"
    /\ \A t \in Threads : /\ waits[t] \notin async
                          /\ waits[t] \in Chunks => st[waits[t]] # "none"
                          /\ pc[t] = "check" => waits[t] # "none"
                          /\ pc[t] \in Unwaited => waits[t] = "none"
    /\ waits["work"] = "none" /\ pc["work"] \notin {"closing", "closed", "joining"}
          => st["DISCONNECT"] = "none"

\* What the broker acknowledges, it has.
InboxInv == \A i \in 1 .. Len(inbox) : inbox[i] \in Msgs => inbox[i] \in got

PlacesInv == /\ QueueInv /\ HandInv /\ TwoHandsInv /\ WaitInv /\ InboxInv
             /\ pc["work"] = "joining" => ~ magic

\* No asynchronous message vanishes.
AccountOk(m) == \/ InSeq(m, wq) \/ InSeq(m, aq) \/ InSeq(m, eq)
                \/ m \in got \cup reported
                \/ \E t \in Threads : hand[t] = m

AsyncInv == magic => \A m \in async : AccountOk(m)

ClientInv == /\ TypeOK /\ ClosedIsReported
             /\ \A m \in Msgs : result[m] = "ok" => m \in got
             /\ Alive => PlacesInv /\ AsyncInv

-----------------------------------------------------------------------------
(* What the operations of a queue do to the packets in it.                 *)

LEMMA AppendFacts ==
    ASSUME NEW S, NEW q \in Seq(S), NEW c \in S
    PROVE  /\ Append(q, c) \in Seq(S)
           /\ \A x : InSeq(x, Append(q, c)) <=> InSeq(x, q) \/ x = c
           /\ OnceIn(q) /\ (c \in Chunks => ~ InSeq(c, q)) => OnceIn(Append(q, c))
  <1>1. /\ Append(q, c) \in Seq(S) /\ Len(Append(q, c)) = Len(q) + 1
        /\ \A i \in 1 .. Len(q) : Append(q, c)[i] = q[i]
        /\ Append(q, c)[Len(q) + 1] = c
    OBVIOUS
  <1>2. ASSUME NEW x PROVE InSeq(x, Append(q, c)) <=> InSeq(x, q) \/ x = c
    BY <1>1 DEF InSeq
  <1>3. ASSUME OnceIn(q), c \in Chunks => ~ InSeq(c, q) PROVE OnceIn(Append(q, c))
    BY <1>1, <1>3 DEF OnceIn, InSeq
  <1> QED
    BY <1>1, <1>2, <1>3

\* What is left when the packet at i is gone.
Shorter(r, i, q) ==
    /\ Len(r) = Len(q) - 1
    /\ \A j \in 1 .. Len(q) - 1 : r[j] = IF j < i THEN q[j] ELSE q[j + 1]

LEMMA ShorterFacts ==
    ASSUME NEW S, NEW q \in Seq(S), NEW i \in 1 .. Len(q), NEW r \in Seq(S),
           Shorter(r, i, q)
    PROVE  /\ \A x : InSeq(x, r) => InSeq(x, q)
           /\ \A x : InSeq(x, q) => InSeq(x, r) \/ x = q[i]
           /\ OnceIn(q) => /\ OnceIn(r)
                           /\ q[i] \in Chunks => ~ InSeq(q[i], r)
  <1>1. /\ Len(r) = Len(q) - 1
        /\ \A j \in 1 .. Len(q) - 1 : r[j] = IF j < i THEN q[j] ELSE q[j + 1]
    BY DEF Shorter
  <1>2. ASSUME NEW x, InSeq(x, r) PROVE InSeq(x, q)
    BY <1>1, <1>2 DEF InSeq
  <1>3. ASSUME NEW x, InSeq(x, q), x # q[i] PROVE InSeq(x, r)
    <2>1. PICK k \in 1 .. Len(q) : q[k] = x
      BY <1>3 DEF InSeq
    <2>2. CASE k < i
      <3>1. k \in 1 .. Len(r) /\ r[k] = x
        BY <1>1, <2>1, <2>2
      <3> QED
        BY <3>1 DEF InSeq
    <2>3. CASE k > i
      <3>1. k - 1 \in 1 .. Len(r) /\ r[k - 1] = x
        BY <1>1, <2>1, <2>3
      <3> QED
        BY <3>1 DEF InSeq
    <2> QED
      BY <1>3, <2>1, <2>2, <2>3
  <1>4. ASSUME OnceIn(q) PROVE OnceIn(r) /\ (q[i] \in Chunks => ~ InSeq(q[i], r))
    <2> DEFINE at(j) == IF j < i THEN j ELSE j + 1
    <2>1. \A j \in 1 .. Len(r) : /\ at(j) \in 1 .. Len(q) /\ r[j] = q[at(j)]
                                 /\ at(j) # i
      BY <1>1
    <2>2. \A j, k \in 1 .. Len(r) : at(j) = at(k) => j = k
      BY <1>1
    <2> HIDE DEF at
    <2>3. OnceIn(r)
      BY <1>4, <2>1, <2>2 DEF OnceIn
    <2>4. q[i] \in Chunks => ~ InSeq(q[i], r)
      BY <1>4, <2>1 DEF OnceIn, InSeq
    <2> QED
      BY <2>3, <2>4
  <1> QED
    BY <1>2, <1>3, <1>4

LEMMA UnlinkFacts ==
    ASSUME NEW S, NEW q \in Seq(S), NEW i \in 1 .. Len(q)
    PROVE  /\ Unlink(i, q) \in Seq(S)
           /\ \A x : InSeq(x, Unlink(i, q)) => InSeq(x, q)
           /\ \A x : InSeq(x, q) => InSeq(x, Unlink(i, q)) \/ x = q[i]
           /\ OnceIn(q) => /\ OnceIn(Unlink(i, q))
                           /\ q[i] \in Chunks => ~ InSeq(q[i], Unlink(i, q))
  <1> DEFINE r == Unlink(i, q)
  <1>1. r \in Seq(S) /\ Shorter(r, i, q)
    <2>1. Len(q) - 1 \in Nat
      OBVIOUS
    <2>2. \A j \in 1 .. Len(q) - 1 : (IF j < i THEN q[j] ELSE q[j + 1]) \in S
      OBVIOUS
    <2> QED
      BY <2>1, <2>2 DEF Unlink, Shorter
  <1> HIDE DEF r
  <1>2. /\ \A x : InSeq(x, r) => InSeq(x, q)
        /\ \A x : InSeq(x, q) => InSeq(x, r) \/ x = q[i]
        /\ OnceIn(q) => OnceIn(r) /\ (q[i] \in Chunks => ~ InSeq(q[i], r))
    BY <1>1, ShorterFacts
  <1> QED
    BY <1>1, <1>2 DEF r

LEMMA TailFacts ==
    ASSUME NEW S, NEW q \in Seq(S), q # <<>>
    PROVE  /\ Tail(q) \in Seq(S) /\ Head(q) \in S /\ InSeq(Head(q), q)
           /\ \A x : InSeq(x, Tail(q)) => InSeq(x, q)
           /\ \A x : InSeq(x, q) => InSeq(x, Tail(q)) \/ x = Head(q)
           /\ OnceIn(q) => /\ OnceIn(Tail(q))
                           /\ Head(q) \in Chunks => ~ InSeq(Head(q), Tail(q))
  <1> DEFINE r == Tail(q)
             h == Head(q)
  <1>1. 1 \in 1 .. Len(q) /\ h = q[1] /\ h \in S
    OBVIOUS
  <1>2. r \in Seq(S) /\ Shorter(r, 1, q)
    BY DEF Shorter
  <1>3. InSeq(h, q)
    BY <1>1 DEF InSeq
  <1> HIDE DEF r, h
  <1>4. /\ \A x : InSeq(x, r) => InSeq(x, q)
        /\ \A x : InSeq(x, q) => InSeq(x, r) \/ x = q[1]
        /\ OnceIn(q) => OnceIn(r) /\ (q[1] \in Chunks => ~ InSeq(q[1], r))
    BY <1>1, <1>2, ShorterFacts
  <1> QED
    BY <1>1, <1>2, <1>3, <1>4 DEF r, h

\* _iot_mqtt_queue_pop_by_type_and_id finds the packet.
LEMMA DropFacts ==
    ASSUME NEW S, NEW q \in Seq(S), NEW c, InSeq(c, q)
    PROVE  /\ Drop(c, q) \in Seq(S) /\ c \in S
           /\ \A x : InSeq(x, Drop(c, q)) => InSeq(x, q)
           /\ \A x : InSeq(x, q) => InSeq(x, Drop(c, q)) \/ x = c
           /\ OnceIn(q) => /\ OnceIn(Drop(c, q))
                           /\ c \in Chunks => ~ InSeq(c, Drop(c, q))
  <1> DEFINE P(i) == q[i] = c /\ \A j \in 1 .. i - 1 : q[j] # c
             k == CHOOSE i \in 1 .. Len(q) : P(i)
  <1>1. \E i \in 1 .. Len(q) : P(i)
    <2> DEFINE T == {i \in 1 .. Len(q) : q[i] = c}
    <2>1. T \in SUBSET Nat /\ T # {}
      BY DEF InSeq
    <2>2. PICK i \in T : \A j \in T : i =< j
      <3> HIDE DEF T
      <3> QED
        BY <2>1, LeastNumber
    <2> QED
      BY <2>2
  <1> HIDE DEF P
  <1>2. k \in 1 .. Len(q) /\ P(k)
    BY <1>1
  <1>3. Drop(c, q) = Unlink(k, q)
    BY DEF Drop, k, P
  <1> HIDE DEF k
  <1>4. k \in 1 .. Len(q) /\ q[k] = c
    BY <1>2 DEF P
  <1> QED
    BY <1>3, <1>4, UnlinkFacts

-----------------------------------------------------------------------------
(* What a step does to a queue, as far as the invariant can tell.          *)

Pushed(r, q, c) ==
    /\ \A x : InSeq(x, r) <=> InSeq(x, q) \/ x = c
    /\ OnceIn(q) /\ (c \in Chunks => ~ InSeq(c, q)) => OnceIn(r)

Popped(r, q, c) ==
    /\ InSeq(c, q)
    /\ \A x : InSeq(x, r) => InSeq(x, q)
    /\ \A x : InSeq(x, q) => InSeq(x, r) \/ x = c
    /\ OnceIn(q) => OnceIn(r) /\ (c \in Chunks => ~ InSeq(c, r))

WqItems == Chunks \cup {"PUBACK"}
AqItems == Msgs \cup {"PING"}
EqItems == Msgs \cup {"PUBACK", "pub", "disconnected"}

LEMMA PushFacts ==
    ASSUME NEW S, NEW q \in Seq(S), NEW c \in S
    PROVE  Append(q, c) \in Seq(S) /\ Pushed(Append(q, c), q, c)
  BY AppendFacts DEF Pushed

LEMMA PopFacts ==
    ASSUME NEW S, NEW q \in Seq(S)
    PROVE  /\ q # <<>> => /\ Tail(q) \in Seq(S) /\ Head(q) \in S
                          /\ Popped(Tail(q), q, Head(q))
           /\ \A i \in 1 .. Len(q) : Unlink(i, q) \in Seq(S) /\ q[i] \in S
                                     /\ Popped(Unlink(i, q), q, q[i])
           /\ \A c : InSeq(c, q) => Drop(c, q) \in Seq(S) /\ c \in S
                                     /\ Popped(Drop(c, q), q, c)
  <1>1. q # <<>> => /\ Tail(q) \in Seq(S) /\ Head(q) \in S
                    /\ Popped(Tail(q), q, Head(q))
    BY TailFacts DEF Popped
  <1>2. ASSUME NEW i \in 1 .. Len(q)
        PROVE  Unlink(i, q) \in Seq(S) /\ q[i] \in S
               /\ Popped(Unlink(i, q), q, q[i])
    <2>1. q[i] \in S /\ InSeq(q[i], q)
      BY DEF InSeq
    <2> QED
      BY <2>1, UnlinkFacts DEF Popped
  <1>3. ASSUME NEW c, InSeq(c, q)
        PROVE  Drop(c, q) \in Seq(S) /\ c \in S /\ Popped(Drop(c, q), q, c)
    BY <1>3, DropFacts DEF Popped
  <1> QED
    BY <1>1, <1>2, <1>3

\* The names of the model's packets, threads and events are distinct.
LEMMA Names ==
    /\ {"PING", "DISCONNECT", "PUBACK", "pub", "dup", "disconnected", "none"}
          \cap Msgs = {}
    /\ "PING" \in Chunks /\ "DISCONNECT" \in Chunks /\ Msgs \subseteq Chunks
    /\ {"PUBACK", "pub", "dup", "disconnected", "none"} \cap Chunks = {}
  BY MqttClientAssumption DEF Chunks

LEMMA RetryIsPositive == PublishRetry \in Nat /\ 0 < PublishRetry
  BY MqttClientAssumption

Ending == {"closing", "closed", "joining"}

-----------------------------------------------------------------------------
(* The invariant after a step that hands at most one packet on.            *)

\* Nobody but u may touch the packet c that is in its hand.
Owns(u, c) == hand[u] = c /\ (\/ Sending(u) \/ pc[u] = "retry"
                              \/ Failing(u) /\ c \in async)

\* Thread t goes to l and has h in its hand; the step is about the packet c.
HandsOn(t, c, l, h) ==
    /\ pc' = [pc EXCEPT ![t] = l]
    /\ hand' = [hand EXCEPT ![t] = h]
    /\ h \in {c, "none"} /\ (hand[t] \in async => hand[t] = c)
    /\ \A x \in Chunks : x # c => /\ st'[x] = st[x] /\ tries'[x] = tries[x]
                                  /\ x \in async' <=> x \in async
                                  /\ InSeq(x, wq') <=> InSeq(x, wq)
                                  /\ InSeq(x, aq') <=> InSeq(x, aq)
                                  /\ InSeq(x, eq') <=> InSeq(x, eq)
    /\ OnceIn(wq') /\ OnceIn(aq') /\ OnceIn(eq')
    /\ c \in Chunks => ChunkOk(c)' /\ st'[c] # "none"
    /\ c \in async' /\ magic' => AccountOk(c)'
    /\ HandOk(t)'
    /\ \A u \in Threads : u # t => ~ (c \in Chunks /\ Owns(u, c))
    /\ \A u \in Threads : u # t /\ Sending(u) => writeLock' = u
    /\ async' \subseteq async \cup {c} /\ async' \subseteq Msgs
    /\ c \in async' => c \in async \/ st[c] = "none"
    /\ \A i \in 1 .. Len(inbox') : inbox'[i] \in Msgs =>
          inbox'[i] \in got' \/ InSeq(inbox'[i], inbox)
    /\ got \subseteq got' /\ reported \subseteq reported'
    /\ magic' = magic /\ l # "joining"

LEMMA HandsKeep ==
    ASSUME TypeOK, PlacesInv, AsyncInv, NEW t \in Threads, NEW c,
           NEW l \in Steps, NEW h, HandsOn(t, c, l, h)
    PROVE  /\ QueueInv' /\ HandInv' /\ TwoHandsInv' /\ InboxInv' /\ AsyncInv'
           /\ pc'["work"] = "joining" => ~ magic'
  <1>1. /\ \A u \in Threads : u # t => pc'[u] = pc[u] /\ hand'[u] = hand[u]
        /\ pc'[t] = l /\ hand'[t] = h
    BY DEF HandsOn, TypeOK
  <1>2. \A x \in Chunks : x # c => ChunkOk(x)'
    <2> SUFFICES ASSUME NEW x \in Chunks, x # c PROVE ChunkOk(x)'
      OBVIOUS
    <2>1. ChunkOk(x)
      BY DEF PlacesInv, QueueInv
    <2>2. /\ st'[x] = st[x] /\ tries'[x] = tries[x]
          /\ x \in async' <=> x \in async
          /\ InSeq(x, wq') <=> InSeq(x, wq)
          /\ InSeq(x, aq') <=> InSeq(x, aq)
          /\ InSeq(x, eq') <=> InSeq(x, eq)
          /\ got \subseteq got'
      BY DEF HandsOn
    <2> QED
      BY <2>1, <2>2 DEF ChunkOk
  <1>3. QueueInv'
    BY <1>2 DEF HandsOn, QueueInv
  <1>4. HandInv'
    <2> SUFFICES ASSUME NEW u \in Threads, u # t PROVE HandOk(u)'
      BY DEF HandsOn, HandInv
    <2>1. /\ HandOk(u) /\ pc'[u] = pc[u] /\ hand'[u] = hand[u]
          /\ Sending(u) => writeLock' = u
          /\ Sending(u)' <=> Sending(u)
          /\ Failing(u)' <=> Failing(u)
      BY <1>1 DEF PlacesInv, HandInv, HandsOn, Sending, Failing
    <2>2. CASE hand[u] # c /\ hand[u] \in Chunks
      <3>1. /\ st'[hand[u]] = st[hand[u]]
            /\ hand[u] \in async' <=> hand[u] \in async
            /\ InSeq(hand[u], wq') <=> InSeq(hand[u], wq)
            /\ InSeq(hand[u], aq') <=> InSeq(hand[u], aq)
            /\ InSeq(hand[u], eq') <=> InSeq(hand[u], eq)
        BY <2>2 DEF HandsOn
      <3> QED
        BY <2>1, <3>1 DEF HandOk
    <2>3. CASE hand[u] = c /\ hand[u] \in Chunks
      <3>1. /\ ~ Sending(u) /\ pc[u] # "retry" /\ st'[c] # "none"
            /\ ~ (Failing(u) /\ c \in async)
            /\ c \in async' => c \in async
        BY <2>1, <2>3 DEF HandsOn, Owns, HandOk
      <3> QED
        BY <2>1, <2>3, <3>1 DEF HandOk
    <2>4. CASE hand[u] \notin Chunks
      <3>1. hand[u] \notin async' /\ hand[u] \notin Msgs \cup {"PING"}
        BY <2>4 DEF HandsOn, Chunks
      <3> QED
        BY <2>1, <2>4, <3>1 DEF HandOk
    <2> QED
      BY <2>2, <2>3, <2>4
  <1>5. TwoHandsInv'
    <2> SUFFICES ASSUME NEW u \in Threads, NEW v \in Threads, u # v
                 PROVE  /\ pc'[u] = "retry" /\ pc'[v] = "retry" => hand'[u] # hand'[v]
                        /\ Failing(u)' /\ Failing(v)' /\ hand'[u] \in async'
                              => hand'[u] # hand'[v]
      BY DEF TwoHandsInv
    <2>1. HandOk(u)' /\ HandOk(v)' /\ HandOk(u) /\ HandOk(v)
      BY <1>4 DEF HandInv, PlacesInv
    <2>2. CASE u # t /\ v # t
      <3>1. /\ pc'[u] = pc[u] /\ hand'[u] = hand[u]
            /\ pc'[v] = pc[v] /\ hand'[v] = hand[v]
        BY <1>1, <2>2
      <3>2. hand[u] \in async' => hand[u] \in async
        <4> SUFFICES ASSUME hand[u] \in async', hand[u] \notin async PROVE FALSE
          OBVIOUS
        <4>1. hand[u] = c /\ st[c] = "none" /\ c \in Chunks
          BY DEF HandsOn, Chunks
        <4> QED
          BY <2>1, <4>1 DEF HandOk
      <3> QED
        BY <2>2, <3>1, <3>2 DEF TwoHandsInv, PlacesInv, Failing
    <2>3. CASE u = t \/ v = t
      <3>1. PICK x \in Threads : x # t /\ {u, v} = {t, x}
        BY <2>3
      <3>2. HandOk(x) /\ HandOk(t)'
        BY <1>4, <3>1 DEF PlacesInv, HandInv
      <3>3. /\ pc'[x] = pc[x] /\ hand'[x] = hand[x]
            /\ hand'[t] \in {c, "none"}
            /\ Failing(x)' <=> Failing(x)
        BY <1>1, <3>1 DEF HandsOn, Failing
      <3>4. c \in Chunks /\ hand[x] = c =>
               /\ pc[x] # "retry"
               /\ Failing(x) => c \notin async /\ c \notin async'
        <4>1. ~ (c \in Chunks /\ Owns(x, c))
          BY <3>1 DEF HandsOn
        <4>2. c \in async' => c \in async \/ st[c] = "none"
          BY DEF HandsOn
        <4>3. hand[x] \in Chunks => st[hand[x]] # "none"
          BY <3>2 DEF HandOk
        <4> QED
          BY <4>1, <4>2, <4>3 DEF Owns
      <3>5. "none" \notin Chunks /\ async' \subseteq Chunks
        BY Names DEF HandsOn
      <3>6. pc'[t] = "retry" => hand'[t] \in Chunks
        BY <3>2 DEF HandOk, Chunks
      <3>7. pc'[t] = "retry" /\ pc'[x] = "retry" => hand'[t] # hand'[x]
        BY <3>3, <3>4, <3>5, <3>6
      <3>8. Failing(t)' /\ Failing(x)' /\ hand'[t] \in async' => hand'[t] # hand'[x]
        BY <3>3, <3>4, <3>5
      <3> QED
        BY <3>1, <3>7, <3>8
    <2> QED
      BY <2>2, <2>3
  <1>6. InboxInv'
    BY DEF HandsOn, PlacesInv, InboxInv, InSeq
  <1>7. AsyncInv'
    <2> SUFFICES ASSUME magic', NEW x \in async', x # c PROVE AccountOk(x)'
      BY DEF AsyncInv, HandsOn
    <2>1. AccountOk(x) /\ x \in Chunks
      BY DEF HandsOn, AsyncInv, Chunks
    <2>2. x # "none"
      BY <2>1, Names
    <2> QED
      BY <1>1, <2>1, <2>2 DEF AccountOk, HandsOn
  <1>8. pc'["work"] = "joining" => ~ magic'
    BY <1>1 DEF HandsOn, PlacesInv, Threads
  <1> QED
    BY <1>3, <1>4, <1>5, <1>6, <1>7, <1>8

\* A thread moves on and touches no packet.
Moves(t, l) ==
    /\ pc' = [pc EXCEPT ![t] = l]
    /\ pc[t] \notin Busy /\ l \notin Busy
    /\ l = "check" => waits[t] # "none"
    /\ l \in Unwaited => waits[t] = "none"
    /\ t = "work" /\ pc[t] \in Ending => l \in Ending \cup {"freed"}
    /\ t = "work" /\ l = "joining" => ~ magic'
    /\ UNCHANGED <<queues, st, tries, hand, waits, writeLock, async, got,
                   reported, result>>
    /\ \A i \in 1 .. Len(inbox') : inbox'[i] \in Msgs => InSeq(inbox'[i], inbox)
    /\ magic' => magic

LEMMA MovesKeep ==
    ASSUME TypeOK, PlacesInv, AsyncInv, NEW t \in Threads, NEW l \in Steps, Moves(t, l),
           Alive'
    PROVE  PlacesInv' /\ AsyncInv'
  <1> USE DEF queues
  <1>1. /\ \A u \in Threads : u # t => pc'[u] = pc[u]
        /\ pc'[t] = l /\ t \in DOMAIN pc
    BY DEF Moves, TypeOK
  <1>2. QueueInv'
    BY DEF Moves, PlacesInv, QueueInv, ChunkOk
  <1>3. HandInv'
    <2> SUFFICES ASSUME NEW u \in Threads PROVE HandOk(u)'
      BY DEF HandInv
    <2>1. HandOk(u)
      BY DEF PlacesInv, HandInv
    <2>2. CASE u # t
      BY <1>1, <2>1, <2>2 DEF Moves, HandOk, Sending, Failing
    <2>3. CASE u = t
      BY <1>1, <2>1, <2>3 DEF Moves, HandOk, Sending, Failing, Busy
    <2> QED
      BY <2>2, <2>3
  <1>4. TwoHandsInv'
    <2>1. ~ Failing(t)' /\ pc'[t] # "retry" /\ hand' = hand /\ async' = async
      BY <1>1 DEF Moves, Failing, Busy
    <2>2. \A u \in Threads : u # t => (Failing(u)' <=> Failing(u))
      BY <1>1 DEF Failing
    <2> QED
      BY <1>1, <2>1, <2>2 DEF PlacesInv, TwoHandsInv
  <1>5. WaitInv'
    BY <1>1 DEF Moves, PlacesInv, WaitInv, Unwaited, Ending, Alive, Threads
  <1>7. InboxInv'
    BY DEF Moves, PlacesInv, InboxInv, InSeq
  <1>8. pc'["work"] = "joining" => ~ magic'
    BY <1>1 DEF Moves, PlacesInv, Threads
  <1>9. AsyncInv'
    BY DEF Moves, AsyncInv, AccountOk
  <1> QED
    BY <1>2, <1>3, <1>4, <1>5, <1>7, <1>8, <1>9 DEF PlacesInv

LEMMA MoveStep ==
    ASSUME ClientInv, Alive, NEW t \in Threads, \E l \in Steps : Moves(t, l),
           TypeOK', ClosedIsReported'
    PROVE  ClientInv'
  <1>1. TypeOK /\ PlacesInv /\ AsyncInv
    BY DEF ClientInv
  <1>2. Alive' => PlacesInv' /\ AsyncInv'
    BY <1>1, MovesKeep
  <1>3. \A m \in Msgs : result'[m] = "ok" => m \in got'
    BY DEF ClientInv, Moves
  <1> QED
    BY <1>2, <1>3 DEF ClientInv

LEMMA ReturnFacts ==
    \A t \in Threads :
       /\ Return(t) \in {"signal", "check", "callbacks"}
       /\ Return(t) = "check" => waits[t] # "none"
       /\ Return(t) = "callbacks" => waits[t] = "none"
       /\ AfterRead(t) \in {"signal", "expiry"}
  BY DEF Return, AfterRead, Threads

LEMMA StepsFacts ==
    /\ Return("app") \in Steps /\ Return("work") \in Steps /\ Return("sock") \in Steps
    /\ \A t \in Threads : Return(t) \in Steps /\ AfterRead(t) \in Steps
    /\ \A t \in Threads : Return(t) \notin Busy \cup Ending \cup {"idle", "event"}
    /\ \A t \in Threads : Return(t) \in Unwaited => Return(t) = "callbacks"
    /\ \A t \in Threads :
          AfterRead(t) \notin Busy \cup Unwaited \cup {"check", "event"}
  BY ReturnFacts DEF Steps, Busy, Ending, Unwaited, Threads

LEMMA InboxTail ==
    ASSUME TypeOK, inbox # <<>>
    PROVE  /\ Tail(inbox) \in Seq(Msgs \cup {"PING", "pub", "dup"})
           /\ Head(inbox) \in Msgs \cup {"PING", "pub", "dup"}
           /\ InSeq(Head(inbox), inbox)
           /\ \A i \in 1 .. Len(Tail(inbox)) : InSeq(Tail(inbox)[i], inbox)
  <1>1. inbox \in Seq(Msgs \cup {"PING", "pub", "dup"})
    BY DEF TypeOK
  <1> QED
    BY <1>1 DEF InSeq

LEMMA SignalTyped == ASSUME TypeOK, Signal PROVE works' \in 0 .. MaxWorks
  <1>1. MaxWorks \in Nat
    BY MqttClientAssumption
  <1>2. works \in 0 .. MaxWorks
    BY DEF TypeOK
  <1> HIDE MqttClientAssumption
  <1> QED
    BY <1>1, <1>2 DEF Signal

LEMMA ClosedSocket ==
    ASSUME SocketClosed
    PROVE  /\ inbox' \in Seq(Msgs \cup {"PING", "pub", "dup"})
           /\ \A i \in 1 .. Len(inbox') : FALSE
           /\ connected' \in BOOLEAN /\ link' = "broken"
  <1>1. inbox' = <<>>
    BY DEF SocketClosed
  <1>2. connected' \in BOOLEAN /\ link' = "broken"
    BY DEF SocketClosed
  <1> QED
    BY <1>1, <1>2

\* A step of the network, the broker or a timer, that touches no packet.
LEMMA FrameStep ==
    ASSUME ClientInv, Alive, TypeOK', ClosedIsReported',
           UNCHANGED <<queues, st, tries, threads, writeLock, async, got, reported,
                       result, magic>>,
           \A i \in 1 .. Len(inbox') : inbox'[i] \in Msgs => InSeq(inbox'[i], inbox)
    PROVE  ClientInv'
  <1> USE DEF queues, threads
  <1>0. PlacesInv /\ AsyncInv
    BY DEF ClientInv
  <1>1. QueueInv'
    BY <1>0 DEF PlacesInv, QueueInv, ChunkOk
  <1>2. HandInv' /\ TwoHandsInv'
    BY <1>0 DEF PlacesInv, HandInv, HandOk, TwoHandsInv, Sending, Failing
  <1>3. WaitInv'
    BY <1>0 DEF PlacesInv, WaitInv
  <1>4. InboxInv'
    BY <1>0 DEF PlacesInv, InboxInv, InSeq
  <1>5. AsyncInv'
    BY <1>0 DEF AsyncInv, AccountOk
  <1> QED
    BY <1>0, <1>1, <1>2, <1>3, <1>4, <1>5 DEF ClientInv, PlacesInv

-----------------------------------------------------------------------------
(* The invariant after a step that handles a packet.                       *)

\* A packet that is in a queue, in the hand of t, or done with, is in the hand of
\* no other thread.
LEMMA NoOtherOwner ==
    ASSUME PlacesInv, NEW t \in Threads, NEW c \in Chunks,
           \/ Owns(t, c)
           \/ InSeq(c, wq) \/ InSeq(c, aq) \/ InSeq(c, eq)
           \/ st[c] \notin {"WRITE_PENDING", "ACK_PENDING", "WRITE_FAIL"}
           \/ st[c] = "WRITE_FAIL" /\ c \notin async
    PROVE  \A u \in Threads : u # t => ~ Owns(u, c)
  <1> SUFFICES ASSUME NEW u \in Threads, u # t, Owns(u, c) PROVE FALSE
    OBVIOUS
  <1>1. HandOk(u) /\ HandOk(t) /\ ChunkOk(c)
    BY DEF PlacesInv, HandInv, QueueInv
  <1>2. hand[u] = c
    BY DEF Owns
  <1>3. CASE Sending(u)
    <2>1. st[c] = "WRITE_PENDING" /\ ~ InSeq(c, wq) /\ writeLock = u
      BY <1>1, <1>2, <1>3 DEF HandOk
    <2>2. Owns(t, c)
      BY <1>1, <2>1 DEF ChunkOk
    <2> QED
      BY <1>1, <2>1, <2>2 DEF Owns, HandOk
  <1>4. CASE pc[u] = "retry"
    <2>1. st[c] = "ACK_PENDING" /\ ~ InSeq(c, aq)
      BY <1>1, <1>2, <1>4 DEF HandOk
    <2>2. Owns(t, c)
      BY <1>1, <2>1 DEF ChunkOk
    <2>3. pc[t] = "retry" /\ hand[t] = c
      BY <1>1, <2>1, <2>2 DEF Owns, HandOk
    <2> QED
      BY <1>2, <1>4, <2>3 DEF PlacesInv, TwoHandsInv
  <1>5. CASE Failing(u) /\ c \in async
    <2>1. st[c] = "WRITE_FAIL" /\ ~ InSeq(c, eq)
      BY <1>1, <1>2, <1>5 DEF HandOk
    <2>2. Owns(t, c)
      BY <1>1, <1>5, <2>1 DEF ChunkOk
    <2>3. Failing(t) /\ hand[t] = c
      BY <1>1, <2>1, <2>2 DEF Owns, HandOk
    <2> QED
      BY <1>2, <1>5, <2>3 DEF PlacesInv, TwoHandsInv
  <1> QED
    BY <1>3, <1>4, <1>5 DEF Owns

\* A step after which every call still waits for what it waited for.
WaitsOn(t, c, l) ==
    /\ waits' = waits
    /\ l = "check" => waits[t] # "none"
    /\ l \in Unwaited => waits[t] = "none"
    /\ t = "work" => pc[t] \notin Ending
    /\ c = "DISCONNECT" => st[c] # "none"

LEMMA WaitsKeep ==
    ASSUME TypeOK, PlacesInv, NEW t \in Threads, NEW c, NEW l \in Steps, NEW h,
           HandsOn(t, c, l, h), WaitsOn(t, c, l)
    PROVE  WaitInv'
  <1>1. WaitInv
    BY DEF PlacesInv
  <1>2. waits' = waits
    BY DEF WaitsOn
  <1>3. /\ \A u \in Threads : u # t => pc'[u] = pc[u]
        /\ pc'[t] = l
    BY DEF HandsOn, TypeOK
  <1>4. ASSUME NEW u \in Threads
        PROVE  /\ waits'[u] \notin async'
               /\ waits'[u] \in Chunks => st'[waits'[u]] # "none"
    <2> DEFINE w == waits[u]
    <2>1. w \notin async /\ (w \in Chunks => st[w] # "none")
      BY <1>1 DEF WaitInv
    <2>2. \A x \in Chunks : x # c => st'[x] = st[x]
      BY DEF HandsOn
    <2>3. c \in Chunks => st'[c] # "none"
      BY DEF HandsOn
    <2>4. w \in async' => w = c /\ c \in Chunks /\ st[c] = "none"
      BY <2>1 DEF HandsOn, Chunks
    <2> QED
      BY <1>2, <2>1, <2>2, <2>3, <2>4
  <1>5. ASSUME NEW u \in Threads
        PROVE  /\ pc'[u] = "check" => waits'[u] # "none"
               /\ pc'[u] \in Unwaited => waits'[u] = "none"
    BY <1>1, <1>2, <1>3 DEF WaitInv, WaitsOn
  <1>6. waits'["work"] = "none" /\ pc'["work"] \notin {"closing", "closed", "joining"}
           => st'["DISCONNECT"] = "none"
    <2>1. CASE c = "DISCONNECT"
      <3>1. st["DISCONNECT"] # "none"
        BY <2>1 DEF WaitsOn
      <3>2. pc["work"] \in Ending => t # "work"
        BY DEF WaitsOn
      <3> QED
        BY <1>1, <1>2, <1>3, <3>1, <3>2 DEF WaitInv, Ending, Threads
    <2>2. CASE c # "DISCONNECT"
      <3>1. st'["DISCONNECT"] = st["DISCONNECT"]
        BY <2>2, Names DEF HandsOn
      <3>2. pc["work"] \in Ending => t # "work"
        BY DEF WaitsOn
      <3> QED
        BY <1>1, <1>2, <1>3, <3>1, <3>2 DEF WaitInv, Ending, Threads
    <2> QED
      BY <2>1, <2>2
  <1> QED
    BY <1>1, <1>2, <1>4, <1>5, <1>6 DEF WaitInv

LEMMA HandStep ==
    ASSUME ClientInv, Alive, NEW t \in Threads, NEW c,
           \E l \in Steps : \E h : HandsOn(t, c, l, h)
                                   /\ (WaitsOn(t, c, l) \/ WaitInv'),
           TypeOK', ClosedIsReported',
           \A m \in Msgs : result'[m] = "ok" => m \in got'
    PROVE  ClientInv'
  <1>1. TypeOK /\ PlacesInv /\ AsyncInv
    BY DEF ClientInv
  <1>2. PICK l \in Steps : \E h : HandsOn(t, c, l, h)
                                   /\ (WaitsOn(t, c, l) \/ WaitInv')
    OBVIOUS
  <1>3. PICK h : HandsOn(t, c, l, h) /\ (WaitsOn(t, c, l) \/ WaitInv')
    BY <1>2
  <1>4. WaitInv'
    BY <1>1, <1>3, WaitsKeep
  <1>5. /\ QueueInv' /\ HandInv' /\ TwoHandsInv' /\ InboxInv' /\ AsyncInv'
        /\ pc'["work"] = "joining" => ~ magic'
    BY <1>1, <1>3, HandsKeep
  <1> QED
    BY <1>4, <1>5 DEF ClientInv, PlacesInv

LEMMA ClosedKept ==
    ASSUME TypeOK, ClosedIsReported, NEW t \in Threads, NEW l \in Steps,
           pc' = [pc EXCEPT ![t] = l], pc[t] # "event",
           t = "work" => pc[t] # "closed",
           connected' = connected, magic' => magic, lossTold => lossTold',
           InSeq("disconnected", eq) => InSeq("disconnected", eq') \/ lossTold'
    PROVE  ClosedIsReported'
  <1>1. /\ \A u \in Threads : u # t => pc'[u] = pc[u]
        /\ pc'[t] = l
    BY DEF TypeOK
  <1>2. pc["work"] = "closed" => pc'["work"] = "closed"
    BY <1>1 DEF Threads
  <1>3. \A u \in Threads : pc[u] = "event" => pc'[u] = "event"
    BY <1>1
  <1> QED
    BY <1>2, <1>3 DEF ClosedIsReported

-----------------------------------------------------------------------------
(* Every step keeps the invariant: steps that touch no packet.             *)

\* Reading, checking and closing.
LEMMA ReadingKeeps ==
    ASSUME ClientInv, NEW t \in Threads,
           \/ CycleInvalid(t)
           \/ ReadNotConnected(t)
           \/ ReadNothing(t)
           \/ ReadFails(t)
           \/ ReadStrayAck(t)
           \/ CheckAlive(t)
           \/ CloseNet(t)
           \/ WaitAgain(t)
    PROVE  ClientInv'
  <1> USE DEF net, queues, chunk, threads, locks, idle, life, told
  <1>0. TypeOK /\ ClosedIsReported /\ (Alive => PlacesInv /\ AsyncInv)
    BY DEF ClientInv
  <1>1. CASE CycleInvalid(t)
    <2>1. Alive /\ Moves(t, Return(t))
      BY <1>0, <1>1, StepsFacts, ReturnFacts
      DEF Moves, PlacesInv, WaitInv, At, Goto, Busy, Unwaited, Ending, Threads,
          InSeq, CycleInvalid
    <2>2. TypeOK'
      BY <1>0, <1>1, StepsFacts
      DEF TypeOK, Steps, Threads, At, Goto, CycleInvalid
    <2>3. ClosedIsReported'
      BY <1>0, <1>1, StepsFacts
      DEF TypeOK, ClosedIsReported, Threads, At, Goto, CycleInvalid
    <2> QED
      <3>1. \E l \in Steps : Moves(t, l)
        BY <2>1, StepsFacts DEF Steps
      <3> QED
        BY <2>1, <2>2, <2>3, <3>1, MoveStep
  <1>2. CASE ReadNotConnected(t)
    <2>1. Alive /\ Moves(t, Return(t))
      BY <1>0, <1>2, StepsFacts, ReturnFacts
      DEF Moves, PlacesInv, WaitInv, At, Goto, Busy, Unwaited, Ending, Threads,
          InSeq, ReadNotConnected, Reading
    <2>2. TypeOK'
      BY <1>0, <1>2, StepsFacts
      DEF TypeOK, Steps, Threads, At, Goto, ReadNotConnected, Reading
    <2>3. ClosedIsReported'
      BY <1>0, <1>2, StepsFacts
      DEF TypeOK, ClosedIsReported, Threads, At, Goto, ReadNotConnected, Reading
    <2> QED
      <3>1. \E l \in Steps : Moves(t, l)
        BY <2>1, StepsFacts DEF Steps
      <3> QED
        BY <2>1, <2>2, <2>3, <3>1, MoveStep
  <1>3. CASE ReadNothing(t)
    <2>1. Alive /\ Moves(t, AfterRead(t))
      BY <1>0, <1>3, StepsFacts, ReturnFacts
      DEF Moves, PlacesInv, WaitInv, At, Goto, Busy, Unwaited, Ending, Threads,
          InSeq, ReadNothing, Reading
    <2>2. TypeOK'
      BY <1>0, <1>3, StepsFacts
      DEF TypeOK, Steps, Threads, At, Goto, ReadNothing, Reading
    <2>3. ClosedIsReported'
      BY <1>0, <1>3, StepsFacts
      DEF TypeOK, ClosedIsReported, Threads, At, Goto, ReadNothing, Reading
    <2> QED
      <3>1. \E l \in Steps : Moves(t, l)
        BY <2>1, StepsFacts DEF Steps
      <3> QED
        BY <2>1, <2>2, <2>3, <3>1, MoveStep
  <1>4. CASE ReadFails(t)
    <2>1. Alive /\ Moves(t, "close")
      BY <1>0, <1>4, StepsFacts, ReturnFacts
      DEF Moves, PlacesInv, WaitInv, At, Goto, Busy, Unwaited, Ending, Threads,
          InSeq, ReadFails, Reading
    <2>2. TypeOK'
      BY <1>0, <1>4, StepsFacts
      DEF TypeOK, Steps, Threads, At, Goto, ReadFails, Reading
    <2>3. ClosedIsReported'
      BY <1>0, <1>4, StepsFacts
      DEF TypeOK, ClosedIsReported, Threads, At, Goto, ReadFails, Reading
    <2> QED
      <3>1. \E l \in Steps : Moves(t, l)
        BY <2>1, StepsFacts DEF Steps
      <3> QED
        BY <2>1, <2>2, <2>3, <3>1, MoveStep
  <1>5. CASE ReadStrayAck(t)
    <2>1. Alive /\ Moves(t, AfterRead(t))
      <3>1. inbox' = Tail(inbox) /\ Alive
        BY <1>5 DEF ReadStrayAck, Received, Reading, At
      <3>2. \A i \in 1 .. Len(inbox') : InSeq(inbox'[i], inbox)
        BY <1>0, <1>5, <3>1, InboxTail DEF ReadStrayAck, Received
      <3> HIDE <3>1
      <3> QED
        BY <1>0, <1>5, <3>1, <3>2, StepsFacts
        DEF Moves, At, Goto, Busy, Ending, Unwaited, ReadStrayAck, Reading,
            Received
    <2>2. TypeOK'
      <3>1. inbox' \in Seq(Msgs \cup {"PING", "pub", "dup"})
        BY <1>0, <1>5, InboxTail DEF ReadStrayAck, Received
      <3> QED
        BY <1>0, <1>5, <3>1, StepsFacts
        DEF TypeOK, At, Goto, ReadStrayAck, Reading, Received
    <2>3. ClosedIsReported'
      BY <1>0, <1>5, StepsFacts
      DEF TypeOK, ClosedIsReported, Threads, At, Goto, ReadStrayAck, Reading,
          Received
    <2> QED
      <3>1. \E l \in Steps : Moves(t, l)
        BY <2>1, StepsFacts DEF Steps
      <3> QED
        BY <2>1, <2>2, <2>3, <3>1, MoveStep
  <1>6. CASE CheckAlive(t)
    <2>1. Alive /\ Moves(t, Return(t))
      BY <1>0, <1>6, StepsFacts, ReturnFacts
      DEF Moves, PlacesInv, WaitInv, At, Goto, Busy, Unwaited, Ending, Threads,
          InSeq, CheckAlive, Checking
    <2>2. TypeOK'
      BY <1>0, <1>6, StepsFacts
      DEF TypeOK, Steps, Threads, At, Goto, CheckAlive, Checking
    <2>3. ClosedIsReported'
      BY <1>0, <1>6, StepsFacts
      DEF TypeOK, ClosedIsReported, Threads, At, Goto, CheckAlive, Checking
    <2> QED
      <3>1. \E l \in Steps : Moves(t, l)
        BY <2>1, StepsFacts DEF Steps
      <3> QED
        BY <2>1, <2>2, <2>3, <3>1, MoveStep
  <1>7. CASE CloseNet(t)
    <2>1. Alive /\ Moves(t, "event")
      BY <1>0, <1>7, ClosedSocket
      DEF Moves, Busy, Unwaited, Ending, At, Goto, CloseNet
    <2>2. TypeOK'
      BY <1>0, <1>7, ClosedSocket DEF TypeOK, Steps, At, Goto, CloseNet
    <2>3. ClosedIsReported'
      BY <1>0, <1>7, StepsFacts
      DEF TypeOK, ClosedIsReported, Threads, At, Goto, CloseNet
    <2> QED
      <3>1. \E l \in Steps : Moves(t, l)
        BY <2>1, StepsFacts DEF Steps
      <3> QED
        BY <2>1, <2>2, <2>3, <3>1, MoveStep
  <1>8. CASE WaitAgain(t)
    <2>1. Alive /\ Moves(t, "write")
      BY <1>0, <1>8, StepsFacts, ReturnFacts
      DEF Moves, PlacesInv, WaitInv, At, Goto, Busy, Unwaited, Ending, Threads,
          InSeq, WaitAgain
    <2>2. TypeOK'
      BY <1>0, <1>8, StepsFacts DEF TypeOK, Steps, Threads, At, Goto, WaitAgain
    <2>3. ClosedIsReported'
      BY <1>0, <1>8, StepsFacts
      DEF TypeOK, ClosedIsReported, Threads, At, Goto, WaitAgain
    <2> QED
      <3>1. \E l \in Steps : Moves(t, l)
        BY <2>1, StepsFacts DEF Steps
      <3> QED
        BY <2>1, <2>2, <2>3, <3>1, MoveStep
  <1> QED
    BY <1>1, <1>2, <1>3, <1>4, <1>5, <1>6, <1>7, <1>8

\* The work thread and the socket thread between packets.
LEMMA MovingKeeps ==
    ASSUME ClientInv, 
           \/ StoreHandle
           \/ PendingWork
           \/ CallbacksDone
           \/ IsPendingWork
           \/ Poll
           \/ PollFails
           \/ ListenSignal
           \/ ListenExit
           \/ DisconnectCloses
           \/ DestroyBegin
    PROVE  ClientInv'
  <1> USE DEF net, queues, chunk, threads, locks, idle, life, told
  <1>0. TypeOK /\ ClosedIsReported /\ (Alive => PlacesInv /\ AsyncInv)
    BY DEF ClientInv
  <1>1. CASE StoreHandle
    <2>1. Alive /\ Moves("work", "idle")
      BY <1>0, <1>1, StepsFacts, ReturnFacts
      DEF Moves, PlacesInv, WaitInv, At, Goto, Busy, Unwaited, Ending, Threads,
          InSeq, StoreHandle
    <2>2. TypeOK'
      BY <1>0, <1>1, StepsFacts
      DEF TypeOK, Steps, Threads, At, Goto, StoreHandle
    <2>3. ClosedIsReported'
      BY <1>0, <1>1, StepsFacts
      DEF TypeOK, ClosedIsReported, Threads, At, Goto, StoreHandle
    <2> QED
      BY <1>0, <2>1, <2>2, <2>3, StepsFacts, MoveStep DEF Steps, Threads
  <1>2. CASE PendingWork
    <2>1. Alive /\ Moves("work", "write")
      BY <1>0, <1>2, StepsFacts, ReturnFacts
      DEF Moves, PlacesInv, WaitInv, At, Goto, Busy, Unwaited, Ending, Threads,
          InSeq, PendingWork
    <2>2. TypeOK'
      <3>1. works' \in 0 .. MaxWorks
        <4>1. works \in 0 .. MaxWorks /\ MaxWorks \in Nat /\ works > 0 /\ works' = works - 1
          BY <1>0, <1>2, MqttClientAssumption DEF TypeOK, PendingWork
        <4> QED
          BY ONLY <4>1
      <3> QED
        BY <1>0, <1>2, <3>1 DEF TypeOK, Steps, At, Goto, PendingWork
    <2>3. ClosedIsReported'
      BY <1>0, <1>2, StepsFacts
      DEF TypeOK, ClosedIsReported, Threads, At, Goto, PendingWork
    <2> QED
      BY <1>0, <2>1, <2>2, <2>3, StepsFacts, MoveStep DEF Steps, Threads
  <1>3. CASE CallbacksDone
    <2>1. Alive /\ Moves("work", "pending")
      BY <1>0, <1>3, StepsFacts, ReturnFacts
      DEF Moves, PlacesInv, WaitInv, At, Goto, Busy, Unwaited, Ending, Threads,
          InSeq, CallbacksDone
    <2>2. TypeOK'
      BY <1>0, <1>3, StepsFacts
      DEF TypeOK, Steps, Threads, At, Goto, CallbacksDone
    <2>3. ClosedIsReported'
      BY <1>0, <1>3, StepsFacts
      DEF TypeOK, ClosedIsReported, Threads, At, Goto, CallbacksDone
    <2> QED
      BY <1>0, <2>1, <2>2, <2>3, StepsFacts, MoveStep DEF Steps, Threads
  <1>4. CASE IsPendingWork
    <2>1. Alive /\ Moves("work", IF wq # <<>> \/ eq # <<>> THEN "write" ELSE "idle")
      BY <1>0, <1>4, StepsFacts, ReturnFacts
      DEF Moves, PlacesInv, WaitInv, At, Goto, Busy, Unwaited, Ending, Threads,
          InSeq, IsPendingWork
    <2>2. TypeOK'
      BY <1>0, <1>4, StepsFacts
      DEF TypeOK, Steps, Threads, At, Goto, IsPendingWork
    <2>3. ClosedIsReported'
      BY <1>0, <1>4, StepsFacts
      DEF TypeOK, ClosedIsReported, Threads, At, Goto, IsPendingWork
    <2> QED
      BY <1>0, <2>1, <2>2, <2>3, StepsFacts, MoveStep DEF Steps, Threads
  <1>5. CASE Poll
    <2>1. Alive /\ Moves("sock", "read")
      BY <1>0, <1>5, StepsFacts, ReturnFacts
      DEF Moves, PlacesInv, WaitInv, At, Goto, Busy, Unwaited, Ending, Threads,
          InSeq, Poll
    <2>2. TypeOK'
      BY <1>0, <1>5, StepsFacts DEF TypeOK, Steps, Threads, At, Goto, Poll
    <2>3. ClosedIsReported'
      BY <1>0, <1>5, StepsFacts
      DEF TypeOK, ClosedIsReported, Threads, At, Goto, Poll
    <2> QED
      BY <1>0, <2>1, <2>2, <2>3, StepsFacts, MoveStep DEF Steps, Threads
  <1>6. CASE PollFails
    <2>1. Alive /\ Moves("sock", "exit")
      BY <1>0, <1>6, StepsFacts, ReturnFacts
      DEF Moves, PlacesInv, WaitInv, At, Goto, Busy, Unwaited, Ending, Threads,
          InSeq, PollFails
    <2>2. TypeOK'
      BY <1>0, <1>6, StepsFacts DEF TypeOK, Steps, Threads, At, Goto, PollFails
    <2>3. ClosedIsReported'
      BY <1>0, <1>6, StepsFacts
      DEF TypeOK, ClosedIsReported, Threads, At, Goto, PollFails
    <2> QED
      BY <1>0, <2>1, <2>2, <2>3, StepsFacts, MoveStep DEF Steps, Threads
  <1>7. CASE ListenSignal
    <2>1. Alive /\ Moves("sock", IF failed["sock"] \/ ~ connected THEN "exit" ELSE "poll")
      BY <1>0, <1>7, StepsFacts, ReturnFacts
      DEF Moves, PlacesInv, WaitInv, At, Goto, Busy, Unwaited, Ending, Threads,
          InSeq, ListenSignal
    <2>2. TypeOK'
      BY <1>0, <1>7, SignalTyped DEF TypeOK, Steps, At, Goto, ListenSignal
    <2>3. ClosedIsReported'
      BY <1>0, <1>7, StepsFacts
      DEF TypeOK, ClosedIsReported, Threads, At, Goto, ListenSignal
    <2> QED
      BY <1>0, <2>1, <2>2, <2>3, StepsFacts, MoveStep DEF Steps, Threads
  <1>8. CASE ListenExit
    <2>1. Alive /\ Moves("sock", "gone")
      BY <1>0, <1>8, StepsFacts, ReturnFacts
      DEF Moves, PlacesInv, WaitInv, At, Goto, Busy, Unwaited, Ending, Threads,
          InSeq, ListenExit
    <2>2. TypeOK'
      BY <1>0, <1>8, StepsFacts DEF TypeOK, Steps, Threads, At, Goto, ListenExit
    <2>3. ClosedIsReported'
      BY <1>0, <1>8, StepsFacts
      DEF TypeOK, ClosedIsReported, Threads, At, Goto, ListenExit
    <2> QED
      BY <1>0, <2>1, <2>2, <2>3, StepsFacts, MoveStep DEF Steps, Threads
  <1>9. CASE DisconnectCloses
    <2>1. Alive /\ Moves("work", "closed")
      BY <1>0, <1>9, ClosedSocket
      DEF Moves, PlacesInv, WaitInv, Busy, Unwaited, Ending, Threads, At, Goto,
          DisconnectCloses
    <2>2. TypeOK'
      BY <1>0, <1>9, ClosedSocket DEF TypeOK, Steps, At, Goto, DisconnectCloses
    <2>3. ClosedIsReported'
      BY <1>0, <1>9, StepsFacts
      DEF TypeOK, ClosedIsReported, Threads, At, Goto, DisconnectCloses
    <2> QED
      BY <1>0, <2>1, <2>2, <2>3, StepsFacts, MoveStep DEF Steps, Threads
  <1>10. CASE DestroyBegin
    <2>1. Alive /\ Moves("work", "joining")
      BY <1>0, <1>10, StepsFacts, ReturnFacts
      DEF Moves, PlacesInv, WaitInv, At, Goto, Busy, Unwaited, Ending, Threads,
          InSeq, DestroyBegin
    <2>2. TypeOK'
      BY <1>0, <1>10, StepsFacts
      DEF TypeOK, Steps, Threads, At, Goto, DestroyBegin
    <2>3. ClosedIsReported'
      BY <1>0, <1>10, StepsFacts
      DEF TypeOK, ClosedIsReported, Threads, At, Goto, DestroyBegin
    <2> QED
      BY <1>0, <2>1, <2>2, <2>3, StepsFacts, MoveStep DEF Steps, Threads
  <1> QED
    BY <1>1, <1>2, <1>3, <1>4, <1>5, <1>6, <1>7, <1>8, <1>9, <1>10

\* The broker, the network and the timers.
LEMMA WorldKeeps ==
    ASSUME ClientInv, 
           \/ BrokerPublishes
           \/ LinkBreaks
           \/ \E c \in Chunks : ChunkExpires(c)
           \/ SentExpires
           \/ RcvdExpires
           \/ PublishAsyncInvalid
    PROVE  ClientInv'
  <1> USE DEF net, queues, chunk, threads, locks, idle, life, told
  <1>0. TypeOK /\ ClosedIsReported /\ (Alive => PlacesInv /\ AsyncInv)
    BY DEF ClientInv
  <1>1. CASE BrokerPublishes
    <2>1. TypeOK'
      <3>1. outside' \in 0 .. MaxOutside
        <4>1. outside \in 0 .. MaxOutside /\ outside > 0 /\ outside' = outside - 1
          BY <1>0, <1>1 DEF TypeOK, BrokerPublishes
        <4>2. MaxOutside \in Nat
          BY MqttClientAssumption
        <4> QED
          BY ONLY <4>1, <4>2
      <3>2. inbox' \in Seq(Msgs \cup {"PING", "pub", "dup"})
        BY <1>0, <1>1 DEF TypeOK, BrokerPublishes
      <3> QED
        BY <1>0, <1>1, <3>1, <3>2 DEF TypeOK, BrokerPublishes
    <2>2. ClosedIsReported'
      BY <1>0, <1>1 DEF ClosedIsReported, BrokerPublishes
    <2>3. \A i \in 1 .. Len(inbox') : inbox'[i] \in Msgs => InSeq(inbox'[i], inbox)
      <3>1. PICK p \in {"pub", "dup"} : inbox' = Append(inbox, p)
        BY <1>1 DEF BrokerPublishes
      <3>2. inbox \in Seq(Msgs \cup {"PING", "pub", "dup"})
        BY <1>0 DEF TypeOK
      <3>3. \A i \in 1 .. Len(inbox') : InSeq(inbox'[i], inbox) \/ inbox'[i] = p
        BY <3>1, <3>2 DEF InSeq
      <3> QED
        BY <3>3, Names
    <2> QED
      BY <1>1, <2>1, <2>2, <2>3, FrameStep DEF At, BrokerPublishes
  <1>2. CASE LinkBreaks
    <2>1. TypeOK'
      BY <1>0, <1>2, SignalTyped DEF TypeOK, LinkBreaks
    <2>2. ClosedIsReported'
      BY <1>0, <1>2 DEF ClosedIsReported, LinkBreaks
    <2>3. \A i \in 1 .. Len(inbox') : inbox'[i] \in Msgs => InSeq(inbox'[i], inbox)
      BY <1>2 DEF InSeq, LinkBreaks
    <2> QED
      BY <1>2, <2>1, <2>2, <2>3, FrameStep DEF At, LinkBreaks
  <1>3. CASE \E c \in Chunks : ChunkExpires(c)
    <2>1. TypeOK'
      BY <1>0, <1>3, SignalTyped DEF TypeOK, ChunkExpires
    <2>2. ClosedIsReported'
      BY <1>0, <1>3 DEF ClosedIsReported, ChunkExpires
    <2>3. \A i \in 1 .. Len(inbox') : inbox'[i] \in Msgs => InSeq(inbox'[i], inbox)
      BY <1>3 DEF InSeq, ChunkExpires
    <2> QED
      BY <1>3, <2>1, <2>2, <2>3, FrameStep DEF At, ChunkExpires
  <1>4. CASE SentExpires
    <2>1. TypeOK'
      <3>1. outside' \in 0 .. MaxOutside
        <4>1. outside \in 0 .. MaxOutside /\ outside > 0 /\ outside' = outside - 1
          BY <1>0, <1>4 DEF TypeOK, SentExpires
        <4>2. MaxOutside \in Nat
          BY MqttClientAssumption
        <4> QED
          BY ONLY <4>1, <4>2
      <3> QED
        BY <1>0, <1>4, <3>1, SignalTyped DEF TypeOK, SentExpires
    <2>2. ClosedIsReported'
      BY <1>0, <1>4 DEF ClosedIsReported, SentExpires
    <2>3. \A i \in 1 .. Len(inbox') : inbox'[i] \in Msgs => InSeq(inbox'[i], inbox)
      BY <1>4 DEF InSeq, SentExpires
    <2> QED
      BY <1>4, <2>1, <2>2, <2>3, FrameStep DEF At, SentExpires
  <1>5. CASE RcvdExpires
    <2>1. TypeOK'
      <3>1. outside' \in 0 .. MaxOutside
        <4>1. outside \in 0 .. MaxOutside /\ outside > 0 /\ outside' = outside - 1
          BY <1>0, <1>5 DEF TypeOK, RcvdExpires
        <4>2. MaxOutside \in Nat
          BY MqttClientAssumption
        <4> QED
          BY ONLY <4>1, <4>2
      <3> QED
        BY <1>0, <1>5, <3>1, SignalTyped DEF TypeOK, RcvdExpires
    <2>2. ClosedIsReported'
      BY <1>0, <1>5 DEF ClosedIsReported, RcvdExpires
    <2>3. \A i \in 1 .. Len(inbox') : inbox'[i] \in Msgs => InSeq(inbox'[i], inbox)
      BY <1>5 DEF InSeq, RcvdExpires
    <2> QED
      BY <1>5, <2>1, <2>2, <2>3, FrameStep DEF At, RcvdExpires
  <1>6. CASE PublishAsyncInvalid
    <2>1. TypeOK'
      BY <1>0, <1>6, SignalTyped DEF TypeOK, PublishAsyncInvalid
    <2>2. ClosedIsReported'
      BY <1>0, <1>6 DEF ClosedIsReported, PublishAsyncInvalid
    <2>3. \A i \in 1 .. Len(inbox') : inbox'[i] \in Msgs => InSeq(inbox'[i], inbox)
      BY <1>6 DEF InSeq, PublishAsyncInvalid
    <2> QED
      BY <1>6, <2>1, <2>2, <2>3, FrameStep DEF At, PublishAsyncInvalid
  <1> QED
    BY <1>1, <1>2, <1>3, <1>4, <1>5, <1>6

-----------------------------------------------------------------------------
(* Every step keeps the invariant: steps that handle a packet.             *)

\* A packet is popped to be written.
LEMMA WritePopKeeps ==
    ASSUME ClientInv, NEW t \in Threads, WritePop(t)
    PROVE  ClientInv'
  <1> USE DEF net, queues, chunk, threads, locks, idle, life, told
  <1>0. TypeOK /\ ClosedIsReported /\ (Alive => PlacesInv /\ AsyncInv)
    BY DEF ClientInv
  <1>1. CASE wq = <<>>
    <2>1. Alive /\ Moves(t, "read")
      BY <1>0, <1>1, StepsFacts
      DEF Moves, PlacesInv, WaitInv, At, Goto, Busy, Unwaited, Ending, Threads,
          InSeq, WritePop
    <2>2. TypeOK'
      BY <1>0, <1>1 DEF TypeOK, Steps, At, Goto, WritePop
    <2>3. ClosedIsReported'
      <3>1. /\ pc' = [pc EXCEPT ![t] = "read"] /\ pc[t] = "write"
            /\ connected' = connected /\ magic' = magic /\ lossTold' = lossTold
            /\ eq' = eq
        BY <1>1 DEF At, Goto, WritePop
      <3> QED
        BY <1>0, <3>1, ClosedKept DEF Steps
    <2> QED
      BY <1>0, <2>1, <2>2, <2>3, MoveStep DEF Steps
  <1>2. CASE wq # <<>>
    <2>1. PICK c : /\ c = Head(wq) /\ c \in WqItems
                   /\ wq' = Tail(wq) /\ wq' \in Seq(WqItems)
                   /\ Popped(wq', wq, c)
      <3>1. wq \in Seq(WqItems)
        BY <1>0 DEF TypeOK, WqItems
      <3>2. /\ Tail(wq) \in Seq(WqItems) /\ Head(wq) \in WqItems
            /\ Popped(Tail(wq), wq, Head(wq))
        BY <3>1, <1>2, PopFacts
      <3>3. wq' = Tail(wq)
        BY <1>2 DEF WritePop
      <3> QED
        BY <3>2, <3>3
    <2>3. /\ Alive /\ pc' = [pc EXCEPT ![t] = "send"]
          /\ hand' = [hand EXCEPT ![t] = c]
          /\ pc'[t] = "send" /\ hand'[t] = c
          /\ hand[t] = "none" /\ writeLock = "none" /\ pc[t] = "write"
          /\ writeLock' = t
          /\ failed' = [failed EXCEPT ![t] = FALSE]
      BY <1>0, <1>2, <2>1, Names
      DEF TypeOK, PlacesInv, HandInv, HandOk, Busy, Sending, Failing, Threads,
          At, Goto, WritePop
    <2>4. /\ connected' = connected /\ link' = link /\ inbox' = inbox
          /\ aq' = aq /\ eq' = eq /\ st' = st /\ timer' = timer
          /\ tries' = tries /\ waits' = waits /\ readLock' = readLock
          /\ sentOn' = sentOn /\ rcvdOn' = rcvdOn /\ works' = works
          /\ handle' = handle /\ magic' = magic /\ outside' = outside
          /\ got' = got /\ result' = result /\ async' = async
          /\ reported' = reported /\ lossTold' = lossTold
      BY <1>2 DEF WritePop
    <2>5. /\ HandOk(t) /\ (c \in Chunks => ChunkOk(c))
          /\ OnceIn(wq) /\ OnceIn(aq) /\ OnceIn(eq)
          /\ PlacesInv /\ AsyncInv /\ WaitInv /\ HandInv /\ async \subseteq Msgs
      BY <1>0, <2>3 DEF TypeOK, PlacesInv, HandInv, QueueInv, Threads
    <2>6. HandsOn(t, c, "send", c)
      <3>1. \A x \in Chunks : x # c => /\ st'[x] = st[x] /\ tries'[x] = tries[x]
                                       /\ x \in async' <=> x \in async
                                       /\ InSeq(x, wq') <=> InSeq(x, wq)
                                       /\ InSeq(x, aq') <=> InSeq(x, aq)
                                       /\ InSeq(x, eq') <=> InSeq(x, eq)
        BY <2>1, <2>3, <2>4, Names DEF Pushed, Popped
      <3>2. OnceIn(wq') /\ OnceIn(aq') /\ OnceIn(eq')
        BY <2>1, <2>3, <2>4, <2>5, Names
        DEF Pushed, Popped, ChunkOk, HandOk, Sending, Failing
      <3>3. c \in Chunks => ChunkOk(c)' /\ st'[c] # "none"
        BY <2>1, <2>3, <2>4, <2>5, Names, RetryIsPositive
        DEF Pushed, Popped, ChunkOk, HandOk, Sending, Failing
      <3>4. c \in async' /\ magic' => AccountOk(c)'
        BY <2>1, <2>3, <2>4, <2>5, Names
        DEF Pushed, Popped, AccountOk, AsyncInv, Threads
      <3>5. HandOk(t)'
        BY <2>1, <2>3, <2>4, <2>5, Names
        DEF Pushed, Popped, ChunkOk, HandOk, Sending, Failing, Busy, WqItems,
            AqItems
      <3>6. \A u \in Threads : u # t => ~ (c \in Chunks /\ Owns(u, c))
        BY <2>1, <2>3, <2>4, <2>5, NoOtherOwner
        DEF Owns, HandOk, Sending, Failing, Popped, Threads
      <3>7. \A u \in Threads : u # t /\ Sending(u) => writeLock' = u
        BY <2>3, <2>4, <2>5 DEF HandInv, HandOk, Sending, Threads
      <3>8. \A i \in 1 .. Len(inbox') : inbox'[i] \in Msgs =>
               inbox'[i] \in got' \/ InSeq(inbox'[i], inbox)
        BY <2>3, <2>4 DEF InSeq
      <3>9. /\ async' \subseteq async \cup {c} /\ async' \subseteq Msgs
            /\ c \in async' => c \in async \/ st[c] = "none"
            /\ got \subseteq got' /\ reported \subseteq reported'
            /\ magic' = magic /\ "send" # "joining"
            /\ c \in {c, "none"} /\ (hand[t] \in async => hand[t] = c)
        BY <2>1, <2>3, <2>4, <2>5, Names DEF HandOk, Busy, Unwaited, Ending
      <3> QED
        BY <2>3, <3>1, <3>2, <3>3, <3>4, <3>5, <3>6, <3>7, <3>8, <3>9
        DEF HandsOn
    <2>7. WaitsOn(t, c, "send")
      BY <2>1, <2>3, <2>4, <2>5, Names
      DEF WaitsOn, WaitInv, ChunkOk, HandOk, Popped, Unwaited, Ending, Threads
    <2>8. TypeOK'
      BY <1>0, <2>1, <2>3, <2>4, Names
      DEF TypeOK, ChunkStates, Steps, Threads, WqItems, AqItems, EqItems
    <2>9. ClosedIsReported'
      BY <1>0, <2>1, <2>3, <2>4, ClosedKept, Names
      DEF Steps, Threads, Ending, Pushed, Popped
    <2>10. \A m \in Msgs : result'[m] = "ok" => m \in got'
      BY <2>3, <2>4 DEF ClientInv
    <2> QED
      BY <2>3, <2>6, <2>7, <2>8, <2>9, <2>10, HandStep DEF Steps, Threads
  <1> QED
    BY <1>1, <1>2

\* It goes out.
LEMMA SendOkKeeps ==
    ASSUME ClientInv, NEW t \in Threads, SendOk(t)
    PROVE  ClientInv'
  <1> USE DEF net, queues, chunk, threads, locks, idle, life, told
  <1>0. TypeOK /\ ClosedIsReported /\ (Alive => PlacesInv /\ AsyncInv)
    BY DEF ClientInv
  <1>1. PICK c : c = hand[t] /\ c \in WqItems
    <2>1. Alive /\ pc[t] = "send"
      BY DEF At, SendOk
    <2>2. HandOk(t)
      BY <1>0, <2>1 DEF PlacesInv, HandInv
    <2> QED
      BY <2>1, <2>2 DEF HandOk, Sending, WqItems
  <1>3. /\ Alive /\ pc' = [pc EXCEPT ![t] = "post"]
        /\ hand' = [hand EXCEPT ![t] = c]
        /\ pc'[t] = "post" /\ hand'[t] = c
        /\ pc[t] = "send" /\ hand[t] = c
        /\ got \subseteq got' /\ got' \subseteq Msgs
        /\ inbox' \in Seq(Msgs \cup {"PING", "pub", "dup"})
        /\ \A i \in 1 .. Len(inbox') : inbox'[i] \in Msgs =>
              inbox'[i] \in got' \/ InSeq(inbox'[i], inbox)
    <2>1. /\ Alive /\ pc[t] = "send" /\ hand[t] = c
          /\ pc' = [pc EXCEPT ![t] = "post"] /\ hand' = hand
      BY <1>1 DEF At, Goto, SendOk
    <2>2. /\ hand' = [hand EXCEPT ![t] = c]
          /\ pc'[t] = "post" /\ hand'[t] = c
      BY <1>0, <2>1 DEF TypeOK
    <2>3. inbox \in Seq(Msgs \cup {"PING", "pub", "dup"}) /\ got \subseteq Msgs
      BY <1>0 DEF TypeOK
    <2>4. CASE /\ c \in Msgs \cup {"PING"} /\ inbox' = Append(inbox, c)
               /\ got' = got \cup ({c} \cap Msgs)
      <3>1. /\ inbox' \in Seq(Msgs \cup {"PING", "pub", "dup"})
            /\ \A i \in 1 .. Len(inbox') : InSeq(inbox'[i], inbox) \/ inbox'[i] = c
        BY <2>3, <2>4 DEF InSeq
      <3> QED
        BY <2>1, <2>2, <2>3, <2>4, <3>1
    <2>5. CASE UNCHANGED <<got, inbox>>
      BY <2>1, <2>2, <2>3, <2>5 DEF InSeq
    <2> QED
      BY <1>1, <2>4, <2>5 DEF SendOk
  <1>4. /\ connected' = connected /\ link' = link /\ wq' = wq /\ aq' = aq
        /\ eq' = eq /\ st' = st /\ timer' = timer /\ tries' = tries
        /\ failed' = failed /\ waits' = waits /\ readLock' = readLock
        /\ writeLock' = writeLock /\ sentOn' = sentOn /\ rcvdOn' = rcvdOn
        /\ works' = works /\ handle' = handle /\ magic' = magic
        /\ outside' = outside /\ result' = result /\ async' = async
        /\ reported' = reported /\ lossTold' = lossTold
    BY DEF SendOk
  <1>5. /\ HandOk(t) /\ (c \in Chunks => ChunkOk(c))
        /\ OnceIn(wq) /\ OnceIn(aq) /\ OnceIn(eq)
        /\ PlacesInv /\ AsyncInv /\ WaitInv /\ HandInv /\ async \subseteq Msgs
    BY <1>0, <1>3 DEF TypeOK, PlacesInv, HandInv, QueueInv, Threads
  <1>6. HandsOn(t, c, "post", c)
    <2>1. \A x \in Chunks : x # c => /\ st'[x] = st[x] /\ tries'[x] = tries[x]
                                     /\ x \in async' <=> x \in async
                                     /\ InSeq(x, wq') <=> InSeq(x, wq)
                                     /\ InSeq(x, aq') <=> InSeq(x, aq)
                                     /\ InSeq(x, eq') <=> InSeq(x, eq)
      BY <1>1, <1>3, <1>4, Names DEF Pushed, Popped
    <2>2. OnceIn(wq') /\ OnceIn(aq') /\ OnceIn(eq')
      BY <1>1, <1>3, <1>4, <1>5, Names
      DEF Pushed, Popped, ChunkOk, HandOk, Sending, Failing
    <2>3. c \in Chunks => ChunkOk(c)' /\ st'[c] # "none"
      BY <1>1, <1>3, <1>4, <1>5, Names, RetryIsPositive
      DEF Pushed, Popped, ChunkOk, HandOk, Sending, Failing
    <2>4. c \in async' /\ magic' => AccountOk(c)'
      BY <1>1, <1>3, <1>4, <1>5, Names
      DEF Pushed, Popped, AccountOk, AsyncInv, Threads
    <2>5. HandOk(t)'
      BY <1>1, <1>3, <1>4, <1>5, Names
      DEF Pushed, Popped, ChunkOk, HandOk, Sending, Failing, Busy, WqItems,
          AqItems
    <2>6. \A u \in Threads : u # t => ~ (c \in Chunks /\ Owns(u, c))
      BY <1>1, <1>3, <1>4, <1>5, NoOtherOwner
      DEF Owns, HandOk, Sending, Failing, Popped, Threads
    <2>7. \A u \in Threads : u # t /\ Sending(u) => writeLock' = u
      BY <1>3, <1>4, <1>5 DEF HandInv, HandOk, Sending, Threads
    <2>8. \A i \in 1 .. Len(inbox') : inbox'[i] \in Msgs =>
             inbox'[i] \in got' \/ InSeq(inbox'[i], inbox)
      BY <1>3, <1>4 DEF InSeq
    <2>9. /\ async' \subseteq async \cup {c} /\ async' \subseteq Msgs
          /\ c \in async' => c \in async \/ st[c] = "none"
          /\ got \subseteq got' /\ reported \subseteq reported'
          /\ magic' = magic /\ "post" # "joining"
          /\ c \in {c, "none"} /\ (hand[t] \in async => hand[t] = c)
      BY <1>1, <1>3, <1>4, <1>5, Names DEF HandOk, Busy, Unwaited, Ending
    <2> QED
      BY <1>3, <2>1, <2>2, <2>3, <2>4, <2>5, <2>6, <2>7, <2>8, <2>9 DEF HandsOn
  <1>7. WaitsOn(t, c, "post")
    BY <1>1, <1>3, <1>4, <1>5, Names
    DEF WaitsOn, WaitInv, ChunkOk, HandOk, Popped, Unwaited, Ending, Threads
  <1>8. TypeOK'
    BY <1>0, <1>1, <1>3, <1>4, Names
    DEF TypeOK, ChunkStates, Steps, Threads, WqItems, AqItems, EqItems
  <1>9. ClosedIsReported'
    BY <1>0, <1>1, <1>3, <1>4, ClosedKept, Names
    DEF Steps, Threads, Ending, Pushed, Popped
  <1>10. \A m \in Msgs : result'[m] = "ok" => m \in got'
    BY <1>3, <1>4 DEF ClientInv
  <1> QED
    BY <1>3, <1>6, <1>7, <1>8, <1>9, <1>10, HandStep DEF Steps, Threads

\* What was sent waits for its ack.
LEMMA PostWriteKeeps ==
    ASSUME ClientInv, NEW t \in Threads, PostWrite(t)
    PROVE  ClientInv'
  <1> USE DEF net, queues, chunk, threads, locks, idle, life, told
  <1>0. TypeOK /\ ClosedIsReported /\ (Alive => PlacesInv /\ AsyncInv)
    BY DEF ClientInv
  <1>a. hand[t] \in Msgs \cup {"PING", "DISCONNECT", "PUBACK"}
    <2>1. Alive /\ pc[t] = "post"
      BY DEF At, PostWrite
    <2>2. HandOk(t)
      BY <1>0, <2>1 DEF PlacesInv, HandInv
    <2> QED
      BY <2>1, <2>2 DEF HandOk, Sending, Chunks
  <1>1. CASE hand[t] \in Msgs \cup {"PING"}
    <2>1. PICK c : /\ c = hand[t] /\ c \in AqItems
                   /\ aq' \in Seq(AqItems) /\ Pushed(aq', aq, c)
      <3>1. aq \in Seq(AqItems)
        BY <1>0 DEF TypeOK, AqItems
      <3>2. hand[t] \in AqItems
        BY <1>1 DEF AqItems
      <3>3. /\ Append(aq, hand[t]) \in Seq(AqItems)
            /\ Pushed(Append(aq, hand[t]), aq, hand[t])
        BY <3>1, <3>2, PushFacts
      <3>4. aq' = Append(aq, hand[t])
        BY <1>1, Names DEF PostWrite
      <3> QED
        BY <3>2, <3>3, <3>4
    <2>3. /\ Alive /\ pc' = [pc EXCEPT ![t] = "read"]
          /\ hand' = [hand EXCEPT ![t] = "none"]
          /\ pc'[t] = "read" /\ hand'[t] = "none"
          /\ pc[t] = "post" /\ hand[t] = c
          /\ writeLock' = "none"
          /\ sentOn' \in BOOLEAN
          /\ st' \in [Chunks -> ChunkStates]
          /\ \A x \in Chunks : x # c => st'[x] = st[x]
          /\ c \in Chunks => st'[c] = "ACK_PENDING"
          /\ timer' \in [Chunks -> {"none", "active", "expired"}]
      <3>1. sentOn' \in BOOLEAN
        BY DEF PostWrite
      <3> QED
        <4>1. /\ Alive /\ pc[t] = "post" /\ hand[t] = c /\ c # "PUBACK"
              /\ pc' = [pc EXCEPT ![t] = "read"]
              /\ hand' = [hand EXCEPT ![t] = "none"] /\ writeLock' = "none"
          BY <1>1, <2>1, Names DEF At, Goto, PostWrite
        <4>2. pc'[t] = "read" /\ hand'[t] = "none"
          BY <1>0, <4>1 DEF TypeOK
        <4>3. /\ st' = [st EXCEPT ![c] = "ACK_PENDING"]
              /\ timer' = [timer EXCEPT ![c] = "active"]
          BY <1>1, <2>1, Names DEF PostWrite
        <4>4. /\ st' \in [Chunks -> ChunkStates]
              /\ \A x \in Chunks : x # c => st'[x] = st[x]
              /\ c \in Chunks => st'[c] = "ACK_PENDING"
              /\ timer' \in [Chunks -> {"none", "active", "expired"}]
          BY <1>0, <4>3 DEF TypeOK, ChunkStates
        <4> QED
          BY <3>1, <4>1, <4>2, <4>4
    <2>4. /\ connected' = connected /\ link' = link /\ inbox' = inbox
          /\ wq' = wq /\ eq' = eq /\ tries' = tries /\ failed' = failed
          /\ waits' = waits /\ readLock' = readLock /\ rcvdOn' = rcvdOn
          /\ works' = works /\ handle' = handle /\ magic' = magic
          /\ outside' = outside /\ got' = got /\ result' = result
          /\ async' = async /\ reported' = reported /\ lossTold' = lossTold
      BY <1>1 DEF PostWrite
    <2>5. /\ HandOk(t) /\ (c \in Chunks => ChunkOk(c))
          /\ OnceIn(wq) /\ OnceIn(aq) /\ OnceIn(eq)
          /\ PlacesInv /\ AsyncInv /\ WaitInv /\ HandInv /\ async \subseteq Msgs
      BY <1>0, <2>3 DEF TypeOK, PlacesInv, HandInv, QueueInv, Threads
    <2>6. HandsOn(t, c, "read", "none")
      <3>1. \A x \in Chunks : x # c => /\ st'[x] = st[x] /\ tries'[x] = tries[x]
                                       /\ x \in async' <=> x \in async
                                       /\ InSeq(x, wq') <=> InSeq(x, wq)
                                       /\ InSeq(x, aq') <=> InSeq(x, aq)
                                       /\ InSeq(x, eq') <=> InSeq(x, eq)
        BY <2>1, <2>3, <2>4, Names DEF Pushed, Popped
      <3>2. OnceIn(wq') /\ OnceIn(aq') /\ OnceIn(eq')
        BY <2>1, <2>3, <2>4, <2>5, Names
        DEF Pushed, Popped, ChunkOk, HandOk, Sending, Failing
      <3>3. c \in Chunks => ChunkOk(c)' /\ st'[c] # "none"
        BY <2>1, <2>3, <2>4, <2>5, Names, RetryIsPositive
        DEF Pushed, Popped, ChunkOk, HandOk, Sending, Failing
      <3>4. c \in async' /\ magic' => AccountOk(c)'
        BY <2>1, <2>3, <2>4, <2>5, Names
        DEF Pushed, Popped, AccountOk, AsyncInv, Threads
      <3>5. HandOk(t)'
        BY <2>1, <2>3, <2>4, <2>5, Names
        DEF Pushed, Popped, ChunkOk, HandOk, Sending, Failing, Busy, WqItems,
            AqItems
      <3>6. \A u \in Threads : u # t => ~ (c \in Chunks /\ Owns(u, c))
        <4>1. ASSUME c \in Chunks
              PROVE  \/ Owns(t, c)
                     \/ InSeq(c, wq) \/ InSeq(c, aq) \/ InSeq(c, eq)
                     \/ st[c] \notin {"WRITE_PENDING", "ACK_PENDING", "WRITE_FAIL"}
                     \/ st[c] = "WRITE_FAIL" /\ c \notin async
          BY <2>1, <2>3, <2>4, <2>5, <4>1 DEF Owns, HandOk, Sending, Failing, Popped
        <4> QED
          BY <2>5, <4>1, NoOtherOwner
      <3>7. \A u \in Threads : u # t /\ Sending(u) => writeLock' = u
        BY <2>3, <2>4, <2>5 DEF HandInv, HandOk, Sending, Threads
      <3>8. \A i \in 1 .. Len(inbox') : inbox'[i] \in Msgs =>
               inbox'[i] \in got' \/ InSeq(inbox'[i], inbox)
        BY <2>3, <2>4 DEF InSeq
      <3>9. /\ async' \subseteq async \cup {c} /\ async' \subseteq Msgs
            /\ c \in async' => c \in async \/ st[c] = "none"
            /\ got \subseteq got' /\ reported \subseteq reported'
            /\ magic' = magic /\ "read" # "joining"
            /\ "none" \in {c, "none"} /\ (hand[t] \in async => hand[t] = c)
        BY <2>1, <2>3, <2>4, <2>5, Names DEF HandOk, Busy, Unwaited, Ending
      <3> QED
        BY <2>3, <3>1, <3>2, <3>3, <3>4, <3>5, <3>6, <3>7, <3>8, <3>9
        DEF HandsOn
    <2>7. WaitsOn(t, c, "read")
      BY <2>1, <2>3, <2>4, <2>5, Names
      DEF WaitsOn, WaitInv, ChunkOk, HandOk, Popped, Unwaited, Ending, Threads
    <2>8. TypeOK'
      BY <1>0, <2>1, <2>3, <2>4, Names
      DEF TypeOK, ChunkStates, Steps, Threads, WqItems, AqItems, EqItems
    <2>9. ClosedIsReported'
      BY <1>0, <2>1, <2>3, <2>4, ClosedKept, Names
      DEF Steps, Threads, Ending, Pushed, Popped
    <2>10. \A m \in Msgs : result'[m] = "ok" => m \in got'
      BY <2>3, <2>4 DEF ClientInv
    <2> QED
      BY <2>3, <2>6, <2>7, <2>8, <2>9, <2>10, HandStep DEF Steps, Threads
  <1>2. CASE hand[t] = "DISCONNECT"
    <2>1. PICK c : /\ c = hand[t] /\ c \notin Msgs
                   /\ c = "DISCONNECT"
      BY <1>2, Names
    <2>3. /\ Alive /\ pc' = [pc EXCEPT ![t] = "read"]
          /\ hand' = [hand EXCEPT ![t] = "none"]
          /\ pc'[t] = "read" /\ hand'[t] = "none"
          /\ pc[t] = "post" /\ hand[t] = c
          /\ writeLock' = "none"
          /\ sentOn' \in BOOLEAN
          /\ st' \in [Chunks -> ChunkStates]
          /\ \A x \in Chunks : x # c => st'[x] = st[x]
          /\ c \in Chunks => st'[c] = "WRITE_COMPLETED"
      <3>1. sentOn' \in BOOLEAN
        BY DEF PostWrite
      <3> QED
        BY <1>0, <1>2, <2>1, <3>1, Names
        DEF TypeOK, ChunkStates, Chunks, At, Goto, PostWrite
    <2>4. /\ connected' = connected /\ link' = link /\ inbox' = inbox
          /\ wq' = wq /\ aq' = aq /\ eq' = eq /\ timer' = timer
          /\ tries' = tries /\ failed' = failed /\ waits' = waits
          /\ readLock' = readLock /\ rcvdOn' = rcvdOn /\ works' = works
          /\ handle' = handle /\ magic' = magic /\ outside' = outside
          /\ got' = got /\ result' = result /\ async' = async
          /\ reported' = reported /\ lossTold' = lossTold
      BY <1>2 DEF PostWrite
    <2>5. /\ HandOk(t) /\ (c \in Chunks => ChunkOk(c))
          /\ OnceIn(wq) /\ OnceIn(aq) /\ OnceIn(eq)
          /\ PlacesInv /\ AsyncInv /\ WaitInv /\ HandInv /\ async \subseteq Msgs
      BY <1>0, <2>3 DEF TypeOK, PlacesInv, HandInv, QueueInv, Threads
    <2>6. HandsOn(t, c, "read", "none")
      <3>1. \A x \in Chunks : x # c => /\ st'[x] = st[x] /\ tries'[x] = tries[x]
                                       /\ x \in async' <=> x \in async
                                       /\ InSeq(x, wq') <=> InSeq(x, wq)
                                       /\ InSeq(x, aq') <=> InSeq(x, aq)
                                       /\ InSeq(x, eq') <=> InSeq(x, eq)
        BY <2>1, <2>3, <2>4, Names DEF Pushed, Popped
      <3>2. OnceIn(wq') /\ OnceIn(aq') /\ OnceIn(eq')
        BY <2>1, <2>3, <2>4, <2>5, Names
        DEF Pushed, Popped, ChunkOk, HandOk, Sending, Failing
      <3>3. c \in Chunks => ChunkOk(c)' /\ st'[c] # "none"
        BY <2>1, <2>3, <2>4, <2>5, Names, RetryIsPositive
        DEF Pushed, Popped, ChunkOk, HandOk, Sending, Failing
      <3>4. c \in async' /\ magic' => AccountOk(c)'
        BY <2>1, <2>3, <2>4, <2>5, Names
        DEF Pushed, Popped, AccountOk, AsyncInv, Threads
      <3>5. HandOk(t)'
        BY <2>1, <2>3, <2>4, <2>5, Names
        DEF Pushed, Popped, ChunkOk, HandOk, Sending, Failing, Busy, WqItems,
            AqItems
      <3>6. \A u \in Threads : u # t => ~ (c \in Chunks /\ Owns(u, c))
        <4>1. ASSUME c \in Chunks
              PROVE  \/ Owns(t, c)
                     \/ InSeq(c, wq) \/ InSeq(c, aq) \/ InSeq(c, eq)
                     \/ st[c] \notin {"WRITE_PENDING", "ACK_PENDING", "WRITE_FAIL"}
                     \/ st[c] = "WRITE_FAIL" /\ c \notin async
          BY <2>1, <2>3, <2>4, <2>5, <4>1 DEF Owns, HandOk, Sending, Failing, Popped
        <4> QED
          BY <2>5, <4>1, NoOtherOwner
      <3>7. \A u \in Threads : u # t /\ Sending(u) => writeLock' = u
        BY <2>3, <2>4, <2>5 DEF HandInv, HandOk, Sending, Threads
      <3>8. \A i \in 1 .. Len(inbox') : inbox'[i] \in Msgs =>
               inbox'[i] \in got' \/ InSeq(inbox'[i], inbox)
        BY <2>3, <2>4 DEF InSeq
      <3>9. /\ async' \subseteq async \cup {c} /\ async' \subseteq Msgs
            /\ c \in async' => c \in async \/ st[c] = "none"
            /\ got \subseteq got' /\ reported \subseteq reported'
            /\ magic' = magic /\ "read" # "joining"
            /\ "none" \in {c, "none"} /\ (hand[t] \in async => hand[t] = c)
        BY <2>1, <2>3, <2>4, <2>5, Names DEF HandOk, Busy, Unwaited, Ending
      <3> QED
        BY <2>3, <3>1, <3>2, <3>3, <3>4, <3>5, <3>6, <3>7, <3>8, <3>9
        DEF HandsOn
    <2>7. WaitsOn(t, c, "read")
      BY <2>1, <2>3, <2>4, <2>5, Names
      DEF WaitsOn, WaitInv, ChunkOk, HandOk, Popped, Unwaited, Ending, Threads
    <2>8. TypeOK'
      BY <1>0, <2>1, <2>3, <2>4, Names
      DEF TypeOK, ChunkStates, Steps, Threads, WqItems, AqItems, EqItems
    <2>9. ClosedIsReported'
      BY <1>0, <2>1, <2>3, <2>4, ClosedKept, Names
      DEF Steps, Threads, Ending, Pushed, Popped
    <2>10. \A m \in Msgs : result'[m] = "ok" => m \in got'
      BY <2>3, <2>4 DEF ClientInv
    <2> QED
      BY <2>3, <2>6, <2>7, <2>8, <2>9, <2>10, HandStep DEF Steps, Threads
  <1>3. CASE hand[t] = "PUBACK"
    <2>1. PICK c : /\ c = hand[t] /\ c \notin Msgs
                   /\ c = "PUBACK"
      BY <1>3, Names
    <2>3. /\ Alive /\ pc' = [pc EXCEPT ![t] = "read"]
          /\ hand' = [hand EXCEPT ![t] = "none"]
          /\ pc'[t] = "read" /\ hand'[t] = "none"
          /\ pc[t] = "post" /\ hand[t] = c
          /\ writeLock' = "none"
          /\ sentOn' \in BOOLEAN
      <3>1. sentOn' \in BOOLEAN
        BY DEF PostWrite
      <3> QED
        BY <1>0, <1>3, <2>1, <3>1, Names
        DEF TypeOK, ChunkStates, Chunks, At, Goto, PostWrite
    <2>4. /\ connected' = connected /\ link' = link /\ inbox' = inbox
          /\ wq' = wq /\ aq' = aq /\ eq' = eq /\ st' = st /\ timer' = timer
          /\ tries' = tries /\ failed' = failed /\ waits' = waits
          /\ readLock' = readLock /\ rcvdOn' = rcvdOn /\ works' = works
          /\ handle' = handle /\ magic' = magic /\ outside' = outside
          /\ got' = got /\ result' = result /\ async' = async
          /\ reported' = reported /\ lossTold' = lossTold
      BY <1>3 DEF PostWrite
    <2>5. /\ HandOk(t) /\ (c \in Chunks => ChunkOk(c))
          /\ OnceIn(wq) /\ OnceIn(aq) /\ OnceIn(eq)
          /\ PlacesInv /\ AsyncInv /\ WaitInv /\ HandInv /\ async \subseteq Msgs
      BY <1>0, <2>3 DEF TypeOK, PlacesInv, HandInv, QueueInv, Threads
    <2>6. HandsOn(t, c, "read", "none")
      <3>1. \A x \in Chunks : x # c => /\ st'[x] = st[x] /\ tries'[x] = tries[x]
                                       /\ x \in async' <=> x \in async
                                       /\ InSeq(x, wq') <=> InSeq(x, wq)
                                       /\ InSeq(x, aq') <=> InSeq(x, aq)
                                       /\ InSeq(x, eq') <=> InSeq(x, eq)
        BY <2>1, <2>3, <2>4, Names DEF Pushed, Popped
      <3>2. OnceIn(wq') /\ OnceIn(aq') /\ OnceIn(eq')
        BY <2>1, <2>3, <2>4, <2>5, Names
        DEF Pushed, Popped, ChunkOk, HandOk, Sending, Failing
      <3>3. c \in Chunks => ChunkOk(c)' /\ st'[c] # "none"
        BY <2>1, <2>3, <2>4, <2>5, Names, RetryIsPositive
        DEF Pushed, Popped, ChunkOk, HandOk, Sending, Failing
      <3>4. c \in async' /\ magic' => AccountOk(c)'
        BY <2>1, <2>3, <2>4, <2>5, Names
        DEF Pushed, Popped, AccountOk, AsyncInv, Threads
      <3>5. HandOk(t)'
        BY <2>1, <2>3, <2>4, <2>5, Names
        DEF Pushed, Popped, ChunkOk, HandOk, Sending, Failing, Busy, WqItems,
            AqItems
      <3>6. \A u \in Threads : u # t => ~ (c \in Chunks /\ Owns(u, c))
        BY <2>1, <2>3, <2>4, <2>5, NoOtherOwner
        DEF Owns, HandOk, Sending, Failing, Popped, Threads
      <3>7. \A u \in Threads : u # t /\ Sending(u) => writeLock' = u
        BY <2>3, <2>4, <2>5 DEF HandInv, HandOk, Sending, Threads
      <3>8. \A i \in 1 .. Len(inbox') : inbox'[i] \in Msgs =>
               inbox'[i] \in got' \/ InSeq(inbox'[i], inbox)
        BY <2>3, <2>4 DEF InSeq
      <3>9. /\ async' \subseteq async \cup {c} /\ async' \subseteq Msgs
            /\ c \in async' => c \in async \/ st[c] = "none"
            /\ got \subseteq got' /\ reported \subseteq reported'
            /\ magic' = magic /\ "read" # "joining"
            /\ "none" \in {c, "none"} /\ (hand[t] \in async => hand[t] = c)
        BY <2>1, <2>3, <2>4, <2>5, Names DEF HandOk, Busy, Unwaited, Ending
      <3> QED
        BY <2>3, <3>1, <3>2, <3>3, <3>4, <3>5, <3>6, <3>7, <3>8, <3>9
        DEF HandsOn
    <2>7. WaitsOn(t, c, "read")
      BY <2>1, <2>3, <2>4, <2>5, Names
      DEF WaitsOn, WaitInv, ChunkOk, HandOk, Popped, Unwaited, Ending, Threads
    <2>8. TypeOK'
      BY <1>0, <2>1, <2>3, <2>4, Names
      DEF TypeOK, ChunkStates, Steps, Threads, WqItems, AqItems, EqItems
    <2>9. ClosedIsReported'
      BY <1>0, <2>1, <2>3, <2>4, ClosedKept, Names
      DEF Steps, Threads, Ending, Pushed, Popped
    <2>10. \A m \in Msgs : result'[m] = "ok" => m \in got'
      BY <2>3, <2>4 DEF ClientInv
    <2> QED
      BY <2>3, <2>6, <2>7, <2>8, <2>9, <2>10, HandStep DEF Steps, Threads
  <1> QED
    BY <1>1, <1>2, <1>3, <1>a

\* It could not be sent.
LEMMA SendFailsKeeps ==
    ASSUME ClientInv, NEW t \in Threads, SendFails(t)
    PROVE  ClientInv'
  <1> USE DEF net, queues, chunk, threads, locks, idle, life, told
  <1>0. TypeOK /\ ClosedIsReported /\ (Alive => PlacesInv /\ AsyncInv)
    BY DEF ClientInv
  <1>1. PICK c : c = hand[t] /\ c \in Chunks \cup {"PUBACK", "none"}
    BY <1>0 DEF TypeOK
  <1>2. PICK l \in Steps : /\ l = IF connected THEN "fail and close" ELSE "fail"
                           /\ l \in {"fail", "fail and close"}
    BY DEF Steps
  <1>3. /\ Alive /\ pc' = [pc EXCEPT ![t] = l]
        /\ hand' = [hand EXCEPT ![t] = c]
        /\ pc'[t] = l /\ hand'[t] = c
        /\ pc[t] = "send" /\ hand[t] = c
        /\ st' \in [Chunks -> ChunkStates]
        /\ \A x \in Chunks : x # c => st'[x] = st[x]
        /\ c \in Chunks => st'[c] = "WRITE_FAIL"
        /\ c \notin Chunks => st' = st
        /\ writeLock' = "none"
        /\ failed' = [failed EXCEPT ![t] = TRUE]
    BY <1>0, <1>1, <1>2 DEF TypeOK, ChunkStates, At, Goto, SendFails
  <1>4. /\ connected' = connected /\ link' = link /\ inbox' = inbox
        /\ wq' = wq /\ aq' = aq /\ eq' = eq /\ timer' = timer
        /\ tries' = tries /\ waits' = waits /\ readLock' = readLock
        /\ sentOn' = sentOn /\ rcvdOn' = rcvdOn /\ works' = works
        /\ handle' = handle /\ magic' = magic /\ outside' = outside
        /\ got' = got /\ result' = result /\ async' = async
        /\ reported' = reported /\ lossTold' = lossTold
    BY DEF SendFails
  <1>5. /\ HandOk(t) /\ (c \in Chunks => ChunkOk(c))
        /\ OnceIn(wq) /\ OnceIn(aq) /\ OnceIn(eq)
        /\ PlacesInv /\ AsyncInv /\ WaitInv /\ HandInv /\ async \subseteq Msgs
    BY <1>0, <1>3 DEF TypeOK, PlacesInv, HandInv, QueueInv, Threads
  <1>6. HandsOn(t, c, l, c)
    <2>1. \A x \in Chunks : x # c => /\ st'[x] = st[x] /\ tries'[x] = tries[x]
                                     /\ x \in async' <=> x \in async
                                     /\ InSeq(x, wq') <=> InSeq(x, wq)
                                     /\ InSeq(x, aq') <=> InSeq(x, aq)
                                     /\ InSeq(x, eq') <=> InSeq(x, eq)
      BY <1>1, <1>3, <1>4, Names DEF Pushed, Popped
    <2>2. OnceIn(wq') /\ OnceIn(aq') /\ OnceIn(eq')
      BY <1>1, <1>2, <1>3, <1>4, <1>5, Names
      DEF Pushed, Popped, ChunkOk, HandOk, Sending, Failing
    <2>3. c \in Chunks => ChunkOk(c)' /\ st'[c] # "none"
      BY <1>1, <1>2, <1>3, <1>4, <1>5, Names, RetryIsPositive
      DEF Pushed, Popped, ChunkOk, HandOk, Sending, Failing
    <2>4. c \in async' /\ magic' => AccountOk(c)'
      BY <1>1, <1>2, <1>3, <1>4, <1>5, Names
      DEF Pushed, Popped, AccountOk, AsyncInv, Threads
    <2>5. HandOk(t)'
      BY <1>1, <1>2, <1>3, <1>4, <1>5, Names
      DEF Pushed, Popped, ChunkOk, HandOk, Sending, Failing, Busy, WqItems,
          AqItems
    <2>6. \A u \in Threads : u # t => ~ (c \in Chunks /\ Owns(u, c))
      BY <1>1, <1>2, <1>3, <1>4, <1>5, NoOtherOwner
      DEF Owns, HandOk, Sending, Failing, Popped, Threads
    <2>7. \A u \in Threads : u # t /\ Sending(u) => writeLock' = u
      BY <1>3, <1>4, <1>5 DEF HandInv, HandOk, Sending, Threads
    <2>8. \A i \in 1 .. Len(inbox') : inbox'[i] \in Msgs =>
             inbox'[i] \in got' \/ InSeq(inbox'[i], inbox)
      BY <1>3, <1>4 DEF InSeq
    <2>9. /\ async' \subseteq async \cup {c} /\ async' \subseteq Msgs
          /\ c \in async' => c \in async \/ st[c] = "none"
          /\ got \subseteq got' /\ reported \subseteq reported'
          /\ magic' = magic /\ l # "joining"
          /\ c \in {c, "none"} /\ (hand[t] \in async => hand[t] = c)
      BY <1>1, <1>2, <1>3, <1>4, <1>5, Names DEF HandOk, Busy, Unwaited, Ending
    <2> QED
      BY <1>3, <2>1, <2>2, <2>3, <2>4, <2>5, <2>6, <2>7, <2>8, <2>9 DEF HandsOn
  <1>7. WaitsOn(t, c, l)
    BY <1>1, <1>2, <1>3, <1>4, <1>5, Names
    DEF WaitsOn, WaitInv, ChunkOk, HandOk, Popped, Unwaited, Ending, Threads
  <1>8. TypeOK'
    BY <1>0, <1>1, <1>2, <1>3, <1>4, Names
    DEF TypeOK, ChunkStates, Steps, Threads, WqItems, AqItems, EqItems
  <1>9. ClosedIsReported'
    <2>1. /\ pc' = [pc EXCEPT ![t] = l] /\ pc[t] # "event" /\ pc[t] # "closed"
          /\ connected' = connected /\ magic' = magic /\ lossTold' = lossTold
      BY <1>1, <1>2, <1>3, <1>4, Names DEF Ending
    <2>2. InSeq("disconnected", eq) => InSeq("disconnected", eq')
      BY <1>1, <1>2, <1>3, <1>4, Names DEF Pushed, Popped
    <2> QED
      BY <1>0, <2>1, <2>2, ClosedKept
  <1>10. \A m \in Msgs : result'[m] = "ok" => m \in got'
    BY <1>3, <1>4 DEF ClientInv
  <1> QED
    BY <1>3, <1>6, <1>7, <1>8, <1>9, <1>10, HandStep DEF Threads

\* Its owner sees that, or the callback is told.
LEMMA WriteFailedKeeps ==
    ASSUME ClientInv, NEW t \in Threads, WriteFailed(t)
    PROVE  ClientInv'
  <1> USE DEF net, queues, chunk, threads, locks, idle, life, told
  <1>0. TypeOK /\ ClosedIsReported /\ (Alive => PlacesInv /\ AsyncInv)
    BY DEF ClientInv
  <1>a. Alive /\ Failing(t) /\ HandOk(t)
    <2>1. Alive /\ Failing(t)
      BY DEF At, Failing, WriteFailed
    <2> QED
      BY <1>0, <2>1 DEF PlacesInv, HandInv
  <1>1. CASE ~ Owned(hand[t])
    <2>1. PICK c : /\ c = hand[t] /\ c \in EqItems
                   /\ eq' \in Seq(EqItems) /\ Pushed(eq', eq, c)
                   /\ c \in Chunks => c \in async
      <3>1. eq \in Seq(EqItems)
        BY <1>0 DEF TypeOK, EqItems
      <3>2. hand[t] \in EqItems
        <4>1. hand[t] \in Chunks \cup {"PUBACK"} /\ async \subseteq Msgs
          BY <1>0, <1>a DEF HandOk, TypeOK
        <4> QED
          BY <1>1, <4>1 DEF Owned, EqItems
      <3>3. /\ Append(eq, hand[t]) \in Seq(EqItems)
            /\ Pushed(Append(eq, hand[t]), eq, hand[t])
        BY <3>1, <3>2, PushFacts
      <3>4. eq' = Append(eq, hand[t])
        BY <1>1 DEF WriteFailed
      <3> QED
        BY <3>2, <3>3, <3>4, <1>1 DEF Owned
    <2>2. PICK l \in Steps : /\ l = IF At(t, "fail") THEN Return(t) ELSE "close"
                             /\ l \notin Busy \cup Ending \cup {"event"}
                             /\ l = "check" => waits[t] # "none"
                             /\ l \in Unwaited => waits[t] = "none"
      BY StepsFacts, ReturnFacts DEF Steps, Busy, Ending, Unwaited, Threads
    <2>3. /\ Alive /\ pc' = [pc EXCEPT ![t] = l]
          /\ hand' = [hand EXCEPT ![t] = "none"]
          /\ pc'[t] = l /\ hand'[t] = "none"
          /\ Failing(t) /\ hand[t] = c /\ pc[t] \notin Ending \cup {"event"}
      BY <1>0, <1>a, <2>1, <2>2 DEF TypeOK, Failing, Ending, Goto, WriteFailed
    <2>4. /\ connected' = connected /\ link' = link /\ inbox' = inbox
          /\ wq' = wq /\ aq' = aq /\ st' = st /\ timer' = timer
          /\ tries' = tries /\ failed' = failed /\ waits' = waits
          /\ readLock' = readLock /\ writeLock' = writeLock
          /\ sentOn' = sentOn /\ rcvdOn' = rcvdOn /\ works' = works
          /\ handle' = handle /\ magic' = magic /\ outside' = outside
          /\ got' = got /\ result' = result /\ async' = async
          /\ reported' = reported /\ lossTold' = lossTold
      BY <1>1 DEF WriteFailed
    <2>5. /\ HandOk(t) /\ (c \in Chunks => ChunkOk(c))
          /\ OnceIn(wq) /\ OnceIn(aq) /\ OnceIn(eq)
          /\ PlacesInv /\ AsyncInv /\ WaitInv /\ HandInv /\ async \subseteq Msgs
      BY <1>0, <2>3 DEF TypeOK, PlacesInv, HandInv, QueueInv, Threads
    <2>6. HandsOn(t, c, l, "none")
      <3>1. \A x \in Chunks : x # c => /\ st'[x] = st[x] /\ tries'[x] = tries[x]
                                       /\ x \in async' <=> x \in async
                                       /\ InSeq(x, wq') <=> InSeq(x, wq)
                                       /\ InSeq(x, aq') <=> InSeq(x, aq)
                                       /\ InSeq(x, eq') <=> InSeq(x, eq)
        BY <2>1, <2>3, <2>4, Names DEF Pushed, Popped
      <3>2. OnceIn(wq') /\ OnceIn(aq') /\ OnceIn(eq')
        BY <2>1, <2>2, <2>3, <2>4, <2>5, Names
        DEF Pushed, Popped, ChunkOk, HandOk, Sending, Failing
      <3>3. c \in Chunks => ChunkOk(c)' /\ st'[c] # "none"
        BY <2>1, <2>2, <2>3, <2>4, <2>5, Names, RetryIsPositive
        DEF Pushed, Popped, ChunkOk, HandOk, Sending, Failing
      <3>4. c \in async' /\ magic' => AccountOk(c)'
        BY <2>1, <2>2, <2>3, <2>4, <2>5, Names
        DEF Pushed, Popped, AccountOk, AsyncInv, Threads
      <3>5. HandOk(t)'
        BY <2>1, <2>2, <2>3, <2>4, <2>5, Names
        DEF Pushed, Popped, ChunkOk, HandOk, Sending, Failing, Busy, WqItems,
            AqItems
      <3>6. \A u \in Threads : u # t => ~ (c \in Chunks /\ Owns(u, c))
        BY <2>1, <2>2, <2>3, <2>4, <2>5, NoOtherOwner
        DEF Owns, HandOk, Sending, Failing, Popped, Threads
      <3>7. \A u \in Threads : u # t /\ Sending(u) => writeLock' = u
        BY <2>3, <2>4, <2>5 DEF HandInv, HandOk, Sending, Threads
      <3>8. \A i \in 1 .. Len(inbox') : inbox'[i] \in Msgs =>
               inbox'[i] \in got' \/ InSeq(inbox'[i], inbox)
        BY <2>3, <2>4 DEF InSeq
      <3>9. /\ async' \subseteq async \cup {c} /\ async' \subseteq Msgs
            /\ c \in async' => c \in async \/ st[c] = "none"
            /\ got \subseteq got' /\ reported \subseteq reported'
            /\ magic' = magic /\ l # "joining"
            /\ "none" \in {c, "none"} /\ (hand[t] \in async => hand[t] = c)
        BY <2>1, <2>2, <2>3, <2>4, <2>5, Names
        DEF HandOk, Busy, Unwaited, Ending
      <3> QED
        BY <2>3, <3>1, <3>2, <3>3, <3>4, <3>5, <3>6, <3>7, <3>8, <3>9
        DEF HandsOn
    <2>7. WaitsOn(t, c, l)
      BY <2>1, <2>2, <2>3, <2>4, <2>5, Names
      DEF WaitsOn, WaitInv, ChunkOk, HandOk, Popped, Unwaited, Ending, Threads
    <2>8. TypeOK'
      BY <1>0, <2>1, <2>2, <2>3, <2>4, Names
      DEF TypeOK, ChunkStates, Steps, Threads, WqItems, AqItems, EqItems
    <2>9. ClosedIsReported'
      <3>1. /\ pc' = [pc EXCEPT ![t] = l] /\ pc[t] # "event" /\ pc[t] # "closed"
            /\ connected' = connected /\ magic' = magic /\ lossTold' = lossTold
        BY <2>1, <2>2, <2>3, <2>4, Names DEF Ending
      <3>2. InSeq("disconnected", eq) => InSeq("disconnected", eq')
        BY <2>1, <2>2, <2>3, <2>4, Names DEF Pushed, Popped
      <3> QED
        BY <1>0, <3>1, <3>2, ClosedKept
    <2>10. \A m \in Msgs : result'[m] = "ok" => m \in got'
      BY <2>3, <2>4 DEF ClientInv
    <2> QED
      BY <2>3, <2>6, <2>7, <2>8, <2>9, <2>10, HandStep DEF Threads
  <1>2. CASE Owned(hand[t])
    <2>1. PICK c : c = "none"
      OBVIOUS
    <2>2. PICK l \in Steps : /\ l = IF At(t, "fail") THEN Return(t) ELSE "close"
                             /\ l \notin Busy \cup Ending \cup {"event"}
                             /\ l = "check" => waits[t] # "none"
                             /\ l \in Unwaited => waits[t] = "none"
      BY StepsFacts, ReturnFacts DEF Steps, Busy, Ending, Unwaited, Threads
    <2>3. /\ Alive /\ pc' = [pc EXCEPT ![t] = l]
          /\ hand' = [hand EXCEPT ![t] = "none"]
          /\ pc'[t] = l /\ hand'[t] = "none"
          /\ Failing(t) /\ hand[t] \notin async /\ pc[t] \notin Ending \cup {"event"}
      BY <1>0, <1>a, <1>2, <2>1, <2>2
      DEF TypeOK, Owned, Failing, Ending, Goto, WriteFailed
    <2>4. /\ connected' = connected /\ link' = link /\ inbox' = inbox
          /\ wq' = wq /\ aq' = aq /\ eq' = eq /\ st' = st /\ timer' = timer
          /\ tries' = tries /\ failed' = failed /\ waits' = waits
          /\ readLock' = readLock /\ writeLock' = writeLock
          /\ sentOn' = sentOn /\ rcvdOn' = rcvdOn /\ works' = works
          /\ handle' = handle /\ magic' = magic /\ outside' = outside
          /\ got' = got /\ result' = result /\ async' = async
          /\ reported' = reported /\ lossTold' = lossTold
      BY <1>2 DEF WriteFailed
    <2>5. /\ HandOk(t) /\ (c \in Chunks => ChunkOk(c))
          /\ OnceIn(wq) /\ OnceIn(aq) /\ OnceIn(eq)
          /\ PlacesInv /\ AsyncInv /\ WaitInv /\ HandInv /\ async \subseteq Msgs
      BY <1>0, <2>3 DEF TypeOK, PlacesInv, HandInv, QueueInv, Threads
    <2>6. HandsOn(t, c, l, "none")
      <3>1. \A x \in Chunks : x # c => /\ st'[x] = st[x] /\ tries'[x] = tries[x]
                                       /\ x \in async' <=> x \in async
                                       /\ InSeq(x, wq') <=> InSeq(x, wq)
                                       /\ InSeq(x, aq') <=> InSeq(x, aq)
                                       /\ InSeq(x, eq') <=> InSeq(x, eq)
        BY <2>1, <2>3, <2>4, Names DEF Pushed, Popped
      <3>2. OnceIn(wq') /\ OnceIn(aq') /\ OnceIn(eq')
        BY <2>1, <2>2, <2>3, <2>4, <2>5, Names
        DEF Pushed, Popped, ChunkOk, HandOk, Sending, Failing
      <3>3. c \in Chunks => ChunkOk(c)' /\ st'[c] # "none"
        BY <2>1, <2>2, <2>3, <2>4, <2>5, Names, RetryIsPositive
        DEF Pushed, Popped, ChunkOk, HandOk, Sending, Failing
      <3>4. c \in async' /\ magic' => AccountOk(c)'
        BY <2>1, <2>2, <2>3, <2>4, <2>5, Names
        DEF Pushed, Popped, AccountOk, AsyncInv, Threads
      <3>5. HandOk(t)'
        BY <2>1, <2>2, <2>3, <2>4, <2>5, Names
        DEF Pushed, Popped, ChunkOk, HandOk, Sending, Failing, Busy, WqItems,
            AqItems
      <3>6. \A u \in Threads : u # t => ~ (c \in Chunks /\ Owns(u, c))
        BY <2>1, Names
      <3>7. \A u \in Threads : u # t /\ Sending(u) => writeLock' = u
        BY <2>3, <2>4, <2>5 DEF HandInv, HandOk, Sending, Threads
      <3>8. \A i \in 1 .. Len(inbox') : inbox'[i] \in Msgs =>
               inbox'[i] \in got' \/ InSeq(inbox'[i], inbox)
        BY <2>3, <2>4 DEF InSeq
      <3>9. /\ async' \subseteq async \cup {c} /\ async' \subseteq Msgs
            /\ c \in async' => c \in async \/ st[c] = "none"
            /\ got \subseteq got' /\ reported \subseteq reported'
            /\ magic' = magic /\ l # "joining"
            /\ "none" \in {c, "none"} /\ (hand[t] \in async => hand[t] = c)
        BY <2>1, <2>2, <2>3, <2>4, <2>5, Names
        DEF HandOk, Busy, Unwaited, Ending
      <3> QED
        BY <2>3, <3>1, <3>2, <3>3, <3>4, <3>5, <3>6, <3>7, <3>8, <3>9
        DEF HandsOn
    <2>7. WaitsOn(t, c, l)
      BY <2>1, <2>2, <2>3, <2>4, <2>5, Names
      DEF WaitsOn, WaitInv, ChunkOk, HandOk, Popped, Unwaited, Ending, Threads
    <2>8. TypeOK'
      BY <1>0, <2>1, <2>2, <2>3, <2>4, Names
      DEF TypeOK, ChunkStates, Steps, Threads, WqItems, AqItems, EqItems
    <2>9. ClosedIsReported'
      <3>1. /\ pc' = [pc EXCEPT ![t] = l] /\ pc[t] # "event" /\ pc[t] # "closed"
            /\ connected' = connected /\ magic' = magic /\ lossTold' = lossTold
        BY <2>1, <2>2, <2>3, <2>4, Names DEF Ending
      <3>2. InSeq("disconnected", eq) => InSeq("disconnected", eq')
        BY <2>1, <2>2, <2>3, <2>4, Names DEF Pushed, Popped
      <3> QED
        BY <1>0, <3>1, <3>2, ClosedKept
    <2>10. \A m \in Msgs : result'[m] = "ok" => m \in got'
      BY <2>3, <2>4 DEF ClientInv
    <2> QED
      BY <2>3, <2>6, <2>7, <2>8, <2>9, <2>10, HandStep DEF Threads
  <1> QED
    BY <1>1, <1>2

\* A message from the broker.
LEMMA ReadPublishKeeps ==
    ASSUME ClientInv, NEW t \in Threads, ReadPublish(t)
    PROVE  ClientInv'
  <1> USE DEF net, queues, chunk, threads, locks, idle, life, told
  <1>0. TypeOK /\ ClosedIsReported /\ (Alive => PlacesInv /\ AsyncInv)
    BY DEF ClientInv
  <1>a. Alive /\ pc[t] = "read" /\ connected /\ inbox # <<>> /\ inbox' = Tail(inbox)
    BY DEF At, Reading, Received, ReadPublish
  <1>b. /\ hand[t] = "none" /\ PlacesInv /\ HandOk(t)
    BY <1>0, <1>a DEF PlacesInv, HandInv, HandOk, Busy
  <1>c. /\ inbox' \in Seq(Msgs \cup {"PING", "pub", "dup"})
        /\ \A i \in 1 .. Len(inbox') : InSeq(inbox'[i], inbox)
        /\ InSeq(Head(inbox), inbox)
    BY <1>0, <1>a, InboxTail
  <1>1. CASE Head(inbox) = "pub"
    <2>1. PICK c : /\ c = "PUBACK" /\ c \in WqItems
                   /\ wq' \in Seq(WqItems) /\ Pushed(wq', wq, c)
      <3>1. wq \in Seq(WqItems)
        BY <1>0 DEF TypeOK, WqItems
      <3>2. "PUBACK" \in WqItems
        BY DEF WqItems
      <3>3. /\ Append(wq, "PUBACK") \in Seq(WqItems)
            /\ Pushed(Append(wq, "PUBACK"), wq, "PUBACK")
        BY <3>1, <3>2, PushFacts
      <3>4. wq' = Append(wq, "PUBACK")
        BY DEF ReadPublish
      <3> QED
        BY <3>2, <3>3, <3>4
    <2>2. PICK l \in Steps : /\ l = AfterRead(t)
                             /\ l \notin Busy \cup Unwaited \cup {"check", "event"}
      BY StepsFacts
    <2>3. /\ Alive /\ pc' = [pc EXCEPT ![t] = l]
          /\ hand' = [hand EXCEPT ![t] = "none"]
          /\ pc'[t] = l /\ hand'[t] = "none"
          /\ pc[t] = "read" /\ hand[t] = "none"
          /\ inbox' \in Seq(Msgs \cup {"PING", "pub", "dup"})
          /\ \A i \in 1 .. Len(inbox') : InSeq(inbox'[i], inbox)
          /\ rcvdOn' = TRUE
          /\ eq' \in Seq(EqItems) /\ Pushed(eq', eq, "pub")
      <3>1. eq \in Seq(EqItems) /\ "pub" \in EqItems
        BY <1>0 DEF TypeOK, EqItems
      <3>2. /\ Append(eq, "pub") \in Seq(EqItems)
            /\ Pushed(Append(eq, "pub"), eq, "pub")
        BY <3>1, PushFacts
      <3>3. eq' = Append(eq, "pub")
        BY <1>1 DEF ReadPublish
      <3>4. eq' \in Seq(EqItems) /\ Pushed(eq', eq, "pub")
        BY <3>2, <3>3
      <3>5. /\ pc' = [pc EXCEPT ![t] = l] /\ hand' = hand /\ rcvdOn' = TRUE
        BY <2>2 DEF Goto, ReadPublish
      <3>6. /\ hand' = [hand EXCEPT ![t] = "none"] /\ hand'[t] = "none" /\ pc'[t] = l
        BY <1>0, <1>b, <3>5 DEF TypeOK
      <3> QED
        BY <1>a, <1>b, <1>c, <3>4, <3>5, <3>6
    <2>4. /\ connected' = connected /\ link' = link /\ aq' = aq /\ st' = st
          /\ timer' = timer /\ tries' = tries /\ failed' = failed
          /\ waits' = waits /\ readLock' = readLock
          /\ writeLock' = writeLock /\ sentOn' = sentOn /\ works' = works
          /\ handle' = handle /\ magic' = magic /\ outside' = outside
          /\ got' = got /\ result' = result /\ async' = async
          /\ reported' = reported /\ lossTold' = lossTold
      BY <1>1 DEF ReadPublish, Received
    <2>5. /\ HandOk(t) /\ (c \in Chunks => ChunkOk(c))
          /\ OnceIn(wq) /\ OnceIn(aq) /\ OnceIn(eq)
          /\ PlacesInv /\ AsyncInv /\ WaitInv /\ HandInv /\ async \subseteq Msgs
      BY <1>0, <2>3 DEF TypeOK, PlacesInv, HandInv, QueueInv, Threads
    <2>6. HandsOn(t, c, l, "none")
      <3>1. \A x \in Chunks : x # c => /\ st'[x] = st[x] /\ tries'[x] = tries[x]
                                       /\ x \in async' <=> x \in async
                                       /\ InSeq(x, wq') <=> InSeq(x, wq)
                                       /\ InSeq(x, aq') <=> InSeq(x, aq)
                                       /\ InSeq(x, eq') <=> InSeq(x, eq)
        BY <2>1, <2>3, <2>4, Names DEF Pushed, Popped
      <3>2. OnceIn(wq') /\ OnceIn(aq') /\ OnceIn(eq')
        BY <2>1, <2>2, <2>3, <2>4, <2>5, Names
        DEF Pushed, Popped, ChunkOk, HandOk, Sending, Failing
      <3>3. c \in Chunks => ChunkOk(c)' /\ st'[c] # "none"
        BY <2>1, <2>2, <2>3, <2>4, <2>5, Names, RetryIsPositive
        DEF Pushed, Popped, ChunkOk, HandOk, Sending, Failing
      <3>4. c \in async' /\ magic' => AccountOk(c)'
        BY <2>1, <2>2, <2>3, <2>4, <2>5, Names
        DEF Pushed, Popped, AccountOk, AsyncInv, Threads
      <3>5. HandOk(t)'
        BY <2>1, <2>2, <2>3, <2>4, <2>5, Names
        DEF Pushed, Popped, ChunkOk, HandOk, Sending, Failing, Busy, WqItems,
            AqItems
      <3>6. \A u \in Threads : u # t => ~ (c \in Chunks /\ Owns(u, c))
        BY <2>1, Names
      <3>7. \A u \in Threads : u # t /\ Sending(u) => writeLock' = u
        BY <2>3, <2>4, <2>5 DEF HandInv, HandOk, Sending, Threads
      <3>8. \A i \in 1 .. Len(inbox') : inbox'[i] \in Msgs =>
               inbox'[i] \in got' \/ InSeq(inbox'[i], inbox)
        BY <2>3, <2>4 DEF InSeq
      <3>9. /\ async' \subseteq async \cup {c} /\ async' \subseteq Msgs
            /\ c \in async' => c \in async \/ st[c] = "none"
            /\ got \subseteq got' /\ reported \subseteq reported'
            /\ magic' = magic /\ l # "joining"
            /\ "none" \in {c, "none"} /\ (hand[t] \in async => hand[t] = c)
        BY <2>1, <2>2, <2>3, <2>4, <2>5, Names
        DEF HandOk, Busy, Unwaited, Ending
      <3> QED
        BY <2>3, <3>1, <3>2, <3>3, <3>4, <3>5, <3>6, <3>7, <3>8, <3>9
        DEF HandsOn
    <2>7. WaitsOn(t, c, l)
      BY <2>1, <2>2, <2>3, <2>4, <2>5, Names
      DEF WaitsOn, WaitInv, ChunkOk, HandOk, Popped, Unwaited, Ending, Threads
    <2>8. TypeOK'
      BY <1>0, <2>1, <2>2, <2>3, <2>4, Names
      DEF TypeOK, ChunkStates, Steps, Threads, WqItems, AqItems, EqItems
    <2>9. ClosedIsReported'
      <3>1. /\ pc' = [pc EXCEPT ![t] = l] /\ pc[t] # "event" /\ pc[t] # "closed"
            /\ connected' = connected /\ magic' = magic /\ lossTold' = lossTold
        BY <2>1, <2>2, <2>3, <2>4, Names DEF Ending
      <3>2. InSeq("disconnected", eq) => InSeq("disconnected", eq')
        BY <2>1, <2>2, <2>3, <2>4, Names DEF Pushed, Popped
      <3> QED
        BY <1>0, <3>1, <3>2, ClosedKept
    <2>10. \A m \in Msgs : result'[m] = "ok" => m \in got'
      BY <2>3, <2>4 DEF ClientInv
    <2> QED
      BY <2>3, <2>6, <2>7, <2>8, <2>9, <2>10, HandStep DEF Threads
  <1>2. CASE Head(inbox) # "pub"
    <2>1. PICK c : /\ c = "PUBACK" /\ c \in WqItems
                   /\ wq' \in Seq(WqItems) /\ Pushed(wq', wq, c)
      <3>1. wq \in Seq(WqItems)
        BY <1>0 DEF TypeOK, WqItems
      <3>2. "PUBACK" \in WqItems
        BY DEF WqItems
      <3>3. /\ Append(wq, "PUBACK") \in Seq(WqItems)
            /\ Pushed(Append(wq, "PUBACK"), wq, "PUBACK")
        BY <3>1, <3>2, PushFacts
      <3>4. wq' = Append(wq, "PUBACK")
        BY DEF ReadPublish
      <3> QED
        BY <3>2, <3>3, <3>4
    <2>2. PICK l \in Steps : /\ l = AfterRead(t)
                             /\ l \notin Busy \cup Unwaited \cup {"check", "event"}
      BY StepsFacts
    <2>3. /\ Alive /\ pc' = [pc EXCEPT ![t] = l]
          /\ hand' = [hand EXCEPT ![t] = "none"]
          /\ pc'[t] = l /\ hand'[t] = "none"
          /\ pc[t] = "read" /\ hand[t] = "none"
          /\ inbox' \in Seq(Msgs \cup {"PING", "pub", "dup"})
          /\ \A i \in 1 .. Len(inbox') : InSeq(inbox'[i], inbox)
          /\ rcvdOn' = TRUE
          /\ eq' = eq
      <3>4. eq' = eq
        BY <1>2 DEF ReadPublish
      <3>5. /\ pc' = [pc EXCEPT ![t] = l] /\ hand' = hand /\ rcvdOn' = TRUE
        BY <2>2 DEF Goto, ReadPublish
      <3>6. /\ hand' = [hand EXCEPT ![t] = "none"] /\ hand'[t] = "none" /\ pc'[t] = l
        BY <1>0, <1>b, <3>5 DEF TypeOK
      <3> QED
        BY <1>a, <1>b, <1>c, <3>4, <3>5, <3>6
    <2>4. /\ connected' = connected /\ link' = link /\ aq' = aq /\ st' = st
          /\ timer' = timer /\ tries' = tries /\ failed' = failed
          /\ waits' = waits /\ readLock' = readLock
          /\ writeLock' = writeLock /\ sentOn' = sentOn /\ works' = works
          /\ handle' = handle /\ magic' = magic /\ outside' = outside
          /\ got' = got /\ result' = result /\ async' = async
          /\ reported' = reported /\ lossTold' = lossTold
      BY <1>2 DEF ReadPublish, Received
    <2>5. /\ HandOk(t) /\ (c \in Chunks => ChunkOk(c))
          /\ OnceIn(wq) /\ OnceIn(aq) /\ OnceIn(eq)
          /\ PlacesInv /\ AsyncInv /\ WaitInv /\ HandInv /\ async \subseteq Msgs
      BY <1>0, <2>3 DEF TypeOK, PlacesInv, HandInv, QueueInv, Threads
    <2>6. HandsOn(t, c, l, "none")
      <3>1. \A x \in Chunks : x # c => /\ st'[x] = st[x] /\ tries'[x] = tries[x]
                                       /\ x \in async' <=> x \in async
                                       /\ InSeq(x, wq') <=> InSeq(x, wq)
                                       /\ InSeq(x, aq') <=> InSeq(x, aq)
                                       /\ InSeq(x, eq') <=> InSeq(x, eq)
        BY <2>1, <2>3, <2>4, Names DEF Pushed, Popped
      <3>2. OnceIn(wq') /\ OnceIn(aq') /\ OnceIn(eq')
        BY <2>1, <2>2, <2>3, <2>4, <2>5, Names
        DEF Pushed, Popped, ChunkOk, HandOk, Sending, Failing
      <3>3. c \in Chunks => ChunkOk(c)' /\ st'[c] # "none"
        BY <2>1, <2>2, <2>3, <2>4, <2>5, Names, RetryIsPositive
        DEF Pushed, Popped, ChunkOk, HandOk, Sending, Failing
      <3>4. c \in async' /\ magic' => AccountOk(c)'
        BY <2>1, <2>2, <2>3, <2>4, <2>5, Names
        DEF Pushed, Popped, AccountOk, AsyncInv, Threads
      <3>5. HandOk(t)'
        BY <2>1, <2>2, <2>3, <2>4, <2>5, Names
        DEF Pushed, Popped, ChunkOk, HandOk, Sending, Failing, Busy, WqItems,
            AqItems
      <3>6. \A u \in Threads : u # t => ~ (c \in Chunks /\ Owns(u, c))
        BY <2>1, Names
      <3>7. \A u \in Threads : u # t /\ Sending(u) => writeLock' = u
        BY <2>3, <2>4, <2>5 DEF HandInv, HandOk, Sending, Threads
      <3>8. \A i \in 1 .. Len(inbox') : inbox'[i] \in Msgs =>
               inbox'[i] \in got' \/ InSeq(inbox'[i], inbox)
        BY <2>3, <2>4 DEF InSeq
      <3>9. /\ async' \subseteq async \cup {c} /\ async' \subseteq Msgs
            /\ c \in async' => c \in async \/ st[c] = "none"
            /\ got \subseteq got' /\ reported \subseteq reported'
            /\ magic' = magic /\ l # "joining"
            /\ "none" \in {c, "none"} /\ (hand[t] \in async => hand[t] = c)
        BY <2>1, <2>2, <2>3, <2>4, <2>5, Names
        DEF HandOk, Busy, Unwaited, Ending
      <3> QED
        BY <2>3, <3>1, <3>2, <3>3, <3>4, <3>5, <3>6, <3>7, <3>8, <3>9
        DEF HandsOn
    <2>7. WaitsOn(t, c, l)
      BY <2>1, <2>2, <2>3, <2>4, <2>5, Names
      DEF WaitsOn, WaitInv, ChunkOk, HandOk, Popped, Unwaited, Ending, Threads
    <2>8. TypeOK'
      BY <1>0, <2>1, <2>2, <2>3, <2>4, Names
      DEF TypeOK, ChunkStates, Steps, Threads, WqItems, AqItems, EqItems
    <2>9. ClosedIsReported'
      <3>1. /\ pc' = [pc EXCEPT ![t] = l] /\ pc[t] # "event" /\ pc[t] # "closed"
            /\ connected' = connected /\ magic' = magic /\ lossTold' = lossTold
        BY <2>1, <2>2, <2>3, <2>4, Names DEF Ending
      <3>2. InSeq("disconnected", eq) => InSeq("disconnected", eq')
        BY <2>1, <2>2, <2>3, <2>4, Names DEF Pushed, Popped
      <3> QED
        BY <1>0, <3>1, <3>2, ClosedKept
    <2>10. \A m \in Msgs : result'[m] = "ok" => m \in got'
      BY <2>3, <2>4 DEF ClientInv
    <2> QED
      BY <2>3, <2>6, <2>7, <2>8, <2>9, <2>10, HandStep DEF Threads
  <1> QED
    BY <1>1, <1>2

\* The ack of a packet that nobody owns.
LEMMA ReadAckAndFreeKeeps ==
    ASSUME ClientInv, NEW t \in Threads, ReadAckAndFree(t)
    PROVE  ClientInv'
  <1> USE DEF net, queues, chunk, threads, locks, idle, life, told
  <1>0. TypeOK /\ ClosedIsReported /\ (Alive => PlacesInv /\ AsyncInv)
    BY DEF ClientInv
  <1>a. Alive /\ pc[t] = "read" /\ connected /\ inbox # <<>> /\ inbox' = Tail(inbox)
    BY DEF At, Reading, Received, ReadAckAndFree
  <1>b. /\ hand[t] = "none" /\ PlacesInv /\ HandOk(t)
    BY <1>0, <1>a DEF PlacesInv, HandInv, HandOk, Busy
  <1>c. /\ inbox' \in Seq(Msgs \cup {"PING", "pub", "dup"})
        /\ \A i \in 1 .. Len(inbox') : InSeq(inbox'[i], inbox)
        /\ InSeq(Head(inbox), inbox)
    BY <1>0, <1>a, InboxTail
  <1>1. PICK c : /\ c = Head(inbox) /\ c \in AqItems /\ c \in Chunks /\ InSeq(c, aq)
                 /\ aq' \in Seq(AqItems) /\ Popped(aq', aq, c)
                 /\ c \in Msgs => c \in got
                 /\ c \in async
    <2>1. aq \in Seq(AqItems)
      BY <1>0 DEF TypeOK, AqItems
    <2>2. InSeq(Head(inbox), aq) /\ aq' = Drop(Head(inbox), aq)
      BY DEF ReadAckAndFree
    <2>3. /\ Drop(Head(inbox), aq) \in Seq(AqItems) /\ Head(inbox) \in AqItems
          /\ Popped(Drop(Head(inbox), aq), aq, Head(inbox))
      BY <2>1, <2>2, PopFacts
    <2>4. Head(inbox) \in Msgs => Head(inbox) \in got
      BY <1>b, <1>c DEF PlacesInv, InboxInv, InSeq
    <2>5. Head(inbox) \in Chunks
      BY <2>3 DEF AqItems, Chunks
    <2> QED
      BY <2>2, <2>3, <2>4, <2>5 DEF ReadAckAndFree, Owned
  <1>2. PICK l \in Steps : /\ l = AfterRead(t)
                           /\ l \notin Busy \cup Unwaited \cup {"check", "event"}
    BY StepsFacts
  <1>3. /\ Alive /\ pc' = [pc EXCEPT ![t] = l]
        /\ hand' = [hand EXCEPT ![t] = "none"]
        /\ pc'[t] = l /\ hand'[t] = "none"
        /\ pc[t] = "read" /\ hand[t] = "none"
        /\ inbox' \in Seq(Msgs \cup {"PING", "pub", "dup"})
        /\ \A i \in 1 .. Len(inbox') : InSeq(inbox'[i], inbox)
        /\ rcvdOn' = TRUE
        /\ st' \in [Chunks -> ChunkStates]
        /\ \A x \in Chunks : x # c => st'[x] = st[x]
        /\ c \in Chunks => st'[c] = "freed"
        /\ timer' \in [Chunks -> {"none", "active", "expired"}]
        /\ tries' \in [Chunks -> 0 .. PublishRetry]
        /\ \A x \in Chunks : x # c => tries'[x] = tries[x]
        /\ c \in Chunks => tries'[c] = 0
    <2>1. /\ pc' = [pc EXCEPT ![t] = l] /\ hand' = hand /\ rcvdOn' = TRUE
      BY <1>2 DEF Goto, ReadAckAndFree
    <2>2. /\ hand' = [hand EXCEPT ![t] = "none"] /\ hand'[t] = "none" /\ pc'[t] = l
      BY <1>0, <1>b, <2>1 DEF TypeOK
    <2>3. /\ st' = [st EXCEPT ![c] = "freed"] /\ timer' = [timer EXCEPT ![c] = "none"]
          /\ tries' = [tries EXCEPT ![c] = 0]
      BY <1>1 DEF Free, ReadAckAndFree
    <2>4. /\ st' \in [Chunks -> ChunkStates] /\ st'[c] = "freed"
          /\ timer' \in [Chunks -> {"none", "active", "expired"}]
          /\ tries' \in [Chunks -> 0 .. PublishRetry] /\ tries'[c] = 0
          /\ \A x \in Chunks : x # c => st'[x] = st[x] /\ tries'[x] = tries[x]
      BY <1>0, <1>1, <2>3, RetryIsPositive DEF TypeOK, ChunkStates
    <2> QED
      BY <1>a, <1>b, <1>c, <2>1, <2>2, <2>4
  <1>4. /\ connected' = connected /\ link' = link /\ wq' = wq /\ eq' = eq
        /\ failed' = failed /\ waits' = waits /\ readLock' = readLock
        /\ writeLock' = writeLock /\ sentOn' = sentOn /\ works' = works
        /\ handle' = handle /\ magic' = magic /\ outside' = outside
        /\ got' = got /\ result' = result /\ async' = async
        /\ reported' = reported /\ lossTold' = lossTold
    BY DEF ReadAckAndFree, Received
  <1>5. /\ HandOk(t) /\ (c \in Chunks => ChunkOk(c))
        /\ OnceIn(wq) /\ OnceIn(aq) /\ OnceIn(eq)
        /\ PlacesInv /\ AsyncInv /\ WaitInv /\ HandInv /\ async \subseteq Msgs
    BY <1>0, <1>3 DEF TypeOK, PlacesInv, HandInv, QueueInv, Threads
  <1>6. HandsOn(t, c, l, "none")
    <2>1. \A x \in Chunks : x # c => /\ st'[x] = st[x] /\ tries'[x] = tries[x]
                                     /\ x \in async' <=> x \in async
                                     /\ InSeq(x, wq') <=> InSeq(x, wq)
                                     /\ InSeq(x, aq') <=> InSeq(x, aq)
                                     /\ InSeq(x, eq') <=> InSeq(x, eq)
      BY <1>1, <1>3, <1>4, Names DEF Pushed, Popped
    <2>2. OnceIn(wq') /\ OnceIn(aq') /\ OnceIn(eq')
      BY <1>1, <1>2, <1>3, <1>4, <1>5, Names
      DEF Pushed, Popped, ChunkOk, HandOk, Sending, Failing
    <2>3. c \in Chunks => ChunkOk(c)' /\ st'[c] # "none"
      BY <1>1, <1>2, <1>3, <1>4, <1>5, Names, RetryIsPositive
      DEF Pushed, Popped, ChunkOk, HandOk, Sending, Failing
    <2>4. c \in async' /\ magic' => AccountOk(c)'
      BY <1>1, <1>2, <1>3, <1>4, <1>5, Names
      DEF Pushed, Popped, AccountOk, AsyncInv, Threads
    <2>5. HandOk(t)'
      BY <1>1, <1>2, <1>3, <1>4, <1>5, Names
      DEF Pushed, Popped, ChunkOk, HandOk, Sending, Failing, Busy, WqItems,
          AqItems
    <2>6. \A u \in Threads : u # t => ~ (c \in Chunks /\ Owns(u, c))
      BY <1>1, <1>2, <1>3, <1>4, <1>5, NoOtherOwner
      DEF Owns, HandOk, Sending, Failing, Popped, Threads
    <2>7. \A u \in Threads : u # t /\ Sending(u) => writeLock' = u
      BY <1>3, <1>4, <1>5 DEF HandInv, HandOk, Sending, Threads
    <2>8. \A i \in 1 .. Len(inbox') : inbox'[i] \in Msgs =>
             inbox'[i] \in got' \/ InSeq(inbox'[i], inbox)
      BY <1>3, <1>4 DEF InSeq
    <2>9. /\ async' \subseteq async \cup {c} /\ async' \subseteq Msgs
          /\ c \in async' => c \in async \/ st[c] = "none"
          /\ got \subseteq got' /\ reported \subseteq reported'
          /\ magic' = magic /\ l # "joining"
          /\ "none" \in {c, "none"} /\ (hand[t] \in async => hand[t] = c)
      BY <1>1, <1>2, <1>3, <1>4, <1>5, Names DEF HandOk, Busy, Unwaited, Ending
    <2> QED
      BY <1>3, <2>1, <2>2, <2>3, <2>4, <2>5, <2>6, <2>7, <2>8, <2>9 DEF HandsOn
  <1>7. WaitsOn(t, c, l)
    BY <1>1, <1>2, <1>3, <1>4, <1>5, Names
    DEF WaitsOn, WaitInv, ChunkOk, HandOk, Popped, Unwaited, Ending, Threads
  <1>8. TypeOK'
    BY <1>0, <1>1, <1>2, <1>3, <1>4, Names
    DEF TypeOK, ChunkStates, Steps, Threads, WqItems, AqItems, EqItems
  <1>9. ClosedIsReported'
    <2>1. /\ pc' = [pc EXCEPT ![t] = l] /\ pc[t] # "event" /\ pc[t] # "closed"
          /\ connected' = connected /\ magic' = magic /\ lossTold' = lossTold
      BY <1>1, <1>2, <1>3, <1>4, Names DEF Ending
    <2>2. InSeq("disconnected", eq) => InSeq("disconnected", eq')
      BY <1>1, <1>2, <1>3, <1>4, Names DEF Pushed, Popped
    <2> QED
      BY <1>0, <2>1, <2>2, ClosedKept
  <1>10. \A m \in Msgs : result'[m] = "ok" => m \in got'
    BY <1>3, <1>4 DEF ClientInv
  <1> QED
    BY <1>3, <1>6, <1>7, <1>8, <1>9, <1>10, HandStep DEF Threads

\* The ack of a packet that a call waits for.
LEMMA ReadAckKeeps ==
    ASSUME ClientInv, NEW t \in Threads, ReadAck(t)
    PROVE  ClientInv'
  <1> USE DEF net, queues, chunk, threads, locks, idle, life, told
  <1>0. TypeOK /\ ClosedIsReported /\ (Alive => PlacesInv /\ AsyncInv)
    BY DEF ClientInv
  <1>a. Alive /\ pc[t] = "read" /\ connected /\ inbox # <<>> /\ inbox' = Tail(inbox)
    BY DEF At, Reading, Received, ReadAck
  <1>b. /\ hand[t] = "none" /\ PlacesInv /\ HandOk(t)
    BY <1>0, <1>a DEF PlacesInv, HandInv, HandOk, Busy
  <1>c. /\ inbox' \in Seq(Msgs \cup {"PING", "pub", "dup"})
        /\ \A i \in 1 .. Len(inbox') : InSeq(inbox'[i], inbox)
        /\ InSeq(Head(inbox), inbox)
    BY <1>0, <1>a, InboxTail
  <1>1. PICK c : /\ c = Head(inbox) /\ c \in AqItems /\ c \in Chunks /\ InSeq(c, aq)
                 /\ aq' \in Seq(AqItems) /\ Popped(aq', aq, c)
                 /\ c \in Msgs => c \in got
                 /\ c \notin async
    <2>1. aq \in Seq(AqItems)
      BY <1>0 DEF TypeOK, AqItems
    <2>2. InSeq(Head(inbox), aq) /\ aq' = Drop(Head(inbox), aq)
      BY DEF ReadAck
    <2>3. /\ Drop(Head(inbox), aq) \in Seq(AqItems) /\ Head(inbox) \in AqItems
          /\ Popped(Drop(Head(inbox), aq), aq, Head(inbox))
      BY <2>1, <2>2, PopFacts
    <2>4. Head(inbox) \in Msgs => Head(inbox) \in got
      BY <1>b, <1>c DEF PlacesInv, InboxInv, InSeq
    <2>5. Head(inbox) \in Chunks
      BY <2>3 DEF AqItems, Chunks
    <2> QED
      BY <2>2, <2>3, <2>4, <2>5 DEF ReadAck, Owned
  <1>3. /\ Alive /\ pc' = [pc EXCEPT ![t] = "acked"]
        /\ hand' = [hand EXCEPT ![t] = c]
        /\ pc'[t] = "acked" /\ hand'[t] = c
        /\ pc[t] = "read" /\ hand[t] = "none"
        /\ inbox' \in Seq(Msgs \cup {"PING", "pub", "dup"})
        /\ \A i \in 1 .. Len(inbox') : InSeq(inbox'[i], inbox)
        /\ readLock' = t
        /\ st' \in [Chunks -> ChunkStates]
        /\ \A x \in Chunks : x # c => st'[x] = st[x]
        /\ c \in Chunks => st'[c] = "ACKNOWLEDGED"
    <2>1. /\ pc' = [pc EXCEPT ![t] = "acked"] /\ hand' = [hand EXCEPT ![t] = c]
          /\ readLock' = t /\ st' = [st EXCEPT ![c] = "ACKNOWLEDGED"]
      BY <1>1 DEF Goto, ReadAck
    <2>2. /\ hand'[t] = c /\ pc'[t] = "acked"
          /\ st' \in [Chunks -> ChunkStates] /\ st'[c] = "ACKNOWLEDGED"
          /\ \A x \in Chunks : x # c => st'[x] = st[x]
      BY <1>0, <1>1, <2>1 DEF TypeOK, ChunkStates
    <2> QED
      BY <1>a, <1>b, <1>c, <2>1, <2>2
  <1>4. /\ connected' = connected /\ link' = link /\ wq' = wq /\ eq' = eq
        /\ timer' = timer /\ tries' = tries /\ failed' = failed
        /\ waits' = waits /\ writeLock' = writeLock /\ sentOn' = sentOn
        /\ rcvdOn' = rcvdOn /\ works' = works /\ handle' = handle
        /\ magic' = magic /\ outside' = outside /\ got' = got
        /\ result' = result /\ async' = async /\ reported' = reported
        /\ lossTold' = lossTold
    BY DEF ReadAck, Received
  <1>5. /\ HandOk(t) /\ (c \in Chunks => ChunkOk(c))
        /\ OnceIn(wq) /\ OnceIn(aq) /\ OnceIn(eq)
        /\ PlacesInv /\ AsyncInv /\ WaitInv /\ HandInv /\ async \subseteq Msgs
    BY <1>0, <1>3 DEF TypeOK, PlacesInv, HandInv, QueueInv, Threads
  <1>6. HandsOn(t, c, "acked", c)
    <2>1. \A x \in Chunks : x # c => /\ st'[x] = st[x] /\ tries'[x] = tries[x]
                                     /\ x \in async' <=> x \in async
                                     /\ InSeq(x, wq') <=> InSeq(x, wq)
                                     /\ InSeq(x, aq') <=> InSeq(x, aq)
                                     /\ InSeq(x, eq') <=> InSeq(x, eq)
      BY <1>1, <1>3, <1>4, Names DEF Pushed, Popped
    <2>2. OnceIn(wq') /\ OnceIn(aq') /\ OnceIn(eq')
      BY <1>1, <1>3, <1>4, <1>5, Names
      DEF Pushed, Popped, ChunkOk, HandOk, Sending, Failing
    <2>3. c \in Chunks => ChunkOk(c)' /\ st'[c] # "none"
      BY <1>1, <1>3, <1>4, <1>5, Names, RetryIsPositive
      DEF Pushed, Popped, ChunkOk, HandOk, Sending, Failing
    <2>4. c \in async' /\ magic' => AccountOk(c)'
      BY <1>1, <1>3, <1>4, <1>5, Names
      DEF Pushed, Popped, AccountOk, AsyncInv, Threads
    <2>5. HandOk(t)'
      <3>1. /\ pc'[t] = "acked" /\ hand'[t] = c /\ c \in AqItems
            /\ c \notin async' /\ st'[c] # "none"
        BY <1>1, <1>3, <1>4
      <3> QED
        BY <3>1 DEF HandOk, Sending, Failing, Busy, AqItems
    <2>6. \A u \in Threads : u # t => ~ (c \in Chunks /\ Owns(u, c))
      BY <1>1, <1>3, <1>4, <1>5, NoOtherOwner
      DEF Owns, HandOk, Sending, Failing, Popped, Threads
    <2>7. \A u \in Threads : u # t /\ Sending(u) => writeLock' = u
      BY <1>3, <1>4, <1>5 DEF HandInv, HandOk, Sending, Threads
    <2>8. \A i \in 1 .. Len(inbox') : inbox'[i] \in Msgs =>
             inbox'[i] \in got' \/ InSeq(inbox'[i], inbox)
      BY <1>3, <1>4 DEF InSeq
    <2>9. /\ async' \subseteq async \cup {c} /\ async' \subseteq Msgs
          /\ c \in async' => c \in async \/ st[c] = "none"
          /\ got \subseteq got' /\ reported \subseteq reported'
          /\ magic' = magic /\ "acked" # "joining"
          /\ c \in {c, "none"} /\ (hand[t] \in async => hand[t] = c)
      BY <1>1, <1>3, <1>4, <1>5, Names DEF HandOk, Busy, Unwaited, Ending
    <2> QED
      BY <1>3, <2>1, <2>2, <2>3, <2>4, <2>5, <2>6, <2>7, <2>8, <2>9 DEF HandsOn
  <1>7. WaitsOn(t, c, "acked")
    BY <1>1, <1>3, <1>4, <1>5, Names
    DEF WaitsOn, WaitInv, ChunkOk, HandOk, Popped, Unwaited, Ending, Threads
  <1>8. TypeOK'
    BY <1>0, <1>1, <1>3, <1>4, Names
    DEF TypeOK, ChunkStates, Steps, Threads, WqItems, AqItems, EqItems
  <1>9. ClosedIsReported'
    BY <1>0, <1>1, <1>3, <1>4, ClosedKept, Names
    DEF Steps, Threads, Ending, Pushed, Popped
  <1>10. \A m \in Msgs : result'[m] = "ok" => m \in got'
    BY <1>3, <1>4 DEF ClientInv
  <1> QED
    BY <1>3, <1>6, <1>7, <1>8, <1>9, <1>10, HandStep DEF Steps, Threads

\* The last lines of the ack.
LEMMA AckedTimerKeeps ==
    ASSUME ClientInv, NEW t \in Threads, AckedTimer(t)
    PROVE  ClientInv'
  <1> USE DEF net, queues, chunk, threads, locks, idle, life, told
  <1>0. TypeOK /\ ClosedIsReported /\ (Alive => PlacesInv /\ AsyncInv)
    BY DEF ClientInv
  <1>1. PICK c : c = "none"
    OBVIOUS
  <1>2. PICK l \in Steps : /\ l = AfterRead(t)
                           /\ l \notin Busy \cup Unwaited \cup {"check", "event"}
    BY StepsFacts
  <1>3. /\ Alive /\ pc' = [pc EXCEPT ![t] = l]
        /\ hand' = [hand EXCEPT ![t] = "none"]
        /\ pc'[t] = l /\ hand'[t] = "none"
        /\ pc[t] = "acked" /\ hand[t] \notin async
        /\ timer' \in [Chunks -> {"none", "active", "expired"}]
        /\ readLock' = "none"
        /\ rcvdOn' \in BOOLEAN
    <2>1. /\ Alive /\ pc[t] = "acked" /\ pc' = [pc EXCEPT ![t] = l]
          /\ hand' = [hand EXCEPT ![t] = "none"]
          /\ timer' = [timer EXCEPT ![hand[t]] = "none"] /\ readLock' = "none"
      BY <1>2 DEF At, Goto, AckedTimer
    <2>2. rcvdOn' \in BOOLEAN
      BY DEF AckedTimer
    <2>3. hand[t] \notin async
      BY <1>0, <2>1 DEF PlacesInv, HandInv, HandOk
    <2>4. /\ pc'[t] = l /\ hand'[t] = "none"
          /\ timer' \in [Chunks -> {"none", "active", "expired"}]
      BY <1>0, <2>1 DEF TypeOK
    <2> QED
      BY <2>1, <2>2, <2>3, <2>4
  <1>4. /\ connected' = connected /\ link' = link /\ inbox' = inbox
        /\ wq' = wq /\ aq' = aq /\ eq' = eq /\ st' = st /\ tries' = tries
        /\ failed' = failed /\ waits' = waits /\ writeLock' = writeLock
        /\ sentOn' = sentOn /\ works' = works /\ handle' = handle
        /\ magic' = magic /\ outside' = outside /\ got' = got
        /\ result' = result /\ async' = async /\ reported' = reported
        /\ lossTold' = lossTold
    BY DEF AckedTimer
  <1>5. /\ HandOk(t) /\ (c \in Chunks => ChunkOk(c))
        /\ OnceIn(wq) /\ OnceIn(aq) /\ OnceIn(eq)
        /\ PlacesInv /\ AsyncInv /\ WaitInv /\ HandInv /\ async \subseteq Msgs
    BY <1>0, <1>3 DEF TypeOK, PlacesInv, HandInv, QueueInv, Threads
  <1>6. HandsOn(t, c, l, "none")
    <2>1. \A x \in Chunks : x # c => /\ st'[x] = st[x] /\ tries'[x] = tries[x]
                                     /\ x \in async' <=> x \in async
                                     /\ InSeq(x, wq') <=> InSeq(x, wq)
                                     /\ InSeq(x, aq') <=> InSeq(x, aq)
                                     /\ InSeq(x, eq') <=> InSeq(x, eq)
      BY <1>1, <1>3, <1>4, Names DEF Pushed, Popped
    <2>2. OnceIn(wq') /\ OnceIn(aq') /\ OnceIn(eq')
      BY <1>1, <1>2, <1>3, <1>4, <1>5, Names
      DEF Pushed, Popped, ChunkOk, HandOk, Sending, Failing
    <2>3. c \in Chunks => ChunkOk(c)' /\ st'[c] # "none"
      BY <1>1, <1>2, <1>3, <1>4, <1>5, Names, RetryIsPositive
      DEF Pushed, Popped, ChunkOk, HandOk, Sending, Failing
    <2>4. c \in async' /\ magic' => AccountOk(c)'
      BY <1>1, <1>2, <1>3, <1>4, <1>5, Names
      DEF Pushed, Popped, AccountOk, AsyncInv, Threads
    <2>5. HandOk(t)'
      BY <1>1, <1>2, <1>3, <1>4, <1>5, Names
      DEF Pushed, Popped, ChunkOk, HandOk, Sending, Failing, Busy, WqItems,
          AqItems
    <2>6. \A u \in Threads : u # t => ~ (c \in Chunks /\ Owns(u, c))
      BY <1>1, Names
    <2>7. \A u \in Threads : u # t /\ Sending(u) => writeLock' = u
      BY <1>3, <1>4, <1>5 DEF HandInv, HandOk, Sending, Threads
    <2>8. \A i \in 1 .. Len(inbox') : inbox'[i] \in Msgs =>
             inbox'[i] \in got' \/ InSeq(inbox'[i], inbox)
      BY <1>3, <1>4 DEF InSeq
    <2>9. /\ async' \subseteq async \cup {c} /\ async' \subseteq Msgs
          /\ c \in async' => c \in async \/ st[c] = "none"
          /\ got \subseteq got' /\ reported \subseteq reported'
          /\ magic' = magic /\ l # "joining"
          /\ "none" \in {c, "none"} /\ (hand[t] \in async => hand[t] = c)
      BY <1>1, <1>2, <1>3, <1>4, <1>5, Names DEF HandOk, Busy, Unwaited, Ending
    <2> QED
      BY <1>3, <2>1, <2>2, <2>3, <2>4, <2>5, <2>6, <2>7, <2>8, <2>9 DEF HandsOn
  <1>7. WaitsOn(t, c, l)
    BY <1>1, <1>2, <1>3, <1>4, <1>5, Names
    DEF WaitsOn, WaitInv, ChunkOk, HandOk, Popped, Unwaited, Ending, Threads
  <1>8. TypeOK'
    BY <1>0, <1>1, <1>2, <1>3, <1>4, Names
    DEF TypeOK, ChunkStates, Steps, Threads, WqItems, AqItems, EqItems
  <1>9. ClosedIsReported'
    <2>1. /\ pc' = [pc EXCEPT ![t] = l] /\ pc[t] # "event" /\ pc[t] # "closed"
          /\ connected' = connected /\ magic' = magic /\ lossTold' = lossTold
      BY <1>1, <1>2, <1>3, <1>4, Names DEF Ending
    <2>2. InSeq("disconnected", eq) => InSeq("disconnected", eq')
      BY <1>1, <1>2, <1>3, <1>4, Names DEF Pushed, Popped
    <2> QED
      BY <1>0, <2>1, <2>2, ClosedKept
  <1>10. \A m \in Msgs : result'[m] = "ok" => m \in got'
    BY <1>3, <1>4 DEF ClientInv
  <1> QED
    BY <1>3, <1>6, <1>7, <1>8, <1>9, <1>10, HandStep DEF Threads

\* A packet whose ack is overdue.
LEMMA PopExpiredKeeps ==
    ASSUME ClientInv, NEW t \in Threads, PopExpired(t)
    PROVE  ClientInv'
  <1> USE DEF net, queues, chunk, threads, locks, idle, life, told
  <1>0. TypeOK /\ ClosedIsReported /\ (Alive => PlacesInv /\ AsyncInv)
    BY DEF ClientInv
  <1>1. PICK c : /\ c \in AqItems /\ c \in Chunks /\ InSeq(c, aq)
                 /\ aq' \in Seq(AqItems) /\ Popped(aq', aq, c)
                 /\ hand' = [hand EXCEPT ![t] = c]
    <2>1. aq \in Seq(AqItems)
      BY <1>0 DEF TypeOK, AqItems
    <2>2. PICK i \in 1 .. Len(aq) : /\ hand' = [hand EXCEPT ![t] = aq[i]]
                                    /\ aq' = Unlink(i, aq)
      BY DEF PopExpired, Expired
    <2>3. /\ Unlink(i, aq) \in Seq(AqItems) /\ aq[i] \in AqItems
          /\ Popped(Unlink(i, aq), aq, aq[i])
      BY <2>1, PopFacts
    <2>4. InSeq(aq[i], aq) /\ aq[i] \in Chunks
      BY <2>3 DEF InSeq, AqItems, Chunks
    <2> QED
      BY <2>2, <2>3, <2>4
  <1>3. /\ Alive /\ pc' = [pc EXCEPT ![t] = "retry"]
        /\ hand' = [hand EXCEPT ![t] = c]
        /\ pc'[t] = "retry" /\ hand'[t] = c
        /\ pc[t] = "expiry" /\ hand[t] = "none"
    <2>1. /\ Alive /\ pc[t] = "expiry" /\ pc' = [pc EXCEPT ![t] = "retry"]
      BY DEF At, Goto, PopExpired
    <2>2. hand[t] = "none"
      BY <1>0, <2>1 DEF PlacesInv, HandInv, HandOk, Busy
    <2> QED
      BY <1>0, <1>1, <2>1, <2>2 DEF TypeOK
  <1>4. /\ connected' = connected /\ link' = link /\ inbox' = inbox
        /\ wq' = wq /\ eq' = eq /\ st' = st /\ timer' = timer
        /\ tries' = tries /\ failed' = failed /\ waits' = waits
        /\ readLock' = readLock /\ writeLock' = writeLock
        /\ sentOn' = sentOn /\ rcvdOn' = rcvdOn /\ works' = works
        /\ handle' = handle /\ magic' = magic /\ outside' = outside
        /\ got' = got /\ result' = result /\ async' = async
        /\ reported' = reported /\ lossTold' = lossTold
    BY DEF PopExpired
  <1>5. /\ HandOk(t) /\ (c \in Chunks => ChunkOk(c))
        /\ OnceIn(wq) /\ OnceIn(aq) /\ OnceIn(eq)
        /\ PlacesInv /\ AsyncInv /\ WaitInv /\ HandInv /\ async \subseteq Msgs
    BY <1>0, <1>3 DEF TypeOK, PlacesInv, HandInv, QueueInv, Threads
  <1>6. HandsOn(t, c, "retry", c)
    <2>1. \A x \in Chunks : x # c => /\ st'[x] = st[x] /\ tries'[x] = tries[x]
                                     /\ x \in async' <=> x \in async
                                     /\ InSeq(x, wq') <=> InSeq(x, wq)
                                     /\ InSeq(x, aq') <=> InSeq(x, aq)
                                     /\ InSeq(x, eq') <=> InSeq(x, eq)
      BY <1>1, <1>3, <1>4, Names DEF Pushed, Popped
    <2>2. OnceIn(wq') /\ OnceIn(aq') /\ OnceIn(eq')
      BY <1>1, <1>3, <1>4, <1>5, Names
      DEF Pushed, Popped, ChunkOk, HandOk, Sending, Failing
    <2>3. c \in Chunks => ChunkOk(c)' /\ st'[c] # "none"
      BY <1>1, <1>3, <1>4, <1>5, Names, RetryIsPositive
      DEF Pushed, Popped, ChunkOk, HandOk, Sending, Failing
    <2>4. c \in async' /\ magic' => AccountOk(c)'
      BY <1>1, <1>3, <1>4, <1>5, Names
      DEF Pushed, Popped, AccountOk, AsyncInv, Threads
    <2>5. HandOk(t)'
      BY <1>1, <1>3, <1>4, <1>5, Names
      DEF Pushed, Popped, ChunkOk, HandOk, Sending, Failing, Busy, WqItems,
          AqItems
    <2>6. \A u \in Threads : u # t => ~ (c \in Chunks /\ Owns(u, c))
      BY <1>1, <1>3, <1>4, <1>5, NoOtherOwner
      DEF Owns, HandOk, Sending, Failing, Popped, Threads
    <2>7. \A u \in Threads : u # t /\ Sending(u) => writeLock' = u
      BY <1>3, <1>4, <1>5 DEF HandInv, HandOk, Sending, Threads
    <2>8. \A i \in 1 .. Len(inbox') : inbox'[i] \in Msgs =>
             inbox'[i] \in got' \/ InSeq(inbox'[i], inbox)
      BY <1>3, <1>4 DEF InSeq
    <2>9. /\ async' \subseteq async \cup {c} /\ async' \subseteq Msgs
          /\ c \in async' => c \in async \/ st[c] = "none"
          /\ got \subseteq got' /\ reported \subseteq reported'
          /\ magic' = magic /\ "retry" # "joining"
          /\ c \in {c, "none"} /\ (hand[t] \in async => hand[t] = c)
      BY <1>1, <1>3, <1>4, <1>5, Names DEF HandOk, Busy, Unwaited, Ending
    <2> QED
      BY <1>3, <2>1, <2>2, <2>3, <2>4, <2>5, <2>6, <2>7, <2>8, <2>9 DEF HandsOn
  <1>7. WaitsOn(t, c, "retry")
    BY <1>1, <1>3, <1>4, <1>5, Names
    DEF WaitsOn, WaitInv, ChunkOk, HandOk, Popped, Unwaited, Ending, Threads
  <1>8. TypeOK'
    <2>1. /\ pc' \in [Threads -> Steps]
          /\ hand' \in [Threads -> Chunks \cup {"PUBACK", "none"}]
      <3>1. /\ pc \in [Threads -> Steps]
            /\ hand \in [Threads -> Chunks \cup {"PUBACK", "none"}]
        BY <1>0 DEF TypeOK
      <3> QED
        BY <1>1, <1>3, <3>1 DEF Steps
    <2>2. aq' \in Seq(Msgs \cup {"PING"})
      BY <1>1 DEF AqItems
    <2> QED
      BY <1>0, <1>4, <2>1, <2>2 DEF TypeOK
  <1>9. ClosedIsReported'
    BY <1>0, <1>1, <1>3, <1>4, ClosedKept, Names
    DEF Steps, Threads, Ending, Pushed, Popped
  <1>10. \A m \in Msgs : result'[m] = "ok" => m \in got'
    BY <1>3, <1>4 DEF ClientInv
  <1> QED
    BY <1>3, <1>6, <1>7, <1>8, <1>9, <1>10, HandStep DEF Steps, Threads

\* It is written again or given up.
LEMMA RetryKeeps ==
    ASSUME ClientInv, NEW t \in Threads, Retry(t)
    PROVE  ClientInv'
  <1> USE DEF net, queues, chunk, threads, locks, idle, life, told
  <1>0. TypeOK /\ ClosedIsReported /\ (Alive => PlacesInv /\ AsyncInv)
    BY DEF ClientInv
  <1>a. /\ Alive /\ pc[t] = "retry" /\ HandOk(t) /\ ChunkOk(hand[t])
        /\ hand[t] \in AqItems /\ hand[t] \in Chunks
        /\ tries[hand[t]] < PublishRetry /\ tries[hand[t]] \in Nat
        /\ async \subseteq Msgs
    <2>1. Alive /\ pc[t] = "retry"
      BY DEF At, Retry
    <2>2. HandOk(t)
      BY <1>0, <2>1 DEF PlacesInv, HandInv
    <2>3. /\ hand[t] \in AqItems /\ hand[t] \in Chunks
          /\ st[hand[t]] = "ACK_PENDING"
      BY <2>1, <2>2 DEF HandOk, AqItems, Chunks
    <2>4. ChunkOk(hand[t])
      BY <1>0, <2>1, <2>3 DEF PlacesInv, QueueInv
    <2>5. tries[hand[t]] \in 0 .. PublishRetry /\ async \subseteq Msgs
      BY <1>0, <2>3 DEF TypeOK
    <2> QED
      BY <2>1, <2>2, <2>3, <2>4, <2>5, RetryIsPositive DEF ChunkOk
  <1>1. CASE ~ magic /\ (tries[hand[t]] + 1 < PublishRetry \/ ~ Owned(hand[t]))
    <2>1. PICK c : /\ c = hand[t] /\ c \in AqItems
                   /\ c \in AqItems /\ c \in Chunks /\ tries[c] \in Nat
                   /\ ~ magic
      BY <1>a, <1>1 DEF Owned
    <2>3. /\ Alive /\ pc' = [pc EXCEPT ![t] = "expiry"]
          /\ hand' = [hand EXCEPT ![t] = "none"]
          /\ pc'[t] = "expiry" /\ hand'[t] = "none"
          /\ pc[t] = "retry" /\ hand[t] = c
          /\ st' \in [Chunks -> ChunkStates]
          /\ \A x \in Chunks : x # c => st'[x] = st[x]
          /\ c \in Chunks => st'[c] = "freed"
          /\ tries' \in [Chunks -> 0 .. PublishRetry]
          /\ \A x \in Chunks : x # c => tries'[x] = tries[x]
          /\ c \in Chunks => tries'[c] = 0
          /\ timer' \in [Chunks -> {"none", "active", "expired"}]
      <3>1. /\ pc[t] = "retry" /\ hand[t] = c /\ pc' = [pc EXCEPT ![t] = "expiry"]
            /\ hand' = [hand EXCEPT ![t] = "none"]
        BY <1>a, <2>1 DEF Goto, Retry
      <3>2. /\ pc'[t] = "expiry" /\ hand'[t] = "none"
        BY <1>0, <3>1 DEF TypeOK
      <3>3. /\ st' = [st EXCEPT ![c] = "freed"]
            /\ tries' = [tries EXCEPT ![c] = 0]
            /\ timer' = [timer EXCEPT ![c] = "none"]
        BY <2>1, <1>1 DEF Retry, Free
      <3>4. /\ st' \in [Chunks -> ChunkStates] /\ st'[c] = "freed"
            /\ \A x \in Chunks : x # c => st'[x] = st[x]
        <4>1. st \in [Chunks -> ChunkStates]
          BY <1>0 DEF TypeOK
        <4> QED
          BY <2>1, <3>3, <4>1 DEF ChunkStates
      <3>5. /\ tries' \in [Chunks -> 0 .. PublishRetry] /\ tries'[c] = 0
            /\ \A x \in Chunks : x # c => tries'[x] = tries[x]
        <4>1. tries \in [Chunks -> 0 .. PublishRetry] /\ tries[c] < PublishRetry
          BY <1>0, <1>a, <2>1 DEF TypeOK
        <4> HIDE MqttClientAssumption
        <4> QED
          BY <2>1, <3>3, <4>1, RetryIsPositive
      <3>6. timer' \in [Chunks -> {"none", "active", "expired"}]
        BY <1>0, <3>3 DEF TypeOK
      <3> QED
        BY <1>a, <3>1, <3>2, <3>4, <3>5, <3>6
    <2>4. /\ connected' = connected /\ link' = link /\ inbox' = inbox
          /\ wq' = wq /\ aq' = aq /\ eq' = eq /\ failed' = failed
          /\ waits' = waits /\ readLock' = readLock
          /\ writeLock' = writeLock /\ sentOn' = sentOn /\ rcvdOn' = rcvdOn
          /\ works' = works /\ handle' = handle /\ magic' = magic
          /\ outside' = outside /\ got' = got /\ result' = result
          /\ async' = async /\ reported' = reported /\ lossTold' = lossTold
      BY <1>1 DEF Free, Retry
    <2>5. /\ HandOk(t) /\ (c \in Chunks => ChunkOk(c))
          /\ OnceIn(wq) /\ OnceIn(aq) /\ OnceIn(eq)
          /\ PlacesInv /\ AsyncInv /\ WaitInv /\ HandInv /\ async \subseteq Msgs
      BY <1>0, <2>3 DEF TypeOK, PlacesInv, HandInv, QueueInv, Threads
    <2>6. HandsOn(t, c, "expiry", "none")
      <3>1. \A x \in Chunks : x # c => /\ st'[x] = st[x] /\ tries'[x] = tries[x]
                                       /\ x \in async' <=> x \in async
                                       /\ InSeq(x, wq') <=> InSeq(x, wq)
                                       /\ InSeq(x, aq') <=> InSeq(x, aq)
                                       /\ InSeq(x, eq') <=> InSeq(x, eq)
        BY <2>1, <2>3, <2>4, Names DEF Pushed, Popped
      <3>2. OnceIn(wq') /\ OnceIn(aq') /\ OnceIn(eq')
        BY <2>1, <2>3, <2>4, <2>5, Names
        DEF Pushed, Popped, ChunkOk, HandOk, Sending, Failing
      <3>3. c \in Chunks => ChunkOk(c)' /\ st'[c] # "none"
        BY <2>1, <2>3, <2>4, <2>5, Names, RetryIsPositive
        DEF Pushed, Popped, ChunkOk, HandOk, Sending, Failing
      <3>4. c \in async' /\ magic' => AccountOk(c)'
        BY <2>1, <2>3, <2>4, <2>5, Names
        DEF Pushed, Popped, AccountOk, AsyncInv, Threads
      <3>5. HandOk(t)'
        BY <2>1, <2>3, <2>4, <2>5, Names
        DEF Pushed, Popped, ChunkOk, HandOk, Sending, Failing, Busy, WqItems,
            AqItems
      <3>6. \A u \in Threads : u # t => ~ (c \in Chunks /\ Owns(u, c))
        <4>1. ASSUME c \in Chunks
              PROVE  \/ Owns(t, c)
                     \/ InSeq(c, wq) \/ InSeq(c, aq) \/ InSeq(c, eq)
                     \/ st[c] \notin {"WRITE_PENDING", "ACK_PENDING", "WRITE_FAIL"}
                     \/ st[c] = "WRITE_FAIL" /\ c \notin async
          BY <2>1, <2>3, <2>4, <2>5, <4>1 DEF Owns, HandOk, Sending, Failing, Popped
        <4> QED
          BY <2>5, <4>1, NoOtherOwner
      <3>7. \A u \in Threads : u # t /\ Sending(u) => writeLock' = u
        BY <2>3, <2>4, <2>5 DEF HandInv, HandOk, Sending, Threads
      <3>8. \A i \in 1 .. Len(inbox') : inbox'[i] \in Msgs =>
               inbox'[i] \in got' \/ InSeq(inbox'[i], inbox)
        BY <2>3, <2>4 DEF InSeq
      <3>9. /\ async' \subseteq async \cup {c} /\ async' \subseteq Msgs
            /\ c \in async' => c \in async \/ st[c] = "none"
            /\ got \subseteq got' /\ reported \subseteq reported'
            /\ magic' = magic /\ "expiry" # "joining"
            /\ "none" \in {c, "none"} /\ (hand[t] \in async => hand[t] = c)
        BY <2>1, <2>3, <2>4, <2>5, Names DEF HandOk, Busy, Unwaited, Ending
      <3> QED
        BY <2>3, <3>1, <3>2, <3>3, <3>4, <3>5, <3>6, <3>7, <3>8, <3>9
        DEF HandsOn
    <2>7. WaitsOn(t, c, "expiry")
      BY <2>1, <2>3, <2>4, <2>5, Names
      DEF WaitsOn, WaitInv, ChunkOk, HandOk, Popped, Unwaited, Ending, Threads
    <2>8. TypeOK'
      BY <1>0, <2>1, <2>3, <2>4, Names
      DEF TypeOK, ChunkStates, Steps, Threads, WqItems, AqItems, EqItems
    <2>9. ClosedIsReported'
      BY <1>0, <2>1, <2>3, <2>4, ClosedKept, Names
      DEF Steps, Threads, Ending, Pushed, Popped
    <2>10. \A m \in Msgs : result'[m] = "ok" => m \in got'
      BY <2>3, <2>4 DEF ClientInv
    <2> QED
      BY <2>3, <2>6, <2>7, <2>8, <2>9, <2>10, HandStep DEF Steps, Threads
  <1>2. CASE magic /\ tries[hand[t]] + 1 < PublishRetry
    <2>1. PICK c : /\ c = hand[t] /\ c \in WqItems
                   /\ wq' \in Seq(WqItems) /\ Pushed(wq', wq, c)
                   /\ c \in AqItems /\ c \in Chunks /\ tries[c] \in Nat
                   /\ tries[c] + 1 < PublishRetry
      <3>1. wq \in Seq(WqItems)
        BY <1>0 DEF TypeOK, WqItems
      <3>2. hand[t] \in WqItems
        BY <1>a, <1>2 DEF AqItems, WqItems, EqItems, Chunks, Owned
      <3>3. /\ Append(wq, hand[t]) \in Seq(WqItems)
            /\ Pushed(Append(wq, hand[t]), wq, hand[t])
        BY <3>1, <3>2, PushFacts
      <3>4. wq' = Append(wq, hand[t])
        BY <1>2 DEF Retry
      <3> QED
        BY <3>2, <3>3, <3>4, <1>a, <1>2 DEF Owned
    <2>3. /\ Alive /\ pc' = [pc EXCEPT ![t] = "expiry"]
          /\ hand' = [hand EXCEPT ![t] = "none"]
          /\ pc'[t] = "expiry" /\ hand'[t] = "none"
          /\ pc[t] = "retry" /\ hand[t] = c
          /\ st' \in [Chunks -> ChunkStates]
          /\ \A x \in Chunks : x # c => st'[x] = st[x]
          /\ c \in Chunks => st'[c] = "WRITE_PENDING"
          /\ tries' \in [Chunks -> 0 .. PublishRetry]
          /\ \A x \in Chunks : x # c => tries'[x] = tries[x]
          /\ c \in Chunks => tries'[c] = tries[c] + 1
      <3>1. /\ pc[t] = "retry" /\ hand[t] = c /\ pc' = [pc EXCEPT ![t] = "expiry"]
            /\ hand' = [hand EXCEPT ![t] = "none"]
        BY <1>a, <2>1 DEF Goto, Retry
      <3>2. /\ pc'[t] = "expiry" /\ hand'[t] = "none"
        BY <1>0, <3>1 DEF TypeOK
      <3>3. /\ st' = [st EXCEPT ![c] = "WRITE_PENDING"]
            /\ tries' = [tries EXCEPT ![c] = @ + 1]
        BY <2>1, <1>2 DEF Retry, Free
      <3>4. /\ st' \in [Chunks -> ChunkStates] /\ st'[c] = "WRITE_PENDING"
            /\ \A x \in Chunks : x # c => st'[x] = st[x]
        <4>1. st \in [Chunks -> ChunkStates]
          BY <1>0 DEF TypeOK
        <4> QED
          BY <2>1, <3>3, <4>1 DEF ChunkStates
      <3>5. /\ tries' \in [Chunks -> 0 .. PublishRetry] /\ tries'[c] = tries[c] + 1
            /\ \A x \in Chunks : x # c => tries'[x] = tries[x]
        <4>1. tries \in [Chunks -> 0 .. PublishRetry] /\ tries[c] < PublishRetry
          BY <1>0, <1>a, <2>1 DEF TypeOK
        <4> HIDE MqttClientAssumption
        <4> QED
          BY <2>1, <3>3, <4>1, RetryIsPositive
      <3> QED
        BY <1>a, <3>1, <3>2, <3>4, <3>5
    <2>4. /\ connected' = connected /\ link' = link /\ inbox' = inbox
          /\ aq' = aq /\ eq' = eq /\ timer' = timer /\ failed' = failed
          /\ waits' = waits /\ readLock' = readLock
          /\ writeLock' = writeLock /\ sentOn' = sentOn /\ rcvdOn' = rcvdOn
          /\ works' = works /\ handle' = handle /\ magic' = magic
          /\ outside' = outside /\ got' = got /\ result' = result
          /\ async' = async /\ reported' = reported /\ lossTold' = lossTold
      BY <1>2 DEF Free, Retry
    <2>5. /\ HandOk(t) /\ (c \in Chunks => ChunkOk(c))
          /\ OnceIn(wq) /\ OnceIn(aq) /\ OnceIn(eq)
          /\ PlacesInv /\ AsyncInv /\ WaitInv /\ HandInv /\ async \subseteq Msgs
      BY <1>0, <2>3 DEF TypeOK, PlacesInv, HandInv, QueueInv, Threads
    <2>6. HandsOn(t, c, "expiry", "none")
      <3>1. \A x \in Chunks : x # c => /\ st'[x] = st[x] /\ tries'[x] = tries[x]
                                       /\ x \in async' <=> x \in async
                                       /\ InSeq(x, wq') <=> InSeq(x, wq)
                                       /\ InSeq(x, aq') <=> InSeq(x, aq)
                                       /\ InSeq(x, eq') <=> InSeq(x, eq)
        BY <2>1, <2>3, <2>4, Names DEF Pushed, Popped
      <3>2. OnceIn(wq') /\ OnceIn(aq') /\ OnceIn(eq')
        BY <2>1, <2>3, <2>4, <2>5, Names
        DEF Pushed, Popped, ChunkOk, HandOk, Sending, Failing
      <3>3. c \in Chunks => ChunkOk(c)' /\ st'[c] # "none"
        BY <2>1, <2>3, <2>4, <2>5, Names, RetryIsPositive
        DEF Pushed, Popped, ChunkOk, HandOk, Sending, Failing
      <3>4. c \in async' /\ magic' => AccountOk(c)'
        BY <2>1, <2>3, <2>4, <2>5, Names
        DEF Pushed, Popped, AccountOk, AsyncInv, Threads
      <3>5. HandOk(t)'
        BY <2>1, <2>3, <2>4, <2>5, Names
        DEF Pushed, Popped, ChunkOk, HandOk, Sending, Failing, Busy, WqItems,
            AqItems
      <3>6. \A u \in Threads : u # t => ~ (c \in Chunks /\ Owns(u, c))
        BY <2>1, <2>3, <2>4, <2>5, NoOtherOwner
        DEF Owns, HandOk, Sending, Failing, Popped, Threads
      <3>7. \A u \in Threads : u # t /\ Sending(u) => writeLock' = u
        BY <2>3, <2>4, <2>5 DEF HandInv, HandOk, Sending, Threads
      <3>8. \A i \in 1 .. Len(inbox') : inbox'[i] \in Msgs =>
               inbox'[i] \in got' \/ InSeq(inbox'[i], inbox)
        BY <2>3, <2>4 DEF InSeq
      <3>9. /\ async' \subseteq async \cup {c} /\ async' \subseteq Msgs
            /\ c \in async' => c \in async \/ st[c] = "none"
            /\ got \subseteq got' /\ reported \subseteq reported'
            /\ magic' = magic /\ "expiry" # "joining"
            /\ "none" \in {c, "none"} /\ (hand[t] \in async => hand[t] = c)
        BY <2>1, <2>3, <2>4, <2>5, Names DEF HandOk, Busy, Unwaited, Ending
      <3> QED
        BY <2>3, <3>1, <3>2, <3>3, <3>4, <3>5, <3>6, <3>7, <3>8, <3>9
        DEF HandsOn
    <2>7. WaitsOn(t, c, "expiry")
      BY <2>1, <2>3, <2>4, <2>5, Names
      DEF WaitsOn, WaitInv, ChunkOk, HandOk, Popped, Unwaited, Ending, Threads
    <2>8. TypeOK'
      BY <1>0, <2>1, <2>3, <2>4, Names
      DEF TypeOK, ChunkStates, Steps, Threads, WqItems, AqItems, EqItems
    <2>9. ClosedIsReported'
      BY <1>0, <2>1, <2>3, <2>4, ClosedKept, Names
      DEF Steps, Threads, Ending, Pushed, Popped
    <2>10. \A m \in Msgs : result'[m] = "ok" => m \in got'
      BY <2>3, <2>4 DEF ClientInv
    <2> QED
      BY <2>3, <2>6, <2>7, <2>8, <2>9, <2>10, HandStep DEF Steps, Threads
  <1>3. CASE magic /\ ~ (tries[hand[t]] + 1 < PublishRetry) /\ ~ Owned(hand[t])
    <2>1. PICK c : /\ c = hand[t] /\ c \in EqItems
                   /\ eq' \in Seq(EqItems) /\ Pushed(eq', eq, c)
                   /\ c \in AqItems /\ c \in Chunks /\ tries[c] \in Nat
                   /\ c \in async
      <3>1. eq \in Seq(EqItems)
        BY <1>0 DEF TypeOK, EqItems
      <3>2. hand[t] \in EqItems
        BY <1>a, <1>3 DEF AqItems, WqItems, EqItems, Chunks, Owned
      <3>3. /\ Append(eq, hand[t]) \in Seq(EqItems)
            /\ Pushed(Append(eq, hand[t]), eq, hand[t])
        BY <3>1, <3>2, PushFacts
      <3>4. eq' = Append(eq, hand[t])
        BY <1>3 DEF Retry
      <3> QED
        BY <3>2, <3>3, <3>4, <1>a, <1>3 DEF Owned
    <2>3. /\ Alive /\ pc' = [pc EXCEPT ![t] = "expiry"]
          /\ hand' = [hand EXCEPT ![t] = "none"]
          /\ pc'[t] = "expiry" /\ hand'[t] = "none"
          /\ pc[t] = "retry" /\ hand[t] = c
          /\ st' \in [Chunks -> ChunkStates]
          /\ \A x \in Chunks : x # c => st'[x] = st[x]
          /\ c \in Chunks => st'[c] = "TIMEOUT"
          /\ tries' \in [Chunks -> 0 .. PublishRetry]
          /\ \A x \in Chunks : x # c => tries'[x] = tries[x]
          /\ c \in Chunks => tries'[c] = tries[c] + 1
      <3>1. /\ pc[t] = "retry" /\ hand[t] = c /\ pc' = [pc EXCEPT ![t] = "expiry"]
            /\ hand' = [hand EXCEPT ![t] = "none"]
        BY <1>a, <2>1 DEF Goto, Retry
      <3>2. /\ pc'[t] = "expiry" /\ hand'[t] = "none"
        BY <1>0, <3>1 DEF TypeOK
      <3>3. /\ st' = [st EXCEPT ![c] = "TIMEOUT"]
            /\ tries' = [tries EXCEPT ![c] = @ + 1]
        BY <2>1, <1>3 DEF Retry, Free
      <3>4. /\ st' \in [Chunks -> ChunkStates] /\ st'[c] = "TIMEOUT"
            /\ \A x \in Chunks : x # c => st'[x] = st[x]
        <4>1. st \in [Chunks -> ChunkStates]
          BY <1>0 DEF TypeOK
        <4> QED
          BY <2>1, <3>3, <4>1 DEF ChunkStates
      <3>5. /\ tries' \in [Chunks -> 0 .. PublishRetry] /\ tries'[c] = tries[c] + 1
            /\ \A x \in Chunks : x # c => tries'[x] = tries[x]
        <4>1. tries \in [Chunks -> 0 .. PublishRetry] /\ tries[c] < PublishRetry
          BY <1>0, <1>a, <2>1 DEF TypeOK
        <4> HIDE MqttClientAssumption
        <4> QED
          BY <2>1, <3>3, <4>1, RetryIsPositive
      <3> QED
        BY <1>a, <3>1, <3>2, <3>4, <3>5
    <2>4. /\ connected' = connected /\ link' = link /\ inbox' = inbox
          /\ wq' = wq /\ aq' = aq /\ timer' = timer /\ failed' = failed
          /\ waits' = waits /\ readLock' = readLock
          /\ writeLock' = writeLock /\ sentOn' = sentOn /\ rcvdOn' = rcvdOn
          /\ works' = works /\ handle' = handle /\ magic' = magic
          /\ outside' = outside /\ got' = got /\ result' = result
          /\ async' = async /\ reported' = reported /\ lossTold' = lossTold
      BY <1>3 DEF Free, Retry
    <2>5. /\ HandOk(t) /\ (c \in Chunks => ChunkOk(c))
          /\ OnceIn(wq) /\ OnceIn(aq) /\ OnceIn(eq)
          /\ PlacesInv /\ AsyncInv /\ WaitInv /\ HandInv /\ async \subseteq Msgs
      BY <1>0, <2>3 DEF TypeOK, PlacesInv, HandInv, QueueInv, Threads
    <2>6. HandsOn(t, c, "expiry", "none")
      <3>1. \A x \in Chunks : x # c => /\ st'[x] = st[x] /\ tries'[x] = tries[x]
                                       /\ x \in async' <=> x \in async
                                       /\ InSeq(x, wq') <=> InSeq(x, wq)
                                       /\ InSeq(x, aq') <=> InSeq(x, aq)
                                       /\ InSeq(x, eq') <=> InSeq(x, eq)
        BY <2>1, <2>3, <2>4, Names DEF Pushed, Popped
      <3>2. OnceIn(wq') /\ OnceIn(aq') /\ OnceIn(eq')
        BY <2>1, <2>3, <2>4, <2>5, Names
        DEF Pushed, Popped, ChunkOk, HandOk, Sending, Failing
      <3>3. c \in Chunks => ChunkOk(c)' /\ st'[c] # "none"
        BY <2>1, <2>3, <2>4, <2>5, Names, RetryIsPositive
        DEF Pushed, Popped, ChunkOk, HandOk, Sending, Failing
      <3>4. c \in async' /\ magic' => AccountOk(c)'
        BY <2>1, <2>3, <2>4, <2>5, Names
        DEF Pushed, Popped, AccountOk, AsyncInv, Threads
      <3>5. HandOk(t)'
        BY <2>1, <2>3, <2>4, <2>5, Names
        DEF Pushed, Popped, ChunkOk, HandOk, Sending, Failing, Busy, WqItems,
            AqItems
      <3>6. \A u \in Threads : u # t => ~ (c \in Chunks /\ Owns(u, c))
        BY <2>1, <2>3, <2>4, <2>5, NoOtherOwner
        DEF Owns, HandOk, Sending, Failing, Popped, Threads
      <3>7. \A u \in Threads : u # t /\ Sending(u) => writeLock' = u
        BY <2>3, <2>4, <2>5 DEF HandInv, HandOk, Sending, Threads
      <3>8. \A i \in 1 .. Len(inbox') : inbox'[i] \in Msgs =>
               inbox'[i] \in got' \/ InSeq(inbox'[i], inbox)
        BY <2>3, <2>4 DEF InSeq
      <3>9. /\ async' \subseteq async \cup {c} /\ async' \subseteq Msgs
            /\ c \in async' => c \in async \/ st[c] = "none"
            /\ got \subseteq got' /\ reported \subseteq reported'
            /\ magic' = magic /\ "expiry" # "joining"
            /\ "none" \in {c, "none"} /\ (hand[t] \in async => hand[t] = c)
        BY <2>1, <2>3, <2>4, <2>5, Names DEF HandOk, Busy, Unwaited, Ending
      <3> QED
        BY <2>3, <3>1, <3>2, <3>3, <3>4, <3>5, <3>6, <3>7, <3>8, <3>9
        DEF HandsOn
    <2>7. WaitsOn(t, c, "expiry")
      BY <2>1, <2>3, <2>4, <2>5, Names
      DEF WaitsOn, WaitInv, ChunkOk, HandOk, Popped, Unwaited, Ending, Threads
    <2>8. TypeOK'
      BY <1>0, <2>1, <2>3, <2>4, Names
      DEF TypeOK, ChunkStates, Steps, Threads, WqItems, AqItems, EqItems
    <2>9. ClosedIsReported'
      BY <1>0, <2>1, <2>3, <2>4, ClosedKept, Names
      DEF Steps, Threads, Ending, Pushed, Popped
    <2>10. \A m \in Msgs : result'[m] = "ok" => m \in got'
      BY <2>3, <2>4 DEF ClientInv
    <2> QED
      BY <2>3, <2>6, <2>7, <2>8, <2>9, <2>10, HandStep DEF Steps, Threads
  <1>4. CASE ~ (tries[hand[t]] + 1 < PublishRetry) /\ Owned(hand[t])
    <2>1. PICK c : /\ c = hand[t] /\ c \in AqItems
                   /\ c \in AqItems /\ c \in Chunks /\ tries[c] \in Nat
                   /\ c \notin async
      BY <1>a, <1>4 DEF Owned
    <2>3. /\ Alive /\ pc' = [pc EXCEPT ![t] = "expiry"]
          /\ hand' = [hand EXCEPT ![t] = "none"]
          /\ pc'[t] = "expiry" /\ hand'[t] = "none"
          /\ pc[t] = "retry" /\ hand[t] = c
          /\ st' \in [Chunks -> ChunkStates]
          /\ \A x \in Chunks : x # c => st'[x] = st[x]
          /\ c \in Chunks => st'[c] = "TIMEOUT"
          /\ tries' \in [Chunks -> 0 .. PublishRetry]
          /\ \A x \in Chunks : x # c => tries'[x] = tries[x]
          /\ c \in Chunks => tries'[c] = tries[c] + 1
      <3>1. /\ pc[t] = "retry" /\ hand[t] = c /\ pc' = [pc EXCEPT ![t] = "expiry"]
            /\ hand' = [hand EXCEPT ![t] = "none"]
        BY <1>a, <2>1 DEF Goto, Retry
      <3>2. /\ pc'[t] = "expiry" /\ hand'[t] = "none"
        BY <1>0, <3>1 DEF TypeOK
      <3>3. /\ st' = [st EXCEPT ![c] = "TIMEOUT"]
            /\ tries' = [tries EXCEPT ![c] = @ + 1]
        BY <2>1, <1>4 DEF Retry, Free
      <3>4. /\ st' \in [Chunks -> ChunkStates] /\ st'[c] = "TIMEOUT"
            /\ \A x \in Chunks : x # c => st'[x] = st[x]
        <4>1. st \in [Chunks -> ChunkStates]
          BY <1>0 DEF TypeOK
        <4> QED
          BY <2>1, <3>3, <4>1 DEF ChunkStates
      <3>5. /\ tries' \in [Chunks -> 0 .. PublishRetry] /\ tries'[c] = tries[c] + 1
            /\ \A x \in Chunks : x # c => tries'[x] = tries[x]
        <4>1. tries \in [Chunks -> 0 .. PublishRetry] /\ tries[c] < PublishRetry
          BY <1>0, <1>a, <2>1 DEF TypeOK
        <4> HIDE MqttClientAssumption
        <4> QED
          BY <2>1, <3>3, <4>1, RetryIsPositive
      <3> QED
        BY <1>a, <3>1, <3>2, <3>4, <3>5
    <2>4. /\ connected' = connected /\ link' = link /\ inbox' = inbox
          /\ wq' = wq /\ aq' = aq /\ eq' = eq /\ timer' = timer
          /\ failed' = failed /\ waits' = waits /\ readLock' = readLock
          /\ writeLock' = writeLock /\ sentOn' = sentOn /\ rcvdOn' = rcvdOn
          /\ works' = works /\ handle' = handle /\ magic' = magic
          /\ outside' = outside /\ got' = got /\ result' = result
          /\ async' = async /\ reported' = reported /\ lossTold' = lossTold
      BY <1>4 DEF Free, Retry
    <2>5. /\ HandOk(t) /\ (c \in Chunks => ChunkOk(c))
          /\ OnceIn(wq) /\ OnceIn(aq) /\ OnceIn(eq)
          /\ PlacesInv /\ AsyncInv /\ WaitInv /\ HandInv /\ async \subseteq Msgs
      BY <1>0, <2>3 DEF TypeOK, PlacesInv, HandInv, QueueInv, Threads
    <2>6. HandsOn(t, c, "expiry", "none")
      <3>1. \A x \in Chunks : x # c => /\ st'[x] = st[x] /\ tries'[x] = tries[x]
                                       /\ x \in async' <=> x \in async
                                       /\ InSeq(x, wq') <=> InSeq(x, wq)
                                       /\ InSeq(x, aq') <=> InSeq(x, aq)
                                       /\ InSeq(x, eq') <=> InSeq(x, eq)
        BY <2>1, <2>3, <2>4, Names DEF Pushed, Popped
      <3>2. OnceIn(wq') /\ OnceIn(aq') /\ OnceIn(eq')
        BY <2>1, <2>3, <2>4, <2>5, Names
        DEF Pushed, Popped, ChunkOk, HandOk, Sending, Failing
      <3>3. c \in Chunks => ChunkOk(c)' /\ st'[c] # "none"
        BY <2>1, <2>3, <2>4, <2>5, Names, RetryIsPositive
        DEF Pushed, Popped, ChunkOk, HandOk, Sending, Failing
      <3>4. c \in async' /\ magic' => AccountOk(c)'
        BY <2>1, <2>3, <2>4, <2>5, Names
        DEF Pushed, Popped, AccountOk, AsyncInv, Threads
      <3>5. HandOk(t)'
        BY <2>1, <2>3, <2>4, <2>5, Names
        DEF Pushed, Popped, ChunkOk, HandOk, Sending, Failing, Busy, WqItems,
            AqItems
      <3>6. \A u \in Threads : u # t => ~ (c \in Chunks /\ Owns(u, c))
        <4>1. ASSUME c \in Chunks
              PROVE  \/ Owns(t, c)
                     \/ InSeq(c, wq) \/ InSeq(c, aq) \/ InSeq(c, eq)
                     \/ st[c] \notin {"WRITE_PENDING", "ACK_PENDING", "WRITE_FAIL"}
                     \/ st[c] = "WRITE_FAIL" /\ c \notin async
          BY <2>1, <2>3, <2>4, <2>5, <4>1 DEF Owns, HandOk, Sending, Failing, Popped
        <4> QED
          BY <2>5, <4>1, NoOtherOwner
      <3>7. \A u \in Threads : u # t /\ Sending(u) => writeLock' = u
        BY <2>3, <2>4, <2>5 DEF HandInv, HandOk, Sending, Threads
      <3>8. \A i \in 1 .. Len(inbox') : inbox'[i] \in Msgs =>
               inbox'[i] \in got' \/ InSeq(inbox'[i], inbox)
        BY <2>3, <2>4 DEF InSeq
      <3>9. /\ async' \subseteq async \cup {c} /\ async' \subseteq Msgs
            /\ c \in async' => c \in async \/ st[c] = "none"
            /\ got \subseteq got' /\ reported \subseteq reported'
            /\ magic' = magic /\ "expiry" # "joining"
            /\ "none" \in {c, "none"} /\ (hand[t] \in async => hand[t] = c)
        BY <2>1, <2>3, <2>4, <2>5, Names DEF HandOk, Busy, Unwaited, Ending
      <3> QED
        BY <2>3, <3>1, <3>2, <3>3, <3>4, <3>5, <3>6, <3>7, <3>8, <3>9
        DEF HandsOn
    <2>7. WaitsOn(t, c, "expiry")
      BY <2>1, <2>3, <2>4, <2>5, Names
      DEF WaitsOn, WaitInv, ChunkOk, HandOk, Popped, Unwaited, Ending, Threads
    <2>8. TypeOK'
      BY <1>0, <2>1, <2>3, <2>4, Names
      DEF TypeOK, ChunkStates, Steps, Threads, WqItems, AqItems, EqItems
    <2>9. ClosedIsReported'
      BY <1>0, <2>1, <2>3, <2>4, ClosedKept, Names
      DEF Steps, Threads, Ending, Pushed, Popped
    <2>10. \A m \in Msgs : result'[m] = "ok" => m \in got'
      BY <2>3, <2>4 DEF ClientInv
    <2> QED
      BY <2>3, <2>6, <2>7, <2>8, <2>9, <2>10, HandStep DEF Steps, Threads
  <1> QED
    BY <1>1, <1>2, <1>3, <1>4

\* A ping is due.
LEMMA CheckAlivePingKeeps ==
    ASSUME ClientInv, NEW t \in Threads, CheckAlivePing(t)
    PROVE  ClientInv'
  <1> USE DEF net, queues, chunk, threads, locks, idle, life, told
  <1>0. TypeOK /\ ClosedIsReported /\ (Alive => PlacesInv /\ AsyncInv)
    BY DEF ClientInv
  <1>a. /\ Alive /\ pc[t] = "expiry" /\ hand[t] = "none" /\ st["PING"] # "none"
        /\ "PING" \in Chunks /\ "PING" \notin Msgs
    <2>1. Alive /\ pc[t] = "expiry" /\ st["PING"] # "none"
      BY DEF At, Checking, CheckAlivePing
    <2>2. HandOk(t)
      BY <1>0, <2>1 DEF PlacesInv, HandInv
    <2> QED
      BY <2>1, <2>2, Names DEF HandOk, Busy
  <1>1. PICK c : /\ c = "PING" /\ c \in WqItems /\ c \in Chunks /\ c \notin Msgs
                 /\ wq' \in Seq(WqItems) /\ Pushed(wq', wq, c)
    <2>1. wq \in Seq(WqItems)
      BY <1>0 DEF TypeOK, WqItems
    <2>2. "PING" \in WqItems
      BY Names DEF WqItems
    <2>3. /\ Append(wq, "PING") \in Seq(WqItems)
          /\ Pushed(Append(wq, "PING"), wq, "PING")
      BY <2>1, <2>2, PushFacts
    <2>4. wq' = Append(wq, "PING")
      BY DEF CheckAlivePing
    <2> QED
      BY <2>2, <2>3, <2>4, Names
  <1>2. PICK l \in Steps : /\ l = Return(t)
                           /\ l \notin Busy \cup Ending \cup {"event"}
                           /\ l = "check" => waits[t] # "none"
                           /\ l \in Unwaited => waits[t] = "none"
    BY StepsFacts, ReturnFacts DEF Unwaited, Threads
  <1>3. /\ Alive /\ pc' = [pc EXCEPT ![t] = l]
        /\ hand' = [hand EXCEPT ![t] = "none"]
        /\ pc'[t] = l /\ hand'[t] = "none"
        /\ pc[t] = "expiry" /\ hand[t] = "none"
        /\ st[c] \in {"INIT", "ACKNOWLEDGED"}
        /\ st' \in [Chunks -> ChunkStates]
        /\ \A x \in Chunks : x # c => st'[x] = st[x]
        /\ c \in Chunks => st'[c] = "WRITE_PENDING"
        /\ tries' \in [Chunks -> 0 .. PublishRetry]
        /\ \A x \in Chunks : x # c => tries'[x] = tries[x]
        /\ c \in Chunks => tries'[c] = 0
    <2>1. /\ pc' = [pc EXCEPT ![t] = l] /\ hand' = hand
          /\ st' = [st EXCEPT ![c] = "WRITE_PENDING"] /\ tries' = [tries EXCEPT ![c] = 0]
          /\ st[c] \in {"INIT", "ACKNOWLEDGED"}
      BY <1>1, <1>2 DEF Goto, CheckAlivePing
    <2>2. /\ hand' = [hand EXCEPT ![t] = "none"] /\ hand'[t] = "none" /\ pc'[t] = l
          /\ st' \in [Chunks -> ChunkStates] /\ st'[c] = "WRITE_PENDING"
          /\ tries' \in [Chunks -> 0 .. PublishRetry] /\ tries'[c] = 0
          /\ \A x \in Chunks : x # c => st'[x] = st[x] /\ tries'[x] = tries[x]
      BY <1>0, <1>a, <1>1, <2>1, RetryIsPositive DEF TypeOK, ChunkStates
    <2> QED
      BY <1>a, <2>1, <2>2
  <1>4. /\ connected' = connected /\ link' = link /\ inbox' = inbox
        /\ aq' = aq /\ eq' = eq /\ timer' = timer /\ failed' = failed
        /\ waits' = waits /\ readLock' = readLock
        /\ writeLock' = writeLock /\ sentOn' = sentOn /\ rcvdOn' = rcvdOn
        /\ works' = works /\ handle' = handle /\ magic' = magic
        /\ outside' = outside /\ got' = got /\ result' = result
        /\ async' = async /\ reported' = reported /\ lossTold' = lossTold
    BY DEF CheckAlivePing
  <1>5. /\ HandOk(t) /\ (c \in Chunks => ChunkOk(c))
        /\ OnceIn(wq) /\ OnceIn(aq) /\ OnceIn(eq)
        /\ PlacesInv /\ AsyncInv /\ WaitInv /\ HandInv /\ async \subseteq Msgs
    BY <1>0, <1>3 DEF TypeOK, PlacesInv, HandInv, QueueInv, Threads
  <1>6. HandsOn(t, c, l, "none")
    <2>1. \A x \in Chunks : x # c => /\ st'[x] = st[x] /\ tries'[x] = tries[x]
                                     /\ x \in async' <=> x \in async
                                     /\ InSeq(x, wq') <=> InSeq(x, wq)
                                     /\ InSeq(x, aq') <=> InSeq(x, aq)
                                     /\ InSeq(x, eq') <=> InSeq(x, eq)
      BY <1>1, <1>3, <1>4, Names DEF Pushed, Popped
    <2>2. OnceIn(wq') /\ OnceIn(aq') /\ OnceIn(eq')
      BY <1>1, <1>2, <1>3, <1>4, <1>5, Names
      DEF Pushed, Popped, ChunkOk, HandOk, Sending, Failing
    <2>3. c \in Chunks => ChunkOk(c)' /\ st'[c] # "none"
      BY <1>1, <1>2, <1>3, <1>4, <1>5, Names, RetryIsPositive
      DEF Pushed, Popped, ChunkOk, HandOk, Sending, Failing
    <2>4. c \in async' /\ magic' => AccountOk(c)'
      BY <1>1, <1>2, <1>3, <1>4, <1>5, Names
      DEF Pushed, Popped, AccountOk, AsyncInv, Threads
    <2>5. HandOk(t)'
      BY <1>1, <1>2, <1>3, <1>4, <1>5, Names
      DEF Pushed, Popped, ChunkOk, HandOk, Sending, Failing, Busy, WqItems,
          AqItems
    <2>6. \A u \in Threads : u # t => ~ (c \in Chunks /\ Owns(u, c))
      <3>1. ASSUME c \in Chunks
            PROVE  \/ Owns(t, c)
                   \/ InSeq(c, wq) \/ InSeq(c, aq) \/ InSeq(c, eq)
                   \/ st[c] \notin {"WRITE_PENDING", "ACK_PENDING", "WRITE_FAIL"}
                   \/ st[c] = "WRITE_FAIL" /\ c \notin async
        BY <1>1, <1>2, <1>3, <1>4, <1>5, <3>1 DEF Owns, HandOk, Sending, Failing, Popped
      <3> QED
        BY <1>5, <3>1, NoOtherOwner
    <2>7. \A u \in Threads : u # t /\ Sending(u) => writeLock' = u
      BY <1>3, <1>4, <1>5 DEF HandInv, HandOk, Sending, Threads
    <2>8. \A i \in 1 .. Len(inbox') : inbox'[i] \in Msgs =>
             inbox'[i] \in got' \/ InSeq(inbox'[i], inbox)
      BY <1>3, <1>4 DEF InSeq
    <2>9. /\ async' \subseteq async \cup {c} /\ async' \subseteq Msgs
          /\ c \in async' => c \in async \/ st[c] = "none"
          /\ got \subseteq got' /\ reported \subseteq reported'
          /\ magic' = magic /\ l # "joining"
          /\ "none" \in {c, "none"} /\ (hand[t] \in async => hand[t] = c)
      BY <1>1, <1>2, <1>3, <1>4, <1>5, Names DEF HandOk, Busy, Unwaited, Ending
    <2> QED
      BY <1>3, <2>1, <2>2, <2>3, <2>4, <2>5, <2>6, <2>7, <2>8, <2>9 DEF HandsOn
  <1>7. WaitsOn(t, c, l)
    BY <1>1, <1>2, <1>3, <1>4, <1>5, Names
    DEF WaitsOn, WaitInv, ChunkOk, HandOk, Popped, Unwaited, Ending, Threads
  <1>8. TypeOK'
    BY <1>0, <1>1, <1>2, <1>3, <1>4, Names
    DEF TypeOK, ChunkStates, Steps, Threads, WqItems, AqItems, EqItems
  <1>9. ClosedIsReported'
    <2>1. /\ pc' = [pc EXCEPT ![t] = l] /\ pc[t] # "event" /\ pc[t] # "closed"
          /\ connected' = connected /\ magic' = magic /\ lossTold' = lossTold
      BY <1>1, <1>2, <1>3, <1>4, Names DEF Ending
    <2>2. InSeq("disconnected", eq) => InSeq("disconnected", eq')
      BY <1>1, <1>2, <1>3, <1>4, Names DEF Pushed, Popped
    <2> QED
      BY <1>0, <2>1, <2>2, ClosedKept
  <1>10. \A m \in Msgs : result'[m] = "ok" => m \in got'
    BY <1>3, <1>4 DEF ClientInv
  <1> QED
    BY <1>3, <1>6, <1>7, <1>8, <1>9, <1>10, HandStep DEF Threads

\* The broker did not answer pings.
LEMMA CheckAliveFailsKeeps ==
    ASSUME ClientInv, NEW t \in Threads, CheckAliveFails(t)
    PROVE  ClientInv'
  <1> USE DEF net, queues, chunk, threads, locks, idle, life, told
  <1>0. TypeOK /\ ClosedIsReported /\ (Alive => PlacesInv /\ AsyncInv)
    BY DEF ClientInv
  <1>a. /\ Alive /\ pc[t] = "expiry" /\ hand[t] = "none" /\ st["PING"] # "none"
        /\ "PING" \in Chunks /\ "PING" \notin Msgs
    <2>1. Alive /\ pc[t] = "expiry" /\ st["PING"] # "none"
      BY DEF At, Checking, CheckAliveFails
    <2>2. HandOk(t)
      BY <1>0, <2>1 DEF PlacesInv, HandInv
    <2> QED
      BY <2>1, <2>2, Names DEF HandOk, Busy
  <1>1. PICK c : c = "PING" /\ c \in Chunks /\ c \notin Msgs
    BY Names
  <1>3. /\ Alive /\ pc' = [pc EXCEPT ![t] = "close"]
        /\ hand' = [hand EXCEPT ![t] = "none"]
        /\ pc'[t] = "close" /\ hand'[t] = "none"
        /\ pc[t] = "expiry" /\ hand[t] = "none" /\ st[c] = "TIMEOUT"
        /\ st' \in [Chunks -> ChunkStates]
        /\ \A x \in Chunks : x # c => st'[x] = st[x]
        /\ c \in Chunks => st'[c] = "INIT"
        /\ failed' = [failed EXCEPT ![t] = TRUE]
    <2>1. /\ pc' = [pc EXCEPT ![t] = "close"] /\ hand' = hand
          /\ st' = [st EXCEPT ![c] = "INIT"] /\ failed' = [failed EXCEPT ![t] = TRUE]
          /\ st[c] = "TIMEOUT"
      BY <1>1 DEF Goto, CheckAliveFails
    <2>2. /\ hand' = [hand EXCEPT ![t] = "none"] /\ hand'[t] = "none" /\ pc'[t] = "close"
          /\ st' \in [Chunks -> ChunkStates] /\ st'[c] = "INIT"
          /\ \A x \in Chunks : x # c => st'[x] = st[x]
      BY <1>0, <1>a, <1>1, <2>1 DEF TypeOK, ChunkStates
    <2> QED
      BY <1>a, <2>1, <2>2
  <1>4. /\ connected' = connected /\ link' = link /\ inbox' = inbox
        /\ wq' = wq /\ aq' = aq /\ eq' = eq /\ timer' = timer
        /\ tries' = tries /\ waits' = waits /\ readLock' = readLock
        /\ writeLock' = writeLock /\ sentOn' = sentOn /\ rcvdOn' = rcvdOn
        /\ works' = works /\ handle' = handle /\ magic' = magic
        /\ outside' = outside /\ got' = got /\ result' = result
        /\ async' = async /\ reported' = reported /\ lossTold' = lossTold
    BY DEF CheckAliveFails
  <1>5. /\ HandOk(t) /\ (c \in Chunks => ChunkOk(c))
        /\ OnceIn(wq) /\ OnceIn(aq) /\ OnceIn(eq)
        /\ PlacesInv /\ AsyncInv /\ WaitInv /\ HandInv /\ async \subseteq Msgs
    BY <1>0, <1>3 DEF TypeOK, PlacesInv, HandInv, QueueInv, Threads
  <1>6. HandsOn(t, c, "close", "none")
    <2>1. \A x \in Chunks : x # c => /\ st'[x] = st[x] /\ tries'[x] = tries[x]
                                     /\ x \in async' <=> x \in async
                                     /\ InSeq(x, wq') <=> InSeq(x, wq)
                                     /\ InSeq(x, aq') <=> InSeq(x, aq)
                                     /\ InSeq(x, eq') <=> InSeq(x, eq)
      BY <1>1, <1>3, <1>4, Names DEF Pushed, Popped
    <2>2. OnceIn(wq') /\ OnceIn(aq') /\ OnceIn(eq')
      BY <1>1, <1>3, <1>4, <1>5, Names
      DEF Pushed, Popped, ChunkOk, HandOk, Sending, Failing
    <2>3. c \in Chunks => ChunkOk(c)' /\ st'[c] # "none"
      BY <1>1, <1>3, <1>4, <1>5, Names, RetryIsPositive
      DEF Pushed, Popped, ChunkOk, HandOk, Sending, Failing
    <2>4. c \in async' /\ magic' => AccountOk(c)'
      BY <1>1, <1>3, <1>4, <1>5, Names
      DEF Pushed, Popped, AccountOk, AsyncInv, Threads
    <2>5. HandOk(t)'
      BY <1>1, <1>3, <1>4, <1>5, Names
      DEF Pushed, Popped, ChunkOk, HandOk, Sending, Failing, Busy, WqItems,
          AqItems
    <2>6. \A u \in Threads : u # t => ~ (c \in Chunks /\ Owns(u, c))
      BY <1>1, <1>3, <1>4, <1>5, NoOtherOwner
      DEF Owns, HandOk, Sending, Failing, Popped, Threads
    <2>7. \A u \in Threads : u # t /\ Sending(u) => writeLock' = u
      BY <1>3, <1>4, <1>5 DEF HandInv, HandOk, Sending, Threads
    <2>8. \A i \in 1 .. Len(inbox') : inbox'[i] \in Msgs =>
             inbox'[i] \in got' \/ InSeq(inbox'[i], inbox)
      BY <1>3, <1>4 DEF InSeq
    <2>9. /\ async' \subseteq async \cup {c} /\ async' \subseteq Msgs
          /\ c \in async' => c \in async \/ st[c] = "none"
          /\ got \subseteq got' /\ reported \subseteq reported'
          /\ magic' = magic /\ "close" # "joining"
          /\ "none" \in {c, "none"} /\ (hand[t] \in async => hand[t] = c)
      BY <1>1, <1>3, <1>4, <1>5, Names DEF HandOk, Busy, Unwaited, Ending
    <2> QED
      BY <1>3, <2>1, <2>2, <2>3, <2>4, <2>5, <2>6, <2>7, <2>8, <2>9 DEF HandsOn
  <1>7. WaitsOn(t, c, "close")
    BY <1>1, <1>3, <1>4, <1>5, Names
    DEF WaitsOn, WaitInv, ChunkOk, HandOk, Popped, Unwaited, Ending, Threads
  <1>8. TypeOK'
    BY <1>0, <1>1, <1>3, <1>4, Names
    DEF TypeOK, ChunkStates, Steps, Threads, WqItems, AqItems, EqItems
  <1>9. ClosedIsReported'
    BY <1>0, <1>1, <1>3, <1>4, ClosedKept, Names
    DEF Steps, Threads, Ending, Pushed, Popped
  <1>10. \A m \in Msgs : result'[m] = "ok" => m \in got'
    BY <1>3, <1>4 DEF ClientInv
  <1> QED
    BY <1>3, <1>6, <1>7, <1>8, <1>9, <1>10, HandStep DEF Steps, Threads

\* The closed connection is reported.
LEMMA PushDisconnectedKeeps ==
    ASSUME ClientInv, NEW t \in Threads, PushDisconnected(t)
    PROVE  ClientInv'
  <1> USE DEF net, queues, chunk, threads, locks, idle, life, told
  <1>0. TypeOK /\ ClosedIsReported /\ (Alive => PlacesInv /\ AsyncInv)
    BY DEF ClientInv
  <1>1. PICK c : /\ c = "disconnected" /\ c \in EqItems
                 /\ eq' \in Seq(EqItems) /\ Pushed(eq', eq, c)
    <2>1. eq \in Seq(EqItems)
      BY <1>0 DEF TypeOK, EqItems
    <2>2. "disconnected" \in EqItems
      BY DEF EqItems
    <2>3. /\ Append(eq, "disconnected") \in Seq(EqItems)
          /\ Pushed(Append(eq, "disconnected"), eq, "disconnected")
      BY <2>1, <2>2, PushFacts
    <2>4. eq' = Append(eq, "disconnected")
      BY DEF PushDisconnected
    <2> QED
      BY <2>2, <2>3, <2>4
  <1>2. PICK l \in Steps : /\ l = Return(t)
                           /\ l \notin Busy \cup Ending \cup {"event"}
                           /\ l = "check" => waits[t] # "none"
                           /\ l \in Unwaited => waits[t] = "none"
    BY StepsFacts, ReturnFacts DEF Unwaited, Threads
  <1>3. /\ Alive /\ pc' = [pc EXCEPT ![t] = l]
        /\ hand' = [hand EXCEPT ![t] = "none"]
        /\ pc'[t] = l /\ hand'[t] = "none"
        /\ pc[t] = "event" /\ hand[t] = "none"
    <2>1. /\ Alive /\ pc[t] = "event" /\ pc' = [pc EXCEPT ![t] = l] /\ hand' = hand
      BY <1>2 DEF At, Goto, PushDisconnected
    <2>2. hand[t] = "none"
      BY <1>0, <2>1 DEF PlacesInv, HandInv, HandOk, Busy
    <2>3. hand' = [hand EXCEPT ![t] = "none"] /\ hand'[t] = "none" /\ pc'[t] = l
      BY <1>0, <2>1, <2>2 DEF TypeOK
    <2> QED
      BY <2>1, <2>2, <2>3
  <1>4. /\ connected' = connected /\ link' = link /\ inbox' = inbox
        /\ wq' = wq /\ aq' = aq /\ st' = st /\ timer' = timer
        /\ tries' = tries /\ failed' = failed /\ waits' = waits
        /\ readLock' = readLock /\ writeLock' = writeLock
        /\ sentOn' = sentOn /\ rcvdOn' = rcvdOn /\ works' = works
        /\ handle' = handle /\ magic' = magic /\ outside' = outside
        /\ got' = got /\ result' = result /\ async' = async
        /\ reported' = reported /\ lossTold' = lossTold
    BY DEF PushDisconnected
  <1>5. /\ HandOk(t) /\ (c \in Chunks => ChunkOk(c))
        /\ OnceIn(wq) /\ OnceIn(aq) /\ OnceIn(eq)
        /\ PlacesInv /\ AsyncInv /\ WaitInv /\ HandInv /\ async \subseteq Msgs
    BY <1>0, <1>3 DEF TypeOK, PlacesInv, HandInv, QueueInv, Threads
  <1>6. HandsOn(t, c, l, "none")
    <2>1. \A x \in Chunks : x # c => /\ st'[x] = st[x] /\ tries'[x] = tries[x]
                                     /\ x \in async' <=> x \in async
                                     /\ InSeq(x, wq') <=> InSeq(x, wq)
                                     /\ InSeq(x, aq') <=> InSeq(x, aq)
                                     /\ InSeq(x, eq') <=> InSeq(x, eq)
      BY <1>1, <1>3, <1>4, Names DEF Pushed, Popped
    <2>2. OnceIn(wq') /\ OnceIn(aq') /\ OnceIn(eq')
      BY <1>1, <1>2, <1>3, <1>4, <1>5, Names
      DEF Pushed, Popped, ChunkOk, HandOk, Sending, Failing
    <2>3. c \in Chunks => ChunkOk(c)' /\ st'[c] # "none"
      BY <1>1, <1>2, <1>3, <1>4, <1>5, Names, RetryIsPositive
      DEF Pushed, Popped, ChunkOk, HandOk, Sending, Failing
    <2>4. c \in async' /\ magic' => AccountOk(c)'
      BY <1>1, <1>2, <1>3, <1>4, <1>5, Names
      DEF Pushed, Popped, AccountOk, AsyncInv, Threads
    <2>5. HandOk(t)'
      BY <1>1, <1>2, <1>3, <1>4, <1>5, Names
      DEF Pushed, Popped, ChunkOk, HandOk, Sending, Failing, Busy, WqItems,
          AqItems
    <2>6. \A u \in Threads : u # t => ~ (c \in Chunks /\ Owns(u, c))
      BY <1>1, Names
    <2>7. \A u \in Threads : u # t /\ Sending(u) => writeLock' = u
      BY <1>3, <1>4, <1>5 DEF HandInv, HandOk, Sending, Threads
    <2>8. \A i \in 1 .. Len(inbox') : inbox'[i] \in Msgs =>
             inbox'[i] \in got' \/ InSeq(inbox'[i], inbox)
      BY <1>3, <1>4 DEF InSeq
    <2>9. /\ async' \subseteq async \cup {c} /\ async' \subseteq Msgs
          /\ c \in async' => c \in async \/ st[c] = "none"
          /\ got \subseteq got' /\ reported \subseteq reported'
          /\ magic' = magic /\ l # "joining"
          /\ "none" \in {c, "none"} /\ (hand[t] \in async => hand[t] = c)
      BY <1>1, <1>2, <1>3, <1>4, <1>5, Names DEF HandOk, Busy, Unwaited, Ending
    <2> QED
      BY <1>3, <2>1, <2>2, <2>3, <2>4, <2>5, <2>6, <2>7, <2>8, <2>9 DEF HandsOn
  <1>7. WaitsOn(t, c, l)
    BY <1>1, <1>2, <1>3, <1>4, <1>5, Names
    DEF WaitsOn, WaitInv, ChunkOk, HandOk, Popped, Unwaited, Ending, Threads
  <1>8. TypeOK'
    BY <1>0, <1>1, <1>2, <1>3, <1>4, Names
    DEF TypeOK, ChunkStates, Steps, Threads, WqItems, AqItems, EqItems
  <1>9. ClosedIsReported'
    BY <1>1 DEF ClosedIsReported, Pushed
  <1>10. \A m \in Msgs : result'[m] = "ok" => m \in got'
    BY <1>3, <1>4 DEF ClientInv
  <1> QED
    BY <1>3, <1>6, <1>7, <1>8, <1>9, <1>10, HandStep DEF Threads

\* The callback is told.
LEMMA CallbackKeeps ==
    ASSUME ClientInv, Callback
    PROVE  ClientInv'
  <1> USE DEF net, queues, chunk, threads, locks, idle, life, told
  <1>0. TypeOK /\ ClosedIsReported /\ (Alive => PlacesInv /\ AsyncInv)
    BY DEF ClientInv
  <1>a. Alive /\ pc["work"] = "callbacks" /\ hand["work"] = "none"
    <2>1. Alive /\ pc["work"] = "callbacks"
      BY DEF At, Callback
    <2>2. HandOk("work")
      BY <1>0, <2>1 DEF PlacesInv, HandInv, Threads
    <2> QED
      BY <2>1, <2>2 DEF HandOk, Busy
  <1>1. CASE Head(eq) \in Chunks
    <2>1. PICK c : /\ c = Head(eq) /\ c \in EqItems /\ c \in Chunks
                   /\ eq' \in Seq(EqItems) /\ Popped(eq', eq, c)
      <3>1. eq \in Seq(EqItems)
        BY <1>0 DEF TypeOK, EqItems
      <3>2. eq # <<>> /\ eq' = Tail(eq)
        BY DEF Callback
      <3>3. /\ Tail(eq) \in Seq(EqItems) /\ Head(eq) \in EqItems
            /\ Popped(Tail(eq), eq, Head(eq))
        BY <3>1, <3>2, PopFacts
      <3> QED
        BY <3>2, <3>3, <1>1
    <2>3. /\ Alive /\ pc' = [pc EXCEPT !["work"] = "callbacks"]
          /\ hand' = [hand EXCEPT !["work"] = "none"]
          /\ pc'["work"] = "callbacks" /\ hand'["work"] = "none"
          /\ pc["work"] = "callbacks" /\ hand["work"] = "none"
          /\ reported' = reported \cup ({c} \cap Msgs)
          /\ lossTold' \in BOOLEAN
          /\ lossTold \/ c = "disconnected" => lossTold'
          /\ st' \in [Chunks -> ChunkStates]
          /\ \A x \in Chunks : x # c => st'[x] = st[x]
          /\ c \in Chunks => st'[c] = "freed"
          /\ timer' \in [Chunks -> {"none", "active", "expired"}]
          /\ tries' \in [Chunks -> 0 .. PublishRetry]
          /\ \A x \in Chunks : x # c => tries'[x] = tries[x]
          /\ c \in Chunks => tries'[c] = 0
      <3>1. /\ pc' = pc /\ hand' = hand /\ reported' = reported \cup ({c} \cap Msgs)
        BY <2>1 DEF Callback
      <3>2. /\ lossTold' \in BOOLEAN
            /\ lossTold \/ c = "disconnected" => lossTold'
        BY <2>1 DEF Callback
      <3>3. /\ pc' = [pc EXCEPT !["work"] = "callbacks"]
            /\ hand' = [hand EXCEPT !["work"] = "none"]
            /\ pc'["work"] = "callbacks" /\ hand'["work"] = "none"
        BY <1>0, <1>a, <3>1 DEF TypeOK
      <3>4. /\ st' = [st EXCEPT ![c] = "freed"] /\ timer' = [timer EXCEPT ![c] = "none"]
            /\ tries' = [tries EXCEPT ![c] = 0]
        BY <2>1 DEF Callback, Free
      <3>5. /\ st' \in [Chunks -> ChunkStates] /\ st'[c] = "freed"
            /\ timer' \in [Chunks -> {"none", "active", "expired"}]
            /\ tries' \in [Chunks -> 0 .. PublishRetry] /\ tries'[c] = 0
            /\ \A x \in Chunks : x # c => st'[x] = st[x] /\ tries'[x] = tries[x]
        BY <1>0, <2>1, <3>4, RetryIsPositive DEF TypeOK, ChunkStates
      <3> QED
        BY <1>a, <3>1, <3>2, <3>3, <3>5
    <2>4. /\ connected' = connected /\ link' = link /\ inbox' = inbox
          /\ wq' = wq /\ aq' = aq /\ failed' = failed /\ waits' = waits
          /\ readLock' = readLock /\ writeLock' = writeLock
          /\ sentOn' = sentOn /\ rcvdOn' = rcvdOn /\ works' = works
          /\ handle' = handle /\ magic' = magic /\ outside' = outside
          /\ got' = got /\ result' = result /\ async' = async
      BY <1>1 DEF Callback
    <2>5. /\ HandOk("work") /\ (c \in Chunks => ChunkOk(c))
          /\ OnceIn(wq) /\ OnceIn(aq) /\ OnceIn(eq)
          /\ PlacesInv /\ AsyncInv /\ WaitInv /\ HandInv /\ async \subseteq Msgs
      BY <1>0, <2>3 DEF TypeOK, PlacesInv, HandInv, QueueInv, Threads
    <2>6. HandsOn("work", c, "callbacks", "none")
      <3>1. \A x \in Chunks : x # c => /\ st'[x] = st[x] /\ tries'[x] = tries[x]
                                       /\ x \in async' <=> x \in async
                                       /\ InSeq(x, wq') <=> InSeq(x, wq)
                                       /\ InSeq(x, aq') <=> InSeq(x, aq)
                                       /\ InSeq(x, eq') <=> InSeq(x, eq)
        BY <2>1, <2>3, <2>4, Names DEF Pushed, Popped
      <3>2. OnceIn(wq') /\ OnceIn(aq') /\ OnceIn(eq')
        BY <2>1, <2>3, <2>4, <2>5, Names
        DEF Pushed, Popped, ChunkOk, HandOk, Sending, Failing
      <3>3. c \in Chunks => ChunkOk(c)' /\ st'[c] # "none"
        BY <2>1, <2>3, <2>4, <2>5, Names, RetryIsPositive
        DEF Pushed, Popped, ChunkOk, HandOk, Sending, Failing
      <3>4. c \in async' /\ magic' => AccountOk(c)'
        BY <2>1, <2>3, <2>4, <2>5, Names
        DEF Pushed, Popped, AccountOk, AsyncInv, Threads
      <3>5. HandOk("work")'
        BY <2>1, <2>3, <2>4, <2>5, Names
        DEF Pushed, Popped, ChunkOk, HandOk, Sending, Failing, Busy, WqItems,
            AqItems
      <3>6. \A u \in Threads : u # "work" => ~ (c \in Chunks /\ Owns(u, c))
        <4>1. ASSUME c \in Chunks
              PROVE  \/ Owns("work", c)
                     \/ InSeq(c, wq) \/ InSeq(c, aq) \/ InSeq(c, eq)
                     \/ st[c] \notin {"WRITE_PENDING", "ACK_PENDING", "WRITE_FAIL"}
                     \/ st[c] = "WRITE_FAIL" /\ c \notin async
          BY <2>1, <2>3, <2>4, <2>5, <4>1 DEF Owns, HandOk, Sending, Failing, Popped
        <4> QED
          BY <2>5, <4>1, NoOtherOwner DEF Threads
      <3>7. \A u \in Threads : u # "work" /\ Sending(u) => writeLock' = u
        BY <2>3, <2>4, <2>5 DEF HandInv, HandOk, Sending, Threads
      <3>8. \A i \in 1 .. Len(inbox') : inbox'[i] \in Msgs =>
               inbox'[i] \in got' \/ InSeq(inbox'[i], inbox)
        BY <2>3, <2>4 DEF InSeq
      <3>9. /\ async' \subseteq async \cup {c} /\ async' \subseteq Msgs
            /\ c \in async' => c \in async \/ st[c] = "none"
            /\ got \subseteq got' /\ reported \subseteq reported'
            /\ magic' = magic /\ "callbacks" # "joining"
            /\ "none" \in {c, "none"} /\ (hand["work"] \in async => hand["work"] = c)
        BY <2>1, <2>3, <2>4, <2>5, Names DEF HandOk, Busy, Unwaited, Ending
      <3> QED
        BY <2>3, <3>1, <3>2, <3>3, <3>4, <3>5, <3>6, <3>7, <3>8, <3>9
        DEF HandsOn
    <2>7. WaitsOn("work", c, "callbacks")
      BY <2>1, <2>3, <2>4, <2>5, Names
      DEF WaitsOn, WaitInv, ChunkOk, HandOk, Popped, Unwaited, Ending, Threads
    <2>8. TypeOK'
      BY <1>0, <2>1, <2>3, <2>4, Names
      DEF TypeOK, ChunkStates, Steps, Threads, WqItems, AqItems, EqItems
    <2>9. ClosedIsReported'
      BY <1>0, <2>1, <2>3, <2>4, ClosedKept, Names
      DEF Steps, Threads, Ending, Pushed, Popped
    <2>10. \A m \in Msgs : result'[m] = "ok" => m \in got'
      BY <2>3, <2>4 DEF ClientInv
    <2> QED
      BY <2>3, <2>6, <2>7, <2>8, <2>9, <2>10, HandStep DEF Steps, Threads
  <1>2. CASE Head(eq) \notin Chunks
    <2>1. PICK c : /\ c = Head(eq) /\ c \in EqItems /\ c \notin Chunks
                   /\ eq' \in Seq(EqItems) /\ Popped(eq', eq, c)
      <3>1. eq \in Seq(EqItems)
        BY <1>0 DEF TypeOK, EqItems
      <3>2. eq # <<>> /\ eq' = Tail(eq)
        BY DEF Callback
      <3>3. /\ Tail(eq) \in Seq(EqItems) /\ Head(eq) \in EqItems
            /\ Popped(Tail(eq), eq, Head(eq))
        BY <3>1, <3>2, PopFacts
      <3> QED
        BY <3>2, <3>3, <1>2
    <2>3. /\ Alive /\ pc' = [pc EXCEPT !["work"] = "callbacks"]
          /\ hand' = [hand EXCEPT !["work"] = "none"]
          /\ pc'["work"] = "callbacks" /\ hand'["work"] = "none"
          /\ pc["work"] = "callbacks" /\ hand["work"] = "none"
          /\ reported' = reported \cup ({c} \cap Msgs)
          /\ lossTold' \in BOOLEAN
          /\ lossTold \/ c = "disconnected" => lossTold'
      <3>1. /\ pc' = pc /\ hand' = hand /\ reported' = reported \cup ({c} \cap Msgs)
        BY <2>1 DEF Callback
      <3>2. /\ lossTold' \in BOOLEAN
            /\ lossTold \/ c = "disconnected" => lossTold'
        BY <2>1 DEF Callback
      <3>3. /\ pc' = [pc EXCEPT !["work"] = "callbacks"]
            /\ hand' = [hand EXCEPT !["work"] = "none"]
            /\ pc'["work"] = "callbacks" /\ hand'["work"] = "none"
        BY <1>0, <1>a, <3>1 DEF TypeOK
      <3> QED
        BY <1>a, <3>1, <3>2, <3>3
    <2>4. /\ connected' = connected /\ link' = link /\ inbox' = inbox
          /\ wq' = wq /\ aq' = aq /\ st' = st /\ timer' = timer
          /\ tries' = tries /\ failed' = failed /\ waits' = waits
          /\ readLock' = readLock /\ writeLock' = writeLock
          /\ sentOn' = sentOn /\ rcvdOn' = rcvdOn /\ works' = works
          /\ handle' = handle /\ magic' = magic /\ outside' = outside
          /\ got' = got /\ result' = result /\ async' = async
      BY <1>2 DEF Callback
    <2>5. /\ HandOk("work") /\ (c \in Chunks => ChunkOk(c))
          /\ OnceIn(wq) /\ OnceIn(aq) /\ OnceIn(eq)
          /\ PlacesInv /\ AsyncInv /\ WaitInv /\ HandInv /\ async \subseteq Msgs
      BY <1>0, <2>3 DEF TypeOK, PlacesInv, HandInv, QueueInv, Threads
    <2>6. HandsOn("work", c, "callbacks", "none")
      <3>1. \A x \in Chunks : x # c => /\ st'[x] = st[x] /\ tries'[x] = tries[x]
                                       /\ x \in async' <=> x \in async
                                       /\ InSeq(x, wq') <=> InSeq(x, wq)
                                       /\ InSeq(x, aq') <=> InSeq(x, aq)
                                       /\ InSeq(x, eq') <=> InSeq(x, eq)
        BY <2>1, <2>3, <2>4, Names DEF Pushed, Popped
      <3>2. OnceIn(wq') /\ OnceIn(aq') /\ OnceIn(eq')
        BY <2>1, <2>3, <2>4, <2>5, Names
        DEF Pushed, Popped, ChunkOk, HandOk, Sending, Failing
      <3>3. c \in Chunks => ChunkOk(c)' /\ st'[c] # "none"
        BY <2>1, <2>3, <2>4, <2>5, Names, RetryIsPositive
        DEF Pushed, Popped, ChunkOk, HandOk, Sending, Failing
      <3>4. c \in async' /\ magic' => AccountOk(c)'
        BY <2>1, <2>3, <2>4, <2>5, Names
        DEF Pushed, Popped, AccountOk, AsyncInv, Threads
      <3>5. HandOk("work")'
        BY <2>1, <2>3, <2>4, <2>5, Names
        DEF Pushed, Popped, ChunkOk, HandOk, Sending, Failing, Busy, WqItems,
            AqItems
      <3>6. \A u \in Threads : u # "work" => ~ (c \in Chunks /\ Owns(u, c))
        BY <2>1, Names
      <3>7. \A u \in Threads : u # "work" /\ Sending(u) => writeLock' = u
        BY <2>3, <2>4, <2>5 DEF HandInv, HandOk, Sending, Threads
      <3>8. \A i \in 1 .. Len(inbox') : inbox'[i] \in Msgs =>
               inbox'[i] \in got' \/ InSeq(inbox'[i], inbox)
        BY <2>3, <2>4 DEF InSeq
      <3>9. /\ async' \subseteq async \cup {c} /\ async' \subseteq Msgs
            /\ c \in async' => c \in async \/ st[c] = "none"
            /\ got \subseteq got' /\ reported \subseteq reported'
            /\ magic' = magic /\ "callbacks" # "joining"
            /\ "none" \in {c, "none"} /\ (hand["work"] \in async => hand["work"] = c)
        BY <2>1, <2>3, <2>4, <2>5, Names DEF HandOk, Busy, Unwaited, Ending
      <3> QED
        BY <2>3, <3>1, <3>2, <3>3, <3>4, <3>5, <3>6, <3>7, <3>8, <3>9
        DEF HandsOn
    <2>7. WaitsOn("work", c, "callbacks")
      BY <2>1, <2>3, <2>4, <2>5, Names
      DEF WaitsOn, WaitInv, ChunkOk, HandOk, Popped, Unwaited, Ending, Threads
    <2>8. TypeOK'
      BY <1>0, <2>1, <2>3, <2>4, Names
      DEF TypeOK, ChunkStates, Steps, Threads, WqItems, AqItems, EqItems
    <2>9. ClosedIsReported'
      BY <1>0, <2>1, <2>3, <2>4, ClosedKept, Names
      DEF Steps, Threads, Ending, Pushed, Popped
    <2>10. \A m \in Msgs : result'[m] = "ok" => m \in got'
      BY <2>3, <2>4 DEF ClientInv
    <2> QED
      BY <2>3, <2>6, <2>7, <2>8, <2>9, <2>10, HandStep DEF Steps, Threads
  <1> QED
    BY <1>1, <1>2

\* st_mqtt_publish queues a packet and waits for it.
LEMMA PublishKeeps ==
    ASSUME ClientInv, NEW p \in Msgs, st_mqtt_publish(p)
    PROVE  ClientInv'
  <1> USE DEF net, queues, chunk, threads, locks, idle, life, told
  <1>0. TypeOK /\ ClosedIsReported /\ (Alive => PlacesInv /\ AsyncInv)
    BY DEF ClientInv
  <1>a. Alive /\ pc["app"] = "idle" /\ hand["app"] = "none" /\ PlacesInv
    <2>1. Alive /\ pc["app"] = "idle"
      BY DEF At, st_mqtt_publish
    <2>2. HandOk("app") /\ PlacesInv
      BY <1>0, <2>1 DEF PlacesInv, HandInv, Threads
    <2> QED
      BY <2>1, <2>2 DEF HandOk, Busy
  <1>1. PICK c : /\ c = p /\ c \in WqItems /\ c \in Chunks /\ c \in Msgs
                 /\ wq' \in Seq(WqItems) /\ Pushed(wq', wq, c)
    <2>1. wq \in Seq(WqItems)
      BY <1>0 DEF TypeOK, WqItems
    <2>2. p \in WqItems
      BY Names DEF WqItems
    <2>3. /\ Append(wq, p) \in Seq(WqItems)
          /\ Pushed(Append(wq, p), wq, p)
      BY <2>1, <2>2, PushFacts
    <2>4. wq' = Append(wq, p)
      BY DEF st_mqtt_publish
    <2> QED
      BY <2>2, <2>3, <2>4, Names
  <1>3. /\ Alive /\ pc' = [pc EXCEPT !["app"] = "write"]
        /\ hand' = [hand EXCEPT !["app"] = "none"]
        /\ pc'["app"] = "write" /\ hand'["app"] = "none"
        /\ pc["app"] = "idle" /\ hand["app"] = "none" /\ st[c] = "none"
        /\ st' \in [Chunks -> ChunkStates]
        /\ \A x \in Chunks : x # c => st'[x] = st[x]
        /\ c \in Chunks => st'[c] = "WRITE_PENDING"
        /\ waits' = [waits EXCEPT !["app"] = c]
    <2>1. /\ pc' = [pc EXCEPT !["app"] = "write"] /\ hand' = hand /\ st[c] = "none"
          /\ st' = [st EXCEPT ![c] = "WRITE_PENDING"] /\ waits' = [waits EXCEPT !["app"] = c]
      BY <1>1 DEF Goto, Fresh, st_mqtt_publish
    <2>2. /\ hand' = [hand EXCEPT !["app"] = "none"] /\ hand'["app"] = "none"
          /\ pc'["app"] = "write"
          /\ st' \in [Chunks -> ChunkStates] /\ st'[c] = "WRITE_PENDING"
          /\ \A x \in Chunks : x # c => st'[x] = st[x]
      BY <1>0, <1>a, <1>1, <2>1 DEF TypeOK, ChunkStates, Threads
    <2> QED
      BY <1>a, <2>1, <2>2
  <1>4. /\ connected' = connected /\ link' = link /\ inbox' = inbox
        /\ aq' = aq /\ eq' = eq /\ timer' = timer /\ tries' = tries
        /\ failed' = failed /\ readLock' = readLock
        /\ writeLock' = writeLock /\ sentOn' = sentOn /\ rcvdOn' = rcvdOn
        /\ works' = works /\ handle' = handle /\ magic' = magic
        /\ outside' = outside /\ got' = got /\ result' = result
        /\ async' = async /\ reported' = reported /\ lossTold' = lossTold
    BY DEF st_mqtt_publish
  <1>5. /\ HandOk("app") /\ (c \in Chunks => ChunkOk(c))
        /\ OnceIn(wq) /\ OnceIn(aq) /\ OnceIn(eq)
        /\ PlacesInv /\ AsyncInv /\ WaitInv /\ HandInv /\ async \subseteq Msgs
    BY <1>0, <1>3 DEF TypeOK, PlacesInv, HandInv, QueueInv, Threads
  <1>6. HandsOn("app", c, "write", "none")
    <2>1. \A x \in Chunks : x # c => /\ st'[x] = st[x] /\ tries'[x] = tries[x]
                                     /\ x \in async' <=> x \in async
                                     /\ InSeq(x, wq') <=> InSeq(x, wq)
                                     /\ InSeq(x, aq') <=> InSeq(x, aq)
                                     /\ InSeq(x, eq') <=> InSeq(x, eq)
      BY <1>1, <1>3, <1>4, Names DEF Pushed, Popped
    <2>2. OnceIn(wq') /\ OnceIn(aq') /\ OnceIn(eq')
      BY <1>1, <1>3, <1>4, <1>5, Names
      DEF Pushed, Popped, ChunkOk, HandOk, Sending, Failing
    <2>3. c \in Chunks => ChunkOk(c)' /\ st'[c] # "none"
      BY <1>1, <1>3, <1>4, <1>5, Names, RetryIsPositive
      DEF Pushed, Popped, ChunkOk, HandOk, Sending, Failing
    <2>4. c \in async' /\ magic' => AccountOk(c)'
      BY <1>1, <1>3, <1>4, <1>5, Names
      DEF Pushed, Popped, AccountOk, AsyncInv, Threads
    <2>5. HandOk("app")'
      BY <1>1, <1>3, <1>4, <1>5, Names
      DEF Pushed, Popped, ChunkOk, HandOk, Sending, Failing, Busy, WqItems,
          AqItems
    <2>6. \A u \in Threads : u # "app" => ~ (c \in Chunks /\ Owns(u, c))
      BY <1>1, <1>3, <1>4, <1>5, NoOtherOwner
      DEF Owns, HandOk, Sending, Failing, Popped, Threads
    <2>7. \A u \in Threads : u # "app" /\ Sending(u) => writeLock' = u
      BY <1>3, <1>4, <1>5 DEF HandInv, HandOk, Sending, Threads
    <2>8. \A i \in 1 .. Len(inbox') : inbox'[i] \in Msgs =>
             inbox'[i] \in got' \/ InSeq(inbox'[i], inbox)
      BY <1>3, <1>4 DEF InSeq
    <2>9. /\ async' \subseteq async \cup {c} /\ async' \subseteq Msgs
          /\ c \in async' => c \in async \/ st[c] = "none"
          /\ got \subseteq got' /\ reported \subseteq reported'
          /\ magic' = magic /\ "write" # "joining"
          /\ "none" \in {c, "none"} /\ (hand["app"] \in async => hand["app"] = c)
      BY <1>1, <1>3, <1>4, <1>5, Names DEF HandOk, Busy, Unwaited, Ending
    <2> QED
      BY <1>3, <2>1, <2>2, <2>3, <2>4, <2>5, <2>6, <2>7, <2>8, <2>9 DEF HandsOn
  <1>7. WaitInv'
    <2>1. /\ pc'["app"] = "write" /\ waits'["app"] = c
          /\ \A u \in Threads : u # "app" => waits'[u] = waits[u] /\ pc'[u] = pc[u]
      BY <1>0, <1>3 DEF TypeOK, Threads
    <2>2. ASSUME NEW u \in Threads
          PROVE  /\ waits'[u] \notin async'
                 /\ waits'[u] \in Chunks => st'[waits'[u]] # "none"
      <3>1. waits[u] \notin async /\ (waits[u] \in Chunks => st[waits[u]] # "none")
        BY <1>5 DEF WaitInv
      <3>2. \A x \in Chunks : st[x] # "none" => st'[x] # "none"
        BY <1>1, <1>3
      <3>3. waits'[u] = waits[u] \/ waits'[u] = c
        BY <2>1
      <3>4. c \notin async' /\ async' = async /\ st'[c] # "none"
        BY <1>1, <1>3, <1>4, <1>5 DEF ChunkOk
      <3> QED
        BY <3>1, <3>2, <3>3, <3>4
    <2>3. ASSUME NEW u \in Threads
          PROVE  /\ pc'[u] = "check" => waits'[u] # "none"
                 /\ pc'[u] \in Unwaited => waits'[u] = "none"
      BY <1>5, <2>1 DEF WaitInv, Unwaited
    <2>4. /\ waits'["app"] \in Msgs \cup {"none"}
          /\ waits'["work"] \in {"DISCONNECT", "none"}
          /\ waits'["sock"] = "none"
      BY <1>1, <1>5, <2>1 DEF WaitInv, Threads
    <2>5. waits'["work"] = "none" /\ pc'["work"] \notin {"closing", "closed", "joining"}
             => st'["DISCONNECT"] = "none"
      BY <1>1, <1>3, <1>5, <2>1, Names DEF WaitInv, Threads
    <2> QED
      BY <2>2, <2>3, <2>4, <2>5 DEF WaitInv
  <1>8. TypeOK'
    BY <1>0, <1>1, <1>3, <1>4, Names
    DEF TypeOK, ChunkStates, Steps, Threads, WqItems, AqItems, EqItems
  <1>9. ClosedIsReported'
    BY <1>0, <1>1, <1>3, <1>4, ClosedKept, Names
    DEF Steps, Threads, Ending, Pushed, Popped
  <1>10. \A m \in Msgs : result'[m] = "ok" => m \in got'
    BY <1>3, <1>4 DEF ClientInv
  <1> QED
    BY <1>3, <1>6, <1>7, <1>8, <1>9, <1>10, HandStep DEF Steps, Threads

\* st_mqtt_publish_async queues a packet that nobody owns.
LEMMA PublishAsyncKeeps ==
    ASSUME ClientInv, NEW p \in Msgs, st_mqtt_publish_async(p)
    PROVE  ClientInv'
  <1> USE DEF net, queues, chunk, threads, locks, idle, life, told
  <1>0. TypeOK /\ ClosedIsReported /\ (Alive => PlacesInv /\ AsyncInv)
    BY DEF ClientInv
  <1>a. Alive /\ pc["app"] = "idle" /\ hand["app"] = "none" /\ PlacesInv
    <2>1. Alive /\ pc["app"] = "idle"
      BY DEF At, st_mqtt_publish_async
    <2>2. HandOk("app") /\ PlacesInv
      BY <1>0, <2>1 DEF PlacesInv, HandInv, Threads
    <2> QED
      BY <2>1, <2>2 DEF HandOk, Busy
  <1>1. PICK c : /\ c = p /\ c \in WqItems /\ c \in Chunks /\ c \in Msgs
                 /\ wq' \in Seq(WqItems) /\ Pushed(wq', wq, c)
    <2>1. wq \in Seq(WqItems)
      BY <1>0 DEF TypeOK, WqItems
    <2>2. p \in WqItems
      BY Names DEF WqItems
    <2>3. /\ Append(wq, p) \in Seq(WqItems)
          /\ Pushed(Append(wq, p), wq, p)
      BY <2>1, <2>2, PushFacts
    <2>4. wq' = Append(wq, p)
      BY DEF st_mqtt_publish_async
    <2> QED
      BY <2>2, <2>3, <2>4, Names
  <1>3. /\ Alive /\ pc' = [pc EXCEPT !["app"] = "idle"]
        /\ hand' = [hand EXCEPT !["app"] = "none"]
        /\ pc'["app"] = "idle" /\ hand'["app"] = "none"
        /\ pc["app"] = "idle" /\ hand["app"] = "none" /\ st[c] = "none"
        /\ st' \in [Chunks -> ChunkStates]
        /\ \A x \in Chunks : x # c => st'[x] = st[x]
        /\ c \in Chunks => st'[c] = "WRITE_PENDING"
        /\ async' = async \cup {c}
        /\ works' \in 0 .. MaxWorks
    <2>1. /\ pc' = pc /\ hand' = hand /\ st[c] = "none" /\ Signal
          /\ st' = [st EXCEPT ![c] = "WRITE_PENDING"] /\ async' = async \cup {c}
      BY <1>1 DEF Goto, Fresh, st_mqtt_publish_async
    <2>2. /\ hand' = [hand EXCEPT !["app"] = "none"] /\ hand'["app"] = "none"
          /\ pc' = [pc EXCEPT !["app"] = "idle"] /\ pc'["app"] = "idle"
          /\ st' \in [Chunks -> ChunkStates] /\ st'[c] = "WRITE_PENDING"
          /\ \A x \in Chunks : x # c => st'[x] = st[x]
      BY <1>0, <1>a, <1>1, <2>1 DEF TypeOK, ChunkStates, Threads
    <2>3. works' \in 0 .. MaxWorks
      BY <1>0, <2>1, SignalTyped
    <2> QED
      BY <1>a, <2>1, <2>2, <2>3
  <1>4. /\ connected' = connected /\ link' = link /\ inbox' = inbox
        /\ aq' = aq /\ eq' = eq /\ timer' = timer /\ tries' = tries
        /\ failed' = failed /\ waits' = waits /\ readLock' = readLock
        /\ writeLock' = writeLock /\ sentOn' = sentOn /\ rcvdOn' = rcvdOn
        /\ handle' = handle /\ magic' = magic /\ outside' = outside
        /\ got' = got /\ result' = result /\ reported' = reported
        /\ lossTold' = lossTold
    BY DEF st_mqtt_publish_async
  <1>5. /\ HandOk("app") /\ (c \in Chunks => ChunkOk(c))
        /\ OnceIn(wq) /\ OnceIn(aq) /\ OnceIn(eq)
        /\ PlacesInv /\ AsyncInv /\ WaitInv /\ HandInv /\ async \subseteq Msgs
    BY <1>0, <1>3 DEF TypeOK, PlacesInv, HandInv, QueueInv, Threads
  <1>6. HandsOn("app", c, "idle", "none")
    <2>1. \A x \in Chunks : x # c => /\ st'[x] = st[x] /\ tries'[x] = tries[x]
                                     /\ x \in async' <=> x \in async
                                     /\ InSeq(x, wq') <=> InSeq(x, wq)
                                     /\ InSeq(x, aq') <=> InSeq(x, aq)
                                     /\ InSeq(x, eq') <=> InSeq(x, eq)
      BY <1>1, <1>3, <1>4, Names DEF Pushed, Popped
    <2>2. OnceIn(wq') /\ OnceIn(aq') /\ OnceIn(eq')
      BY <1>1, <1>3, <1>4, <1>5, Names
      DEF Pushed, Popped, ChunkOk, HandOk, Sending, Failing
    <2>3. c \in Chunks => ChunkOk(c)' /\ st'[c] # "none"
      BY <1>1, <1>3, <1>4, <1>5, Names, RetryIsPositive
      DEF Pushed, Popped, ChunkOk, HandOk, Sending, Failing
    <2>4. c \in async' /\ magic' => AccountOk(c)'
      BY <1>1, <1>3, <1>4, <1>5, Names
      DEF Pushed, Popped, AccountOk, AsyncInv, Threads
    <2>5. HandOk("app")'
      BY <1>1, <1>3, <1>4, <1>5, Names
      DEF Pushed, Popped, ChunkOk, HandOk, Sending, Failing, Busy, WqItems,
          AqItems
    <2>6. \A u \in Threads : u # "app" => ~ (c \in Chunks /\ Owns(u, c))
      BY <1>1, <1>3, <1>4, <1>5, NoOtherOwner
      DEF Owns, HandOk, Sending, Failing, Popped, Threads
    <2>7. \A u \in Threads : u # "app" /\ Sending(u) => writeLock' = u
      BY <1>3, <1>4, <1>5 DEF HandInv, HandOk, Sending, Threads
    <2>8. \A i \in 1 .. Len(inbox') : inbox'[i] \in Msgs =>
             inbox'[i] \in got' \/ InSeq(inbox'[i], inbox)
      BY <1>3, <1>4 DEF InSeq
    <2>9. /\ async' \subseteq async \cup {c} /\ async' \subseteq Msgs
          /\ c \in async' => c \in async \/ st[c] = "none"
          /\ got \subseteq got' /\ reported \subseteq reported'
          /\ magic' = magic /\ "idle" # "joining"
          /\ "none" \in {c, "none"} /\ (hand["app"] \in async => hand["app"] = c)
      BY <1>1, <1>3, <1>4, <1>5, Names DEF HandOk, Busy, Unwaited, Ending
    <2> QED
      BY <1>3, <2>1, <2>2, <2>3, <2>4, <2>5, <2>6, <2>7, <2>8, <2>9 DEF HandsOn
  <1>7. WaitsOn("app", c, "idle")
    BY <1>1, <1>3, <1>4, <1>5, Names
    DEF WaitsOn, WaitInv, ChunkOk, HandOk, Popped, Unwaited, Ending, Threads
  <1>8. TypeOK'
    BY <1>0, <1>1, <1>3, <1>4, Names
    DEF TypeOK, ChunkStates, Steps, Threads, WqItems, AqItems, EqItems
  <1>9. ClosedIsReported'
    BY <1>0, <1>1, <1>3, <1>4, ClosedKept, Names
    DEF Steps, Threads, Ending, Pushed, Popped
  <1>10. \A m \in Msgs : result'[m] = "ok" => m \in got'
    BY <1>3, <1>4 DEF ClientInv
  <1> QED
    BY <1>3, <1>6, <1>7, <1>8, <1>9, <1>10, HandStep DEF Steps, Threads

\* st_mqtt_disconnect queues its packet and waits for it.
LEMMA DisconnectKeeps ==
    ASSUME ClientInv, Disconnect
    PROVE  ClientInv'
  <1> USE DEF net, queues, chunk, threads, locks, idle, life, told
  <1>0. TypeOK /\ ClosedIsReported /\ (Alive => PlacesInv /\ AsyncInv)
    BY DEF ClientInv
  <1>a. Alive /\ pc["work"] = "idle" /\ hand["work"] = "none" /\ PlacesInv
    <2>1. Alive /\ pc["work"] = "idle"
      BY DEF At, Disconnect
    <2>2. HandOk("work") /\ PlacesInv
      BY <1>0, <2>1 DEF PlacesInv, HandInv, Threads
    <2> QED
      BY <2>1, <2>2 DEF HandOk, Busy
  <1>1. PICK c : /\ c = "DISCONNECT" /\ c \in WqItems /\ c \in Chunks /\ c \notin Msgs
                 /\ wq' \in Seq(WqItems) /\ Pushed(wq', wq, c)
    <2>1. wq \in Seq(WqItems)
      BY <1>0 DEF TypeOK, WqItems
    <2>2. "DISCONNECT" \in WqItems
      BY Names DEF WqItems
    <2>3. /\ Append(wq, "DISCONNECT") \in Seq(WqItems)
          /\ Pushed(Append(wq, "DISCONNECT"), wq, "DISCONNECT")
      BY <2>1, <2>2, PushFacts
    <2>4. wq' = Append(wq, "DISCONNECT")
      BY DEF Disconnect
    <2> QED
      BY <2>2, <2>3, <2>4, Names
  <1>3. /\ Alive /\ pc' = [pc EXCEPT !["work"] = "write"]
        /\ hand' = [hand EXCEPT !["work"] = "none"]
        /\ pc'["work"] = "write" /\ hand'["work"] = "none"
        /\ pc["work"] = "idle" /\ hand["work"] = "none" /\ st[c] = "none"
        /\ st' \in [Chunks -> ChunkStates]
        /\ \A x \in Chunks : x # c => st'[x] = st[x]
        /\ c \in Chunks => st'[c] = "WRITE_PENDING"
        /\ waits' = [waits EXCEPT !["work"] = c]
    <2>1. /\ pc' = [pc EXCEPT !["work"] = "write"] /\ hand' = hand
          /\ st' = [st EXCEPT ![c] = "WRITE_PENDING"] /\ waits' = [waits EXCEPT !["work"] = c]
      BY <1>1 DEF Goto, Disconnect
    <2>2. /\ hand' = [hand EXCEPT !["work"] = "none"] /\ hand'["work"] = "none"
          /\ pc'["work"] = "write"
          /\ st' \in [Chunks -> ChunkStates] /\ st'[c] = "WRITE_PENDING"
          /\ \A x \in Chunks : x # c => st'[x] = st[x]
      BY <1>0, <1>a, <1>1, <2>1 DEF TypeOK, ChunkStates, Threads
    <2>3. st[c] = "none"
      BY <1>a, <1>1 DEF PlacesInv, WaitInv, Unwaited, Threads
    <2> QED
      BY <1>a, <2>1, <2>2, <2>3
  <1>4. /\ connected' = connected /\ link' = link /\ inbox' = inbox
        /\ aq' = aq /\ eq' = eq /\ timer' = timer /\ tries' = tries
        /\ failed' = failed /\ readLock' = readLock
        /\ writeLock' = writeLock /\ sentOn' = sentOn /\ rcvdOn' = rcvdOn
        /\ works' = works /\ handle' = handle /\ magic' = magic
        /\ outside' = outside /\ got' = got /\ result' = result
        /\ async' = async /\ reported' = reported /\ lossTold' = lossTold
    BY DEF Disconnect
  <1>5. /\ HandOk("work") /\ (c \in Chunks => ChunkOk(c))
        /\ OnceIn(wq) /\ OnceIn(aq) /\ OnceIn(eq)
        /\ PlacesInv /\ AsyncInv /\ WaitInv /\ HandInv /\ async \subseteq Msgs
    BY <1>0, <1>3 DEF TypeOK, PlacesInv, HandInv, QueueInv, Threads
  <1>6. HandsOn("work", c, "write", "none")
    <2>1. \A x \in Chunks : x # c => /\ st'[x] = st[x] /\ tries'[x] = tries[x]
                                     /\ x \in async' <=> x \in async
                                     /\ InSeq(x, wq') <=> InSeq(x, wq)
                                     /\ InSeq(x, aq') <=> InSeq(x, aq)
                                     /\ InSeq(x, eq') <=> InSeq(x, eq)
      BY <1>1, <1>3, <1>4, Names DEF Pushed, Popped
    <2>2. OnceIn(wq') /\ OnceIn(aq') /\ OnceIn(eq')
      BY <1>1, <1>3, <1>4, <1>5, Names
      DEF Pushed, Popped, ChunkOk, HandOk, Sending, Failing
    <2>3. c \in Chunks => ChunkOk(c)' /\ st'[c] # "none"
      BY <1>1, <1>3, <1>4, <1>5, Names, RetryIsPositive
      DEF Pushed, Popped, ChunkOk, HandOk, Sending, Failing
    <2>4. c \in async' /\ magic' => AccountOk(c)'
      BY <1>1, <1>3, <1>4, <1>5, Names
      DEF Pushed, Popped, AccountOk, AsyncInv, Threads
    <2>5. HandOk("work")'
      BY <1>1, <1>3, <1>4, <1>5, Names
      DEF Pushed, Popped, ChunkOk, HandOk, Sending, Failing, Busy, WqItems,
          AqItems
    <2>6. \A u \in Threads : u # "work" => ~ (c \in Chunks /\ Owns(u, c))
      BY <1>1, <1>3, <1>4, <1>5, NoOtherOwner
      DEF Owns, HandOk, Sending, Failing, Popped, Threads
    <2>7. \A u \in Threads : u # "work" /\ Sending(u) => writeLock' = u
      BY <1>3, <1>4, <1>5 DEF HandInv, HandOk, Sending, Threads
    <2>8. \A i \in 1 .. Len(inbox') : inbox'[i] \in Msgs =>
             inbox'[i] \in got' \/ InSeq(inbox'[i], inbox)
      BY <1>3, <1>4 DEF InSeq
    <2>9. /\ async' \subseteq async \cup {c} /\ async' \subseteq Msgs
          /\ c \in async' => c \in async \/ st[c] = "none"
          /\ got \subseteq got' /\ reported \subseteq reported'
          /\ magic' = magic /\ "write" # "joining"
          /\ "none" \in {c, "none"} /\ (hand["work"] \in async => hand["work"] = c)
      BY <1>1, <1>3, <1>4, <1>5, Names DEF HandOk, Busy, Unwaited, Ending
    <2> QED
      BY <1>3, <2>1, <2>2, <2>3, <2>4, <2>5, <2>6, <2>7, <2>8, <2>9 DEF HandsOn
  <1>7. WaitInv'
    <2>1. /\ pc'["work"] = "write" /\ waits'["work"] = c
          /\ \A u \in Threads : u # "work" => waits'[u] = waits[u] /\ pc'[u] = pc[u]
      BY <1>0, <1>3 DEF TypeOK, Threads
    <2>2. ASSUME NEW u \in Threads
          PROVE  /\ waits'[u] \notin async'
                 /\ waits'[u] \in Chunks => st'[waits'[u]] # "none"
      <3>1. waits[u] \notin async /\ (waits[u] \in Chunks => st[waits[u]] # "none")
        BY <1>5 DEF WaitInv
      <3>2. \A x \in Chunks : st[x] # "none" => st'[x] # "none"
        BY <1>1, <1>3
      <3>3. waits'[u] = waits[u] \/ waits'[u] = c
        BY <2>1
      <3>4. c \notin async' /\ async' = async /\ st'[c] # "none"
        BY <1>1, <1>3, <1>4, <1>5 DEF ChunkOk
      <3> QED
        BY <3>1, <3>2, <3>3, <3>4
    <2>3. ASSUME NEW u \in Threads
          PROVE  /\ pc'[u] = "check" => waits'[u] # "none"
                 /\ pc'[u] \in Unwaited => waits'[u] = "none"
      BY <1>5, <2>1 DEF WaitInv, Unwaited
    <2>4. /\ waits'["app"] \in Msgs \cup {"none"}
          /\ waits'["work"] \in {"DISCONNECT", "none"}
          /\ waits'["sock"] = "none"
      BY <1>1, <1>5, <2>1 DEF WaitInv, Threads
    <2>5. waits'["work"] = "none" /\ pc'["work"] \notin {"closing", "closed", "joining"}
             => st'["DISCONNECT"] = "none"
      BY <1>1, <1>3, <1>5, <2>1, Names DEF WaitInv, Threads
    <2> QED
      BY <2>2, <2>3, <2>4, <2>5 DEF WaitInv
  <1>8. TypeOK'
    BY <1>0, <1>1, <1>3, <1>4, Names
    DEF TypeOK, ChunkStates, Steps, Threads, WqItems, AqItems, EqItems
  <1>9. ClosedIsReported'
    BY <1>0, <1>1, <1>3, <1>4, ClosedKept, Names
    DEF Steps, Threads, Ending, Pushed, Popped
  <1>10. \A m \in Msgs : result'[m] = "ok" => m \in got'
    BY <1>3, <1>4 DEF ClientInv
  <1> QED
    BY <1>3, <1>6, <1>7, <1>8, <1>9, <1>10, HandStep DEF Steps, Threads

\* The call has what it waited for.
LEMMA WaitDoneKeeps ==
    ASSUME ClientInv, NEW t \in Threads, WaitDone(t)
    PROVE  ClientInv'
  <1> USE DEF net, queues, chunk, threads, locks, idle, life, told
  <1>0. TypeOK /\ ClosedIsReported /\ (Alive => PlacesInv /\ AsyncInv)
    BY DEF ClientInv
  <1>a. /\ Alive /\ pc[t] = "check" /\ hand[t] = "none"
        /\ waits[t] \in Chunks /\ waits[t] \notin async
        /\ t # "app" => t = "work"
    <2>1. Alive /\ pc[t] = "check"
      BY DEF At, WaitDone
    <2>2. HandOk(t) /\ WaitInv
      BY <1>0, <2>1 DEF PlacesInv, HandInv
    <2>3. waits[t] \in Chunks \cup {"none"} /\ waits[t] # "none"
      BY <1>0, <2>1, <2>2 DEF TypeOK, WaitInv
    <2>4. t # "sock"
      BY <2>2, <2>3 DEF WaitInv
    <2> QED
      BY <2>1, <2>2, <2>3, <2>4 DEF HandOk, Busy, WaitInv, Threads
  <1>1. PICK c : /\ c = waits[t] /\ c \in Chunks /\ c \notin async
                 /\ st[c] \in {"WRITE_COMPLETED", "ACKNOWLEDGED"}
    BY <1>a DEF WaitDone
  <1>2. PICK l \in Steps : /\ l = IF t = "app" THEN "idle" ELSE "closing"
                           /\ t = "app" => l = "idle"
                           /\ t # "app" => l = "closing"
    BY DEF Steps
  <1>3. /\ Alive /\ pc' = [pc EXCEPT ![t] = l]
        /\ hand' = [hand EXCEPT ![t] = "none"]
        /\ pc'[t] = l /\ hand'[t] = "none"
        /\ pc[t] = "check" /\ hand[t] = "none" /\ waits[t] = c
        /\ t # "app" => t = "work"
        /\ st' \in [Chunks -> ChunkStates]
        /\ \A x \in Chunks : x # c => st'[x] = st[x]
        /\ c \in Chunks => st'[c] = "freed"
        /\ timer' \in [Chunks -> {"none", "active", "expired"}]
        /\ tries' \in [Chunks -> 0 .. PublishRetry]
        /\ \A x \in Chunks : x # c => tries'[x] = tries[x]
        /\ c \in Chunks => tries'[c] = 0
        /\ waits' = [waits EXCEPT ![t] = "none"]
        /\ failed' = [failed EXCEPT ![t] = FALSE]
        /\ result' \in [Msgs -> {"none", "ok", "failed"}]
        /\ \A m \in Msgs : result'[m] = "ok" =>
              result[m] = "ok"
              \/ (m = c /\ st[c] \in {"WRITE_COMPLETED", "ACKNOWLEDGED"})
    <2>1. WaitEnds(t, TRUE)
      BY DEF WaitDone
    <2>2. /\ st' = [st EXCEPT ![c] = "freed"] /\ timer' = [timer EXCEPT ![c] = "none"]
          /\ tries' = [tries EXCEPT ![c] = 0]
          /\ waits' = [waits EXCEPT ![t] = "none"]
          /\ failed' = [failed EXCEPT ![t] = FALSE]
          /\ pc' = [pc EXCEPT ![t] = l] /\ hand' = hand
      BY <1>1, <1>2, <2>1 DEF WaitEnds, Free, Goto
    <2>3. /\ st' \in [Chunks -> ChunkStates] /\ st'[c] = "freed"
          /\ timer' \in [Chunks -> {"none", "active", "expired"}]
          /\ tries' \in [Chunks -> 0 .. PublishRetry] /\ tries'[c] = 0
          /\ \A x \in Chunks : x # c => st'[x] = st[x] /\ tries'[x] = tries[x]
      BY <1>0, <1>1, <2>2, RetryIsPositive DEF TypeOK, ChunkStates
    <2>4. /\ hand' = [hand EXCEPT ![t] = "none"] /\ hand'[t] = "none" /\ pc'[t] = l
      BY <1>0, <1>a, <2>2 DEF TypeOK
    <2>5. /\ result' \in [Msgs -> {"none", "ok", "failed"}]
          /\ \A m \in Msgs : result'[m] = "ok" => result[m] = "ok" \/ m = c
      BY <1>0, <1>1, <2>1 DEF TypeOK, WaitEnds
    <2>6. \A m \in Msgs : result'[m] = "ok" =>
             result[m] = "ok" \/ (m = c /\ st[c] \in {"WRITE_COMPLETED", "ACKNOWLEDGED"})
      BY <1>1, <2>5
    <2> QED
      BY <1>a, <1>1, <2>2, <2>3, <2>4, <2>5, <2>6
  <1>4. /\ connected' = connected /\ link' = link /\ inbox' = inbox
        /\ wq' = wq /\ aq' = aq /\ eq' = eq /\ readLock' = readLock
        /\ writeLock' = writeLock /\ sentOn' = sentOn /\ rcvdOn' = rcvdOn
        /\ works' = works /\ handle' = handle /\ magic' = magic
        /\ outside' = outside /\ got' = got /\ async' = async
        /\ reported' = reported /\ lossTold' = lossTold
    BY DEF WaitEnds, WaitDone
  <1>5. /\ HandOk(t) /\ (c \in Chunks => ChunkOk(c))
        /\ OnceIn(wq) /\ OnceIn(aq) /\ OnceIn(eq)
        /\ PlacesInv /\ AsyncInv /\ WaitInv /\ HandInv /\ async \subseteq Msgs
    BY <1>0, <1>3 DEF TypeOK, PlacesInv, HandInv, QueueInv, Threads
  <1>6. HandsOn(t, c, l, "none")
    <2>1. \A x \in Chunks : x # c => /\ st'[x] = st[x] /\ tries'[x] = tries[x]
                                     /\ x \in async' <=> x \in async
                                     /\ InSeq(x, wq') <=> InSeq(x, wq)
                                     /\ InSeq(x, aq') <=> InSeq(x, aq)
                                     /\ InSeq(x, eq') <=> InSeq(x, eq)
      BY <1>1, <1>3, <1>4, Names DEF Pushed, Popped
    <2>2. OnceIn(wq') /\ OnceIn(aq') /\ OnceIn(eq')
      BY <1>1, <1>2, <1>3, <1>4, <1>5, Names
      DEF Pushed, Popped, ChunkOk, HandOk, Sending, Failing
    <2>3. c \in Chunks => ChunkOk(c)' /\ st'[c] # "none"
      BY <1>1, <1>2, <1>3, <1>4, <1>5, Names, RetryIsPositive
      DEF Pushed, Popped, ChunkOk, HandOk, Sending, Failing
    <2>4. c \in async' /\ magic' => AccountOk(c)'
      BY <1>1, <1>2, <1>3, <1>4, <1>5, Names
      DEF Pushed, Popped, AccountOk, AsyncInv, Threads
    <2>5. HandOk(t)'
      <3>1. pc'[t] \notin Busy /\ hand'[t] = "none"
        BY <1>2, <1>3 DEF Busy
      <3> QED
        BY <3>1, Names DEF HandOk, Sending, Failing, Busy
    <2>6. \A u \in Threads : u # t => ~ (c \in Chunks /\ Owns(u, c))
      BY <1>1, <1>5, NoOtherOwner
    <2>7. \A u \in Threads : u # t /\ Sending(u) => writeLock' = u
      BY <1>3, <1>4, <1>5 DEF HandInv, HandOk, Sending, Threads
    <2>8. \A i \in 1 .. Len(inbox') : inbox'[i] \in Msgs =>
             inbox'[i] \in got' \/ InSeq(inbox'[i], inbox)
      BY <1>3, <1>4 DEF InSeq
    <2>9. /\ async' \subseteq async \cup {c} /\ async' \subseteq Msgs
          /\ c \in async' => c \in async \/ st[c] = "none"
          /\ got \subseteq got' /\ reported \subseteq reported'
          /\ magic' = magic /\ l # "joining"
          /\ "none" \in {c, "none"} /\ (hand[t] \in async => hand[t] = c)
      BY <1>1, <1>2, <1>3, <1>4, <1>5, Names
    <2> QED
      BY <1>3, <2>1, <2>2, <2>3, <2>4, <2>5, <2>6, <2>7, <2>8, <2>9 DEF HandsOn
  <1>7. WaitInv'
    <2>1. /\ pc'[t] = l /\ waits'[t] = "none"
          /\ \A u \in Threads : u # t => waits'[u] = waits[u] /\ pc'[u] = pc[u]
      BY <1>0, <1>3 DEF TypeOK
    <2>2. ASSUME NEW u \in Threads
          PROVE  /\ waits'[u] \notin async'
                 /\ waits'[u] \in Chunks => st'[waits'[u]] # "none"
      <3>1. waits[u] \notin async /\ (waits[u] \in Chunks => st[waits[u]] # "none")
        BY <1>5 DEF WaitInv
      <3>2. \A x \in Chunks : st[x] # "none" => st'[x] # "none"
        BY <1>1, <1>3
      <3>3. waits'[u] = waits[u] \/ waits'[u] = "none"
        BY <2>1
      <3>4. "none" \notin async' /\ async' = async /\ "none" \notin Chunks
        BY <1>4, <1>5, Names
      <3> QED
        BY <3>1, <3>2, <3>3, <3>4
    <2>3. ASSUME NEW u \in Threads
          PROVE  /\ pc'[u] = "check" => waits'[u] # "none"
                 /\ pc'[u] \in Unwaited => waits'[u] = "none"
      BY <1>2, <1>5, <2>1 DEF WaitInv
    <2>4. /\ waits'["app"] \in Msgs \cup {"none"}
          /\ waits'["work"] \in {"DISCONNECT", "none"}
          /\ waits'["sock"] = "none"
      BY <1>5, <2>1 DEF WaitInv, Threads
    <2>5. waits'["work"] = "none" /\ pc'["work"] \notin {"closing", "closed", "joining"}
             => st'["DISCONNECT"] = "none"
      <3>1. CASE t = "app"
        <4>1. c # "DISCONNECT"
          BY <1>3, <1>5, <3>1, Names DEF WaitInv
        <4> QED
          BY <1>3, <1>5, <2>1, <3>1, <4>1, Names DEF WaitInv, Threads
      <3>2. CASE t = "work"
        BY <1>2, <2>1, <3>2
      <3> QED
        BY <1>3, <3>1, <3>2
    <2> QED
      BY <2>2, <2>3, <2>4, <2>5 DEF WaitInv
  <1>8. TypeOK'
    BY <1>0, <1>1, <1>2, <1>3, <1>4, Names
    DEF TypeOK, ChunkStates, Steps, Threads, WqItems, AqItems, EqItems
  <1>9. ClosedIsReported'
    BY <1>0, <1>1, <1>2, <1>3, <1>4, ClosedKept, Names
    DEF Steps, Threads, Ending, Pushed, Popped
  <1>10. \A m \in Msgs : result'[m] = "ok" => m \in got'
    <2>1. c \in Msgs /\ st[c] \in {"WRITE_COMPLETED", "ACKNOWLEDGED"} => c \in got
      BY <1>1, <1>5 DEF ChunkOk
    <2> QED
      BY <1>3, <1>4, <2>1 DEF ClientInv
  <1> QED
    BY <1>3, <1>6, <1>7, <1>8, <1>9, <1>10, HandStep DEF Threads

\* The packet failed.
LEMMA WaitFailsKeeps ==
    ASSUME ClientInv, NEW t \in Threads, WaitFails(t)
    PROVE  ClientInv'
  <1> USE DEF net, queues, chunk, threads, locks, idle, life, told
  <1>0. TypeOK /\ ClosedIsReported /\ (Alive => PlacesInv /\ AsyncInv)
    BY DEF ClientInv
  <1>a. /\ Alive /\ pc[t] = "check" /\ hand[t] = "none"
        /\ waits[t] \in Chunks /\ waits[t] \notin async
        /\ t # "app" => t = "work"
    <2>1. Alive /\ pc[t] = "check"
      BY DEF At, WaitFails
    <2>2. HandOk(t) /\ WaitInv
      BY <1>0, <2>1 DEF PlacesInv, HandInv
    <2>3. waits[t] \in Chunks \cup {"none"} /\ waits[t] # "none"
      BY <1>0, <2>1, <2>2 DEF TypeOK, WaitInv
    <2>4. t # "sock"
      BY <2>2, <2>3 DEF WaitInv
    <2> QED
      BY <2>1, <2>2, <2>3, <2>4 DEF HandOk, Busy, WaitInv, Threads
  <1>1. PICK c : /\ c = waits[t] /\ c \in Chunks /\ c \notin async
                 /\ st[c] \in {"QUEUE_DESTROYED", "WRITE_FAIL", "TIMEOUT"}
    BY <1>a DEF WaitFails
  <1>2. PICK l \in Steps : /\ l = IF t = "app" THEN "idle" ELSE "closing"
                           /\ t = "app" => l = "idle"
                           /\ t # "app" => l = "closing"
    BY DEF Steps
  <1>3. /\ Alive /\ pc' = [pc EXCEPT ![t] = l]
        /\ hand' = [hand EXCEPT ![t] = "none"]
        /\ pc'[t] = l /\ hand'[t] = "none"
        /\ pc[t] = "check" /\ hand[t] = "none" /\ waits[t] = c
        /\ t # "app" => t = "work"
        /\ st' \in [Chunks -> ChunkStates]
        /\ \A x \in Chunks : x # c => st'[x] = st[x]
        /\ c \in Chunks => st'[c] = "freed"
        /\ timer' \in [Chunks -> {"none", "active", "expired"}]
        /\ tries' \in [Chunks -> 0 .. PublishRetry]
        /\ \A x \in Chunks : x # c => tries'[x] = tries[x]
        /\ c \in Chunks => tries'[c] = 0
        /\ waits' = [waits EXCEPT ![t] = "none"]
        /\ failed' = [failed EXCEPT ![t] = FALSE]
        /\ result' \in [Msgs -> {"none", "ok", "failed"}]
        /\ \A m \in Msgs : result'[m] = "ok" =>
              result[m] = "ok"
              \/ (m = c /\ st[c] \in {"WRITE_COMPLETED", "ACKNOWLEDGED"})
    <2>1. WaitEnds(t, FALSE)
      BY DEF WaitFails
    <2>2. /\ st' = [st EXCEPT ![c] = "freed"] /\ timer' = [timer EXCEPT ![c] = "none"]
          /\ tries' = [tries EXCEPT ![c] = 0]
          /\ waits' = [waits EXCEPT ![t] = "none"]
          /\ failed' = [failed EXCEPT ![t] = FALSE]
          /\ pc' = [pc EXCEPT ![t] = l] /\ hand' = hand
      BY <1>1, <1>2, <2>1 DEF WaitEnds, Free, Goto
    <2>3. /\ st' \in [Chunks -> ChunkStates] /\ st'[c] = "freed"
          /\ timer' \in [Chunks -> {"none", "active", "expired"}]
          /\ tries' \in [Chunks -> 0 .. PublishRetry] /\ tries'[c] = 0
          /\ \A x \in Chunks : x # c => st'[x] = st[x] /\ tries'[x] = tries[x]
      BY <1>0, <1>1, <2>2, RetryIsPositive DEF TypeOK, ChunkStates
    <2>4. /\ hand' = [hand EXCEPT ![t] = "none"] /\ hand'[t] = "none" /\ pc'[t] = l
      BY <1>0, <1>a, <2>2 DEF TypeOK
    <2>5. /\ result' \in [Msgs -> {"none", "ok", "failed"}]
          /\ \A m \in Msgs : result'[m] = "ok" => result[m] = "ok"
      BY <1>0, <1>1, <2>1 DEF TypeOK, WaitEnds
    <2>6. \A m \in Msgs : result'[m] = "ok" =>
             result[m] = "ok" \/ (m = c /\ st[c] \in {"WRITE_COMPLETED", "ACKNOWLEDGED"})
      BY <1>1, <2>5
    <2> QED
      BY <1>a, <1>1, <2>2, <2>3, <2>4, <2>5, <2>6
  <1>4. /\ connected' = connected /\ link' = link /\ inbox' = inbox
        /\ wq' = wq /\ aq' = aq /\ eq' = eq /\ readLock' = readLock
        /\ writeLock' = writeLock /\ sentOn' = sentOn /\ rcvdOn' = rcvdOn
        /\ works' = works /\ handle' = handle /\ magic' = magic
        /\ outside' = outside /\ got' = got /\ async' = async
        /\ reported' = reported /\ lossTold' = lossTold
    BY DEF WaitEnds, WaitFails
  <1>5. /\ HandOk(t) /\ (c \in Chunks => ChunkOk(c))
        /\ OnceIn(wq) /\ OnceIn(aq) /\ OnceIn(eq)
        /\ PlacesInv /\ AsyncInv /\ WaitInv /\ HandInv /\ async \subseteq Msgs
    BY <1>0, <1>3 DEF TypeOK, PlacesInv, HandInv, QueueInv, Threads
  <1>6. HandsOn(t, c, l, "none")
    <2>1. \A x \in Chunks : x # c => /\ st'[x] = st[x] /\ tries'[x] = tries[x]
                                     /\ x \in async' <=> x \in async
                                     /\ InSeq(x, wq') <=> InSeq(x, wq)
                                     /\ InSeq(x, aq') <=> InSeq(x, aq)
                                     /\ InSeq(x, eq') <=> InSeq(x, eq)
      BY <1>1, <1>3, <1>4, Names DEF Pushed, Popped
    <2>2. OnceIn(wq') /\ OnceIn(aq') /\ OnceIn(eq')
      BY <1>1, <1>2, <1>3, <1>4, <1>5, Names
      DEF Pushed, Popped, ChunkOk, HandOk, Sending, Failing
    <2>3. c \in Chunks => ChunkOk(c)' /\ st'[c] # "none"
      BY <1>1, <1>2, <1>3, <1>4, <1>5, Names, RetryIsPositive
      DEF Pushed, Popped, ChunkOk, HandOk, Sending, Failing
    <2>4. c \in async' /\ magic' => AccountOk(c)'
      BY <1>1, <1>2, <1>3, <1>4, <1>5, Names
      DEF Pushed, Popped, AccountOk, AsyncInv, Threads
    <2>5. HandOk(t)'
      <3>1. pc'[t] \notin Busy /\ hand'[t] = "none"
        BY <1>2, <1>3 DEF Busy
      <3> QED
        BY <3>1, Names DEF HandOk, Sending, Failing, Busy
    <2>6. \A u \in Threads : u # t => ~ (c \in Chunks /\ Owns(u, c))
      BY <1>1, <1>5, NoOtherOwner
    <2>7. \A u \in Threads : u # t /\ Sending(u) => writeLock' = u
      BY <1>3, <1>4, <1>5 DEF HandInv, HandOk, Sending, Threads
    <2>8. \A i \in 1 .. Len(inbox') : inbox'[i] \in Msgs =>
             inbox'[i] \in got' \/ InSeq(inbox'[i], inbox)
      BY <1>3, <1>4 DEF InSeq
    <2>9. /\ async' \subseteq async \cup {c} /\ async' \subseteq Msgs
          /\ c \in async' => c \in async \/ st[c] = "none"
          /\ got \subseteq got' /\ reported \subseteq reported'
          /\ magic' = magic /\ l # "joining"
          /\ "none" \in {c, "none"} /\ (hand[t] \in async => hand[t] = c)
      BY <1>1, <1>2, <1>3, <1>4, <1>5, Names
    <2> QED
      BY <1>3, <2>1, <2>2, <2>3, <2>4, <2>5, <2>6, <2>7, <2>8, <2>9 DEF HandsOn
  <1>7. WaitInv'
    <2>1. /\ pc'[t] = l /\ waits'[t] = "none"
          /\ \A u \in Threads : u # t => waits'[u] = waits[u] /\ pc'[u] = pc[u]
      BY <1>0, <1>3 DEF TypeOK
    <2>2. ASSUME NEW u \in Threads
          PROVE  /\ waits'[u] \notin async'
                 /\ waits'[u] \in Chunks => st'[waits'[u]] # "none"
      <3>1. waits[u] \notin async /\ (waits[u] \in Chunks => st[waits[u]] # "none")
        BY <1>5 DEF WaitInv
      <3>2. \A x \in Chunks : st[x] # "none" => st'[x] # "none"
        BY <1>1, <1>3
      <3>3. waits'[u] = waits[u] \/ waits'[u] = "none"
        BY <2>1
      <3>4. "none" \notin async' /\ async' = async /\ "none" \notin Chunks
        BY <1>4, <1>5, Names
      <3> QED
        BY <3>1, <3>2, <3>3, <3>4
    <2>3. ASSUME NEW u \in Threads
          PROVE  /\ pc'[u] = "check" => waits'[u] # "none"
                 /\ pc'[u] \in Unwaited => waits'[u] = "none"
      BY <1>2, <1>5, <2>1 DEF WaitInv
    <2>4. /\ waits'["app"] \in Msgs \cup {"none"}
          /\ waits'["work"] \in {"DISCONNECT", "none"}
          /\ waits'["sock"] = "none"
      BY <1>5, <2>1 DEF WaitInv, Threads
    <2>5. waits'["work"] = "none" /\ pc'["work"] \notin {"closing", "closed", "joining"}
             => st'["DISCONNECT"] = "none"
      <3>1. CASE t = "app"
        <4>1. c # "DISCONNECT"
          BY <1>3, <1>5, <3>1, Names DEF WaitInv
        <4> QED
          BY <1>3, <1>5, <2>1, <3>1, <4>1, Names DEF WaitInv, Threads
      <3>2. CASE t = "work"
        BY <1>2, <2>1, <3>2
      <3> QED
        BY <1>3, <3>1, <3>2
    <2> QED
      BY <2>2, <2>3, <2>4, <2>5 DEF WaitInv
  <1>8. TypeOK'
    BY <1>0, <1>1, <1>2, <1>3, <1>4, Names
    DEF TypeOK, ChunkStates, Steps, Threads, WqItems, AqItems, EqItems
  <1>9. ClosedIsReported'
    BY <1>0, <1>1, <1>2, <1>3, <1>4, ClosedKept, Names
    DEF Steps, Threads, Ending, Pushed, Popped
  <1>10. \A m \in Msgs : result'[m] = "ok" => m \in got'
    <2>1. c \in Msgs /\ st[c] \in {"WRITE_COMPLETED", "ACKNOWLEDGED"} => c \in got
      BY <1>1, <1>5 DEF ChunkOk
    <2> QED
      BY <1>3, <1>4, <2>1 DEF ClientInv
  <1> QED
    BY <1>3, <1>6, <1>7, <1>8, <1>9, <1>10, HandStep DEF Threads

\* The call takes its packet back.
LEMMA WaitAbandonsKeeps ==
    ASSUME ClientInv, NEW t \in Threads, WaitAbandons(t)
    PROVE  ClientInv'
  <1> USE DEF net, queues, chunk, threads, locks, idle, life, told
  <1>0. TypeOK /\ ClosedIsReported /\ (Alive => PlacesInv /\ AsyncInv)
    BY DEF ClientInv
  <1>a. /\ Alive /\ pc[t] = "check" /\ hand[t] = "none"
        /\ waits[t] \in Chunks /\ waits[t] \notin async
        /\ t # "app" => t = "work"
    <2>1. Alive /\ pc[t] = "check"
      BY DEF At, WaitAbandons
    <2>2. HandOk(t) /\ WaitInv
      BY <1>0, <2>1 DEF PlacesInv, HandInv
    <2>3. waits[t] \in Chunks \cup {"none"} /\ waits[t] # "none"
      BY <1>0, <2>1, <2>2 DEF TypeOK, WaitInv
    <2>4. t # "sock"
      BY <2>2, <2>3 DEF WaitInv
    <2> QED
      BY <2>1, <2>2, <2>3, <2>4 DEF HandOk, Busy, WaitInv, Threads
  <1>1. CASE st[waits[t]] = "WRITE_PENDING"
    <2>1. PICK c : /\ c = waits[t] /\ c \in Chunks /\ c \notin async
                   /\ st[c] = "WRITE_PENDING" /\ InSeq(c, wq)
                   /\ wq' \in Seq(WqItems) /\ Popped(wq', wq, c)
      <3>1. wq \in Seq(WqItems)
        BY <1>0 DEF TypeOK, WqItems
      <3>2. InSeq(waits[t], wq) /\ wq' = Drop(waits[t], wq)
        BY <1>1 DEF Abandoned, WaitAbandons
      <3>3. /\ Drop(waits[t], wq) \in Seq(WqItems)
            /\ Popped(Drop(waits[t], wq), wq, waits[t])
        BY <3>1, <3>2, PopFacts
      <3> QED
        BY <1>a, <3>2, <3>3, <1>1
    <2>2. PICK l \in Steps : /\ l = IF t = "app" THEN "idle" ELSE "closing"
                             /\ t = "app" => l = "idle"
                             /\ t # "app" => l = "closing"
      BY DEF Steps
    <2>3. /\ Alive /\ pc' = [pc EXCEPT ![t] = l]
          /\ hand' = [hand EXCEPT ![t] = "none"]
          /\ pc'[t] = l /\ hand'[t] = "none"
          /\ pc[t] = "check" /\ hand[t] = "none" /\ waits[t] = c
          /\ t # "app" => t = "work"
          /\ st' \in [Chunks -> ChunkStates]
          /\ \A x \in Chunks : x # c => st'[x] = st[x]
          /\ c \in Chunks => st'[c] = "freed"
          /\ timer' \in [Chunks -> {"none", "active", "expired"}]
          /\ tries' \in [Chunks -> 0 .. PublishRetry]
          /\ \A x \in Chunks : x # c => tries'[x] = tries[x]
          /\ c \in Chunks => tries'[c] = 0
          /\ waits' = [waits EXCEPT ![t] = "none"]
          /\ failed' = [failed EXCEPT ![t] = FALSE]
          /\ result' \in [Msgs -> {"none", "ok", "failed"}]
          /\ \A m \in Msgs : result'[m] = "ok" =>
                result[m] = "ok"
                \/ (m = c /\ st[c] \in {"WRITE_COMPLETED", "ACKNOWLEDGED"})
      <3>1. WaitEnds(t, FALSE)
        BY DEF WaitAbandons
      <3>2. /\ st' = [st EXCEPT ![c] = "freed"] /\ timer' = [timer EXCEPT ![c] = "none"]
            /\ tries' = [tries EXCEPT ![c] = 0]
            /\ waits' = [waits EXCEPT ![t] = "none"]
            /\ failed' = [failed EXCEPT ![t] = FALSE]
            /\ pc' = [pc EXCEPT ![t] = l] /\ hand' = hand
        BY <2>1, <2>2, <3>1 DEF WaitEnds, Free, Goto
      <3>3. /\ st' \in [Chunks -> ChunkStates] /\ st'[c] = "freed"
            /\ timer' \in [Chunks -> {"none", "active", "expired"}]
            /\ tries' \in [Chunks -> 0 .. PublishRetry] /\ tries'[c] = 0
            /\ \A x \in Chunks : x # c => st'[x] = st[x] /\ tries'[x] = tries[x]
        BY <1>0, <2>1, <3>2, RetryIsPositive DEF TypeOK, ChunkStates
      <3>4. /\ hand' = [hand EXCEPT ![t] = "none"] /\ hand'[t] = "none" /\ pc'[t] = l
        BY <1>0, <1>a, <3>2 DEF TypeOK
      <3>5. /\ result' \in [Msgs -> {"none", "ok", "failed"}]
            /\ \A m \in Msgs : result'[m] = "ok" => result[m] = "ok"
        BY <1>0, <2>1, <3>1 DEF TypeOK, WaitEnds
      <3>6. \A m \in Msgs : result'[m] = "ok" =>
               result[m] = "ok" \/ (m = c /\ st[c] \in {"WRITE_COMPLETED", "ACKNOWLEDGED"})
        BY <2>1, <3>5
      <3> QED
        BY <1>a, <2>1, <3>2, <3>3, <3>4, <3>5, <3>6
    <2>4. /\ connected' = connected /\ link' = link /\ inbox' = inbox
          /\ aq' = aq /\ eq' = eq /\ readLock' = readLock
          /\ writeLock' = writeLock /\ sentOn' = sentOn /\ rcvdOn' = rcvdOn
          /\ works' = works /\ handle' = handle /\ magic' = magic
          /\ outside' = outside /\ got' = got /\ async' = async
          /\ reported' = reported /\ lossTold' = lossTold
      BY <1>1 DEF WaitEnds, WaitAbandons
    <2>5. /\ HandOk(t) /\ (c \in Chunks => ChunkOk(c))
          /\ OnceIn(wq) /\ OnceIn(aq) /\ OnceIn(eq)
          /\ PlacesInv /\ AsyncInv /\ WaitInv /\ HandInv /\ async \subseteq Msgs
      BY <1>0, <2>3 DEF TypeOK, PlacesInv, HandInv, QueueInv, Threads
    <2>6. HandsOn(t, c, l, "none")
      <3>1. \A x \in Chunks : x # c => /\ st'[x] = st[x] /\ tries'[x] = tries[x]
                                       /\ x \in async' <=> x \in async
                                       /\ InSeq(x, wq') <=> InSeq(x, wq)
                                       /\ InSeq(x, aq') <=> InSeq(x, aq)
                                       /\ InSeq(x, eq') <=> InSeq(x, eq)
        BY <2>1, <2>3, <2>4, Names DEF Pushed, Popped
      <3>2. OnceIn(wq') /\ OnceIn(aq') /\ OnceIn(eq')
        BY <2>1, <2>2, <2>3, <2>4, <2>5, Names
        DEF Pushed, Popped, ChunkOk, HandOk, Sending, Failing
      <3>3. c \in Chunks => ChunkOk(c)' /\ st'[c] # "none"
        BY <2>1, <2>2, <2>3, <2>4, <2>5, Names, RetryIsPositive
        DEF Pushed, Popped, ChunkOk, HandOk, Sending, Failing
      <3>4. c \in async' /\ magic' => AccountOk(c)'
        BY <2>1, <2>2, <2>3, <2>4, <2>5, Names
        DEF Pushed, Popped, AccountOk, AsyncInv, Threads
      <3>5. HandOk(t)'
        <4>1. pc'[t] \notin Busy /\ hand'[t] = "none"
          BY <2>2, <2>3 DEF Busy
        <4> QED
          BY <4>1, Names DEF HandOk, Sending, Failing, Busy
      <3>6. \A u \in Threads : u # t => ~ (c \in Chunks /\ Owns(u, c))
        BY <2>1, <2>5, NoOtherOwner
      <3>7. \A u \in Threads : u # t /\ Sending(u) => writeLock' = u
        BY <2>3, <2>4, <2>5 DEF HandInv, HandOk, Sending, Threads
      <3>8. \A i \in 1 .. Len(inbox') : inbox'[i] \in Msgs =>
               inbox'[i] \in got' \/ InSeq(inbox'[i], inbox)
        BY <2>3, <2>4 DEF InSeq
      <3>9. /\ async' \subseteq async \cup {c} /\ async' \subseteq Msgs
            /\ c \in async' => c \in async \/ st[c] = "none"
            /\ got \subseteq got' /\ reported \subseteq reported'
            /\ magic' = magic /\ l # "joining"
            /\ "none" \in {c, "none"} /\ (hand[t] \in async => hand[t] = c)
        BY <2>1, <2>2, <2>3, <2>4, <2>5, Names
      <3> QED
        BY <2>3, <3>1, <3>2, <3>3, <3>4, <3>5, <3>6, <3>7, <3>8, <3>9
        DEF HandsOn
    <2>7. WaitInv'
      <3>1. /\ pc'[t] = l /\ waits'[t] = "none"
            /\ \A u \in Threads : u # t => waits'[u] = waits[u] /\ pc'[u] = pc[u]
        BY <1>0, <2>3 DEF TypeOK
      <3>2. ASSUME NEW u \in Threads
            PROVE  /\ waits'[u] \notin async'
                   /\ waits'[u] \in Chunks => st'[waits'[u]] # "none"
        <4>1. waits[u] \notin async /\ (waits[u] \in Chunks => st[waits[u]] # "none")
          BY <2>5 DEF WaitInv
        <4>2. \A x \in Chunks : st[x] # "none" => st'[x] # "none"
          BY <2>1, <2>3
        <4>3. waits'[u] = waits[u] \/ waits'[u] = "none"
          BY <3>1
        <4>4. "none" \notin async' /\ async' = async /\ "none" \notin Chunks
          BY <2>4, <2>5, Names
        <4> QED
          BY <4>1, <4>2, <4>3, <4>4
      <3>3. ASSUME NEW u \in Threads
            PROVE  /\ pc'[u] = "check" => waits'[u] # "none"
                   /\ pc'[u] \in Unwaited => waits'[u] = "none"
        BY <2>2, <2>5, <3>1 DEF WaitInv
      <3>4. /\ waits'["app"] \in Msgs \cup {"none"}
            /\ waits'["work"] \in {"DISCONNECT", "none"}
            /\ waits'["sock"] = "none"
        BY <2>5, <3>1 DEF WaitInv, Threads
      <3>5. waits'["work"] = "none" /\ pc'["work"] \notin {"closing", "closed", "joining"}
               => st'["DISCONNECT"] = "none"
        <4>1. CASE t = "app"
          <5>1. c # "DISCONNECT"
            BY <2>3, <2>5, <4>1, Names DEF WaitInv
          <5> QED
            BY <2>3, <2>5, <3>1, <4>1, <5>1, Names DEF WaitInv, Threads
        <4>2. CASE t = "work"
          BY <2>2, <3>1, <4>2
        <4> QED
          BY <2>3, <4>1, <4>2
      <3> QED
        BY <3>2, <3>3, <3>4, <3>5 DEF WaitInv
    <2>8. TypeOK'
      BY <1>0, <2>1, <2>2, <2>3, <2>4, Names
      DEF TypeOK, ChunkStates, Steps, Threads, WqItems, AqItems, EqItems
    <2>9. ClosedIsReported'
      BY <1>0, <2>1, <2>2, <2>3, <2>4, ClosedKept, Names
      DEF Steps, Threads, Ending, Pushed, Popped
    <2>10. \A m \in Msgs : result'[m] = "ok" => m \in got'
      <3>1. c \in Msgs /\ st[c] \in {"WRITE_COMPLETED", "ACKNOWLEDGED"} => c \in got
        BY <2>1, <2>5 DEF ChunkOk
      <3> QED
        BY <2>3, <2>4, <3>1 DEF ClientInv
    <2> QED
      BY <2>3, <2>6, <2>7, <2>8, <2>9, <2>10, HandStep DEF Threads
  <1>2. CASE st[waits[t]] = "ACK_PENDING"
    <2>1. PICK c : /\ c = waits[t] /\ c \in Chunks /\ c \notin async
                   /\ st[c] = "ACK_PENDING" /\ InSeq(c, aq)
                   /\ aq' \in Seq(AqItems) /\ Popped(aq', aq, c)
      <3>1. aq \in Seq(AqItems)
        BY <1>0 DEF TypeOK, AqItems
      <3>2. InSeq(waits[t], aq) /\ aq' = Drop(waits[t], aq)
        BY <1>2 DEF Abandoned, WaitAbandons
      <3>3. /\ Drop(waits[t], aq) \in Seq(AqItems)
            /\ Popped(Drop(waits[t], aq), aq, waits[t])
        BY <3>1, <3>2, PopFacts
      <3> QED
        BY <1>a, <3>2, <3>3, <1>2
    <2>2. PICK l \in Steps : /\ l = IF t = "app" THEN "idle" ELSE "closing"
                             /\ t = "app" => l = "idle"
                             /\ t # "app" => l = "closing"
      BY DEF Steps
    <2>3. /\ Alive /\ pc' = [pc EXCEPT ![t] = l]
          /\ hand' = [hand EXCEPT ![t] = "none"]
          /\ pc'[t] = l /\ hand'[t] = "none"
          /\ pc[t] = "check" /\ hand[t] = "none" /\ waits[t] = c
          /\ t # "app" => t = "work"
          /\ st' \in [Chunks -> ChunkStates]
          /\ \A x \in Chunks : x # c => st'[x] = st[x]
          /\ c \in Chunks => st'[c] = "freed"
          /\ timer' \in [Chunks -> {"none", "active", "expired"}]
          /\ tries' \in [Chunks -> 0 .. PublishRetry]
          /\ \A x \in Chunks : x # c => tries'[x] = tries[x]
          /\ c \in Chunks => tries'[c] = 0
          /\ waits' = [waits EXCEPT ![t] = "none"]
          /\ failed' = [failed EXCEPT ![t] = FALSE]
          /\ result' \in [Msgs -> {"none", "ok", "failed"}]
          /\ \A m \in Msgs : result'[m] = "ok" =>
                result[m] = "ok"
                \/ (m = c /\ st[c] \in {"WRITE_COMPLETED", "ACKNOWLEDGED"})
      <3>1. WaitEnds(t, FALSE)
        BY DEF WaitAbandons
      <3>2. /\ st' = [st EXCEPT ![c] = "freed"] /\ timer' = [timer EXCEPT ![c] = "none"]
            /\ tries' = [tries EXCEPT ![c] = 0]
            /\ waits' = [waits EXCEPT ![t] = "none"]
            /\ failed' = [failed EXCEPT ![t] = FALSE]
            /\ pc' = [pc EXCEPT ![t] = l] /\ hand' = hand
        BY <2>1, <2>2, <3>1 DEF WaitEnds, Free, Goto
      <3>3. /\ st' \in [Chunks -> ChunkStates] /\ st'[c] = "freed"
            /\ timer' \in [Chunks -> {"none", "active", "expired"}]
            /\ tries' \in [Chunks -> 0 .. PublishRetry] /\ tries'[c] = 0
            /\ \A x \in Chunks : x # c => st'[x] = st[x] /\ tries'[x] = tries[x]
        BY <1>0, <2>1, <3>2, RetryIsPositive DEF TypeOK, ChunkStates
      <3>4. /\ hand' = [hand EXCEPT ![t] = "none"] /\ hand'[t] = "none" /\ pc'[t] = l
        BY <1>0, <1>a, <3>2 DEF TypeOK
      <3>5. /\ result' \in [Msgs -> {"none", "ok", "failed"}]
            /\ \A m \in Msgs : result'[m] = "ok" => result[m] = "ok"
        BY <1>0, <2>1, <3>1 DEF TypeOK, WaitEnds
      <3>6. \A m \in Msgs : result'[m] = "ok" =>
               result[m] = "ok" \/ (m = c /\ st[c] \in {"WRITE_COMPLETED", "ACKNOWLEDGED"})
        BY <2>1, <3>5
      <3> QED
        BY <1>a, <2>1, <3>2, <3>3, <3>4, <3>5, <3>6
    <2>4. /\ connected' = connected /\ link' = link /\ inbox' = inbox
          /\ wq' = wq /\ eq' = eq /\ readLock' = readLock
          /\ writeLock' = writeLock /\ sentOn' = sentOn /\ rcvdOn' = rcvdOn
          /\ works' = works /\ handle' = handle /\ magic' = magic
          /\ outside' = outside /\ got' = got /\ async' = async
          /\ reported' = reported /\ lossTold' = lossTold
      BY <1>2 DEF WaitEnds, WaitAbandons
    <2>5. /\ HandOk(t) /\ (c \in Chunks => ChunkOk(c))
          /\ OnceIn(wq) /\ OnceIn(aq) /\ OnceIn(eq)
          /\ PlacesInv /\ AsyncInv /\ WaitInv /\ HandInv /\ async \subseteq Msgs
      BY <1>0, <2>3 DEF TypeOK, PlacesInv, HandInv, QueueInv, Threads
    <2>6. HandsOn(t, c, l, "none")
      <3>1. \A x \in Chunks : x # c => /\ st'[x] = st[x] /\ tries'[x] = tries[x]
                                       /\ x \in async' <=> x \in async
                                       /\ InSeq(x, wq') <=> InSeq(x, wq)
                                       /\ InSeq(x, aq') <=> InSeq(x, aq)
                                       /\ InSeq(x, eq') <=> InSeq(x, eq)
        BY <2>1, <2>3, <2>4, Names DEF Pushed, Popped
      <3>2. OnceIn(wq') /\ OnceIn(aq') /\ OnceIn(eq')
        BY <2>1, <2>2, <2>3, <2>4, <2>5, Names
        DEF Pushed, Popped, ChunkOk, HandOk, Sending, Failing
      <3>3. c \in Chunks => ChunkOk(c)' /\ st'[c] # "none"
        BY <2>1, <2>2, <2>3, <2>4, <2>5, Names, RetryIsPositive
        DEF Pushed, Popped, ChunkOk, HandOk, Sending, Failing
      <3>4. c \in async' /\ magic' => AccountOk(c)'
        BY <2>1, <2>2, <2>3, <2>4, <2>5, Names
        DEF Pushed, Popped, AccountOk, AsyncInv, Threads
      <3>5. HandOk(t)'
        <4>1. pc'[t] \notin Busy /\ hand'[t] = "none"
          BY <2>2, <2>3 DEF Busy
        <4> QED
          BY <4>1, Names DEF HandOk, Sending, Failing, Busy
      <3>6. \A u \in Threads : u # t => ~ (c \in Chunks /\ Owns(u, c))
        BY <2>1, <2>5, NoOtherOwner
      <3>7. \A u \in Threads : u # t /\ Sending(u) => writeLock' = u
        BY <2>3, <2>4, <2>5 DEF HandInv, HandOk, Sending, Threads
      <3>8. \A i \in 1 .. Len(inbox') : inbox'[i] \in Msgs =>
               inbox'[i] \in got' \/ InSeq(inbox'[i], inbox)
        BY <2>3, <2>4 DEF InSeq
      <3>9. /\ async' \subseteq async \cup {c} /\ async' \subseteq Msgs
            /\ c \in async' => c \in async \/ st[c] = "none"
            /\ got \subseteq got' /\ reported \subseteq reported'
            /\ magic' = magic /\ l # "joining"
            /\ "none" \in {c, "none"} /\ (hand[t] \in async => hand[t] = c)
        BY <2>1, <2>2, <2>3, <2>4, <2>5, Names
      <3> QED
        BY <2>3, <3>1, <3>2, <3>3, <3>4, <3>5, <3>6, <3>7, <3>8, <3>9
        DEF HandsOn
    <2>7. WaitInv'
      <3>1. /\ pc'[t] = l /\ waits'[t] = "none"
            /\ \A u \in Threads : u # t => waits'[u] = waits[u] /\ pc'[u] = pc[u]
        BY <1>0, <2>3 DEF TypeOK
      <3>2. ASSUME NEW u \in Threads
            PROVE  /\ waits'[u] \notin async'
                   /\ waits'[u] \in Chunks => st'[waits'[u]] # "none"
        <4>1. waits[u] \notin async /\ (waits[u] \in Chunks => st[waits[u]] # "none")
          BY <2>5 DEF WaitInv
        <4>2. \A x \in Chunks : st[x] # "none" => st'[x] # "none"
          BY <2>1, <2>3
        <4>3. waits'[u] = waits[u] \/ waits'[u] = "none"
          BY <3>1
        <4>4. "none" \notin async' /\ async' = async /\ "none" \notin Chunks
          BY <2>4, <2>5, Names
        <4> QED
          BY <4>1, <4>2, <4>3, <4>4
      <3>3. ASSUME NEW u \in Threads
            PROVE  /\ pc'[u] = "check" => waits'[u] # "none"
                   /\ pc'[u] \in Unwaited => waits'[u] = "none"
        BY <2>2, <2>5, <3>1 DEF WaitInv
      <3>4. /\ waits'["app"] \in Msgs \cup {"none"}
            /\ waits'["work"] \in {"DISCONNECT", "none"}
            /\ waits'["sock"] = "none"
        BY <2>5, <3>1 DEF WaitInv, Threads
      <3>5. waits'["work"] = "none" /\ pc'["work"] \notin {"closing", "closed", "joining"}
               => st'["DISCONNECT"] = "none"
        <4>1. CASE t = "app"
          <5>1. c # "DISCONNECT"
            BY <2>3, <2>5, <4>1, Names DEF WaitInv
          <5> QED
            BY <2>3, <2>5, <3>1, <4>1, <5>1, Names DEF WaitInv, Threads
        <4>2. CASE t = "work"
          BY <2>2, <3>1, <4>2
        <4> QED
          BY <2>3, <4>1, <4>2
      <3> QED
        BY <3>2, <3>3, <3>4, <3>5 DEF WaitInv
    <2>8. TypeOK'
      BY <1>0, <2>1, <2>2, <2>3, <2>4, Names
      DEF TypeOK, ChunkStates, Steps, Threads, WqItems, AqItems, EqItems
    <2>9. ClosedIsReported'
      BY <1>0, <2>1, <2>2, <2>3, <2>4, ClosedKept, Names
      DEF Steps, Threads, Ending, Pushed, Popped
    <2>10. \A m \in Msgs : result'[m] = "ok" => m \in got'
      <3>1. c \in Msgs /\ st[c] \in {"WRITE_COMPLETED", "ACKNOWLEDGED"} => c \in got
        BY <2>1, <2>5 DEF ChunkOk
      <3> QED
        BY <2>3, <2>4, <3>1 DEF ClientInv
    <2> QED
      BY <2>3, <2>6, <2>7, <2>8, <2>9, <2>10, HandStep DEF Threads
  <1> QED
    BY <1>1, <1>2 DEF WaitAbandons, Abandoned

\* st_mqtt_destroy: nothing is said of the queues of a client that is freed.
LEMMA DestroyEndKeeps ==
    ASSUME ClientInv, DestroyEnd PROVE ClientInv'
  <1> USE DEF net, queues, chunk, threads, locks, idle, life, told
  <1>0. TypeOK /\ PlacesInv /\ pc["work"] = "joining"
    BY DEF ClientInv, DestroyEnd, At
  <1>1. ~ Alive'
    <2>1. pc'["work"] = "freed"
      BY <1>0 DEF TypeOK, DestroyEnd, Goto, Threads
    <2> QED
      BY <2>1 DEF Alive
  <1>2. ~ magic'
    BY <1>0 DEF PlacesInv, DestroyEnd
  <1>3. TypeOK'
    <2>1. st' \in [Chunks -> ChunkStates]
      BY <1>0 DEF DestroyEnd, TypeOK, ChunkStates
    <2>2. timer' \in [Chunks -> {"none", "active", "expired"}]
      BY <1>0 DEF DestroyEnd, TypeOK
    <2>3. /\ wq' = <<>> /\ aq' = <<>> /\ eq' = <<>>
      BY DEF DestroyEnd
    <2>4. /\ wq' \in Seq(Chunks \cup {"PUBACK"}) /\ aq' \in Seq(Msgs \cup {"PING"})
          /\ eq' \in Seq(Msgs \cup {"PUBACK", "pub", "disconnected"})
      BY <2>3
    <2>5. works' \in 0 .. MaxWorks
      <3>1. MaxWorks \in Nat /\ works' = 0
        BY MqttClientAssumption DEF DestroyEnd
      <3> QED
        BY ONLY <3>1
    <2>6. pc' \in [Threads -> Steps]
      BY <1>0 DEF TypeOK, DestroyEnd, Goto, Steps
    <2>7. sentOn' \in BOOLEAN /\ rcvdOn' \in BOOLEAN
      BY DEF DestroyEnd
    <2> HIDE <2>3
    <2> QED
      BY <1>0, <2>1, <2>2, <2>4, <2>5, <2>6, <2>7 DEF TypeOK, DestroyEnd
  <1>4. \A m \in Msgs : result'[m] = "ok" => m \in got'
    BY DEF ClientInv, DestroyEnd
  <1> QED
    BY <1>1, <1>2, <1>3, <1>4 DEF ClientInv, ClosedIsReported

LEMMA InitKeeps == Init => ClientInv
  <1> SUFFICES ASSUME Init PROVE ClientInv
    OBVIOUS
  <1>1. /\ inbox = <<>> /\ wq = <<>> /\ aq = <<>> /\ eq = <<>>
    BY DEF Init
  <1>2. /\ inbox \in Seq(Msgs \cup {"PING", "pub", "dup"})
        /\ wq \in Seq(Chunks \cup {"PUBACK"}) /\ aq \in Seq(Msgs \cup {"PING"})
        /\ eq \in Seq(Msgs \cup {"PUBACK", "pub", "disconnected"})
    BY <1>1
  <1>3. /\ \A x : ~ InSeq(x, wq) /\ ~ InSeq(x, aq) /\ ~ InSeq(x, eq)
        /\ OnceIn(wq) /\ OnceIn(aq) /\ OnceIn(eq) /\ InboxInv
    BY <1>1 DEF InSeq, OnceIn, InboxInv
  <1>4. /\ outside \in 0 .. MaxOutside /\ works \in 0 .. MaxWorks
        /\ tries \in [Chunks -> 0 .. PublishRetry]
    BY MqttClientAssumption DEF Init
  <1>5. /\ pc = [t \in Threads |-> IF t = "app" THEN "idle"
                                   ELSE IF t = "work" THEN "starting" ELSE "poll"]
        /\ \A t \in Threads : /\ pc[t] \in Steps
                              /\ pc[t] \in {"idle", "starting", "poll"}
                              /\ hand[t] = "none" /\ waits[t] = "none"
        /\ st["DISCONNECT"] = "none" /\ st["PING"] = "INIT"
    BY Names DEF Init, Threads, Steps
  <1>6. TypeOK
    <2>1. /\ pc \in [Threads -> Steps] /\ st \in [Chunks -> ChunkStates]
          /\ timer \in [Chunks -> {"none", "active", "expired"}]
          /\ hand \in [Threads -> Chunks \cup {"PUBACK", "none"}]
          /\ failed \in [Threads -> BOOLEAN]
          /\ waits \in [Threads -> Chunks \cup {"none"}]
          /\ result \in [Msgs -> {"none", "ok", "failed"}]
      BY <1>5 DEF Init, ChunkStates
    <2>2. /\ connected \in BOOLEAN /\ link \in {"up", "broken"}
          /\ {readLock, writeLock} \subseteq Threads \cup {"none"}
          /\ {sentOn, rcvdOn, handle, magic, lossTold} \subseteq BOOLEAN
          /\ got \subseteq Msgs /\ async \subseteq Msgs /\ reported \subseteq Msgs
      BY DEF Init
    <2> QED
      BY <1>2, <1>4, <2>1, <2>2 DEF TypeOK
  <1>7. ClosedIsReported /\ \A m \in Msgs : result[m] = "ok" => m \in got
    BY DEF ClosedIsReported, Init
  <1>8. QueueInv
    <2>1. \A c \in Chunks : tries[c] = 0 /\ c \notin async /\ st[c] \in {"none", "INIT"}
      BY DEF Init
    <2> QED
      BY <1>3, <2>1 DEF QueueInv, ChunkOk
  <1>9. HandInv /\ TwoHandsInv
    <2>1. \A t \in Threads : ~ Sending(t) /\ ~ Failing(t) /\ pc[t] \notin Busy
      BY <1>5 DEF Sending, Failing, Busy
    <2> QED
      BY <1>5, <2>1, Names DEF HandInv, HandOk, TwoHandsInv, Busy
  <1>10. WaitInv
    <2>1. "none" \notin async /\ "none" \notin Chunks
      BY Names DEF Init
    <2> QED
      BY <1>5, <2>1 DEF WaitInv, Threads
  <1>11. AsyncInv
    BY DEF AsyncInv, Init
  <1>12. pc["work"] = "joining" => ~ magic
    BY <1>5 DEF Threads
  <1> QED
    BY <1>3, <1>6, <1>7, <1>8, <1>9, <1>10, <1>11, <1>12
    DEF ClientInv, PlacesInv

LEMMA StutterKeeps == ASSUME ClientInv, UNCHANGED vars PROVE ClientInv'
  <1> USE DEF vars, net, queues, chunk, threads, locks, idle, life, told
  <1>1. TypeOK' /\ ClosedIsReported' /\ \A m \in Msgs : result'[m] = "ok" => m \in got'
    BY DEF ClientInv, TypeOK, ClosedIsReported
  <1>2. CASE Alive
    <2>1. \A i \in 1 .. Len(inbox') : inbox'[i] \in Msgs => InSeq(inbox'[i], inbox)
      BY DEF InSeq
    <2> QED
      BY <1>1, <1>2, <2>1, FrameStep
  <1>3. CASE ~ Alive
    <2>1. ~ Alive'
      BY <1>3 DEF Alive
    <2> QED
      BY <1>1, <2>1 DEF ClientInv
  <1> QED
    BY <1>2, <1>3

LEMMA NextKeeps == ASSUME ClientInv, [Next]_vars PROVE ClientInv'
  <1>1. ASSUME NEW t \in Threads, WriteStream(t) PROVE ClientInv'
    BY <1>1, WritePopKeeps, SendOkKeeps, PostWriteKeeps, SendFailsKeeps,
       WriteFailedKeeps, ReadingKeeps DEF WriteStream
  <1>2. ASSUME NEW t \in Threads, ReadStream(t) PROVE ClientInv'
    BY <1>2, ReadingKeeps, ReadPublishKeeps, ReadAckAndFreeKeeps, ReadAckKeeps,
       AckedTimerKeeps DEF ReadStream
  <1>3. ASSUME NEW t \in Threads, Keeping(t) PROVE ClientInv'
    BY <1>3, PopExpiredKeeps, RetryKeeps, ReadingKeeps, CheckAlivePingKeeps,
       CheckAliveFailsKeeps, PushDisconnectedKeeps DEF Keeping
  <1>4. ASSUME NEW t \in Threads, Waiting(t) PROVE ClientInv'
    BY <1>4, WaitDoneKeeps, WaitFailsKeeps, WaitAbandonsKeeps, ReadingKeeps
    DEF Waiting
  <1>5. "app" \in Threads /\ "work" \in Threads /\ "sock" \in Threads
    BY DEF Threads
  <1>6. CASE AppRuns
    BY <1>1, <1>2, <1>3, <1>4, <1>5, <1>6 DEF AppRuns
  <1>7. CASE WorkRuns
    BY <1>1, <1>2, <1>3, <1>4, <1>5, <1>7, MovingKeeps, CallbackKeeps,
       DestroyEndKeeps DEF WorkRuns
  <1>8. CASE SockRuns
    BY <1>2, <1>5, <1>8, MovingKeeps, ReadingKeeps, PushDisconnectedKeeps
    DEF SockRuns
  <1>9. CASE \E m \in Msgs : st_mqtt_publish(m) \/ st_mqtt_publish_async(m)
    BY <1>9, PublishKeeps, PublishAsyncKeeps
  <1>10. CASE \/ PublishAsyncInvalid \/ BrokerPublishes \/ LinkBreaks
              \/ \E c \in Chunks : ChunkExpires(c)
              \/ SentExpires \/ RcvdExpires
    BY <1>10, WorldKeeps
  <1>11. CASE Disconnect
    BY <1>11, DisconnectKeeps
  <1>12. CASE UNCHANGED vars
    BY <1>12, StutterKeeps
  <1> QED
    BY <1>6, <1>7, <1>8, <1>9, <1>10, <1>11, <1>12 DEF Next

-----------------------------------------------------------------------------
\* The inductive invariant holds: every packet is where its chunk_state says, and
\* the threads, the calls and the queues agree on who has it.
THEOREM ClientInvHolds == Spec => []ClientInv
  <1>1. Init => ClientInv
    BY InitKeeps
  <1>2. ClientInv /\ [Next]_vars => ClientInv'
    BY NextKeeps
  <1> QED
    BY <1>1, <1>2, PTL DEF Spec

\* What the invariant says of the place of a packet.
LEMMA PlacesFacts ==
    ASSUME ClientInv, Alive, NEW c \in Chunks
    PROVE  /\ \A p, q \in Places(c) : p = q
           /\ st[c] = "freed" => Places(c) = {}
  <1>1. PlacesInv /\ ChunkOk(c) /\ OnceIn(wq) /\ OnceIn(aq) /\ OnceIn(eq)
    BY DEF ClientInv, PlacesInv, QueueInv
  <1>2. ASSUME NEW t \in Threads, hand[t] = c, Holds(t)
        PROVE  /\ Owns(t, c) /\ ~ InSeq(c, wq) /\ ~ InSeq(c, aq) /\ ~ InSeq(c, eq)
               /\ st[c] # "freed"
               /\ \A u \in Threads : hand[u] = c /\ Holds(u) => u = t
    <2>1. HandOk(t)
      BY <1>1 DEF PlacesInv, HandInv
    <2>2. Sending(t) \/ pc[t] = "retry"
      BY <1>2 DEF Holds, Sending
    <2>3. Owns(t, c)
      BY <1>2, <2>2 DEF Owns
    <2>4. /\ ~ InSeq(c, wq) /\ ~ InSeq(c, aq) /\ ~ InSeq(c, eq)
          /\ st[c] # "freed"
      BY <1>1, <1>2, <2>1, <2>2 DEF HandOk, ChunkOk
    <2>5. ASSUME NEW u \in Threads, hand[u] = c, Holds(u), u # t PROVE FALSE
      <3>1. Owns(u, c)
        BY <2>5 DEF Owns, Holds, Sending
      <3> QED
        BY <1>1, <2>3, <2>5, <3>1, NoOtherOwner
    <2> QED
      BY <2>3, <2>4, <2>5
  <1>3. /\ ~ (InSeq(c, wq) /\ InSeq(c, aq)) /\ ~ (InSeq(c, wq) /\ InSeq(c, eq))
        /\ ~ (InSeq(c, aq) /\ InSeq(c, eq))
        /\ InSeq(c, wq) \/ InSeq(c, aq) \/ InSeq(c, eq) => st[c] # "freed"
    BY <1>1 DEF ChunkOk
  <1>4. ASSUME NEW p \in Places(c)
        PROVE  \/ \E i \in 1 .. Len(wq) : p = <<"wq", i>> /\ wq[i] = c
               \/ \E i \in 1 .. Len(aq) : p = <<"aq", i>> /\ aq[i] = c
               \/ \E i \in 1 .. Len(eq) : p = <<"eq", i>> /\ eq[i] = c
               \/ \E t \in Threads : p = <<"hand", t>> /\ hand[t] = c /\ Holds(t)
    BY DEF Places
  <1>5. ASSUME NEW p \in Places(c), NEW q \in Places(c) PROVE p = q
    <2>1. CASE \E i \in 1 .. Len(wq) : p = <<"wq", i>> /\ wq[i] = c
      <3>1. InSeq(c, wq)
        BY <2>1 DEF InSeq
      <3>2. \E i \in 1 .. Len(wq) : q = <<"wq", i>> /\ wq[i] = c
        BY <1>2, <1>3, <1>4, <3>1 DEF InSeq
      <3> QED
        BY <1>1, <2>1, <3>2 DEF OnceIn
    <2>2. CASE \E i \in 1 .. Len(aq) : p = <<"aq", i>> /\ aq[i] = c
      <3>1. InSeq(c, aq)
        BY <2>2 DEF InSeq
      <3>2. \E i \in 1 .. Len(aq) : q = <<"aq", i>> /\ aq[i] = c
        BY <1>2, <1>3, <1>4, <3>1 DEF InSeq
      <3> QED
        BY <1>1, <2>2, <3>2 DEF OnceIn
    <2>3. CASE \E i \in 1 .. Len(eq) : p = <<"eq", i>> /\ eq[i] = c
      <3>1. InSeq(c, eq)
        BY <2>3 DEF InSeq
      <3>2. \E i \in 1 .. Len(eq) : q = <<"eq", i>> /\ eq[i] = c
        BY <1>2, <1>3, <1>4, <3>1 DEF InSeq
      <3> QED
        BY <1>1, <2>3, <3>2 DEF OnceIn
    <2>4. CASE \E t \in Threads : p = <<"hand", t>> /\ hand[t] = c /\ Holds(t)
      <3>1. \E t \in Threads : q = <<"hand", t>> /\ hand[t] = c /\ Holds(t)
        BY <1>2, <1>4, <2>4 DEF InSeq
      <3> QED
        BY <1>2, <2>4, <3>1
    <2> QED
      BY <1>4, <2>1, <2>2, <2>3, <2>4
  <1>6. ASSUME NEW p \in Places(c) PROVE st[c] # "freed"
    BY <1>2, <1>3, <1>4 DEF InSeq
  <1> QED
    BY <1>5, <1>6

\* No packet is in two places, no freed packet in any, and what a thread has
\* popped no other thread frees or queues, except in the last lines of an ack or
\* of a failed write: for every number of messages and of retries.
THEOREM PoppedIsAlwaysOwned == Spec => []PoppedIsOwned
  <1>1. ASSUME ClientInv PROVE PoppedIsOwned
    <2>1. TypeOK
      BY <1>1 DEF ClientInv
    <2>2. InOnePlace
      BY <1>1, PlacesFacts DEF InOnePlace
    <2>3. ASSUME Alive, NEW t \in Threads, hand[t] \in Chunks,
                 pc[t] \notin {"fail", "fail and close", "acked"}
          PROVE  /\ st[hand[t]] # "freed"
                 /\ ~ InSeq(hand[t], wq) /\ ~ InSeq(hand[t], aq)
                 /\ ~ InSeq(hand[t], eq)
      <3>1. HandOk(t) /\ ChunkOk(hand[t])
        BY <1>1, <2>3 DEF ClientInv, PlacesInv, HandInv, QueueInv
      <3>2. Sending(t) \/ pc[t] = "retry"
        BY <2>3, <3>1, Names DEF HandOk, Sending, Busy
      <3> QED
        BY <2>3, <3>1, <3>2 DEF HandOk, ChunkOk
    <2> QED
      BY <2>1, <2>2, <2>3 DEF PoppedIsOwned
  <1> QED
    BY <1>1, ClientInvHolds, PTL

\* st_mqtt_publish returns success only when the broker has the message; and no
\* asynchronous message vanishes while the client is valid.
THEOREM MessageIsAlwaysAccounted == Spec => []MessageIsAccounted
  <1>1. ASSUME ClientInv PROVE MessageIsAccounted
    <2>1. \A m \in Msgs : result[m] = "ok" => m \in got
      BY <1>1 DEF ClientInv
    <2>2. ASSUME Alive, magic, NEW m \in async
          PROVE  \/ Places(m) # {} \/ m \in got \cup reported
                 \/ \E t \in Threads : hand[t] = m
      <3>1. AccountOk(m)
        BY <1>1, <2>2 DEF ClientInv, AsyncInv
      <3>2. InSeq(m, wq) \/ InSeq(m, aq) \/ InSeq(m, eq) => Places(m) # {}
        BY DEF InSeq, Places
      <3> QED
        BY <3>1, <3>2 DEF AccountOk
    <2> QED
      BY <2>1, <2>2 DEF MessageIsAccounted
  <1> QED
    BY <1>1, ClientInvHolds, PTL

\* A connection that broke down is reported to the callback.
THEOREM ClosedIsAlwaysReported == Spec => []ClosedIsReported
  <1>1. ClientInv => ClosedIsReported
    BY DEF ClientInv
  <1> QED
    BY <1>1, ClientInvHolds, PTL

=============================================================================

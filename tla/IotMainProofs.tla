---------------------------- MODULE IotMainProofs ----------------------------
(***************************************************************************)
(* For every bound: a device in the cloud states has what it needs to come *)
(* back in non-volatile memory (CloudStateIsStored), and onboarding never  *)
(* hangs (ProvisioningTimesOut).  For every number of requests: what       *)
(* st_conn_cleanup learns of its delete request is true (ResultIsTrue),    *)
(* and usr_delete_req is set exactly as long as it should be               *)
(* (FlagIsOfOpenRequest).                                                  *)
(***************************************************************************)
EXTENDS IotMain, UserDelete, WellFoundedInduction, TLAPS

(* Induction, in the form the provers can use.                             *)

\* A set of natural numbers that is not empty has a least element.
LEMMA LeastNumber ==
    ASSUME NEW T \in SUBSET Nat, T # {}
    PROVE  \E x \in T : \A y \in T : x =< y
  <1>1. PICK x \in T : \A y \in T : ~ (<<y, x>> \in OpToRel(<, Nat))
    BY NatLessThanWellFounded, WFMin, Zenon
  <1>2. \A y \in T : ~ (y < x)
    BY <1>1 DEF OpToRel
  <1> HIDE <1>1
  <1> QED
    BY ONLY <1>2, T \in SUBSET Nat, x \in T

-----------------------------------------------------------------------------
(* What is left of the queue after the pending works of a client are out.  *)

\* What the walk of Without has kept after the work at i.
Kept(q, w, g, i) == IF i = 0 THEN <<>>
                    ELSE IF q[i] = w THEN g[i - 1] ELSE Append(g[i - 1], q[i])
IsWalk(q, w, g, n) == g = [i \in 0 .. n |-> Kept(q, w, g, i)]

\* The walk of Without exists as a function: there is a solution of its equation
\* on every prefix of the queue.
LEMMA WalkExists ==
    ASSUME NEW S, NEW q \in Seq(S), NEW w, NEW n \in Nat, n =< Len(q)
    PROVE  \E g \in [0 .. n -> Seq(S)] : IsWalk(q, w, g, n)
  <1> USE DEF Kept, IsWalk
  <1> DEFINE B(g, i) == Kept(q, w, g, i)
             P(m) == \E g \in [0 .. m -> Seq(S)] : IsWalk(q, w, g, m)
             Bad == {m \in 0 .. Len(q) : ~ P(m)}
  <1>1. SUFFICES ASSUME ~ P(n) PROVE FALSE
    BY DEF P
  <1>2. PICK m \in Bad : \A k \in Bad : m =< k
    <2> HIDE DEF P
    <2>1. Bad \in SUBSET Nat /\ Bad # {}
      BY <1>1
    <2> QED
      BY <2>1, LeastNumber
  <1>3. P(0)
    <2>1. [i \in 0 .. 0 |-> <<>>] \in [0 .. 0 -> Seq(S)]
      OBVIOUS
    <2>2. [i \in 0 .. 0 |-> <<>>]
             = [i \in 0 .. 0 |-> B([j \in 0 .. 0 |-> <<>>], i)]
      OBVIOUS
    <2> QED
      BY <2>1, <2>2
  <1>4. m \in Nat /\ m # 0 /\ m =< Len(q)
    <2> HIDE DEF P
    <2> QED
      BY <1>3, <1>2
  <1>5. P(m - 1)
    <2> HIDE DEF P
    <2> QED
      BY <1>2, <1>4
  <1>6. PICK g \in [0 .. m - 1 -> Seq(S)] : g = [i \in 0 .. m - 1 |-> B(g, i)]
    BY <1>5
  <1> DEFINE h == [i \in 0 .. m |-> IF i = m THEN B(g, m) ELSE g[i]]
  <1>7. h \in [0 .. m -> Seq(S)]
    BY <1>4
  <1>8. ASSUME NEW i \in 0 .. m PROVE h[i] = B(h, i)
    <2>1. CASE i = m
      BY <1>4, <2>1
    <2>2. CASE i # m
      <3>1. /\ i \in 0 .. m - 1 /\ h[i] = g[i]
            /\ i # 0 => h[i - 1] = g[i - 1]
        BY <2>2, <1>4
      <3>2. g[i] = B(g, i)
        BY <1>6, <3>1
      <3> QED
        BY <3>1, <3>2, <2>2, <1>4
    <2> QED
      BY <2>1, <2>2
  <1>9. h = [i \in 0 .. m |-> B(h, i)]
    <2> HIDE DEF B
    <2> QED
      BY <1>8
  <1>10. P(m)
    BY <1>7, <1>9
  <1> HIDE DEF P
  <1> QED
    BY <1>10, <1>2

\* p is q with works left out: f says where the works of p stood.
Embeds(p, q, f) ==
    /\ f \in [1 .. Len(p) -> 1 .. Len(q)]
    /\ \A i \in 1 .. Len(p) : p[i] = q[f[i]]
    /\ \A i, j \in 1 .. Len(p) : i < j => f[i] < f[j]

\* Without takes out w and nothing else, and keeps the order of the rest.
LEMMA WithoutKeepsOrder ==
    ASSUME NEW S, NEW q \in Seq(S), NEW w
    PROVE  /\ Without(q, w) \in Seq(S)
           /\ \E f : /\ Embeds(Without(q, w), q, f)
                     /\ \A k \in 1 .. Len(q) : q[k] # w =>
                           \E i \in 1 .. Len(Without(q, w)) : f[i] = k
           /\ \A i \in 1 .. Len(Without(q, w)) : Without(q, w)[i] # w
  <1> DEFINE n == Len(q)
             B(g, i) == Kept(q, w, g, i)
             Walk(g) == IsWalk(q, w, g, n)
             K == CHOOSE g : Walk(g)
  <1>1. Without(q, w) = K[n]
    BY DEF Without, Kept, IsWalk
  <1>2. Walk(K)
    <2>1. n \in Nat /\ n =< Len(q)
      OBVIOUS
    <2>2. \E g \in [0 .. n -> Seq(S)] : Walk(g)
      BY <2>1, WalkExists
    <2> HIDE DEF Walk
    <2> QED
      BY <2>2, Zenon DEF K
  <1> HIDE DEF K
  <1>3. K[0] = <<>> /\ \A i \in 1 .. n : K[i] = B(K, i)
    <2>1. \A i \in 0 .. n : K[i] = B(K, i)
      <3> HIDE DEF B
      <3> QED
        BY <1>2 DEF IsWalk
    <2>2. n \in Nat /\ B(K, 0) = <<>>
      BY DEF Kept
    <2> HIDE DEF B
    <2> QED
      BY <2>1, <2>2
  <1> DEFINE F(m, f) == /\ f \in [1 .. Len(K[m]) -> 1 .. m]
                        /\ \A i \in 1 .. Len(K[m]) : K[m][i] = q[f[i]]
                        /\ \A i, j \in 1 .. Len(K[m]) : i < j => f[i] < f[j]
                        /\ \A k \in 1 .. m : q[k] # w =>
                              \E i \in 1 .. Len(K[m]) : f[i] = k
             P(m) == /\ K[m] \in Seq(S)
                     /\ \E f : F(m, f)
                     /\ \A i \in 1 .. Len(K[m]) : K[m][i] # w
             Bad == {m \in 0 .. n : ~ P(m)}
  <1>4. P(0)
    <2> DEFINE f == [i \in {} |-> 0]
    <2>1. F(0, f)
      BY <1>3
    <2> HIDE DEF f, F
    <2> QED
      BY <2>1, <1>3
  <1>5. ASSUME NEW m \in 1 .. n, P(m - 1) PROVE P(m)
    <2>1. PICK f : F(m - 1, f)
      BY <1>5
    <2> DEFINE r == K[m - 1]
    <2>2. r \in Seq(S) /\ Len(r) \in Nat
      BY <1>5
    <2>3. \A i \in 1 .. Len(r) : r[i] # w
      BY <1>5
    <2>4. CASE q[m] = w
      <3>1. K[m] = r
        BY <2>4, <1>3 DEF Kept
      <3>2. F(m, f)
        BY <3>1, <2>1, <2>4
      <3> HIDE DEF F
      <3> QED
        BY <3>1, <3>2, <2>2, <2>3
    <2>5. CASE q[m] # w
      <3>1. K[m] = Append(r, q[m])
        <4>1. K[m] = B(K, m)
          BY <1>3
        <4> QED
          BY <4>1, <2>5 DEF Kept
      <3>2. q[m] \in S
        OBVIOUS
      <3> HIDE DEF r
      <3>3. /\ K[m] \in Seq(S) /\ Len(K[m]) = Len(r) + 1
            /\ \A i \in 1 .. Len(r) : K[m][i] = r[i]
            /\ K[m][Len(r) + 1] = q[m]
        BY <3>1, <3>2, <2>2
      <3> DEFINE h == [i \in 1 .. Len(r) + 1 |-> IF i = Len(r) + 1 THEN m
                                                                   ELSE f[i]]
      <3>4. /\ f \in [1 .. Len(r) -> 1 .. m - 1]
            /\ \A i \in 1 .. Len(r) : r[i] = q[f[i]]
            /\ \A i, j \in 1 .. Len(r) : i < j => f[i] < f[j]
            /\ \A k \in 1 .. m - 1 : q[k] # w =>
                              \E i \in 1 .. Len(r) : f[i] = k
        BY <2>1 DEF r
      <3>5. /\ \A i \in 1 .. Len(r) : h[i] = f[i]
            /\ h[Len(r) + 1] = m
            /\ h \in [1 .. Len(r) + 1 -> 1 .. m]
        BY <3>4, <2>2
      <3> HIDE DEF h
      <3>6. \A i \in 1 .. Len(r) + 1 : i \in 1 .. Len(r) \/ i = Len(r) + 1
        BY <2>2
      <3>7. \A i \in 1 .. Len(r) + 1 : K[m][i] = q[h[i]]
        BY <3>3, <3>4, <3>5, <3>6
      <3>8. \A i, j \in 1 .. Len(r) + 1 : i < j => h[i] < h[j]
        <4> SUFFICES ASSUME NEW i \in 1 .. Len(r) + 1,
                            NEW j \in 1 .. Len(r) + 1, i < j
                     PROVE  h[i] < h[j]
          OBVIOUS
        <4>1. i \in 1 .. Len(r)
          BY <2>2
        <4>2. f[i] \in 1 .. m - 1 /\ h[i] = f[i]
          BY <4>1, <3>4, <3>5
        <4>3. CASE j \in 1 .. Len(r)
          <5>1. f[i] < f[j] /\ h[j] = f[j]
            BY <4>1, <4>3, <3>4, <3>5
          <5> QED
            BY <4>2, <5>1
        <4>4. CASE j = Len(r) + 1
          <5>1. h[j] = m
            BY <4>4, <3>5
          <5>2. m \in Nat
            OBVIOUS
          <5> QED
            BY ONLY <4>2, <5>1, <5>2
        <4> QED
          BY <3>6, <4>3, <4>4
      <3>9. \A k \in 1 .. m : q[k] # w => \E i \in 1 .. Len(r) + 1 : h[i] = k
        <4> TAKE k \in 1 .. m
        <4>1. CASE k = m
          BY <4>1, <3>5, <2>2
        <4>2. CASE k # m
          BY <4>2, <3>4, <3>5, <2>2
        <4> QED
          BY <4>1, <4>2
      <3>10. F(m, h)
        BY <3>3, <3>5, <3>7, <3>8, <3>9
      <3>11. \A i \in 1 .. Len(K[m]) : K[m][i] # w
        BY <3>3, <3>6, <2>3, <2>5 DEF r
      <3> HIDE DEF F
      <3> QED
        BY <3>3, <3>10, <3>11
    <2> QED
      BY <2>4, <2>5
  <1>6. P(n)
    <2> HIDE DEF P
    <2> SUFFICES ASSUME ~ P(n) PROVE FALSE
      OBVIOUS
    <2>1. Bad \in SUBSET Nat /\ Bad # {}
      OBVIOUS
    <2>2. PICK m \in Bad : \A k \in Bad : m =< k
      BY <2>1, LeastNumber
    <2>3. m \in 1 .. n
      BY <1>4
    <2>4. P(m - 1)
      BY <2>2, <2>3
    <2> QED
      BY <2>2, <2>3, <2>4, <1>5
  <1>7. PICK f : F(n, f)
    BY <1>6
  <1>8. /\ Embeds(K[n], q, f)
        /\ \A k \in 1 .. Len(q) : q[k] # w => \E i \in 1 .. Len(K[n]) : f[i] = k
    BY <1>7 DEF Embeds
  <1>9. K[n] \in Seq(S) /\ \A i \in 1 .. Len(K[n]) : K[n][i] # w
    BY <1>6
  <1> HIDE DEF F, P
  <1> QED
    BY <1>1, <1>8, <1>9

-----------------------------------------------------------------------------
(* The works of the queue as a set.                                        *)

Elems(q) == {q[i] : i \in 1 .. Len(q)}

\* What the queue's operations do to the set of its works.
LEMMA ElemsOfQueue ==
    ASSUME NEW S, NEW q \in Seq(S)
    PROVE  /\ \A w \in S : /\ Append(q, w) \in Seq(S)
                           /\ Elems(Append(q, w)) = Elems(q) \cup {w}
           /\ \A p \in Seq(S) : /\ q \o p \in Seq(S)
                                /\ Elems(q \o p) = Elems(q) \cup Elems(p)
           /\ q # <<>> => /\ Tail(q) \in Seq(S)
                          /\ Elems(q) = {Head(q)} \cup Elems(Tail(q))
           /\ \A w : /\ Without(q, w) \in Seq(S)
                     /\ Elems(Without(q, w)) = Elems(q) \ {w}
  <1>1. ASSUME NEW w \in S
        PROVE  /\ Append(q, w) \in Seq(S)
               /\ Elems(Append(q, w)) = Elems(q) \cup {w}
    BY DEF Elems
  <1>2. ASSUME NEW p \in Seq(S)
        PROVE  /\ q \o p \in Seq(S)
               /\ Elems(q \o p) = Elems(q) \cup Elems(p)
    <2>1. /\ q \o p \in Seq(S) /\ Len(q \o p) = Len(q) + Len(p)
          /\ \A i \in 1 .. Len(q) : (q \o p)[i] = q[i]
          /\ \A i \in 1 .. Len(p) : (q \o p)[Len(q) + i] = p[i]
      OBVIOUS
    <2>2. \A i \in 1 .. Len(q) + Len(p) :
             i \in 1 .. Len(q) \/ i - Len(q) \in 1 .. Len(p)
      OBVIOUS
    <2>3. Elems(q \o p) \subseteq Elems(q) \cup Elems(p)
      BY <2>1, <2>2 DEF Elems
    <2>4. Elems(q) \cup Elems(p) \subseteq Elems(q \o p)
      <3>1. \A i \in 1 .. Len(q) : q[i] \in Elems(q \o p)
        BY <2>1 DEF Elems
      <3>2. \A i \in 1 .. Len(p) : p[i] \in Elems(q \o p)
        <4> SUFFICES ASSUME NEW i \in 1 .. Len(p) PROVE p[i] \in Elems(q \o p)
          OBVIOUS
        <4>1. Len(q) + i \in 1 .. Len(q) + Len(p)
          OBVIOUS
        <4> QED
          BY <2>1, <4>1 DEF Elems
      <3> QED
        BY <3>1, <3>2 DEF Elems
    <2> QED
      BY <2>1, <2>3, <2>4
  <1>3. ASSUME q # <<>>
        PROVE  /\ Tail(q) \in Seq(S)
               /\ Elems(q) = {Head(q)} \cup Elems(Tail(q))
    <2>1. /\ Tail(q) \in Seq(S) /\ Len(Tail(q)) = Len(q) - 1 /\ Head(q) = q[1]
          /\ Len(q) >= 1
          /\ \A i \in 1 .. Len(q) - 1 : Tail(q)[i] = q[i + 1]
      BY <1>3
    <2>2. Elems(q) \subseteq {Head(q)} \cup Elems(Tail(q))
      <3> SUFFICES ASSUME NEW i \in 1 .. Len(q)
                   PROVE  q[i] = Head(q) \/ q[i] \in Elems(Tail(q))
        BY DEF Elems
      <3>1. CASE i = 1
        BY <3>1, <2>1
      <3>2. CASE i # 1
        <4>1. i - 1 \in 1 .. Len(Tail(q)) /\ Tail(q)[i - 1] = q[i]
          BY <3>2, <2>1
        <4> QED
          BY <4>1 DEF Elems
      <3> QED
        BY <3>1, <3>2
    <2>3. {Head(q)} \cup Elems(Tail(q)) \subseteq Elems(q)
      BY <2>1 DEF Elems
    <2> QED
      BY <2>1, <2>2, <2>3
  <1>4. ASSUME NEW w
        PROVE  /\ Without(q, w) \in Seq(S)
               /\ Elems(Without(q, w)) = Elems(q) \ {w}
    <2>1. PICK f : /\ Embeds(Without(q, w), q, f)
                   /\ \A k \in 1 .. Len(q) : q[k] # w =>
                         \E i \in 1 .. Len(Without(q, w)) : f[i] = k
      BY WithoutKeepsOrder
    <2>2. /\ Without(q, w) \in Seq(S)
          /\ \A i \in 1 .. Len(Without(q, w)) : Without(q, w)[i] # w
      BY WithoutKeepsOrder
    <2>3. Elems(Without(q, w)) \subseteq Elems(q) \ {w}
      BY <2>1, <2>2 DEF Elems, Embeds
    <2>4. Elems(q) \ {w} \subseteq Elems(Without(q, w))
      BY <2>1 DEF Elems, Embeds
    <2> QED
      BY <2>2, <2>3, <2>4
  <1> QED
    BY <1>1, <1>2, <1>3, <1>4

LEMMA ElemsOfShort ==
    /\ Elems(<<>>) = {}
    /\ \A v : Elems(<<v>>) = {v}
    /\ \A v, w : Elems(<<v, w>>) = {v, w}
  BY DEF Elems

\* The works are distinct.
LEMMA WorksDiffer ==
    /\ \A s, t : UPDATE(s) = UPDATE(t) => s = t
    /\ \A s : UPDATE(s) \notin {REGISTERING, REGISTERED, CONNECTING,
               DEV_DELETED, JWT_EXPIRED, CONFIRM, PROVISION, REG_EVENTS,
               EVT_EVENTS}
    /\ REGISTERED \notin {REGISTERING, CONNECTING, DEV_DELETED, JWT_EXPIRED,
               CONFIRM, PROVISION, REG_EVENTS, EVT_EVENTS}
    /\ JWT_EXPIRED \notin {REGISTERING, CONNECTING, DEV_DELETED, CONFIRM,
               PROVISION, REG_EVENTS, EVT_EVENTS}
  BY DEF UPDATE, REGISTERING, REGISTERED, CONNECTING, DEV_DELETED, JWT_EXPIRED,
         CONFIRM, PROVISION, REG_EVENTS, EVT_EVENTS

LEMMA WorksTyped ==
    /\ \A s \in States : UPDATE(s) \in WorkItems
    /\ {REGISTERING, REGISTERED, CONNECTING, DEV_DELETED, JWT_EXPIRED, CONFIRM,
        PROVISION, REG_EVENTS, EVT_EVENTS} \subseteq WorkItems
  BY DEF WorkItems

\* What a handler, a sender and a disconnect leave in the queue.
LEMMA HandledQueue ==
    ASSUME TypeOK, NEW w, Handle(w), NEW ws \in Seq(WorkItems), HandleAndSend(ws)
    PROVE  /\ queue' \in Seq(WorkItems)
           /\ Elems(queue) = {w} \cup Elems(Rest)
           /\ Elems(queue') = Elems(Rest) \cup Elems(ws)
  <1>1. queue \in Seq(WorkItems) /\ queue # <<>> /\ Head(queue) = w
    BY DEF TypeOK, Handle
  <1>2. Tail(queue) \in Seq(WorkItems) /\ Elems(queue) = {w} \cup Elems(Tail(queue))
    BY <1>1, ElemsOfQueue
  <1> DEFINE t == Tail(queue)
  <1>3. t \o ws \in Seq(WorkItems) /\ Elems(t \o ws) = Elems(t) \cup Elems(ws)
    <2> HIDE DEF t
    <2>1. t \in Seq(WorkItems)
      BY <1>2 DEF t
    <2> QED
      BY <2>1, ElemsOfQueue
  <1> QED
    BY <1>2, <1>3 DEF HandleAndSend, Rest

LEMMA SentQueue ==
    ASSUME TypeOK, NEW w \in WorkItems, Send(w)
    PROVE  queue' \in Seq(WorkItems) /\ Elems(queue') = Elems(queue) \cup {w}
  <1>1. queue \in Seq(WorkItems)
    BY DEF TypeOK
  <1> QED
    BY <1>1, ElemsOfQueue DEF Send

LEMMA ExtendedQueue ==
    ASSUME TypeOK, NEW ws \in Seq(WorkItems), queue' = queue \o ws
    PROVE  queue' \in Seq(WorkItems) /\ Elems(queue') = Elems(queue) \cup Elems(ws)
  <1>1. queue \in Seq(WorkItems)
    BY DEF TypeOK
  <1> QED
    BY <1>1, ElemsOfQueue

LEMMA ClearedQueue ==
    ASSUME TypeOK, NEW w, Handle(w), NEW v
    PROVE  /\ Without(Rest, v) \in Seq(WorkItems)
           /\ Elems(queue) = {w} \cup Elems(Rest)
           /\ Elems(Without(Rest, v)) = Elems(Rest) \ {v}
           /\ \A u \in WorkItems :
                 /\ Append(Without(Rest, v), u) \in Seq(WorkItems)
                 /\ Elems(Append(Without(Rest, v), u))
                        = (Elems(Rest) \ {v}) \cup {u}
  <1>1. queue \in Seq(WorkItems) /\ queue # <<>> /\ Head(queue) = w
    BY DEF TypeOK, Handle
  <1>2. Tail(queue) \in Seq(WorkItems) /\ Elems(queue) = {w} \cup Elems(Tail(queue))
    BY <1>1, ElemsOfQueue
  <1> DEFINE t == Tail(queue)
             r == Without(t, v)
  <1>3. r \in Seq(WorkItems) /\ Elems(r) = Elems(t) \ {v}
    <2> HIDE DEF t
    <2>1. t \in Seq(WorkItems)
      BY <1>2 DEF t
    <2> QED
      BY <2>1, ElemsOfQueue
  <1>4. \A u \in WorkItems : /\ Append(r, u) \in Seq(WorkItems)
                             /\ Elems(Append(r, u)) = Elems(r) \cup {u}
    <2> HIDE DEF r
    <2>1. r \in Seq(WorkItems)
      BY <1>3 DEF r
    <2> QED
      BY <2>1, ElemsOfQueue
  <1> QED
    BY <1>2, <1>3, <1>4 DEF Rest

LEMMA CleanedQueue ==
    ASSUME TypeOK
    PROVE  /\ AfterCleanup \in Seq(WorkItems)
           /\ Elems(AfterCleanup) = Elems(queue) \ {REG_EVENTS, EVT_EVENTS}
           /\ \A u \in WorkItems :
                 /\ Append(AfterCleanup, u) \in Seq(WorkItems)
                 /\ Elems(Append(AfterCleanup, u)) = Elems(AfterCleanup) \cup {u}
  <1>1. queue \in Seq(WorkItems)
    BY DEF TypeOK
  <1> DEFINE r == Without(queue, REG_EVENTS)
  <1>2. r \in Seq(WorkItems) /\ Elems(r) = Elems(queue) \ {REG_EVENTS}
    BY <1>1, ElemsOfQueue
  <1> HIDE DEF r
  <1>3. /\ Without(r, EVT_EVENTS) \in Seq(WorkItems)
        /\ Elems(Without(r, EVT_EVENTS)) = Elems(r) \ {EVT_EVENTS}
    BY <1>2, ElemsOfQueue
  <1>4. AfterCleanup = Without(r, EVT_EVENTS)
    BY DEF AfterCleanup, r
  <1>5. AfterCleanup \in Seq(WorkItems)
        /\ Elems(AfterCleanup) = Elems(queue) \ {REG_EVENTS, EVT_EVENTS}
    BY <1>2, <1>3, <1>4
  <1> QED
    BY <1>5, ElemsOfQueue

-----------------------------------------------------------------------------
(* The inductive invariant.                                                *)

\* The data a connection and a registration need, or the application erased them.
Stored == (nvProv /\ nvId) \/ "cleanup" \in excused
HasProv == nvProv \/ "cleanup" \in excused

\* Whatever leads to a cloud state, or comes from one, has its data stored: not
\* only the state, but the commands, the handlers under way and the MQTT clients.
StoredInv ==
    /\ prov => nvProv
    /\ (\/ curr \in {"CLOUD_DISCONNECTED", "CLOUD_CONNECTED"}
        \/ work \in {"connecting", "renewing"}
        \/ Queued(UPDATE("CLOUD_DISCONNECTED")) \/ Queued(JWT_EXPIRED)
        \/ evt # NoClient) => Stored
    /\ (Queued(REGISTERED) \/ reg # NoClient) => HasProv

MainInv == TypeOK /\ StoredInv /\ ProvisioningTimesOut

LEMMA QueuedIsElem ==
    /\ \A w : Queued(w) <=> w \in Elems(queue)
    /\ \A w : Queued(w)' <=> w \in Elems(queue')
  BY DEF Queued, Elems

\* The queue of the last state holds UPDATE(s) for an s that curr allows.
UpdateDue == \E s \in States : Allowed(s) /\ UPDATE(s) \in Elems(queue)

LEMMA TimesOutDef ==
    /\ ProvisioningTimesOut <=>
          (curr \in {"PROV_ENTER", "PROV_DONE"} =>
             \/ stateTimer = "armed" \/ stateFiring \/ UpdateDue
             \/ "no SoftAP" \in excused)
    /\ ProvisioningTimesOut' <=>
          (curr' \in {"PROV_ENTER", "PROV_DONE"} =>
             \/ stateTimer' = "armed" \/ stateFiring' \/ UpdateDue'
             \/ "no SoftAP" \in excused')
  BY QueuedIsElem DEF ProvisioningTimesOut, UpdateDue

-----------------------------------------------------------------------------
(* What a step does to the queue, as far as the invariant can tell.        *)

\* The step takes w out of the queue, perhaps with the pending works of a client,
\* and sends works of G.
Takes(w, G) == /\ queue' \in Seq(WorkItems)
               /\ w \in Elems(queue)
               /\ \A u \in Elems(queue) :
                     u \in Elems(queue') \cup {w, REG_EVENTS, EVT_EVENTS}
               /\ Elems(queue') \subseteq Elems(queue) \cup G

\* The step only sends works of G.
Sends(G) == /\ queue' \in Seq(WorkItems)
            /\ Elems(queue) \subseteq Elems(queue')
            /\ Elems(queue') \subseteq Elems(queue) \cup G

LEMMA ShortTyped ==
    /\ <<>> \in Seq(WorkItems)
    /\ \A v \in WorkItems : <<v>> \in Seq(WorkItems)
    /\ \A v, w \in WorkItems : <<v, w>> \in Seq(WorkItems)
  OBVIOUS

LEMMA TakesAndSends ==
    ASSUME TypeOK, NEW w, Handle(w), NEW ws \in Seq(WorkItems), HandleAndSend(ws)
    PROVE  Takes(w, Elems(ws))
  BY HandledQueue DEF Takes

LEMMA TakesOnly ==
    ASSUME TypeOK, NEW w, Handle(w), HandleAndSend(<<>>)
    PROVE  Takes(w, {})
  <1> DEFINE ws == <<>>
  <1>1. ws \in Seq(WorkItems) /\ Elems(ws) = {} /\ HandleAndSend(ws)
    BY ShortTyped, ElemsOfShort
  <1> HIDE DEF ws
  <1>2. Takes(w, Elems(ws))
    BY <1>1, TakesAndSends
  <1> QED
    BY <1>1, <1>2, Zenon

LEMMA TakesAndSendsOne ==
    ASSUME TypeOK, NEW w, Handle(w), NEW v \in WorkItems, HandleAndSend(<<v>>)
    PROVE  Takes(w, {v})
  <1> DEFINE ws == <<v>>
  <1>1. ws \in Seq(WorkItems) /\ Elems(ws) = {v} /\ HandleAndSend(ws)
    BY ShortTyped, ElemsOfShort
  <1> HIDE DEF ws
  <1>2. Takes(w, Elems(ws))
    BY <1>1, TakesAndSends
  <1> QED
    BY <1>1, <1>2, Zenon

LEMMA TakesAndClears ==
    ASSUME TypeOK, NEW w, Handle(w), NEW v \in {REG_EVENTS, EVT_EVENTS}
    PROVE  /\ queue' = Without(Rest, v) => Takes(w, {})
           /\ \A u \in WorkItems :
                 queue' = Append(Without(Rest, v), u) => Takes(w, {u})
  <1> DEFINE r == Without(Rest, v)
  <1>1. /\ r \in Seq(WorkItems)
        /\ Elems(queue) = {w} \cup Elems(Rest)
        /\ Elems(r) = Elems(Rest) \ {v}
        /\ \A u \in WorkItems : /\ Append(r, u) \in Seq(WorkItems)
                               /\ Elems(Append(r, u)) = (Elems(Rest) \ {v}) \cup {u}
    BY ClearedQueue, Zenon
  <1> HIDE DEF r
  <1>2. queue' = r => Takes(w, {})
    BY <1>1 DEF Takes
  <1>3. ASSUME NEW u \in WorkItems, queue' = Append(r, u) PROVE Takes(w, {u})
    <2> DEFINE a == Append(r, u)
    <2>1. /\ a \in Seq(WorkItems) /\ Elems(a) = (Elems(Rest) \ {v}) \cup {u}
          /\ queue' = a
      BY <1>1, <1>3
    <2> HIDE DEF a
    <2> QED
      BY <1>1, <2>1 DEF Takes
  <1> QED
    BY <1>2, <1>3 DEF r

LEMMA SendsOne ==
    ASSUME TypeOK, NEW w \in WorkItems, Send(w)
    PROVE  Sends({w}) /\ w \in Elems(queue')
  BY SentQueue DEF Sends

LEMMA SendsLast ==
    ASSUME TypeOK, NEW v \in WorkItems, queue' = queue \o <<v>>
    PROVE  Sends({v}) /\ v \in Elems(queue')
  <1>1. Elems(queue') = Elems(queue) \cup Elems(<<v>>) /\ queue' \in Seq(WorkItems)
    BY ExtendedQueue, ShortTyped
  <1> QED
    BY <1>1, ElemsOfShort DEF Sends

LEMMA SendsAll ==
    ASSUME TypeOK, NEW ws \in Seq(WorkItems), queue' = queue \o ws
    PROVE  Sends(Elems(ws))
  BY ExtendedQueue DEF Sends

LEMMA SendsShort ==
    ASSUME TypeOK
    PROVE  /\ UNCHANGED queue => Sends({})
           /\ queue' = queue \o <<>> => Sends({})
           /\ \A v \in WorkItems : queue' = queue \o <<v>> => Sends({v})
           /\ \A v, w \in WorkItems : queue' = queue \o <<v, w>> => Sends({v, w})
  <1>1. UNCHANGED queue => Sends({})
    BY DEF Sends, TypeOK
  <1>2. queue' = queue \o <<>> => Sends({})
    BY SendsAll, ShortTyped, ElemsOfShort
  <1>3. ASSUME NEW v \in WorkItems, queue' = queue \o <<v>> PROVE Sends({v})
    BY <1>3, SendsAll, ShortTyped, ElemsOfShort
  <1>4. ASSUME NEW v \in WorkItems, NEW w \in WorkItems, queue' = queue \o <<v, w>>
        PROVE  Sends({v, w})
    BY <1>4, SendsAll, ShortTyped, ElemsOfShort
  <1> QED
    BY <1>1, <1>2, <1>3, <1>4

LEMMA SendsTwice ==
    ASSUME TypeOK, NEW ws \in Seq(WorkItems), NEW v \in WorkItems,
           queue' = queue \o ws \o <<v>>
    PROVE  Sends(Elems(ws) \cup {v})
  <1> DEFINE q == queue \o ws
  <1>1. q \in Seq(WorkItems) /\ Elems(q) = Elems(queue) \cup Elems(ws)
    <2>1. queue \in Seq(WorkItems)
      BY DEF TypeOK
    <2> QED
      BY <2>1, ElemsOfQueue
  <1> DEFINE p == <<v>>
  <1>2. queue' = q \o p /\ p \in Seq(WorkItems) /\ Elems(p) = {v}
    BY ShortTyped, ElemsOfShort
  <1> HIDE DEF q, p
  <1>3. queue' \in Seq(WorkItems) /\ Elems(queue') = Elems(q) \cup {v}
    <2>1. q \o p \in Seq(WorkItems) /\ Elems(q \o p) = Elems(q) \cup Elems(p)
      <3>1. q \in Seq(WorkItems) /\ p \in Seq(WorkItems)
        BY <1>1, <1>2
      <3> QED
        BY ONLY <3>1, ElemsOfQueue
    <2> QED
      BY <1>2, <2>1
  <1> QED
    BY <1>1, <1>3 DEF Sends

\* What iot_es_connect leaves in the queue.
ConnectSends == Sends({UPDATE("CLOUD_DISCONNECTED"), UPDATE("CLOUD_CONNECTED")})

LEMMA ConnectQueue ==
    ASSUME TypeOK, NEW ws \in {<<>>, <<UPDATE("CLOUD_DISCONNECTED")>>},
           ConnectSucceeded(ws) \/ ConnectFailed(ws)
    PROVE  ConnectSends
  <1>1. /\ ws \in Seq(WorkItems) /\ Elems(ws) \subseteq {UPDATE("CLOUD_DISCONNECTED")}
        /\ UPDATE("CLOUD_CONNECTED") \in WorkItems
    BY ShortTyped, ElemsOfShort, WorksTyped DEF States
  <1>2. \/ queue' = queue \o ws
        \/ queue' = queue \o ws \o <<UPDATE("CLOUD_CONNECTED")>>
    BY DEF ConnectSucceeded, ConnectFailed
  <1>3. Sends(Elems(ws)) \/ Sends(Elems(ws) \cup {UPDATE("CLOUD_CONNECTED")})
    BY <1>1, <1>2, SendsAll, SendsTwice
  <1> QED
    BY <1>1, <1>3 DEF Sends, ConnectSends

-----------------------------------------------------------------------------
(* The parts of the invariant that a step leaves alone.                    *)

\* Everything of which StoredInv asks that the connection's data are stored.
NeedsCloud == \/ curr \in {"CLOUD_DISCONNECTED", "CLOUD_CONNECTED"}
              \/ work \in {"connecting", "renewing"}
              \/ UPDATE("CLOUD_DISCONNECTED") \in Elems(queue)
              \/ JWT_EXPIRED \in Elems(queue)
              \/ evt # NoClient
NeedsProv == REGISTERED \in Elems(queue) \/ reg # NoClient

LEMMA StoredInvDef ==
    /\ StoredInv <=> /\ prov => nvProv
                     /\ NeedsCloud => Stored
                     /\ NeedsProv => HasProv
    /\ StoredInv' <=> /\ prov' => nvProv'
                      /\ NeedsCloud' => Stored'
                      /\ NeedsProv' => HasProv'
  BY QueuedIsElem DEF StoredInv, NeedsCloud, NeedsProv

\* A step that erases nothing and needs no more than the state before.
LEMMA StoredKept ==
    ASSUME StoredInv, UNCHANGED nv, excused \subseteq excused',
           NeedsCloud' => NeedsCloud, NeedsProv' => NeedsProv
    PROVE  StoredInv'
  BY StoredInvDef DEF nv, Stored, HasProv

\* A step that keeps the state, its timer and the queued updates.
LEMMA TimesOutKept ==
    ASSUME ProvisioningTimesOut, UNCHANGED <<curr, stateTimer, stateFiring>>,
           excused \subseteq excused',
           \A s \in States : UPDATE(s) \in Elems(queue)
                                => UPDATE(s) \in Elems(queue')
    PROVE  ProvisioningTimesOut'
  BY TimesOutDef DEF UpdateDue, Allowed

LEMMA QueueKeepsUpdates ==
    ASSUME NEW w, NEW G, Takes(w, G) \/ Sends(G), \A s \in States : w # UPDATE(s)
    PROVE  \A s \in States : UPDATE(s) \in Elems(queue)
                                => UPDATE(s) \in Elems(queue')
  BY WorksDiffer DEF Takes, Sends

LEMMA RejectsTyped ==
    ASSUME TypeOK
    PROVE  /\ 0 \in 0 .. CriticalRejectMax
           /\ rejects < CriticalRejectMax => rejects + 1 \in 0 .. CriticalRejectMax
  <1>1. CriticalRejectMax \in Nat
    BY IotMainAssumption
  <1>2. rejects \in 0 .. CriticalRejectMax
    BY DEF TypeOK
  <1> HIDE IotMainAssumption
  <1> QED
    BY <1>1, <1>2

LEMMA NoClientQuiet == \A c : c.events # <<>> => c # NoClient
  BY DEF NoClient

LEMMA UpIsClient == \A c : c.link = "up" => c # NoClient
  BY DEF NoClient

LEMMA ClientsTyped ==
    /\ \A E : /\ NoClient \in Client(E) /\ Connected \in Client(E)
              /\ [link |-> "down", events |-> <<>>] \in Client(E)
    /\ Connected # NoClient
  BY DEF NoClient, Connected, Client

\* An event is queued for the callback, and handed to it.
LEMMA EventAppended ==
    ASSUME NEW E, NEW c \in Client(E), NEW e \in E, NEW l \in {"none", "up", "down"}
    PROVE  [link |-> l, events |-> Append(c.events, e)] \in Client(E)
  BY DEF Client

LEMMA EventHandled ==
    ASSUME NEW E, NEW c \in Client(E), c.events # <<>>
    PROVE  /\ [c EXCEPT !.events = Tail(@)] \in Client(E)
           /\ Head(c.events) \in E
  BY DEF Client

Flags == {stateFiring, retryFiring, station, softap, updated, selfReged,
          regRequested, prov, nvProv, nvId} \subseteq BOOLEAN

LEMMA TypeParts ==
    TypeOK' <=>
      /\ curr' \in States
      /\ queue' \in Seq(WorkItems)
      /\ work' \in {"idle", "registering", "connecting", "renewing",
                    "confirming", "reg events", "evt events"}
      /\ {stateTimer', retryTimer'} \subseteq {"none", "armed", "spent"}
      /\ session' \in {"none", "confirming", "denied", "asking again",
                       "confirmed", "provisioning", "provisioned"}
      /\ reg' \in Client(RegEvents) /\ evt' \in Client(EvtEvents)
      /\ rejects' \in 0 .. CriticalRejectMax
      /\ Flags'
  BY Zenon DEF TypeOK, Flags

LEMMA FreshTyped ==
    ASSUME Fresh, nvProv' \in BOOLEAN, nvId' \in BOOLEAN
    PROVE  TypeOK'
  <1>1. Flags'
    BY Zenon DEF Flags, Fresh
  <1>2. /\ curr' \in States
        /\ queue' \in Seq(WorkItems)
        /\ work' = "idle" /\ stateTimer' = "none" /\ retryTimer' = "none"
        /\ session' = "none" /\ reg' = NoClient /\ evt' = NoClient
        /\ rejects' = 0
    BY ShortTyped DEF Fresh, States
  <1>3. rejects' \in 0 .. CriticalRejectMax
    BY <1>2, IotMainAssumption
  <1> HIDE IotMainAssumption
  <1> QED
    BY <1>1, <1>2, <1>3, ClientsTyped, TypeParts

\* After a reset nothing in memory needs anything.
LEMMA FreshKeeps ==
    ASSUME Fresh, nvProv' \in BOOLEAN, nvId' \in BOOLEAN
    PROVE  MainInv'
  <1>1. TypeOK'
    BY FreshTyped
  <1>2. queue' = <<>> /\ ~ prov' /\ curr' = "INITIALIZED" /\ work' = "idle"
        /\ reg' = NoClient /\ evt' = NoClient
    BY DEF Fresh
  <1>3. Elems(queue') = {}
    BY <1>2, ElemsOfShort
  <1>4. StoredInv'
    BY <1>2, <1>3, StoredInvDef DEF NeedsCloud, NeedsProv
  <1>5. ProvisioningTimesOut'
    BY <1>2, TimesOutDef
  <1> QED
    BY <1>1, <1>4, <1>5 DEF MainInv

-----------------------------------------------------------------------------
(* Every step keeps the invariant.                                         *)

\* _do_state_updating.
LEMMA UpdatingKeeps ==
    ASSUME MainInv,
           \/ \E s \in States : StateIgnored(s)
           \/ \E s \in States : StateChange(s)
           \/ EnterProvisioning
           \/ EnterProvisioningFails
           \/ EnterSleep
    PROVE  MainInv'
  <1> USE DEF cloud, timers, wifi, nv
  <1>0. TypeOK /\ StoredInv /\ ProvisioningTimesOut
    BY DEF MainInv
  <1>1. ASSUME NEW s \in States, StateIgnored(s) PROVE MainInv'
    <2>1. Takes(UPDATE(s), {})
      BY <1>0, <1>1, TakesOnly, WorksTyped DEF StateIgnored
    <2>2. TypeOK'
      BY <1>0, <1>1, <2>1, ClientsTyped
      DEF TypeOK, Takes, StateIgnored
    <2>3. StoredInv'
      BY <1>0, <1>1, <2>1, StoredKept, WorksDiffer, ClientsTyped
      DEF NeedsCloud, NeedsProv, Takes, StateIgnored
    <2>4. ProvisioningTimesOut'
      BY <1>0, <1>1, <2>1, TimesOutDef, WorksDiffer
      DEF UpdateDue, Allowed, Takes, StateIgnored
    <2> QED
      BY <2>2, <2>3, <2>4 DEF MainInv
  <1>2. ASSUME NEW s \in States, StateChange(s) PROVE MainInv'
    <2>1. Takes(UPDATE(s), {REGISTERING, CONNECTING})
      <3>1. PICK ws \in {<<>>, <<REGISTERING>>, <<CONNECTING>>} :
               Handle(UPDATE(s)) /\ HandleAndSend(ws)
        BY <1>2 DEF StateChange
      <3>2. ws \in Seq(WorkItems) /\ Elems(ws) \subseteq {REGISTERING, CONNECTING}
        BY <3>1, ShortTyped, ElemsOfShort, WorksTyped
      <3>3. Takes(UPDATE(s), Elems(ws))
        BY <1>0, <3>1, <3>2, TakesAndSends
      <3> QED
        BY <3>2, <3>3 DEF Takes
    <2>2. TypeOK'
      BY <1>0, <1>2, <2>1, ClientsTyped
      DEF TypeOK, Takes, StateChange, Entered
    <2>3. StoredInv'
      <3>1. NeedsCloud' => NeedsCloud
        BY <1>2, <2>1, WorksDiffer
        DEF NeedsCloud, Allowed, Takes, StateChange, Entered
      <3>2. NeedsProv' => NeedsProv
        BY <1>2, <2>1, WorksDiffer DEF NeedsProv, Takes, StateChange, Entered
      <3> QED
        BY <1>0, <1>2, <3>1, <3>2, StoredKept DEF StateChange, Entered
    <2>4. ProvisioningTimesOut'
      BY <1>0, <1>2, TimesOutDef DEF Allowed, StateChange, Entered
    <2> QED
      BY <2>2, <2>3, <2>4 DEF MainInv
  <1>3. CASE EnterProvisioning
    <2>1. Takes(UPDATE("PROV_ENTER"), {})
      BY <1>0, <1>3, TakesOnly, WorksTyped DEF EnterProvisioning
    <2>2. TypeOK'
      <3>1. Flags'
        BY <1>0, <1>3, Zenon DEF Flags, TypeOK, EnterProvisioning, Entered
      <3> QED
        BY <1>0, <1>3, <2>1, <3>1, TypeParts, ClientsTyped, RejectsTyped
        DEF TypeOK, States, Takes, EnterProvisioning, Entered
    <2>3. StoredInv'
      BY <1>0, <1>3, <2>1, StoredKept, WorksDiffer, ClientsTyped
      DEF NeedsCloud, NeedsProv, Takes, EnterProvisioning, Entered
    <2>4. ProvisioningTimesOut'
      BY <1>3, TimesOutDef DEF EnterProvisioning, Entered
    <2> QED
      BY <2>2, <2>3, <2>4 DEF MainInv
  <1>4. CASE EnterProvisioningFails
    <2>1. Takes(UPDATE("PROV_ENTER"), {})
      BY <1>0, <1>4, TakesOnly, WorksTyped DEF EnterProvisioningFails
    <2>2. TypeOK'
      BY <1>0, <1>4, <2>1, ClientsTyped
      DEF TypeOK, Takes, EnterProvisioningFails
    <2>3. StoredInv'
      BY <1>0, <1>4, <2>1, StoredKept, WorksDiffer, ClientsTyped
      DEF NeedsCloud, NeedsProv, Takes, EnterProvisioningFails
    <2>4. ProvisioningTimesOut'
      BY <1>4, TimesOutDef DEF EnterProvisioningFails
    <2> QED
      BY <2>2, <2>3, <2>4 DEF MainInv
  <1>5. CASE EnterSleep
    <2>1. Takes(UPDATE("PROV_SLEEP"), {})
      BY <1>0, <1>5, TakesOnly, WorksTyped DEF EnterSleep
    <2>2. TypeOK'
      <3>1. Flags'
        BY <1>0, <1>5, Zenon DEF Flags, TypeOK, EnterSleep, Entered, SoftApDown
      <3> QED
        BY <1>0, <1>5, <2>1, <3>1, TypeParts, ClientsTyped, RejectsTyped
        DEF TypeOK, States, Takes, EnterSleep, Entered, SoftApDown
    <2>3. StoredInv'
      BY <1>0, <1>5, <2>1, StoredKept, WorksDiffer, ClientsTyped
      DEF NeedsCloud, NeedsProv, Takes, EnterSleep, Entered, SoftApDown
    <2>4. ProvisioningTimesOut'
      BY <1>5, TimesOutDef DEF EnterSleep, Entered
    <2> QED
      BY <2>2, <2>3, <2>4 DEF MainInv
  <1> QED
    BY <1>1, <1>2, <1>3, <1>4, <1>5

\* The state timer and the retry timer.
LEMMA TimersKeep ==
    ASSUME MainInv,
           \/ StateTimerExpires
           \/ _iot_state_timeout_cb
           \/ RetryTimerExpires
           \/ _next_connection_retry_timeout
    PROVE  MainInv'
  <1> USE DEF cloud, timers, wifi, nv
  <1>0. TypeOK /\ StoredInv /\ ProvisioningTimesOut
    BY DEF MainInv
  <1>1. CASE StateTimerExpires
    <2>1. Sends({})
      BY <1>0, <1>1, SendsShort, WorksTyped DEF StateTimerExpires
    <2>2. TypeOK'
      BY <1>0, <1>1, <2>1, ClientsTyped
      DEF TypeOK, Sends, StateTimerExpires
    <2>3. StoredInv'
      BY <1>0, <1>1, <2>1, StoredKept, WorksDiffer, ClientsTyped
      DEF NeedsCloud, NeedsProv, Sends, StateTimerExpires
    <2>4. ProvisioningTimesOut'
      BY <1>0, <1>1, TimesOutDef DEF StateTimerExpires
    <2> QED
      BY <2>2, <2>3, <2>4 DEF MainInv
  <1>2. CASE _iot_state_timeout_cb
    <2>1. /\ Sends({UPDATE("PROV_SLEEP"), UPDATE("PROV_ENTER")})
          /\ curr \in {"PROV_ENTER", "PROV_DONE"} => UpdateDue'
      <3>1. CASE curr = "PROV_ENTER"
        <4>1. Sends({UPDATE("PROV_SLEEP")}) /\ UPDATE("PROV_SLEEP") \in Elems(queue')
          BY <1>0, <1>2, <3>1, SendsLast, WorksTyped
          DEF _iot_state_timeout_cb, States
        <4> QED
          BY <1>2, <3>1, <4>1
          DEF Sends, UpdateDue, Allowed, States, _iot_state_timeout_cb
      <3>2. CASE curr = "PROV_DONE"
        <4>1. Sends({UPDATE("PROV_ENTER")}) /\ UPDATE("PROV_ENTER") \in Elems(queue')
          BY <1>0, <1>2, <3>2, SendsLast, WorksTyped
          DEF _iot_state_timeout_cb, States
        <4> QED
          BY <1>2, <3>2, <4>1
          DEF Sends, UpdateDue, Allowed, States, _iot_state_timeout_cb
      <3>3. CASE curr \notin {"PROV_ENTER", "PROV_DONE"}
        <4>1. Sends({})
          BY <1>0, <1>2, <3>3, SendsShort DEF _iot_state_timeout_cb
        <4> QED
          BY <3>3, <4>1 DEF Sends
      <3> QED
        BY <3>1, <3>2, <3>3
    <2>2. TypeOK'
      BY <1>0, <1>2, <2>1, ClientsTyped
      DEF TypeOK, Sends, _iot_state_timeout_cb
    <2>3. StoredInv'
      BY <1>0, <1>2, <2>1, StoredKept, WorksDiffer, ClientsTyped
      DEF NeedsCloud, NeedsProv, Sends, _iot_state_timeout_cb
    <2>4. ProvisioningTimesOut'
      BY <1>2, <2>1, TimesOutDef DEF _iot_state_timeout_cb
    <2> QED
      BY <2>2, <2>3, <2>4 DEF MainInv
  <1>3. CASE RetryTimerExpires
    <2>1. Sends({})
      BY <1>0, <1>3, SendsShort, WorksTyped DEF RetryTimerExpires
    <2>2. TypeOK'
      BY <1>0, <1>3, <2>1, ClientsTyped
      DEF TypeOK, Sends, RetryTimerExpires
    <2>3. StoredInv'
      BY <1>0, <1>3, <2>1, StoredKept, WorksDiffer, ClientsTyped
      DEF NeedsCloud, NeedsProv, Sends, RetryTimerExpires
    <2>4. ProvisioningTimesOut'
      BY <1>0, <1>3, <2>1, TimesOutKept, QueueKeepsUpdates, WorksDiffer
      DEF RetryTimerExpires
    <2> QED
      BY <2>2, <2>3, <2>4 DEF MainInv
  <1>4. CASE _next_connection_retry_timeout
    <2>1. Sends({CONNECTING})
      BY <1>0, <1>4, SendsOne, WorksTyped DEF _next_connection_retry_timeout
    <2>2. TypeOK'
      BY <1>0, <1>4, <2>1, ClientsTyped
      DEF TypeOK, Sends, _next_connection_retry_timeout
    <2>3. StoredInv'
      BY <1>0, <1>4, <2>1, StoredKept, WorksDiffer, ClientsTyped
      DEF NeedsCloud, NeedsProv, Sends, _next_connection_retry_timeout
    <2>4. ProvisioningTimesOut'
      BY <1>0, <1>4, <2>1, TimesOutKept, QueueKeepsUpdates, WorksDiffer
      DEF _next_connection_retry_timeout
    <2> QED
      BY <2>2, <2>3, <2>4 DEF MainInv
  <1> QED
    BY <1>1, <1>2, <1>3, <1>4

\* IOT_COMMAND_CLOUD_REGISTERING and REGISTERED.
LEMMA RegisteringKeeps ==
    ASSUME MainInv,
           \/ RegisterNoWifi
           \/ RegisterBegin
           \/ RegisterOk
           \/ RegisterFails
           \/ RegisterRejected
           \/ RegisterInvalid
           \/ Registered
    PROVE  MainInv'
  <1> USE DEF cloud, timers, wifi, nv
  <1>0. TypeOK /\ StoredInv /\ ProvisioningTimesOut
    BY DEF MainInv
  <1>1. CASE RegisterNoWifi
    <2>1. Takes(REGISTERING, {REGISTERING})
      <3>1. Takes(REGISTERING, {}) \/ Takes(REGISTERING, {REGISTERING})
        BY <1>0, <1>1, TakesOnly, TakesAndSendsOne, WorksTyped
        DEF RegisterNoWifi
      <3> QED
        BY <3>1 DEF Takes
    <2>2. TypeOK'
      BY <1>0, <1>1, <2>1, ClientsTyped
      DEF TypeOK, Takes, RegisterNoWifi, SoftApDown
    <2>3. StoredInv'
      BY <1>0, <1>1, <2>1, StoredKept, WorksDiffer, ClientsTyped
      DEF NeedsCloud, NeedsProv, Takes, RegisterNoWifi, SoftApDown
    <2>4. ProvisioningTimesOut'
      BY <1>0, <1>1, <2>1, TimesOutKept, QueueKeepsUpdates, WorksDiffer
      DEF RegisterNoWifi, SoftApDown
    <2> QED
      BY <2>2, <2>3, <2>4 DEF MainInv
  <1>2. CASE RegisterBegin
    <2>1. Takes(REGISTERING, {})
      BY <1>0, <1>2, TakesAndClears, WorksTyped DEF RegisterBegin
    <2>2. TypeOK'
      BY <1>0, <1>2, <2>1, ClientsTyped
      DEF TypeOK, Takes, RegisterBegin, SoftApDown
    <2>3. StoredInv'
      BY <1>0, <1>2, <2>1, StoredKept, WorksDiffer, ClientsTyped
      DEF NeedsCloud, NeedsProv, Takes, RegisterBegin, SoftApDown
    <2>4. ProvisioningTimesOut'
      BY <1>0, <1>2, <2>1, TimesOutKept, QueueKeepsUpdates, WorksDiffer
      DEF RegisterBegin, SoftApDown
    <2> QED
      BY <2>2, <2>3, <2>4 DEF MainInv
  <1>3. CASE RegisterOk
    <2>1. Sends({})
      BY <1>0, <1>3, SendsShort, WorksTyped DEF RegisterOk
    <2>2. TypeOK'
      <3>1. Flags'
        BY <1>0, <1>3, Zenon DEF Flags, TypeOK, RegisterOk
      <3> QED
        BY <1>0, <1>3, <2>1, <3>1, TypeParts, ClientsTyped, RejectsTyped
        DEF TypeOK, States, Sends, RegisterOk
    <2>3. StoredInv'
      <3>1. HasProv' /\ nvProv'
        BY <1>0, <1>3, StoredInvDef DEF HasProv, RegisterOk
      <3>2. (NeedsCloud' => NeedsCloud) /\ (Stored => Stored')
        BY <1>3, <2>1 DEF NeedsCloud, Stored, Sends, RegisterOk
      <3> QED
        BY <1>0, <3>1, <3>2, StoredInvDef
    <2>4. ProvisioningTimesOut'
      BY <1>0, <1>3, <2>1, TimesOutKept, QueueKeepsUpdates, WorksDiffer
      DEF RegisterOk
    <2> QED
      BY <2>2, <2>3, <2>4 DEF MainInv
  <1>4. CASE RegisterFails
    <2>1. Sends({REGISTERING, REGISTERING})
      BY <1>0, <1>4, SendsShort, WorksTyped DEF RegisterFails
    <2>2. TypeOK'
      <3>1. Flags'
        BY <1>0, <1>4, Zenon DEF Flags, TypeOK, RegisterFails
      <3> QED
        BY <1>0, <1>4, <2>1, <3>1, TypeParts, ClientsTyped, RejectsTyped
        DEF TypeOK, States, Sends, RegisterFails
    <2>3. StoredInv'
      BY <1>0, <1>4, <2>1, StoredKept, WorksDiffer, ClientsTyped
      DEF NeedsCloud, NeedsProv, Sends, RegisterFails
    <2>4. ProvisioningTimesOut'
      BY <1>0, <1>4, <2>1, TimesOutKept, QueueKeepsUpdates, WorksDiffer
      DEF RegisterFails
    <2> QED
      BY <2>2, <2>3, <2>4 DEF MainInv
  <1>5. CASE RegisterRejected
    <2>1. CASE rejects < CriticalRejectMax
      <3>1. Sends({REGISTERING, REGISTERING})
        BY <1>0, <1>5, <2>1, SendsShort, WorksTyped DEF RegisterRejected
      <3>2. rejects' \in 0 .. CriticalRejectMax
        BY <1>0, <1>5, <2>1, RejectsTyped DEF RegisterRejected
      <3>3. TypeOK'
        BY <1>0, <1>5, <2>1, <3>1, <3>2 DEF TypeOK, Sends, RegisterRejected
      <3>4. StoredInv'
        BY <1>0, <1>5, <2>1, <3>1, StoredKept, WorksDiffer
        DEF NeedsCloud, NeedsProv, Sends, RegisterRejected
      <3>5. ProvisioningTimesOut'
        BY <1>0, <1>5, <2>1, <3>1, TimesOutKept, QueueKeepsUpdates, WorksDiffer
        DEF RegisterRejected
      <3> QED
        BY <3>3, <3>4, <3>5 DEF MainInv
    <2>2. CASE ~ (rejects < CriticalRejectMax)
      <3>1. Fresh /\ nvProv' \in BOOLEAN /\ nvId' \in BOOLEAN
        BY <1>5, <2>2, Zenon DEF RegisterRejected, WipeAndReboot
      <3> QED
        BY <3>1, FreshKeeps
    <2> QED
      BY <2>1, <2>2
  <1>6. CASE RegisterInvalid
    <2>1. Sends({REGISTERING, REGISTERING})
      BY <1>0, <1>6, SendsShort, WorksTyped DEF RegisterInvalid
    <2>2. TypeOK'
      BY <1>0, <1>6, <2>1, ClientsTyped
      DEF TypeOK, Sends, RegisterInvalid
    <2>3. StoredInv'
      BY <1>0, <1>6, <2>1, StoredKept, WorksDiffer, ClientsTyped
      DEF NeedsCloud, NeedsProv, Sends, RegisterInvalid
    <2>4. ProvisioningTimesOut'
      BY <1>0, <1>6, <2>1, TimesOutKept, QueueKeepsUpdates, WorksDiffer
      DEF RegisterInvalid
    <2> QED
      BY <2>2, <2>3, <2>4 DEF MainInv
  <1>7. CASE Registered
    <2>1. Takes(REGISTERED, {UPDATE("CLOUD_DISCONNECTED")})
      BY <1>0, <1>7, TakesAndClears, WorksTyped DEF Registered, States
    <2>2. TypeOK'
      BY <1>0, <1>7, <2>1, ClientsTyped
      DEF TypeOK, Takes, Registered
    <2>3. StoredInv'
      <3>1. NeedsProv
        BY <2>1 DEF Takes, NeedsProv
      <3>2. Stored' /\ HasProv' /\ (prov' => nvProv')
        BY <1>0, <1>7, <3>1, StoredInvDef DEF Stored, HasProv, Registered
      <3> QED
        BY <3>2, StoredInvDef
    <2>4. ProvisioningTimesOut'
      BY <1>0, <1>7, <2>1, TimesOutKept, QueueKeepsUpdates, WorksDiffer
      DEF Registered
    <2> QED
      BY <2>2, <2>3, <2>4 DEF MainInv
  <1> QED
    BY <1>1, <1>2, <1>3, <1>4, <1>5, <1>6, <1>7

\* IOT_COMMAND_CLOUD_CONNECTING.
LEMMA ConnectingKeeps ==
    ASSUME MainInv,
           \/ ConnectSkipped
           \/ ConnectNoWifi
           \/ ConnectBegin
           \/ ConnectHollow
           \/ ConnectOk
           \/ ConnectOkAndLost
           \/ ConnectFails
           \/ ConnectRejected
           \/ ConnectInvalid
           \/ Deleted
           \/ RenewBegin
    PROVE  MainInv'
  <1> USE DEF cloud, timers, wifi, nv
  <1>0. TypeOK /\ StoredInv /\ ProvisioningTimesOut
    BY DEF MainInv
  <1>1. CASE ConnectSkipped
    <2>1. Takes(CONNECTING, {})
      BY <1>0, <1>1, TakesOnly, WorksTyped DEF ConnectSkipped
    <2>2. TypeOK'
      BY <1>0, <1>1, <2>1, ClientsTyped
      DEF TypeOK, Takes, ConnectSkipped
    <2>3. StoredInv'
      BY <1>0, <1>1, <2>1, StoredKept, WorksDiffer, ClientsTyped
      DEF NeedsCloud, NeedsProv, Takes, ConnectSkipped
    <2>4. ProvisioningTimesOut'
      BY <1>0, <1>1, <2>1, TimesOutKept, QueueKeepsUpdates, WorksDiffer
      DEF ConnectSkipped
    <2> QED
      BY <2>2, <2>3, <2>4 DEF MainInv
  <1>2. CASE ConnectNoWifi
    <2>1. Takes(CONNECTING, {CONNECTING})
      BY <1>0, <1>2, TakesAndSendsOne, WorksTyped DEF ConnectNoWifi
    <2>2. TypeOK'
      BY <1>0, <1>2, <2>1, ClientsTyped
      DEF TypeOK, Takes, ConnectNoWifi, SoftApDown
    <2>3. StoredInv'
      BY <1>0, <1>2, <2>1, StoredKept, WorksDiffer, ClientsTyped
      DEF NeedsCloud, NeedsProv, Takes, ConnectNoWifi, SoftApDown
    <2>4. ProvisioningTimesOut'
      BY <1>0, <1>2, <2>1, TimesOutKept, QueueKeepsUpdates, WorksDiffer
      DEF ConnectNoWifi, SoftApDown
    <2> QED
      BY <2>2, <2>3, <2>4 DEF MainInv
  <1>3. CASE ConnectBegin
    <2>1. Takes(CONNECTING, {})
      BY <1>0, <1>3, TakesAndClears, WorksTyped DEF ConnectBegin
    <2>2. TypeOK'
      BY <1>0, <1>3, <2>1, ClientsTyped
      DEF TypeOK, Takes, ConnectBegin, SoftApDown
    <2>3. StoredInv'
      BY <1>0, <1>3, <2>1, StoredKept, WorksDiffer, ClientsTyped
      DEF NeedsCloud, NeedsProv, Takes, ConnectBegin, SoftApDown
    <2>4. ProvisioningTimesOut'
      BY <1>0, <1>3, <2>1, TimesOutKept, QueueKeepsUpdates, WorksDiffer
      DEF ConnectBegin, SoftApDown
    <2> QED
      BY <2>2, <2>3, <2>4 DEF MainInv
  <1>4. CASE ConnectHollow
    <2>1. ConnectSends
      BY <1>0, <1>4, ConnectQueue DEF ConnectHollow
    <2>2. TypeOK'
      <3>1. Flags' /\ queue' \in Seq(WorkItems)
        BY <1>0, <1>4, <2>1, Zenon
        DEF Flags, TypeOK, ConnectSends, Sends, ConnectHollow, ConnectSucceeded
      <3>2. evt' \in Client(EvtEvents) /\ rejects' \in 0 .. CriticalRejectMax
        BY <1>0, <1>4, ClientsTyped, RejectsTyped
        DEF TypeOK, ConnectHollow, ConnectSucceeded
      <3> QED
        BY <1>0, <1>4, <3>1, <3>2, TypeParts
        DEF TypeOK, ConnectHollow, ConnectSucceeded
    <2>3. StoredInv'
      <3>1. NeedsCloud
        BY <1>4 DEF NeedsCloud, InConnect, ConnectHollow
      <3>2. NeedsProv' => NeedsProv
        BY <1>4, <2>1, WorksDiffer
        DEF NeedsProv, ConnectSends, Sends, ConnectHollow, ConnectSucceeded
      <3> QED
        BY <1>0, <1>4, <3>1, <3>2, StoredKept
        DEF ConnectHollow, ConnectSucceeded
    <2>4. ProvisioningTimesOut'
      BY <1>0, <1>4, <2>1, TimesOutKept
      DEF ConnectSends, Sends, ConnectHollow, ConnectSucceeded
    <2> QED
      BY <2>2, <2>3, <2>4 DEF MainInv
  <1>5. CASE ConnectOk
    <2>1. ConnectSends
      BY <1>0, <1>5, ConnectQueue DEF ConnectOk
    <2>2. TypeOK'
      <3>1. Flags' /\ queue' \in Seq(WorkItems)
        BY <1>0, <1>5, <2>1, Zenon
        DEF Flags, TypeOK, ConnectSends, Sends, ConnectOk, ConnectSucceeded
      <3>2. evt' \in Client(EvtEvents) /\ rejects' \in 0 .. CriticalRejectMax
        BY <1>0, <1>5, ClientsTyped, RejectsTyped
        DEF TypeOK, ConnectOk, ConnectSucceeded
      <3> QED
        BY <1>0, <1>5, <3>1, <3>2, TypeParts
        DEF TypeOK, ConnectOk, ConnectSucceeded
    <2>3. StoredInv'
      <3>1. NeedsCloud
        BY <1>5 DEF NeedsCloud, InConnect, ConnectOk
      <3>2. NeedsProv' => NeedsProv
        BY <1>5, <2>1, WorksDiffer
        DEF NeedsProv, ConnectSends, Sends, ConnectOk, ConnectSucceeded
      <3> QED
        BY <1>0, <1>5, <3>1, <3>2, StoredKept DEF ConnectOk, ConnectSucceeded
    <2>4. ProvisioningTimesOut'
      BY <1>0, <1>5, <2>1, TimesOutKept
      DEF ConnectSends, Sends, ConnectOk, ConnectSucceeded
    <2> QED
      BY <2>2, <2>3, <2>4 DEF MainInv
  <1>6. CASE ConnectOkAndLost
    <2>1. ConnectSends
      BY <1>0, <1>6, ConnectQueue DEF ConnectOkAndLost
    <2>2. TypeOK'
      <3>1. Flags' /\ queue' \in Seq(WorkItems)
        BY <1>0, <1>6, <2>1, Zenon
        DEF Flags, TypeOK, ConnectSends, Sends, ConnectOkAndLost,
            ConnectSucceeded
      <3>2. evt' \in Client(EvtEvents) /\ rejects' \in 0 .. CriticalRejectMax
        BY <1>0, <1>6, ClientsTyped, RejectsTyped
        DEF TypeOK, ConnectOkAndLost, ConnectSucceeded
      <3> QED
        BY <1>0, <1>6, <3>1, <3>2, TypeParts
        DEF TypeOK, ConnectOkAndLost, ConnectSucceeded
    <2>3. StoredInv'
      <3>1. NeedsCloud
        BY <1>6 DEF NeedsCloud, InConnect, ConnectOkAndLost
      <3>2. NeedsProv' => NeedsProv
        BY <1>6, <2>1, WorksDiffer
        DEF NeedsProv, ConnectSends, Sends, ConnectOkAndLost, ConnectSucceeded
      <3> QED
        BY <1>0, <1>6, <3>1, <3>2, StoredKept
        DEF ConnectOkAndLost, ConnectSucceeded
    <2>4. ProvisioningTimesOut'
      BY <1>0, <1>6, <2>1, TimesOutKept
      DEF ConnectSends, Sends, ConnectOkAndLost, ConnectSucceeded
    <2> QED
      BY <2>2, <2>3, <2>4 DEF MainInv
  <1>7. CASE ConnectFails
    <2>1. ConnectSends
      BY <1>0, <1>7, ConnectQueue DEF ConnectFails
    <2>2. TypeOK'
      <3>1. Flags' /\ queue' \in Seq(WorkItems)
        BY <1>0, <1>7, <2>1, Zenon
        DEF Flags, TypeOK, ConnectSends, Sends, ConnectFails, ConnectFailed
      <3>2. evt' \in Client(EvtEvents) /\ rejects' \in 0 .. CriticalRejectMax
        BY <1>0, <1>7, ClientsTyped, RejectsTyped
        DEF TypeOK, ConnectFails, ConnectFailed
      <3> QED
        BY <1>0, <1>7, <3>1, <3>2, TypeParts
        DEF TypeOK, ConnectFails, ConnectFailed
    <2>3. StoredInv'
      <3>1. NeedsCloud
        BY <1>7 DEF NeedsCloud, InConnect, ConnectFails
      <3>2. NeedsProv' => NeedsProv
        BY <1>7, <2>1, WorksDiffer
        DEF NeedsProv, ConnectSends, Sends, ConnectFails, ConnectFailed
      <3> QED
        BY <1>0, <1>7, <3>1, <3>2, StoredKept DEF ConnectFails, ConnectFailed
    <2>4. ProvisioningTimesOut'
      BY <1>0, <1>7, <2>1, TimesOutKept
      DEF ConnectSends, Sends, ConnectFails, ConnectFailed
    <2> QED
      BY <2>2, <2>3, <2>4 DEF MainInv
  <1>8. CASE ConnectRejected
    <2>1. CASE rejects < CriticalRejectMax
      <3>1. ConnectSends
        BY <1>0, <1>8, <2>1, ConnectQueue DEF ConnectRejected
      <3>2. rejects' \in 0 .. CriticalRejectMax
        BY <1>0, <1>8, <2>1, RejectsTyped DEF ConnectRejected
      <3>3. TypeOK'
        BY <1>0, <1>8, <2>1, <3>1, <3>2
        DEF TypeOK, ConnectSends, Sends, ConnectRejected, ConnectFailed
      <3>4. NeedsCloud
        BY <1>8 DEF NeedsCloud, InConnect, ConnectRejected
      <3>5. StoredInv'
        BY <1>0, <1>8, <2>1, <3>1, <3>4, StoredKept, WorksDiffer
        DEF NeedsProv, ConnectSends, Sends, ConnectRejected, ConnectFailed
      <3>6. ProvisioningTimesOut'
        BY <1>0, <1>8, <2>1, <3>1, TimesOutKept
        DEF ConnectSends, Sends, ConnectRejected, ConnectFailed
      <3> QED
        BY <3>3, <3>5, <3>6 DEF MainInv
    <2>2. CASE ~ (rejects < CriticalRejectMax)
      <3>1. Fresh /\ nvProv' \in BOOLEAN /\ nvId' \in BOOLEAN
        BY <1>8, <2>2, Zenon DEF ConnectRejected, WipeAndReboot
      <3> QED
        BY <3>1, FreshKeeps
    <2> QED
      BY <2>1, <2>2
  <1>9. CASE ConnectInvalid
    <2>1. Sends({DEV_DELETED})
      <3>1. Sends({}) \/ Sends({DEV_DELETED})
        BY <1>0, <1>9, SendsShort, WorksTyped DEF ConnectInvalid
      <3> QED
        BY <3>1 DEF Sends
    <2>2. TypeOK'
      BY <1>0, <1>9, <2>1, ClientsTyped
      DEF TypeOK, Sends, ConnectInvalid
    <2>3. StoredInv'
      BY <1>0, <1>9, <2>1, StoredKept, WorksDiffer, ClientsTyped
      DEF NeedsCloud, NeedsProv, Sends, ConnectInvalid
    <2>4. ProvisioningTimesOut'
      BY <1>0, <1>9, <2>1, TimesOutKept, QueueKeepsUpdates, WorksDiffer
      DEF ConnectInvalid
    <2> QED
      BY <2>2, <2>3, <2>4 DEF MainInv
  <1>10. CASE Deleted
    <2>1. Fresh /\ nvProv' \in BOOLEAN /\ nvId' \in BOOLEAN
      BY <1>0, <1>10, Zenon DEF TypeOK, Deleted, WipeAndReboot
    <2> QED
      BY <2>1, FreshKeeps
  <1>11. CASE RenewBegin
    <2>1. Takes(JWT_EXPIRED, {})
      BY <1>0, <1>11, TakesAndClears, WorksTyped DEF RenewBegin
    <2>2. TypeOK'
      BY <1>0, <1>11, <2>1, ClientsTyped
      DEF TypeOK, Takes, RenewBegin
    <2>3. StoredInv'
      BY <1>0, <1>11, <2>1, StoredKept, WorksDiffer, ClientsTyped
      DEF NeedsCloud, NeedsProv, Takes, RenewBegin
    <2>4. ProvisioningTimesOut'
      BY <1>0, <1>11, <2>1, TimesOutKept, QueueKeepsUpdates, WorksDiffer
      DEF RenewBegin
    <2> QED
      BY <2>2, <2>3, <2>4 DEF MainInv
  <1> QED
    BY <1>1, <1>2, <1>3, <1>4, <1>5, <1>6, <1>7, <1>8, <1>9, <1>10, <1>11

\* The MQTT clients.
LEMMA EventsKeep ==
    ASSUME MainInv,
           \/ \E e \in RegEvents : RegEvent(e)
           \/ \E e \in EvtEvents : EvtEvent(e)
           \/ DrainBegin(REG_EVENTS, "reg events")
           \/ DrainBegin(EVT_EVENTS, "evt events")
           \/ RegCallback
           \/ EvtCallback
           \/ DrainEnd
    PROVE  MainInv'
  <1> USE DEF cloud, timers, wifi, nv
  <1>0. TypeOK /\ StoredInv /\ ProvisioningTimesOut
    BY DEF MainInv
  <1>1. ASSUME NEW e \in RegEvents, RegEvent(e) PROVE MainInv'
    <2>1. Sends({REG_EVENTS})
      BY <1>0, <1>1, SendsOne, WorksTyped DEF RegEvent
    <2>2. TypeOK'
      <3>1. reg' \in Client(RegEvents)
        BY <1>0, <1>1, EventAppended DEF TypeOK, RegEvent
      <3> QED
        BY <1>0, <1>1, <2>1, <3>1 DEF TypeOK, Sends, Spend, Fault, RegEvent
    <2>3. StoredInv'
      <3>1. reg # NoClient
        BY <1>1, UpIsClient DEF RegEvent
      <3> QED
        BY <1>0, <1>1, <2>1, <3>1, StoredKept, WorksDiffer
        DEF NeedsCloud, NeedsProv, Sends, RegEvent
    <2>4. ProvisioningTimesOut'
      BY <1>0, <1>1, <2>1, TimesOutKept, QueueKeepsUpdates, WorksDiffer
      DEF RegEvent
    <2> QED
      BY <2>2, <2>3, <2>4 DEF MainInv
  <1>2. ASSUME NEW e \in EvtEvents, EvtEvent(e) PROVE MainInv'
    <2>1. Sends({EVT_EVENTS})
      BY <1>0, <1>2, SendsOne, WorksTyped DEF EvtEvent
    <2>2. TypeOK'
      <3>1. evt' \in Client(EvtEvents)
        BY <1>0, <1>2, EventAppended DEF TypeOK, EvtEvent
      <3> QED
        BY <1>0, <1>2, <2>1, <3>1 DEF TypeOK, Sends, Spend, Fault, EvtEvent
    <2>3. StoredInv'
      <3>1. evt # NoClient
        BY <1>2, UpIsClient DEF EvtEvent
      <3> QED
        BY <1>0, <1>2, <2>1, <3>1, StoredKept, WorksDiffer
        DEF NeedsCloud, NeedsProv, Sends, EvtEvent
    <2>4. ProvisioningTimesOut'
      BY <1>0, <1>2, <2>1, TimesOutKept, QueueKeepsUpdates, WorksDiffer
      DEF EvtEvent
    <2> QED
      BY <2>2, <2>3, <2>4 DEF MainInv
  <1>3. CASE DrainBegin(REG_EVENTS, "reg events")
    <2>1. Takes(REG_EVENTS, {})
      BY <1>0, <1>3, TakesOnly, WorksTyped DEF DrainBegin
    <2>2. TypeOK'
      BY <1>0, <1>3, <2>1, ClientsTyped
      DEF TypeOK, Takes, DrainBegin
    <2>3. StoredInv'
      BY <1>0, <1>3, <2>1, StoredKept, WorksDiffer, ClientsTyped
      DEF NeedsCloud, NeedsProv, Takes, DrainBegin
    <2>4. ProvisioningTimesOut'
      BY <1>0, <1>3, <2>1, TimesOutKept, QueueKeepsUpdates, WorksDiffer
      DEF DrainBegin
    <2> QED
      BY <2>2, <2>3, <2>4 DEF MainInv
  <1>4. CASE DrainBegin(EVT_EVENTS, "evt events")
    <2>1. Takes(EVT_EVENTS, {})
      BY <1>0, <1>4, TakesOnly, WorksTyped DEF DrainBegin
    <2>2. TypeOK'
      BY <1>0, <1>4, <2>1, ClientsTyped
      DEF TypeOK, Takes, DrainBegin
    <2>3. StoredInv'
      BY <1>0, <1>4, <2>1, StoredKept, WorksDiffer, ClientsTyped
      DEF NeedsCloud, NeedsProv, Takes, DrainBegin
    <2>4. ProvisioningTimesOut'
      BY <1>0, <1>4, <2>1, TimesOutKept, QueueKeepsUpdates, WorksDiffer
      DEF DrainBegin
    <2> QED
      BY <2>2, <2>3, <2>4 DEF MainInv
  <1>5. CASE RegCallback
    <2>1. Sends({REGISTERED, REGISTERING})
      <3>1. Sends({}) \/ Sends({REGISTERED}) \/ Sends({REGISTERING})
        BY <1>0, <1>5, SendsShort, SendsOne, WorksTyped DEF RegCallback
      <3> QED
        BY <3>1 DEF Sends
    <2>2. TypeOK'
      <3>1. reg' \in Client(RegEvents)
        BY <1>0, <1>5, EventHandled DEF TypeOK, RegCallback
      <3>2. updated' \in BOOLEAN
        BY <1>0, <1>5, Zenon DEF TypeOK, RegCallback
      <3> QED
        BY <1>0, <1>5, <2>1, <3>1, <3>2 DEF TypeOK, Sends, RegCallback
    <2>3. StoredInv'
      <3>1. reg # NoClient
        BY <1>5, NoClientQuiet DEF RegCallback
      <3> QED
        BY <1>0, <1>5, <2>1, <3>1, StoredKept, WorksDiffer
        DEF NeedsCloud, NeedsProv, Sends, RegCallback
    <2>4. ProvisioningTimesOut'
      BY <1>0, <1>5, <2>1, TimesOutKept, QueueKeepsUpdates, WorksDiffer
      DEF RegCallback
    <2> QED
      BY <2>2, <2>3, <2>4 DEF MainInv
  <1>6. CASE EvtCallback
    <2>1. Sends({DEV_DELETED, JWT_EXPIRED, UPDATE("CLOUD_DISCONNECTED")})
      <3>1. Head(evt.events) \in EvtEvents
        BY <1>0, <1>6, EventHandled DEF TypeOK, EvtCallback
      <3>2. PICK w \in {DEV_DELETED, JWT_EXPIRED, UPDATE("CLOUD_DISCONNECTED")} : Send(w)
        BY <1>6, <3>1 DEF EvtCallback, EvtEvents
      <3>3. Sends({w})
        BY <1>0, <3>2, SendsOne, WorksTyped DEF States
      <3> QED
        BY <3>3 DEF Sends
    <2>2. TypeOK'
      <3>1. evt' \in Client(EvtEvents)
        BY <1>0, <1>6, EventHandled DEF TypeOK, EvtCallback
      <3> QED
        BY <1>0, <1>6, <2>1, <3>1 DEF TypeOK, Sends, EvtCallback
    <2>3. StoredInv'
      <3>1. evt # NoClient
        BY <1>6, NoClientQuiet DEF EvtCallback
      <3> QED
        BY <1>0, <1>6, <2>1, <3>1, StoredKept, WorksDiffer
        DEF NeedsCloud, NeedsProv, Sends, EvtCallback
    <2>4. ProvisioningTimesOut'
      BY <1>0, <1>6, <2>1, TimesOutKept, QueueKeepsUpdates, WorksDiffer
      DEF EvtCallback
    <2> QED
      BY <2>2, <2>3, <2>4 DEF MainInv
  <1>7. CASE DrainEnd
    <2>1. Sends({})
      BY <1>0, <1>7, SendsShort, WorksTyped DEF DrainEnd
    <2>2. TypeOK'
      BY <1>0, <1>7, <2>1, ClientsTyped
      DEF TypeOK, Sends, DrainEnd
    <2>3. StoredInv'
      BY <1>0, <1>7, <2>1, StoredKept, WorksDiffer, ClientsTyped
      DEF NeedsCloud, NeedsProv, Sends, DrainEnd
    <2>4. ProvisioningTimesOut'
      BY <1>0, <1>7, <2>1, TimesOutKept, QueueKeepsUpdates, WorksDiffer
      DEF DrainEnd
    <2> QED
      BY <2>2, <2>3, <2>4 DEF MainInv
  <1> QED
    BY <1>1, <1>2, <1>3, <1>4, <1>5, <1>6, <1>7

\* The phone and the confirmation.
LEMMA SetupKeeps ==
    ASSUME MainInv,
           \/ PhoneConfirms
           \/ PhoneConfirmsAgain
           \/ PhoneProvisions
           \/ PhoneCompletes
           \/ ConfirmBegin
           \/ ConfirmAccepted
           \/ ConfirmDenied
           \/ ConfirmDeniedCrash
           \/ Provisioned
    PROVE  MainInv'
  <1> USE DEF cloud, timers, wifi, nv
  <1>0. TypeOK /\ StoredInv /\ ProvisioningTimesOut
    BY DEF MainInv
  <1>1. CASE PhoneConfirms
    <2>1. Sends({CONFIRM})
      BY <1>0, <1>1, SendsOne, WorksTyped DEF PhoneConfirms
    <2>2. TypeOK'
      BY <1>0, <1>1, <2>1, ClientsTyped
      DEF TypeOK, Sends, PhoneConfirms
    <2>3. StoredInv'
      BY <1>0, <1>1, <2>1, StoredKept, WorksDiffer, ClientsTyped
      DEF NeedsCloud, NeedsProv, Sends, PhoneConfirms
    <2>4. ProvisioningTimesOut'
      BY <1>0, <1>1, <2>1, TimesOutKept, QueueKeepsUpdates, WorksDiffer
      DEF PhoneConfirms
    <2> QED
      BY <2>2, <2>3, <2>4 DEF MainInv
  <1>2. CASE PhoneConfirmsAgain
    <2>1. Sends({CONFIRM})
      BY <1>0, <1>2, SendsOne, WorksTyped DEF PhoneConfirmsAgain
    <2>2. TypeOK'
      BY <1>0, <1>2, <2>1, ClientsTyped
      DEF TypeOK, Sends, PhoneConfirmsAgain
    <2>3. StoredInv'
      BY <1>0, <1>2, <2>1, StoredKept, WorksDiffer, ClientsTyped
      DEF NeedsCloud, NeedsProv, Sends, PhoneConfirmsAgain
    <2>4. ProvisioningTimesOut'
      BY <1>0, <1>2, <2>1, TimesOutKept, QueueKeepsUpdates, WorksDiffer
      DEF PhoneConfirmsAgain
    <2> QED
      BY <2>2, <2>3, <2>4 DEF MainInv
  <1>3. CASE PhoneProvisions
    <2>1. Sends({PROVISION})
      BY <1>0, <1>3, SendsOne, WorksTyped DEF PhoneProvisions
    <2>2. TypeOK'
      BY <1>0, <1>3, <2>1, ClientsTyped
      DEF TypeOK, Sends, PhoneProvisions
    <2>3. StoredInv'
      BY <1>0, <1>3, <2>1, StoredKept, WorksDiffer, ClientsTyped
      DEF NeedsCloud, NeedsProv, Sends, PhoneProvisions
    <2>4. ProvisioningTimesOut'
      BY <1>0, <1>3, <2>1, TimesOutKept, QueueKeepsUpdates, WorksDiffer
      DEF PhoneProvisions
    <2> QED
      BY <2>2, <2>3, <2>4 DEF MainInv
  <1>4. CASE PhoneCompletes
    <2>1. Sends({UPDATE("PROV_DONE")})
      BY <1>0, <1>4, SendsOne, WorksTyped DEF PhoneCompletes, States
    <2>2. TypeOK'
      BY <1>0, <1>4, <2>1, ClientsTyped
      DEF TypeOK, Sends, PhoneCompletes
    <2>3. StoredInv'
      BY <1>0, <1>4, <2>1, StoredKept, WorksDiffer, ClientsTyped
      DEF NeedsCloud, NeedsProv, Sends, PhoneCompletes
    <2>4. ProvisioningTimesOut'
      BY <1>0, <1>4, <2>1, TimesOutKept, QueueKeepsUpdates, WorksDiffer
      DEF PhoneCompletes
    <2> QED
      BY <2>2, <2>3, <2>4 DEF MainInv
  <1>5. CASE ConfirmBegin
    <2>1. Takes(CONFIRM, {UPDATE("PROV_CONFIRM")})
      BY <1>0, <1>5, TakesAndSendsOne, WorksTyped DEF ConfirmBegin, States
    <2>2. TypeOK'
      BY <1>0, <1>5, <2>1, ClientsTyped
      DEF TypeOK, Takes, ConfirmBegin
    <2>3. StoredInv'
      BY <1>0, <1>5, <2>1, StoredKept, WorksDiffer, ClientsTyped
      DEF NeedsCloud, NeedsProv, Takes, ConfirmBegin
    <2>4. ProvisioningTimesOut'
      BY <1>0, <1>5, <2>1, TimesOutKept, QueueKeepsUpdates, WorksDiffer
      DEF ConfirmBegin
    <2> QED
      BY <2>2, <2>3, <2>4 DEF MainInv
  <1>6. CASE ConfirmAccepted
    <2>1. Sends({})
      BY <1>0, <1>6, SendsShort, WorksTyped DEF ConfirmAccepted
    <2>2. TypeOK'
      BY <1>0, <1>6, <2>1, ClientsTyped
      DEF TypeOK, Sends, ConfirmAccepted, Answered
    <2>3. StoredInv'
      BY <1>0, <1>6, <2>1, StoredKept, WorksDiffer, ClientsTyped
      DEF NeedsCloud, NeedsProv, Sends, ConfirmAccepted, Answered
    <2>4. ProvisioningTimesOut'
      BY <1>0, <1>6, <2>1, TimesOutKept, QueueKeepsUpdates, WorksDiffer
      DEF ConfirmAccepted, Answered
    <2> QED
      BY <2>2, <2>3, <2>4 DEF MainInv
  <1>7. CASE ConfirmDenied
    <2>1. Sends({})
      BY <1>0, <1>7, SendsShort, WorksTyped DEF ConfirmDenied
    <2>2. TypeOK'
      BY <1>0, <1>7, <2>1, ClientsTyped
      DEF TypeOK, Sends, ConfirmDenied, Answered
    <2>3. StoredInv'
      BY <1>0, <1>7, <2>1, StoredKept, WorksDiffer, ClientsTyped
      DEF NeedsCloud, NeedsProv, Sends, ConfirmDenied, Answered
    <2>4. ProvisioningTimesOut'
      BY <1>0, <1>7, <2>1, TimesOutDef
      DEF UpdateDue, Allowed, Sends, ConfirmDenied
    <2> QED
      BY <2>2, <2>3, <2>4 DEF MainInv
  <1>8. CASE ConfirmDeniedCrash
    <2>1. Fresh /\ nvProv' \in BOOLEAN /\ nvId' \in BOOLEAN
      BY <1>0, <1>8, Zenon DEF TypeOK, ConfirmDeniedCrash
    <2> QED
      BY <2>1, FreshKeeps
  <1>9. CASE Provisioned
    <2>1. Takes(PROVISION, {})
      BY <1>0, <1>9, TakesOnly, WorksTyped DEF Provisioned
    <2>2. TypeOK'
      BY <1>0, <1>9, <2>1, ClientsTyped
      DEF TypeOK, Takes, Provisioned
    <2>3. StoredInv'
      <3>1. HasProv' /\ nvProv' /\ (Stored => Stored')
        BY <1>9, Zenon DEF HasProv, Stored, Provisioned
      <3>2. (NeedsCloud' => NeedsCloud) /\ (NeedsProv' => NeedsProv)
        BY <1>9, <2>1, WorksDiffer DEF NeedsCloud, NeedsProv, Takes, Provisioned
      <3> QED
        BY <1>0, <3>1, <3>2, StoredInvDef
    <2>4. ProvisioningTimesOut'
      BY <1>0, <1>9, <2>1, TimesOutKept, QueueKeepsUpdates, WorksDiffer
      DEF Provisioned
    <2> QED
      BY <2>2, <2>3, <2>4 DEF MainInv
  <1> QED
    BY <1>1, <1>2, <1>3, <1>4, <1>5, <1>6, <1>7, <1>8, <1>9

\* The application and the loss of power.
LEMMA ApplicationKeeps ==
    ASSUME MainInv,
           \/ st_conn_start
           \/ StartExConnecting
           \/ StartExProvisioning
           \/ StartExRestart
           \/ st_conn_cleanup
           \/ PowerLoss
           \/ CleanupAndReboot
    PROVE  MainInv'
  <1> USE DEF cloud, timers, wifi, nv
  <1>0. TypeOK /\ StoredInv /\ ProvisioningTimesOut
    BY DEF MainInv
  <1>1. CASE st_conn_start
    <2>1. /\ Sends({UPDATE("PROV_ENTER"), UPDATE("PROV_DONE"),
                    UPDATE("CLOUD_DISCONNECTED")})
          /\ UPDATE("CLOUD_DISCONNECTED") \in Elems(queue') =>
                UPDATE("CLOUD_DISCONNECTED") \in Elems(queue) \/ (nvProv /\ nvId)
      <3>1. PICK s \in {"PROV_ENTER", "PROV_DONE", "CLOUD_DISCONNECTED"} :
               Send(UPDATE(s)) /\ (s = "CLOUD_DISCONNECTED" => nvProv /\ nvId)
        BY <1>1 DEF st_conn_start
      <3>2. Sends({UPDATE(s)})
        BY <1>0, <3>1, SendsOne, WorksTyped DEF States
      <3> QED
        BY <3>1, <3>2, WorksDiffer DEF Sends
    <2>2. TypeOK'
      <3>1. Flags'
        BY <1>0, <1>1, Zenon DEF Flags, TypeOK, CheckProvStatus, st_conn_start
      <3> QED
        BY <1>0, <1>1, <2>1, <3>1, TypeParts DEF TypeOK, Sends, st_conn_start
    <2>3. StoredInv'
      <3>1. prov' = nvProv /\ nvProv' = nvProv /\ (nvId' <=> nvProv /\ nvId)
        BY <1>1, Zenon DEF CheckProvStatus, st_conn_start
      <3>2. (Stored => Stored') /\ (HasProv => HasProv') /\ (nvProv /\ nvId => Stored')
        BY <1>1, <3>1, Zenon DEF Stored, HasProv, st_conn_start
      <3>3. /\ NeedsCloud' => NeedsCloud \/ (nvProv /\ nvId)
            /\ NeedsProv' => NeedsProv
        BY <1>1, <2>1, WorksDiffer
        DEF NeedsCloud, NeedsProv, Sends, st_conn_start
      <3> QED
        BY <1>0, <3>1, <3>2, <3>3, StoredInvDef
    <2>4. ProvisioningTimesOut'
      BY <1>0, <1>1, <2>1, TimesOutKept DEF Sends, st_conn_start
    <2> QED
      BY <2>2, <2>3, <2>4 DEF MainInv
  <1>2. CASE StartExConnecting
    <2>1. /\ Sends({UPDATE("CLOUD_DISCONNECTED")})
          /\ (nvProv /\ nvId) \/ Elems(queue') = Elems(queue)
      <3>1. CASE nvProv /\ nvId
        <4>1. Send(UPDATE("CLOUD_DISCONNECTED"))
          BY <1>2, <3>1 DEF StartExConnecting
        <4> QED
          BY <1>0, <3>1, <4>1, SendsOne, WorksTyped DEF States
      <3>2. CASE ~ (nvProv /\ nvId)
        <4>1. UNCHANGED queue
          BY <1>2, <3>2 DEF StartExConnecting
        <4> QED
          BY <1>0, <4>1 DEF Sends, TypeOK
      <3> QED
        BY <3>1, <3>2
    <2>2. TypeOK'
      <3>1. Flags'
        BY <1>0, <1>2, Zenon
        DEF Flags, TypeOK, CheckProvStatus, StartExConnecting
      <3> QED
        BY <1>0, <1>2, <2>1, <3>1, TypeParts
        DEF TypeOK, Sends, StartExConnecting
    <2>3. StoredInv'
      <3>1. prov' = nvProv /\ nvProv' = nvProv /\ (nvId' <=> nvProv /\ nvId)
        BY <1>2, Zenon DEF CheckProvStatus, StartExConnecting
      <3>2. (Stored => Stored') /\ (HasProv => HasProv') /\ (nvProv /\ nvId => Stored')
        BY <1>2, <3>1, Zenon DEF Stored, HasProv, StartExConnecting
      <3>3. /\ NeedsCloud' => NeedsCloud \/ (nvProv /\ nvId)
            /\ NeedsProv' => NeedsProv
        BY <1>2, <2>1, WorksDiffer
        DEF NeedsCloud, NeedsProv, Sends, StartExConnecting
      <3> QED
        BY <1>0, <3>1, <3>2, <3>3, StoredInvDef
    <2>4. ProvisioningTimesOut'
      BY <1>0, <1>2, <2>1, TimesOutKept DEF Sends, StartExConnecting
    <2> QED
      BY <2>2, <2>3, <2>4 DEF MainInv
  <1>3. CASE StartExProvisioning
    <2>1. Sends({UPDATE("PROV_ENTER")})
      BY <1>0, <1>3, SendsOne, WorksTyped DEF StartExProvisioning, States
    <2>2. TypeOK'
      BY <1>0, <1>3, <2>1, ClientsTyped
      DEF TypeOK, Sends, StartExProvisioning
    <2>3. StoredInv'
      BY <1>0, <1>3, <2>1, StoredKept, WorksDiffer, ClientsTyped
      DEF NeedsCloud, NeedsProv, Sends, StartExProvisioning
    <2>4. ProvisioningTimesOut'
      BY <1>0, <1>3, <2>1, TimesOutKept, QueueKeepsUpdates, WorksDiffer
      DEF StartExProvisioning
    <2> QED
      BY <2>2, <2>3, <2>4 DEF MainInv
  <1>4. CASE StartExRestart
    <2>1. /\ Elems(queue') \subseteq Elems(queue) \cup {UPDATE("PROV_ENTER")}
          /\ queue' \in Seq(WorkItems)
      BY <1>0, <1>4, CleanedQueue, WorksTyped DEF StartExRestart, States
    <2>2. TypeOK'
      <3>1. Flags'
        BY <1>0, <1>4, Zenon
        DEF Flags, TypeOK, StartExRestart, CleanedUp, SoftApDown
      <3> QED
        BY <1>0, <1>4, <2>1, <3>1, TypeParts, ClientsTyped, RejectsTyped
        DEF TypeOK, States, StartExRestart, CleanedUp, SoftApDown
    <2>3. StoredInv'
      <3>1. Stored' /\ HasProv' /\ ~ prov'
        BY <1>4 DEF Stored, HasProv, CleanedUp, StartExRestart
      <3> QED
        BY <3>1, StoredInvDef
    <2>4. ProvisioningTimesOut'
      BY <1>4, TimesOutDef DEF CleanedUp, StartExRestart
    <2> QED
      BY <2>2, <2>3, <2>4 DEF MainInv
  <1>5. CASE st_conn_cleanup
    <2>1. Elems(queue') \subseteq Elems(queue) /\ queue' \in Seq(WorkItems)
      BY <1>0, <1>5, CleanedQueue, WorksTyped DEF st_conn_cleanup
    <2>2. TypeOK'
      <3>1. Flags'
        BY <1>0, <1>5, Zenon
        DEF Flags, TypeOK, st_conn_cleanup, CleanedUp, SoftApDown
      <3> QED
        BY <1>0, <1>5, <2>1, <3>1, TypeParts, ClientsTyped, RejectsTyped
        DEF TypeOK, States, st_conn_cleanup, CleanedUp, SoftApDown
    <2>3. StoredInv'
      <3>1. Stored' /\ HasProv' /\ ~ prov'
        BY <1>5 DEF Stored, HasProv, CleanedUp, st_conn_cleanup
      <3> QED
        BY <3>1, StoredInvDef
    <2>4. ProvisioningTimesOut'
      BY <1>5, TimesOutDef DEF CleanedUp, st_conn_cleanup
    <2> QED
      BY <2>2, <2>3, <2>4 DEF MainInv
  <1>6. CASE PowerLoss
    <2>1. Fresh /\ nvProv' \in BOOLEAN /\ nvId' \in BOOLEAN
      BY <1>0, <1>6, Zenon DEF TypeOK, PowerLoss
    <2> QED
      BY <2>1, FreshKeeps
  <1>7. CASE CleanupAndReboot
    <2>1. Fresh /\ nvProv' \in BOOLEAN /\ nvId' \in BOOLEAN
      BY <1>0, <1>7, Zenon DEF TypeOK, CleanupAndReboot, WipeAndReboot
    <2> QED
      BY <2>1, FreshKeeps
  <1> QED
    BY <1>1, <1>2, <1>3, <1>4, <1>5, <1>6, <1>7

-----------------------------------------------------------------------------

\* The process starts with nothing in memory.
LEMMA InitKeeps ==
    ASSUME Init
    PROVE  MainInv
  <1>1. {stateFiring, retryFiring, station, softap, updated, selfReged,
         regRequested, prov, nvProv, nvId} \subseteq BOOLEAN
    BY Zenon DEF Init
  <1>2. /\ curr \in States
        /\ queue \in Seq(WorkItems)
        /\ work = "idle" /\ stateTimer = "none" /\ retryTimer = "none"
        /\ session = "none" /\ reg = NoClient /\ evt = NoClient
        /\ rejects = 0
    BY ShortTyped DEF Init, States
  <1>3. rejects \in 0 .. CriticalRejectMax
    BY <1>2, IotMainAssumption
  <1>4. TypeOK
    <2> HIDE IotMainAssumption
    <2> QED
      BY <1>1, <1>2, <1>3, ClientsTyped DEF TypeOK
  <1>5. Elems(queue) = {} /\ ~ prov /\ curr = "INITIALIZED"
    BY ElemsOfShort DEF Init
  <1>6. StoredInv
    BY <1>2, <1>5, StoredInvDef DEF NeedsCloud, NeedsProv
  <1>7. ProvisioningTimesOut
    BY <1>5, TimesOutDef
  <1> QED
    BY <1>4, <1>6, <1>7 DEF MainInv

LEMMA NextKeeps ==
    ASSUME MainInv, [Next]_vars
    PROVE  MainInv'
  <1>1. CASE Handlers
    BY <1>1, UpdatingKeeps, RegisteringKeeps, ConnectingKeeps, EventsKeep,
       SetupKeeps DEF Handlers, Updating
  <1>2. CASE TimerSteps
    BY <1>2, TimersKeep DEF TimerSteps
  <1>3. CASE \/ \E e \in RegEvents : RegEvent(e)
             \/ \E e \in EvtEvents : EvtEvent(e)
    BY <1>3, EventsKeep
  <1>4. CASE PhoneConfirms \/ PhoneConfirmsAgain \/ PhoneProvisions \/ PhoneCompletes
    BY <1>4, SetupKeeps
  <1>5. CASE \/ st_conn_start \/ st_conn_cleanup
             \/ StartExConnecting \/ StartExProvisioning \/ StartExRestart
             \/ PowerLoss \/ CleanupAndReboot
    BY <1>5, ApplicationKeeps
  <1>6. CASE UNCHANGED vars
    <2>1. TypeOK /\ StoredInv /\ ProvisioningTimesOut
      BY DEF MainInv
    <2> USE DEF vars, cloud, timers, wifi, nv
    <2>2. TypeOK'
      BY <1>6, <2>1 DEF TypeOK
    <2>3. StoredInv'
      BY <1>6, <2>1 DEF StoredInv, Stored, HasProv, Queued
    <2>4. ProvisioningTimesOut'
      BY <1>6, <2>1 DEF ProvisioningTimesOut, Allowed, Queued
    <2> QED
      BY <2>2, <2>3, <2>4 DEF MainInv
  <1> QED
    BY <1>1, <1>2, <1>3, <1>4, <1>5, <1>6 DEF Next

\* The inductive invariant of the state machine holds: what is stored keeps up
\* with the state and with every command that is still queued.
THEOREM MainInvHolds == Spec => []MainInv
  <1>1. Init => MainInv
    BY InitKeeps
  <1>2. MainInv /\ [Next]_vars => MainInv'
    BY NextKeeps
  <1> QED
    BY <1>1, <1>2, PTL DEF Spec

\* Whatever the network, the phone, the timers and the application do, and however
\* often: a device in a cloud state survives a power loss, because what it needs
\* to come back is in non-volatile memory (iot_nv_set_device_id in the REGISTERED
\* command and the provisioning data before it), unless the application erased it.
THEOREM CloudStateIsAlwaysStored == Spec => []CloudStateIsStored
  <1>1. MainInv => CloudStateIsStored
    BY DEF MainInv, StoredInv, Stored, CloudStateIsStored
  <1> QED
    BY <1>1, MainInvHolds, PTL

\* Onboarding never hangs in PROV_ENTER or PROV_DONE: the state timer runs, its
\* callback is under way or an update that the state accepts is queued, unless
\* the SoftAP could not be started.
THEOREM ProvisioningAlwaysTimesOut == Spec => []ProvisioningTimesOut
  <1>1. MainInv => ProvisioningTimesOut
    BY DEF MainInv
  <1> QED
    BY <1>1, MainInvHolds, PTL

-----------------------------------------------------------------------------
(* The handshake of st_conn_cleanup: its inductive invariant.              *)

InCall == app \in {"asked", "waiting", "selected", "timedout"}

\* What is numbered has been asked; a request is numbered from one.
NumbersAsked == /\ answered \subseteq 1 .. requests
                /\ current <= requests
                /\ InCall => current # 0

\* A connected application finds the work thread done with earlier requests.
QuietWhenConnected == app = "idle" /\ connected => worker = "idle"

\* During a call CMD_DONE, set or about to be, is the answer to this request.
AnswerIsCurrent == InCall /\ (worker = "answering" \/ CMD_DONE \in group.status)
                      => current \in answered /\ ~ usrDeleteReq

\* Until it is answered, a call keeps its flag.
OpenIsFlagged == InCall => usrDeleteReq \/ current \in answered

\* A token in the pipe comes from an answer, and one that the status does not
\* show was left by an earlier request.
TokenHasAnswer ==
    /\ worker = "answering" \/ group.pipe[CMD_DONE] > 0 => answered # {}
    /\ InCall /\ group.pipe[CMD_DONE] > 0 /\ CMD_DONE \notin group.status
          => \E c \in answered : c < current

\* What the wait has seen of the pipe is still so when it reads.
WaitSaw == /\ app = "selected" => group.pipe[CMD_DONE] > 0
           /\ app = "timedout" => slept

DeleteInv == /\ ResultIsTrue /\ FlagEndsWithCall
             /\ NumbersAsked /\ QuietWhenConnected
             /\ AnswerIsCurrent /\ OpenIsFlagged /\ TokenHasAnswer /\ WaitSaw

-----------------------------------------------------------------------------
(* What the event group's critical sections do to the one bit CMD_DONE.    *)

\* iot_os_eventgroup_set_bits leaves the bit set and a token in its pipe if
\* there was one, or if the bit was not set.
LEMMA SetDoneBit ==
    ASSUME NEW g \in GroupType(UsrBits)
    PROVE  LET h == SetBits(g, {CMD_DONE})
           IN  /\ h \in GroupType(UsrBits)
               /\ CMD_DONE \in h.status
               /\ h.pipe[CMD_DONE] >= g.pipe[CMD_DONE]
  BY DEF SetBits, GroupType, UsrBits

\* iot_os_eventgroup_clear_bits forgets the bit and keeps the token.
LEMMA ClearDoneBit ==
    ASSUME NEW g \in GroupType(UsrBits)
    PROVE  LET h == ClearBits(g, {CMD_DONE})
           IN  /\ h \in GroupType(UsrBits)
               /\ CMD_DONE \notin h.status
               /\ h.pipe = g.pipe
  BY DEF ClearBits, GroupType, UsrBits

\* iot_os_eventgroup_wait_bits with clear_on_exit takes one token and the bit.
LEMMA ReadDoneBit ==
    ASSUME NEW g \in GroupType(UsrBits), g.pipe[CMD_DONE] > 0
    PROVE  LET h == ReadBits(g, UsrBits, UsrBits)
           IN  /\ h \in GroupType(UsrBits)
               /\ CMD_DONE \notin h.status
               /\ h.pipe[CMD_DONE] = g.pipe[CMD_DONE] - 1
  BY DEF ReadBits, GroupType, UsrBits

\* iot_os_eventgroup_create: the bit is not set and its pipe is empty.
LEMMA EmptyDoneBit ==
    LET h == EmptyGroup(UsrBits)
    IN  /\ h \in GroupType(UsrBits)
        /\ CMD_DONE \notin h.status
        /\ h.pipe[CMD_DONE] = 0
  BY DEF EmptyGroup, GroupType, UsrBits

-----------------------------------------------------------------------------
\* The device starts with no request, no token and no flag.
LEMMA InitDeleteInv == DeleteInit => DeleteInv
  <1> SUFFICES ASSUME DeleteInit PROVE DeleteInv
    OBVIOUS
  <1>1. 0 \in 0 .. MaxRequests
    BY UserDeleteAssumption
  <1>2. group \in GroupType(UsrBits) /\ group.pipe[CMD_DONE] = 0
    BY EmptyDoneBit DEF DeleteInit
  <1>b. {connected, usrDeleteReq, slept} \subseteq BOOLEAN
    BY DEF DeleteInit
  <1>3. DeleteTypeOK
    BY <1>b, <1>1, <1>2 DEF DeleteInit, DeleteTypeOK, AppSteps, Results, Causes
  <1>4. TokenHasAnswer
    BY <1>2 DEF DeleteInit, TokenHasAnswer, InCall
  <1>5. NumbersAsked
    <2>1. answered \subseteq 1 .. requests
      BY DEF DeleteInit
    <2> QED
      BY <2>1 DEF DeleteInit, NumbersAsked, InCall
  <1> QED
    BY <1>3, <1>4, <1>5
    DEF DeleteInit, DeleteInv, ResultIsTrue, SuccessIsAnswered, TimeoutHasCause,
        FlagEndsWithCall, QuietWhenConnected, AnswerIsCurrent, OpenIsFlagged,
        WaitSaw, InCall

\* Every step of the application, of the cloud and of the work thread preserves
\* the invariant.
LEMMA NextDeleteInv == DeleteInv /\ [DeleteNext]_deleteVars => DeleteInv'
  <1> SUFFICES ASSUME DeleteInv, [DeleteNext]_deleteVars PROVE DeleteInv'
    OBVIOUS
  <1> USE UserDeleteAssumption
      DEF DeleteInv, ResultIsTrue, DeleteTypeOK, SuccessIsAnswered, TimeoutHasCause,
          FlagEndsWithCall, NumbersAsked, QuietWhenConnected, AnswerIsCurrent,
          OpenIsFlagged, TokenHasAnswer, WaitSaw, InCall, AppSteps, Results,
          Causes
  <1>pipe. group.pipe[CMD_DONE] \in Nat
    BY DEF GroupType, UsrBits
  \* A process that starts afresh keeps only the numbering.
  <1>fresh. ASSUME FreshProcess, UNCHANGED <<requests, answered>> PROVE DeleteInv'
    <2>1. 0 \in 0 .. MaxRequests /\ 0 <= requests
      OBVIOUS
    <2>2. group' \in GroupType(UsrBits) /\ group'.pipe[CMD_DONE] = 0
      BY <1>fresh, EmptyDoneBit DEF FreshProcess
    <2>b. {connected', usrDeleteReq', slept'} \subseteq BOOLEAN
      BY <1>fresh DEF FreshProcess
    <2>3. DeleteTypeOK'
      BY <1>fresh, <2>b, <2>1, <2>2 DEF FreshProcess
    <2>4. TokenHasAnswer'
      BY <1>fresh, <2>2 DEF FreshProcess
    <2>5. NumbersAsked'
      BY <1>fresh, <2>1 DEF FreshProcess
    <2>6. SuccessIsAnswered' /\ TimeoutHasCause' /\ WaitSaw'
      BY <1>fresh DEF FreshProcess
    <2>7. /\ FlagEndsWithCall' /\ QuietWhenConnected'
          /\ AnswerIsCurrent' /\ OpenIsFlagged'
      BY <1>fresh DEF FreshProcess
    <2> QED
      BY <2>3, <2>4, <2>5, <2>6, <2>7
  <1>1. CASE UNCHANGED deleteVars
    BY <1>1 DEF deleteVars
  <1>2. CASE CallNotConnected
    BY <1>2 DEF CallNotConnected
  <1>3. CASE CallConnected
    <2>1. /\ group' \in GroupType(UsrBits)
          /\ CMD_DONE \notin group'.status
          /\ group'.pipe = group.pipe
      BY <1>3, ClearDoneBit DEF CallConnected
    <2>2. worker = "idle"
      BY <1>3 DEF CallConnected
    <2>3. \A c \in answered : c < current'
      BY <1>3 DEF CallConnected
    <2>4. group.pipe[CMD_DONE] > 0 => \E c \in answered : c < current'
      BY <2>3
    <2>5. /\ requests' \in 0 .. MaxRequests
          /\ current' \in 0 .. MaxRequests
          /\ current' # 0 /\ current' <= requests'
      BY <1>3 DEF CallConnected
    <2>6. answered' \subseteq 1 .. requests'
      BY <1>3 DEF CallConnected
    <2>7. TokenHasAnswer'
      BY <1>3, <2>1, <2>2, <2>4 DEF CallConnected
    <2> QED
      BY <1>3, <2>1, <2>2, <2>5, <2>6, <2>7 DEF CallConnected
  <1>4. CASE PublishOk
    <2>1. inflight' \subseteq Causes
      BY <1>4 DEF PublishOk
    <2>2. DeleteTypeOK' /\ NumbersAsked'
      BY <1>4, <2>1 DEF PublishOk
    <2> QED
      BY <1>4, <2>2 DEF PublishOk
  <1>5. CASE PublishFails
    <2>1. inflight' \subseteq Causes
      BY <1>5 DEF PublishFails
    <2> QED
      BY <1>5, <2>1 DEF PublishFails
  <1>6. CASE WaitSelect
    <2>1. group.pipe[CMD_DONE] > 0
      BY <1>6 DEF WaitSelect, Readable, UsrBits
    <2> QED
      BY <1>6, <2>1 DEF WaitSelect
  <1>7. CASE WaitTimeout
    BY <1>7 DEF WaitTimeout
  <1>8. CASE WaitRead
    <2>1. group.pipe[CMD_DONE] > 0 /\ app = "selected"
      BY <1>8 DEF WaitRead
    <2>2. /\ group' \in GroupType(UsrBits)
          /\ group'.pipe[CMD_DONE] = group.pipe[CMD_DONE] - 1
      BY <1>8, <2>1, ReadDoneBit DEF WaitRead
    <2>3. CMD_DONE \notin group.status => \E c \in answered : c < current
      BY <2>1
    <2> QED
      BY <1>8, <1>pipe, <2>1, <2>2, <2>3 DEF WaitRead, Conclude
  <1>9. CASE WaitReadStatus
    BY <1>9 DEF WaitReadStatus, Conclude
  <1>10. CASE CleanupStays
    BY <1>10 DEF CleanupStays
  <1>11. CASE CleanupReboots
    BY <1>11, <1>fresh DEF CleanupReboots
  <1>12. CASE CloudDeletes
    <2>1. /\ requests' \in 0 .. MaxRequests /\ inflight' \subseteq Causes
          /\ answered \subseteq 1 .. requests' /\ current <= requests'
      BY <1>12 DEF CloudDeletes
    <2> QED
      BY <1>12, <2>1 DEF CloudDeletes
  <1>13. CASE NotificationArrives
    BY <1>13 DEF NotificationArrives
  <1>14. CASE ConnectionLost
    <2>1. connected' \in BOOLEAN /\ QuietWhenConnected'
      BY <1>14 DEF ConnectionLost
    <2>2. DeleteTypeOK' /\ NumbersAsked'
      BY <1>14, <2>1 DEF ConnectionLost
    <2> QED
      BY <1>14, <2>1, <2>2 DEF ConnectionLost
  <1>15. CASE Reconnect
    BY <1>15 DEF Reconnect
  <1>16. CASE NotiAnswersUser
    <2>1. InCall /\ current \in 1 .. requests
      BY <1>16 DEF NotiAnswersUser
    <2>2. commands' \in Seq(Causes)
      BY <1>16 DEF NotiAnswersUser
    <2>3. answered \subseteq answered' /\ current' \in answered'
      BY <1>16 DEF NotiAnswersUser
    <2>4. answered' \subseteq Causes /\ answered' \subseteq 1 .. requests'
      BY <1>16, <2>1 DEF NotiAnswersUser
    <2>5. TokenHasAnswer' /\ TimeoutHasCause'
      BY <1>16, <2>3 DEF NotiAnswersUser
    <2> QED
      BY <1>16, <2>1, <2>2, <2>3, <2>4, <2>5 DEF NotiAnswersUser
  <1>17. CASE SetDone
    <2>1. /\ group' \in GroupType(UsrBits)
          /\ CMD_DONE \in group'.status
          /\ group'.pipe[CMD_DONE] >= group.pipe[CMD_DONE]
      BY <1>17, SetDoneBit DEF SetDone
    <2>2. group'.pipe[CMD_DONE] \in Nat
      BY <2>1 DEF GroupType, UsrBits
    <2> QED
      BY <1>17, <1>pipe, <2>1, <2>2 DEF SetDone
  <1>18. CASE NotiWipesDevice
    BY <1>18, <1>fresh DEF NotiWipesDevice
  <1> QED
    BY <1>1, <1>2, <1>3, <1>4, <1>5, <1>6, <1>7, <1>8, <1>9, <1>10, <1>11,
       <1>12, <1>13, <1>14, <1>15, <1>16, <1>17, <1>18 DEF DeleteNext, AppStep

\* In every reachable state of the handshake the invariant holds.
THEOREM DeleteInvHolds == DeleteSpec => []DeleteInv
  BY InitDeleteInv, NextDeleteInv, PTL DEF DeleteSpec

\* _delete_dev_card_by_usr reports success only for the request that the work
\* thread answered, and a timeout only after the time has passed or when the
\* token of an earlier request ended its wait.
THEOREM ResultIsAlwaysTrue == DeleteSpec => []ResultIsTrue
  <1>1. DeleteInv => ResultIsTrue
    BY DEF DeleteInv
  <1> QED
    BY <1>1, DeleteInvHolds, PTL

\* The flag usr_delete_req ends with its call, and no step of the work thread
\* wipes the device under a request that is still open.
THEOREM FlagFollowsRequest == DeleteSpec => FlagIsOfOpenRequest
  <1>1. DeleteInv => FlagEndsWithCall
    BY DEF DeleteInv
  <1>2. DeleteInv => (OpenRequest => ~ NotiWipesDevice)
    BY DEF DeleteInv, OpenIsFlagged, InCall, OpenRequest, NotiWipesDevice
  <1> QED
    BY <1>1, <1>2, DeleteInvHolds, PTL DEF FlagIsOfOpenRequest

=============================================================================

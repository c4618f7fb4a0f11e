---------------------------- MODULE NvStoreProofs ----------------------------
(***************************************************************************)
(* For every number of provisionings, failed accesses, power losses and    *)
(* cleanups: a half whose status says DONE is whole (DoneIsWhole), a start *)
(* connects as provisioned (ConnectsAsProvisioned), and the entries of     *)
(* MiscInfo are kept (EntriesAreKept).                                     *)
(*                                                                         *)
(* The second part is about the security contexts through which that data  *)
(* and the easy setup are accessed, for every number of contexts and       *)
(* requests: their buffers are owned (PointersAreOwned) and are lost only  *)
(* where the code drops them (LossHasCause).                               *)
(***************************************************************************)
EXTENDS NvStore, Security, SequenceTheorems, FiniteSetTheorems, TLAPS

(* Types.                                                                  *)

\* The text of a file: a status has one unit, any other text at most two.
Size(f) == IF f \in {"wifiStatus", "cloudStatus"} THEN 1 ELSE 2
Content(f, x) == x = <<>> \/ \E t \in Seq(Nat) : x = <<t>> /\ Len(t) <= Size(f)

Provs == [gen : 0 .. MaxProvs, shape : Shapes \cup {""}]
Access == {op \in [file : Files, text : Seq(Seq(Nat))] : Content(op.file, op.text)}
Modes == {"boot", "prov", "half", "put", "reg", "dip", "loc", "id", "join", "run"}
Calls == [ops : Seq(Access), rest : Seq(Access), yes : Modes \cup {""}, no : Modes \cup {""},
          half : Halves \cup {""}, arg : Provs]
Json == [Entries -> Nat]
Pending(a) == [key : IF a = "main" THEN {"dip", "loId"} ELSE {"prevErr"},
               old : Json, over : BOOLEAN, new : Json]

FlashTyped == /\ port \in {"posix", "esp32", "bl602"} /\ media \in {"http", "ble"}
              /\ flash \in [Files -> Seq(Seq(Nat))]
              /\ \A f \in Files : Content(f, flash[f])
ProvTyped == cur \in Provs /\ given \in [Halves -> Provs] /\ prov \in 0 .. MaxProvs
CallsTyped == /\ call \in [Actors -> Calls]
              /\ \A a \in Actors : call[a] # NoCall => call[a].ops # <<>>
MiscTyped == /\ misc \in Json /\ stored \in Json /\ lost \subseteq Entries
             /\ extras \in Nat /\ DOMAIN pend = Actors
             /\ \A a \in Actors : pend[a] = <<>> \/ \E p \in Pending(a) : pend[a] = <<p>>
NvTyped == FlashTyped /\ ProvTyped /\ CallsTyped /\ MiscTyped

-----------------------------------------------------------------------------
(* MiscInfo.                                                               *)

\* What a store read of its own entry is still there; if no other store came
\* between, all of it is.
PendingIsCurrent ==
    \A a \in Actors : pend[a] # <<>> =>
        LET p == pend[a][1]
        IN  /\ misc[p.key] = p.old[p.key] \/ p.key \in lost
            /\ ~ p.over => /\ p.old = misc
                           /\ \A e \in Entries \ {p.key} : p.new[e] = misc[e]
MiscInv == PendingIsCurrent /\ EntriesAreKept

-----------------------------------------------------------------------------
(* The halves.                                                             *)

\* An access that is not part of a set.
Plain(op) == \/ op \in {Write("wifiStatus", None), Write("cloudStatus", None)}
             \/ op.file = "id"

\* The field was stored as the set wants it.
Stored(f, a) == \/ Get(f) = Want(f, a) \/ f \in spoiled
                \/ port = "bl602" /\ f = "label" /\ Want(f, a) = <<>>

\* What a set of half h still has to do: DONE comes last.
SetShape(h, c) ==
    /\ c.rest = <<>> /\ c.ops[Len(c.ops)] = Write(Status[h], Done)
    /\ \A i \in 1 .. Len(c.ops) :
          \/ c.ops[i] = Write(Status[h], None)
          \/ c.ops[i] = Write(Status[h], Done) /\ i = Len(c.ops)
          \/ \E f \in FieldsOf(h) : c.ops[i] = [file |-> f, text |-> Want(f, c.arg)]
CallShape(c) == IF c.half \notin Halves
                THEN /\ \A i \in 1 .. Len(c.ops) : Plain(c.ops[i])
                     /\ \A i \in 1 .. Len(c.rest) : Plain(c.rest[i])
                ELSE SetShape(c.half, c)
CallsFit == call["other"].half \notin Halves /\ \A a \in Actors : CallShape(call[a])

\* The fields a set has not stored yet are among its accesses, and the status
\* says DONE only before its first one.
SetFits ==
    LET c == call["main"]
    IN  c.half \in Halves =>
          /\ \A f \in FieldsOf(c.half) : \/ Stored(f, c.arg)
                                         \/ \E i \in 1 .. Len(c.ops) : c.ops[i].file = f
          /\ flash[Status[c.half]] = <<Done>> => c.ops[1] = Write(Status[c.half], None)

\* DoneIsWhole, of what the files hold.
HalfIsWhole(h) == flash[Status[h]] = <<Done>> => \A f \in FieldsOf(h) : Stored(f, given[h])
HalvesAreWhole == \A h \in Halves : HalfIsWhole(h)
WholeInv == CallsFit /\ SetFits /\ HalvesAreWhole

-----------------------------------------------------------------------------
(* The device id.                                                          *)

IdGone == flash["id"] = <<>> \/ "id" \in causes

\* What the main task does in a call, and where it goes after it: a set, the
\* device id, or a cleanup.
Setting(c) ==
    /\ c.half \in Halves /\ c.arg = cur
    /\ \/ c.half = "wifi" /\ media = "http" /\ mode = "prov" /\ c.yes = "half" /\ c.no = "prov"
       \/ c.half = "cloud" /\ media = "http" /\ mode = "half" /\ c.yes = "put" /\ c.no = "prov"
       \/ c.half = "cloud" /\ media = "ble" /\ mode = "prov" /\ c.yes = "reg" /\ c.no = "prov"
       \/ c.half = "wifi" /\ media = "ble" /\ mode \in {"reg", "join"} /\ c.yes = "run" /\ c.no = "run"
StoringId(c) == /\ mode = "id" /\ c.yes \in {"join", "run"} /\ c.no = c.yes
                /\ c.ops = iot_nv_set_device_id(cur.gen) /\ c.rest = <<>>
ErasingId(c) == /\ mode = "boot" /\ c.yes = "prov" /\ c.no = "prov"
                /\ c.ops = <<iot_nv_erase("id")>> /\ c.rest = <<>>
CleaningUp(c) ==
    /\ c.yes = "boot" /\ c.no = "boot"
    /\ \A i \in 1 .. Len(c.ops) : c.ops[i].file = "id" => c.ops[i] = iot_nv_erase("id")
    /\ \A i \in 1 .. Len(c.rest) : c.rest[i] = iot_nv_erase("id")
MainCall ==
    LET c == call["main"]
    IN  \/ c = NoCall
        \/ Setting(c)
        \/ c.half \notin Halves /\ (StoringId(c) \/ ErasingId(c) \/ CleaningUp(c))
OtherCall ==
    LET c == call["other"]
    IN  \/ c = NoCall
        \/ /\ c.rest = <<iot_nv_erase("id")>>
           /\ \A i \in 1 .. Len(c.ops) : \E h \in Halves : c.ops[i] = Write(Status[h], None)
        \/ c.rest = <<>> /\ c.ops = <<iot_nv_erase("id")>>

PendFits == pend["main"] # <<>> =>
              /\ call["main"] = NoCall
              /\ \/ mode = "dip" /\ pend["main"][1].key = "dip"
                 \/ /\ mode = "loc" /\ pend["main"][1].key = "loId"
                    /\ pend["main"][1].new["loId"] = cur.gen
ModeFits ==
    /\ mode \in Modes
    /\ mode \in {"half", "put"} => media = "http" /\ given["wifi"].gen = cur.gen
    /\ mode \in {"put", "reg", "dip", "loc", "id", "join"} => given["cloud"].gen = cur.gen
    /\ mode \in {"prov", "half", "put"} => IdGone
    /\ reenter => IdGone
    /\ mode = "id" => stored["loId"] = cur.gen \/ "loId" \in lost
HalvesMatch == given["wifi"].gen = given["cloud"].gen \/ "wifi" \in causes
IdMatches == \/ IdGone
             \/ /\ flash["id"] = <<DeviceId(given["cloud"].gen)>>
                /\ stored["loId"] = given["cloud"].gen \/ "loId" \in lost
ConnectInv == /\ MainCall /\ OtherCall /\ PendFits /\ ModeFits /\ HalvesMatch
              /\ IdMatches

-----------------------------------------------------------------------------
(* Files.                                                                  *)

LEMMA Tuples ==
    ASSUME NEW S, NEW x \in S, NEW y \in S
    PROVE  /\ <<x>> \in Seq(S) /\ Len(<<x>>) = 1 /\ <<x>>[1] = x
           /\ <<x, y>> \in Seq(S) /\ Len(<<x, y>>) = 2
           /\ <<x>> # <<>> /\ <<x, y>> # <<>>
  OBVIOUS

LEMMA OneText ==
    ASSUME NEW f, NEW t \in Seq(Nat), Len(t) <= Size(f)
    PROVE  Content(f, <<t>>)
  BY DEF Content

LEMMA FileFacts ==
    /\ FieldsOf("wifi") = {"ssid", "pass", "bssid", "auth"}
    /\ FieldsOf("cloud") = {"url", "port", "label"}
    /\ Files = {"ssid", "pass", "bssid", "auth", "url", "port", "label",
                "wifiStatus", "cloudStatus", "id"}
    /\ Status["wifi"] = "wifiStatus" /\ Status["cloud"] = "cloudStatus"
  <1>1. FieldsOf("wifi") = {"ssid", "pass", "bssid", "auth"}
    <2>1. Fields["wifi"] = <<"ssid", "pass", "bssid", "auth">>
      BY DEF Fields
    <2>2. DOMAIN <<"ssid", "pass", "bssid", "auth">> = {1, 2, 3, 4}
      OBVIOUS
    <2> QED
      BY <2>1, <2>2 DEF FieldsOf
  <1>2. FieldsOf("cloud") = {"url", "port", "label"}
    <2>1. Fields["cloud"] = <<"url", "port", "label">>
      BY DEF Fields
    <2>2. DOMAIN <<"url", "port", "label">> = {1, 2, 3}
      OBVIOUS
    <2> QED
      BY <2>1, <2>2 DEF FieldsOf
  <1>3. Status["wifi"] = "wifiStatus" /\ Status["cloud"] = "cloudStatus"
    BY DEF Status
  <1> QED
    BY <1>1, <1>2, <1>3 DEF Files

\* A file takes the text that is written, with the end of a longer old text on
\* the POSIX port, and no more room than its texts have.
LEMMA PosixWritten ==
    ASSUME NEW f, NEW old \in Seq(Seq(Nat)), Content(f, old),
           NEW t \in Seq(Nat), Len(t) <= Size(f)
    PROVE  /\ posix_fs_write(old, t) \in Seq(Seq(Nat))
           /\ Content(f, posix_fs_write(old, t))
           /\ old = <<>> \/ Len(old[1]) <= Len(t) => posix_fs_write(old, t) = <<t>>
           /\ t = <<>> /\ old # <<>> => posix_fs_write(old, t) = old
  <1> DEFINE r == Rest(old, Len(t))
  <1>0. Len(t) \in Nat /\ Size(f) \in Nat
    BY LenProperties DEF Size
  <1>1. CASE old = <<>>
    <2>1. r = <<>> /\ t \o <<>> = t
      BY <1>1, ConcatEmptySeq DEF Rest
    <2>2. posix_fs_write(old, t) = <<t>>
      BY <2>1 DEF posix_fs_write
    <2>3. <<t>> \in Seq(Seq(Nat)) /\ Content(f, <<t>>)
      BY DEF Content
    <2> QED
      BY <1>1, <2>2, <2>3
  <1>2. CASE old # <<>>
    <2>1. PICK u \in Seq(Nat) : old = <<u>> /\ Len(u) <= Size(f)
      BY <1>2 DEF Content
    <2>2. r = SubSeq(u, Len(t) + 1, Len(u)) /\ old[1] = u /\ Len(u) \in Nat
      BY <1>2, <2>1, LenProperties DEF Rest
    <2>3. CASE Len(u) <= Len(t)
      <3>1. r = <<>>
        BY <1>0, <2>2, <2>3, SubSeqEmpty
      <3>2. t \o <<>> = t
        BY ConcatEmptySeq
      <3>3. posix_fs_write(old, t) = <<t>>
        BY <3>1, <3>2 DEF posix_fs_write
      <3>4. <<t>> \in Seq(Seq(Nat)) /\ Content(f, <<t>>)
        BY DEF Content
      <3>5. t = <<>> => u = <<>>
        BY <1>0, <2>2, <2>3, EmptySeq
      <3> QED
        BY <2>1, <3>3, <3>4, <3>5
    <2>4. CASE Len(u) > Len(t)
      <3>1. \A i \in Len(t) + 1 .. Len(u) : u[i] \in Nat
        <4>1. \A i \in Len(t) + 1 .. Len(u) : i \in 1 .. Len(u)
          BY <1>0, <2>2
        <4> QED
          BY <4>1, ElementOfSeq
      <3>2. r \in Seq(Nat) /\ Len(r) = Len(u) - Len(t)
        <4> HIDE DEF r
        <4>1. Len(t) + 1 \in Int /\ Len(u) \in Int /\ Len(t) + 1 <= Len(u)
          BY <1>0, <2>2, <2>4
        <4>2. /\ SubSeq(u, Len(t) + 1, Len(u)) \in Seq(Nat)
              /\ Len(SubSeq(u, Len(t) + 1, Len(u))) = Len(u) - (Len(t) + 1) + 1
          BY <3>1, <4>1, SubSeqProperties
        <4> QED
          BY <1>0, <2>2, <4>2
      <3> HIDE DEF r
      <3>3. t \o r \in Seq(Nat) /\ Len(t \o r) = Len(u)
        BY <1>0, <2>2, <3>2, ConcatProperties
      <3>4. posix_fs_write(old, t) = <<t \o r>>
        BY DEF posix_fs_write, r
      <3>5. Content(f, <<t \o r>>) /\ <<t \o r>> \in Seq(Seq(Nat))
        <4> DEFINE w == t \o r
        <4>1. w \in Seq(Nat) /\ Len(w) <= Size(f)
          BY <2>1, <3>3
        <4> HIDE DEF w
        <4>2. Content(f, <<w>>) /\ <<w>> \in Seq(Seq(Nat))
          BY <4>1 DEF Content
        <4> QED
          BY <4>2 DEF w
      <3>6. ~ (Len(old[1]) <= Len(t))
        BY <1>0, <2>2, <2>4
      <3>7. t = <<>> => t \o r = u
        <4> SUFFICES ASSUME t = <<>> PROVE t \o r = u
          OBVIOUS
        <4>1. Len(t) = 0
          BY EmptySeq
        <4>2. r = SubSeq(u, 1, Len(u))
          BY <2>2, <4>1
        <4>3. r = u
          BY <4>2, SubSeqFull
        <4> QED
          BY <4>3, ConcatEmptySeq
      <3> QED
        BY <1>2, <2>1, <3>4, <3>5, <3>6, <3>7
    <2> QED
      BY <1>0, <2>2, <2>3, <2>4
  <1> QED
    BY <1>1, <1>2

LEMMA StoredInFile ==
    ASSUME port \in {"posix", "esp32", "bl602"}, NEW f, NEW old \in Seq(Seq(Nat)),
           Content(f, old), NEW t \in Seq(Nat), Len(t) <= Size(f)
    PROVE  LET n == _iot_security_be_bsp_fs_store_to_nv(old, t)
           IN  /\ n \in Seq(Seq(Nat)) /\ Content(f, n)
               /\ port # "posix" \/ old = <<>> \/ Len(old[1]) <= Len(t) => n = <<t>>
  <1>1. CASE port = "posix"
    <2>1. _iot_security_be_bsp_fs_store_to_nv(old, t) = posix_fs_write(old, t)
      BY <1>1 DEF _iot_security_be_bsp_fs_store_to_nv
    <2> QED
      BY <1>1, <2>1, PosixWritten
  <1>2. CASE port \in {"esp32", "bl602"}
    <2>1. _iot_security_be_bsp_fs_store_to_nv(old, t) = <<t>>
      BY <1>2 DEF _iot_security_be_bsp_fs_store_to_nv, esp32_fs_write, bl602_fs_write
    <2>2. <<t>> \in Seq(Seq(Nat)) /\ Content(f, <<t>>)
      BY DEF Content
    <2> QED
      BY <2>1, <2>2
  <1> QED
    BY <1>1, <1>2

\* A write that is cut short: a status is as it was, or empty.
LEMMA TornFile ==
    ASSUME NEW f, NEW old \in Seq(Seq(Nat)), Content(f, old),
           NEW t \in Seq(Nat), Len(t) <= Size(f), NEW x \in Torn(old, t, Len(t) - 1)
    PROVE  /\ x \in Seq(Seq(Nat)) /\ Content(f, x)
           /\ Size(f) = 1 => x \in {old, <<(<<>>)>>}
  <1>0. Len(t) \in Nat /\ Size(f) \in Nat
    BY LenProperties DEF Size
  <1>1. CASE x = old
    BY <1>1
  <1>2. CASE x # old
    <2>1. PICK n \in 0 .. Len(t) - 1 : x = posix_fs_write(old, SubSeq(t, 1, n))
      BY <1>2 DEF Torn
    <2>2. SubSeq(t, 1, n) \in Seq(Nat) /\ Len(SubSeq(t, 1, n)) = n
      <3>1. \A i \in 1 .. n : t[i] \in Nat
        BY <1>0, ElementOfSeq
      <3>2. n \in Int /\ n >= 0 /\ 1 \in Int
        BY <1>0
      <3>3. /\ SubSeq(t, 1, n) \in Seq(Nat)
            /\ Len(SubSeq(t, 1, n)) = IF 1 <= n THEN n - 1 + 1 ELSE 0
        BY <3>1, <3>2, SubSeqProperties
      <3> QED
        BY <3>2, <3>3
    <2>3. Len(SubSeq(t, 1, n)) <= Size(f)
      BY <1>0, <2>2
    <2>4. x \in Seq(Seq(Nat)) /\ Content(f, x)
      BY <2>1, <2>2, <2>3, PosixWritten
    <2>5. ASSUME Size(f) = 1 PROVE x \in {old, <<(<<>>)>>}
      <3>1. n = 0
        BY <1>0, <2>5
      <3>2. SubSeq(t, 1, n) = <<>>
        BY <2>2, <3>1, EmptySeq
      <3>3. old = <<>> => x = <<(<<>>)>>
        BY <2>1, <2>2, <2>3, <3>2, PosixWritten
      <3>4. old # <<>> => x = old
        BY <2>1, <2>2, <2>3, <3>2, PosixWritten
      <3> QED
        BY <3>3, <3>4
    <2> QED
      BY <2>4, <2>5
  <1> QED
    BY <1>1, <1>2

(* Calls.                                                                  *)

LEMMA GenTyped ==
    ASSUME NEW p \in Provs PROVE p.gen \in Nat
  <1>1. p.gen \in 0 .. MaxProvs
    BY DEF Provs
  <1> QED
    BY <1>1, NvAssumption

LEMMA WantTyped ==
    ASSUME NEW a \in Provs, NEW f \in FieldsOf("wifi") \cup FieldsOf("cloud")
    PROVE  Want(f, a) \in Seq(Seq(Nat)) /\ Content(f, Want(f, a))
  <1>1. a.gen \in Nat /\ Size(f) = 2
    <2>1. a.gen \in Nat
      BY GenTyped
    <2>2. f \notin {"wifiStatus", "cloudStatus"}
      BY FileFacts
    <2> QED
      BY <2>1, <2>2 DEF Size
  <1>2. /\ <<a.gen>> \in Seq(Nat) /\ Len(<<a.gen>>) = 1
        /\ <<a.gen, a.gen>> \in Seq(Nat) /\ Len(<<a.gen, a.gen>>) = 2
        /\ <<>> \in Seq(Nat) /\ Len(<<>>) = 0
    BY <1>1, Tuples, EmptySeq
  <1>3. \A t \in Seq(Nat) : Len(t) <= 2 => <<t>> \in Seq(Seq(Nat)) /\ Content(f, <<t>>)
    BY <1>1 DEF Content
  <1>4. <<>> \in Seq(Seq(Nat)) /\ Content(f, <<>>)
    BY DEF Content
  <1>5. Want(f, a) \in {<<>>, <<(<<>>)>>, <<(<<a.gen, a.gen>>)>>, <<(<<a.gen>>)>>}
    BY DEF Want
  <1>6. \A t \in {<<>>, <<a.gen, a.gen>>, <<a.gen>>} :
           <<t>> \in Seq(Seq(Nat)) /\ Content(f, <<t>>)
    <2>1. Len(<<>>) <= 2 /\ Len(<<a.gen, a.gen>>) <= 2 /\ Len(<<a.gen>>) <= 2
      BY <1>2
    <2> QED
      BY <1>2, <1>3, <2>1
  <1> QED
    BY <1>4, <1>5, <1>6

\* The single accesses.
LEMMA AccessTyped ==
    /\ \A h \in Halves : Write(Status[h], None) \in Access /\ Write(Status[h], Done) \in Access
    /\ iot_nv_erase("id") \in Access
    /\ \A n \in Nat : Write("id", DeviceId(n)) \in Access
    /\ \A a \in Provs : \A f \in FieldsOf("wifi") \cup FieldsOf("cloud") :
          [file |-> f, text |-> Want(f, a)] \in Access
  <1>1. /\ None \in Seq(Nat) /\ Len(None) = 1 /\ Done \in Seq(Nat) /\ Len(Done) = 1
    BY NvAssumption, Tuples DEF None, Done
  <1>2. \A t \in Seq(Nat) : <<t>> \in Seq(Seq(Nat))
    OBVIOUS
  <1>3. \A h \in Halves : Status[h] \in Files /\ Size(Status[h]) = 1
    <2>1. \A h \in Halves : Status[h] \in Files /\ Status[h] \in {"wifiStatus", "cloudStatus"}
      BY FileFacts DEF Halves
    <2> QED
      BY <2>1 DEF Size
  <1>4. ASSUME NEW h \in Halves, NEW t \in Seq(Nat), Len(t) = 1
        PROVE  Write(Status[h], t) \in Access
    <2>1. Content(Status[h], <<t>>)
      <3>1. Len(t) <= Size(Status[h])
        BY <1>3, <1>4
      <3> QED
        BY <3>1, OneText
    <2>2. [file |-> Status[h], text |-> <<t>>] \in [file : Files, text : Seq(Seq(Nat))]
      BY <1>2, <1>3
    <2> QED
      BY <2>1, <2>2 DEF Write, Access
  <1>5. iot_nv_erase("id") \in Access
    BY FileFacts DEF iot_nv_erase, Access, Content
  <1>6. ASSUME NEW n \in Nat PROVE Write("id", DeviceId(n)) \in Access
    <2>1. DeviceId(n) \in Seq(Nat) /\ Len(DeviceId(n)) = 2
      BY Tuples DEF DeviceId
    <2>2. Content("id", <<DeviceId(n)>>)
      <3>1. Len(DeviceId(n)) <= Size("id")
        BY <2>1 DEF Size
      <3> QED
        BY <2>1, <3>1, OneText
    <2>3. "id" \in Files
      BY FileFacts
    <2>4. [file |-> "id", text |-> <<DeviceId(n)>>] \in [file : Files, text : Seq(Seq(Nat))]
      BY <1>2, <2>1, <2>3
    <2> QED
      BY <2>2, <2>4 DEF Write, Access
  <1>7. ASSUME NEW a \in Provs, NEW f \in FieldsOf("wifi") \cup FieldsOf("cloud")
        PROVE  [file |-> f, text |-> Want(f, a)] \in Access
    <2>1. f \in Files
      BY FileFacts
    <2> QED
      BY <2>1, WantTyped DEF Access
  <1> QED
    BY <1>1, <1>4, <1>5, <1>6, <1>7

LEMMA Between ==
    ASSUME NEW S, NEW x \in S, NEW y \in S, NEW s \in Seq(S)
    PROVE  LET o == <<x>> \o s \o <<y>>
           IN  /\ o \in Seq(S) /\ Len(o) = Len(s) + 2
               /\ o[1] = x /\ o[Len(s) + 2] = y
               /\ \A i \in 1 .. Len(s) : o[i + 1] = s[i]
  <1> DEFINE A == <<x>>
             Z == <<y>>
             B == A \o s
             o == B \o Z
  <1>1. A \in Seq(S) /\ Len(A) = 1 /\ A[1] = x /\ Z \in Seq(S) /\ Len(Z) = 1 /\ Z[1] = y
    OBVIOUS
  <1>2. Len(s) \in Nat
    BY LenProperties
  <1> HIDE DEF A, Z
  <1>3. /\ B \in Seq(S) /\ Len(B) = Len(s) + 1
        /\ \A i \in 1 .. Len(A) + Len(s) : B[i] = IF i <= Len(A) THEN A[i] ELSE s[i - Len(A)]
    <2>1. /\ B \in Seq(S) /\ Len(B) = Len(A) + Len(s)
          /\ \A i \in 1 .. Len(A) + Len(s) : B[i] = IF i <= Len(A) THEN A[i] ELSE s[i - Len(A)]
      BY <1>1, ConcatProperties
    <2> HIDE DEF B
    <2> QED
      BY <1>1, <1>2, <2>1
  <1>4. B[1] = x /\ \A i \in 1 .. Len(s) : B[i + 1] = s[i]
    <2> HIDE DEF B
    <2>1. B[1] = x
      BY <1>1, <1>2, <1>3
    <2>2. ASSUME NEW i \in 1 .. Len(s) PROVE B[i + 1] = s[i]
      <3>1. /\ i + 1 \in 1 .. Len(A) + Len(s) /\ ~ (i + 1 <= Len(A))
            /\ i + 1 - Len(A) = i
        BY <1>1, <1>2
      <3> QED
        BY <1>3, <3>1
    <2> QED
      BY <2>1, <2>2
  <1> HIDE DEF B
  <1>5. /\ o \in Seq(S) /\ Len(o) = Len(s) + 2
        /\ \A i \in 1 .. Len(B) + Len(Z) : o[i] = IF i <= Len(B) THEN B[i] ELSE Z[i - Len(B)]
    <2>1. /\ o \in Seq(S) /\ Len(o) = Len(B) + Len(Z)
          /\ \A i \in 1 .. Len(B) + Len(Z) : o[i] = IF i <= Len(B) THEN B[i] ELSE Z[i - Len(B)]
      BY <1>1, <1>3, ConcatProperties
    <2> HIDE DEF o
    <2> QED
      BY <1>1, <1>2, <1>3, <2>1
  <1> HIDE DEF o
  <1>6. o[1] = x
    BY <1>1, <1>2, <1>3, <1>4, <1>5
  <1>7. o[Len(s) + 2] = y
    <2>1. /\ Len(s) + 2 \in 1 .. Len(B) + Len(Z) /\ ~ (Len(s) + 2 <= Len(B))
          /\ Len(s) + 2 - Len(B) = 1
      BY <1>1, <1>2, <1>3
    <2>2. o[Len(s) + 2] = Z[Len(s) + 2 - Len(B)]
      BY <1>5, <2>1
    <2> QED
      BY <1>1, <2>1, <2>2
  <1>8. ASSUME NEW i \in 1 .. Len(s) PROVE o[i + 1] = s[i]
    <2>1. i + 1 \in 1 .. Len(B) + Len(Z) /\ i + 1 <= Len(B)
      BY <1>1, <1>2, <1>3
    <2> QED
      BY <1>4, <1>5, <2>1
  <1>9. <<x>> \o s \o <<y>> = o
    BY DEF A, B, Z, o
  <1> QED
    BY <1>5, <1>6, <1>7, <1>8, <1>9

\* The accesses of a set: NONE, the fields, DONE.
SetOps(h, a) == <<Write(Status[h], None)>> \o SetFields(h, a) \o <<Write(Status[h], Done)>>

LEMMA SetOpsAre ==
    ASSUME NEW h \in Halves, NEW a \in Provs
    PROVE  /\ SetOps(h, a) \in Seq(Access) /\ SetOps(h, a) # <<>>
           /\ SetOps(h, a)[1] = Write(Status[h], None)
           /\ SetOps(h, a)[Len(SetOps(h, a))] = Write(Status[h], Done)
           /\ \A i \in 1 .. Len(SetOps(h, a)) :
                 \/ SetOps(h, a)[i] = Write(Status[h], None)
                 \/ SetOps(h, a)[i] = Write(Status[h], Done) /\ i = Len(SetOps(h, a))
                 \/ \E f \in FieldsOf(h) :
                       SetOps(h, a)[i] = [file |-> f, text |-> Want(f, a)]
           /\ \A f \in FieldsOf(h) :
                 \E i \in 1 .. Len(SetOps(h, a)) : SetOps(h, a)[i].file = f
  <1> DEFINE n == Len(Fields[h])
             F == SetFields(h, a)
             A == <<Write(Status[h], None)>>
             Z == <<Write(Status[h], Done)>>
             O == SetOps(h, a)
  <1>n. n \in Nat /\ DOMAIN Fields[h] = 1 .. n
    <2>1. Fields[h] \in {<<"ssid", "pass", "bssid", "auth">>, <<"url", "port", "label">>}
      BY DEF Fields, Halves
    <2>2. \A w, x, y, z : <<w, x, y, z>> \in Seq({w, x, y, z}) /\ <<w, x, y>> \in Seq({w, x, y})
      OBVIOUS
    <2>3. CASE Fields[h] = <<"ssid", "pass", "bssid", "auth">>
      BY <2>2, <2>3, LenProperties
    <2>4. CASE Fields[h] = <<"url", "port", "label">>
      BY <2>2, <2>4, LenProperties
    <2> QED
      BY <2>1, <2>3, <2>4
  <1>0. /\ \A i \in 1 .. n : Fields[h][i] \in FieldsOf(h)
        /\ \A f \in FieldsOf(h) : \E i \in 1 .. n : f = Fields[h][i]
        /\ FieldsOf(h) \subseteq FieldsOf("wifi") \cup FieldsOf("cloud")
    <2>4. FieldsOf(h) \subseteq FieldsOf("wifi") \cup FieldsOf("cloud")
      BY DEF Halves
    <2> QED
      BY <1>n, <2>4 DEF FieldsOf
  <1>1. F = [i \in 1 .. n |-> [file |-> Fields[h][i], text |-> Want(Fields[h][i], a)]]
    BY <1>n DEF SetFields
  <1>2. \A i \in 1 .. n : F[i] = [file |-> Fields[h][i], text |-> Want(Fields[h][i], a)]
    BY <1>1
  <1>3. F \in [1 .. n -> Access]
    <2>1. \A i \in 1 .. n : [file |-> Fields[h][i], text |-> Want(Fields[h][i], a)] \in Access
      BY <1>0, AccessTyped
    <2> QED
      BY <1>1, <2>1
  <1>4. F \in Seq(Access) /\ Len(F) = n
    <2>1. F \in Seq(Access)
      BY <1>n, <1>3, SeqDef
    <2>2. DOMAIN F = 1 .. Len(F) /\ DOMAIN F = 1 .. n /\ Len(F) \in Nat
      BY <1>3, <2>1, LenProperties
    <2> HIDE DEF F, n
    <2>3. Len(F) = n
      <3>1. CASE Len(F) < n
        <4>1. n \in 1 .. n /\ n \notin 1 .. Len(F)
          BY <1>n, <2>2, <3>1
        <4> QED
          BY <2>2, <4>1
      <3>2. CASE Len(F) > n
        <4>1. Len(F) \in 1 .. Len(F) /\ Len(F) \notin 1 .. n
          BY <1>n, <2>2, <3>2
        <4> QED
          BY <2>2, <4>1
      <3>3. n \in Nat /\ Len(F) \in Nat
        BY <1>n, <2>2
      <3> QED
        BY <3>1, <3>2, <3>3
    <2> QED
      BY <2>1, <2>3
  <1>6. O = A \o F \o Z
    BY DEF SetOps
  <1>7. /\ O \in Seq(Access) /\ Len(O) = n + 2
        /\ O[1] = Write(Status[h], None) /\ O[n + 2] = Write(Status[h], Done)
        /\ \A i \in 1 .. n : O[i + 1] = F[i]
    <2> HIDE DEF F, O, n
    <2>1. Write(Status[h], None) \in Access /\ Write(Status[h], Done) \in Access
      BY AccessTyped
    <2> QED
      BY <1>4, <1>6, <2>1, Between
  <1>k. n \in Nat
    BY <1>n
  <1> HIDE DEF F, O, n
  <1>8. ASSUME NEW i \in 1 .. Len(O)
         PROVE  \/ O[i] = Write(Status[h], None)
                \/ O[i] = Write(Status[h], Done) /\ i = Len(O)
                \/ \E f \in FieldsOf(h) :
                      O[i] = [file |-> f, text |-> Want(f, a)]
    <2>1. i = 1 \/ i = n + 2 \/ (i - 1 \in 1 .. n /\ i = (i - 1) + 1)
      BY <1>k, <1>7
    <2>2. CASE i - 1 \in 1 .. n /\ i = (i - 1) + 1
      <3>1. O[i] = F[i - 1]
        BY <1>7, <2>2
      <3> QED
        BY <1>0, <1>2, <2>2, <3>1
    <2> QED
      BY <1>7, <2>1, <2>2
  <1>9. ASSUME NEW f \in FieldsOf(h)
         PROVE  \E i \in 1 .. Len(O) : O[i].file = f
    <2>1. PICK i \in 1 .. n : f = Fields[h][i]
      BY <1>0
    <2>2. O[i + 1].file = f
      <3>1. O[i + 1] = F[i]
        BY <1>7
      <3>2. F[i] = [file |-> Fields[h][i], text |-> Want(Fields[h][i], a)]
        BY <1>2
      <3> QED
        BY <2>1, <3>1, <3>2
    <2>3. i + 1 \in 1 .. Len(O)
      BY <1>k, <1>7
    <2> QED
      BY <2>2, <2>3
  <1>10. O # <<>>
    BY <1>k, <1>7, EmptySeq
  <1> QED
    BY <1>7, <1>8, <1>9, <1>10 DEF O

-----------------------------------------------------------------------------
(* NvTyped is an invariant.                                                *)

LEMMA NoProvTyped == NoProv \in Provs /\ NoCall \in Calls /\ NoCall.ops = <<>>
  <1>1. 0 \in 0 .. MaxProvs
    BY NvAssumption
  <1>2. NoProv \in Provs
    BY <1>1 DEF NoProv, Provs
  <1> QED
    <2>1. <<>> \in Seq(Access)
      BY EmptySeq
    <2>2. ASSUME NEW e \in Seq(Access), NEW p \in Provs
          PROVE  [ops |-> e, rest |-> e, yes |-> "", no |-> "", half |-> "", arg |-> p] \in Calls
      <3>1. "" \in Modes \cup {""}
        OBVIOUS
      <3>2. "" \in Halves \cup {""}
        OBVIOUS
      <3> QED
        BY <3>1, <3>2 DEF Calls
    <2>3. NoCall \in Calls
      BY <1>2, <2>1, <2>2 DEF NoCall
    <2>4. NoCall.ops = <<>>
      BY DEF NoCall
    <2> QED
      BY <1>2, <2>3, <2>4

\* An access and its file.
LEMMA AccessOfFile ==
    ASSUME FlashTyped, NEW op \in Access
    PROVE  /\ op.file \in Files /\ flash[op.file] \in Seq(Seq(Nat))
           /\ Content(op.file, flash[op.file])
           /\ op.text # <<>> => /\ op.text = <<op.text[1]>> /\ op.text[1] \in Seq(Nat)
                                /\ Len(op.text[1]) <= Size(op.file)
  <1>1. op.file \in Files /\ Content(op.file, op.text)
    BY DEF Access
  <1>2. op.text = <<>> \/ \E t \in Seq(Nat) : op.text = <<t>> /\ Len(t) <= Size(op.file)
    BY <1>1 DEF Content
  <1> QED
    BY <1>1, <1>2 DEF FlashTyped

LEMMA HeadTyped ==
    ASSUME CallsTyped, NEW a \in Actors, call[a] # NoCall
    PROVE  /\ call[a] \in Calls /\ call[a].ops \in Seq(Access) /\ call[a].ops # <<>>
           /\ Head(call[a].ops) \in Access /\ Tail(call[a].ops) \in Seq(Access)
  <1>1. call[a] \in Calls /\ call[a].ops # <<>>
    BY DEF CallsTyped
  <1>2. call[a].ops \in Seq(Access)
    BY <1>1 DEF Calls
  <1> QED
    BY <1>1, <1>2, HeadTailProperties

\* A call goes on, goes on with what follows it in any case, or ends.
LEMMA GoOnCases ==
    ASSUME NEW a, NEW c, NEW ops, NEW to, GoOn(a, c, ops, to)
    PROVE  \/ /\ ops # <<>> /\ UNCHANGED <<mode, reenter>>
              /\ call' = [call EXCEPT ![a] = [ops |-> ops, rest |-> c.rest, yes |-> to, no |-> c.no,
                                               half |-> c.half, arg |-> c.arg]]
           \/ /\ ops = <<>> /\ c.rest # <<>> /\ UNCHANGED <<mode, reenter>>
              /\ call' = [call EXCEPT ![a] = [ops |-> c.rest, rest |-> <<>>, yes |-> to, no |-> c.no,
                                               half |-> c.half, arg |-> c.arg]]
           \/ /\ ops = <<>> /\ c.rest = <<>>
              /\ call' = [call EXCEPT ![a] = NoCall]
              /\ mode' = IF a = "main" THEN to ELSE mode
              /\ reenter' = (reenter \/ a = "other")
  BY DEF GoOn

LEMMA GoOnTyped ==
    ASSUME CallsTyped, NEW a \in Actors, NEW ops \in Seq(Access), NEW to \in Modes \cup {""},
           GoOn(a, call[a], ops, to)
    PROVE  CallsTyped'
  <1> DEFINE c == call[a]
  <1>1. /\ c \in Calls /\ c.rest \in Seq(Access) /\ c.no \in Modes \cup {""}
        /\ c.half \in Halves \cup {""} /\ c.arg \in Provs
    BY DEF CallsTyped, Calls
  <1> HIDE DEF c
  <1>2. \A n : n \in Calls /\ (n # NoCall => n.ops # <<>>) /\ call' = [call EXCEPT ![a] = n]
               => CallsTyped'
    BY DEF CallsTyped
  <1>3. ASSUME NEW o \in Seq(Access), NEW q \in Seq(Access), o # <<>>
        PROVE  LET n == [ops |-> o, rest |-> q, yes |-> to, no |-> c.no, half |-> c.half, arg |-> c.arg]
               IN  n \in Calls /\ n.ops # <<>>
    BY <1>1, <1>3 DEF Calls
  <1>4. <<>> \in Seq(Access)
    BY EmptySeq
  <1>5. CASE ops # <<>> /\ call' = [call EXCEPT ![a] = [ops |-> ops, rest |-> c.rest, yes |-> to,
                                                        no |-> c.no, half |-> c.half, arg |-> c.arg]]
    BY <1>1, <1>2, <1>3, <1>5
  <1>6. CASE c.rest # <<>> /\ call' = [call EXCEPT ![a] = [ops |-> c.rest, rest |-> <<>>, yes |-> to,
                                                           no |-> c.no, half |-> c.half, arg |-> c.arg]]
    BY <1>1, <1>2, <1>3, <1>4, <1>6
  <1>7. CASE call' = [call EXCEPT ![a] = NoCall]
    BY <1>2, <1>7, NoProvTyped
  <1> QED
    BY <1>5, <1>6, <1>7, GoOnCases DEF c

\* The flash.
LEMMA FlashTypedNext ==
    ASSUME NvTyped, [Next]_vars PROVE FlashTyped'
  <1> USE DEF NvTyped
  <1>1. ASSUME NEW f \in Files, NEW x \in Seq(Seq(Nat)), Content(f, x),
               flash' = [flash EXCEPT ![f] = x], UNCHANGED <<port, media>>
        PROVE  FlashTyped'
    <2>1. flash' \in [Files -> Seq(Seq(Nat))] /\ \A g \in Files : Content(g, flash'[g])
      BY <1>1 DEF FlashTyped
    <2> QED
      BY <1>1, <2>1 DEF FlashTyped, Content, Size
  <1>2. ASSUME NEW a \in Actors, OpDone(a) PROVE FlashTyped'
    <2> DEFINE op == Head(call[a].ops)
               x == IF op.text = <<>> THEN <<>>
                    ELSE _iot_security_be_bsp_fs_store_to_nv(flash[op.file], op.text[1])
    <2>1. op \in Access
      BY <1>2, HeadTyped DEF OpDone
    <2>2. flash' = [flash EXCEPT ![op.file] = x] /\ UNCHANGED <<port, media>>
      BY <1>2 DEF OpDone
    <2>3. x \in Seq(Seq(Nat)) /\ Content(op.file, x)
      <3>1. CASE op.text = <<>>
        BY <3>1, EmptySeq DEF Content
      <3>2. CASE op.text # <<>>
        <4>1. port \in {"posix", "esp32", "bl602"}
          BY DEF FlashTyped
        <4> HIDE DEF op
        <4> QED
          BY <2>1, <3>2, <4>1, AccessOfFile, StoredInFile
      <3> QED
        BY <3>1, <3>2
    <2>4. op.file \in Files
      BY <2>1, AccessOfFile
    <2> QED
      BY <1>1, <2>2, <2>3, <2>4
  <1>3. ASSUME NEW a \in Actors, call[a] # NoCall, Head(call[a].ops).text # <<>>,
               NEW x \in Torn(flash[Head(call[a].ops).file], Head(call[a].ops).text[1],
                              Len(Head(call[a].ops).text[1]) - 1),
               flash' = [flash EXCEPT ![Head(call[a].ops).file] = x], UNCHANGED <<port, media>>
        PROVE  FlashTyped'
    <2> DEFINE op == Head(call[a].ops)
    <2>1. op \in Access
      BY <1>3, HeadTyped
    <2>2. op.text # <<>> /\ x \in Torn(flash[op.file], op.text[1], Len(op.text[1]) - 1)
      BY <1>3
    <2> HIDE DEF op
    <2>3. x \in Seq(Seq(Nat)) /\ Content(op.file, x) /\ op.file \in Files
      BY <2>1, <2>2, AccessOfFile, TornFile
    <2> QED
      BY <1>1, <1>3, <2>3 DEF op
  <1>4. CASE UNCHANGED <<port, media, flash>>
    BY <1>4 DEF FlashTyped, Content, Size
  <1>5. ASSUME NEW a \in Actors, OpFails(a) PROVE FlashTyped'
    <2>1. UNCHANGED <<port, media>> /\ call[a] # NoCall
      BY <1>5 DEF OpFails
    <2>2. \/ UNCHANGED flash
          \/ /\ Head(call[a].ops).text # <<>>
             /\ \E x \in Torn(flash[Head(call[a].ops).file], Head(call[a].ops).text[1],
                              Len(Head(call[a].ops).text[1]) - 1) :
                   flash' = [flash EXCEPT ![Head(call[a].ops).file] = x]
      BY <1>5 DEF OpFails
    <2> QED
      BY <1>3, <1>4, <2>1, <2>2
  <1>6. CASE PowerLoss
    <2>1. UNCHANGED <<port, media>>
      BY <1>6 DEF PowerLoss
    <2>2. \/ UNCHANGED flash
          \/ \E a \in Actors :
                /\ call[a] # NoCall /\ Head(call[a].ops).text # <<>>
                /\ \E x \in Torn(flash[Head(call[a].ops).file], Head(call[a].ops).text[1],
                                 Len(Head(call[a].ops).text[1]) - 1) :
                      flash' = [flash EXCEPT ![Head(call[a].ops).file] = x]
      BY <1>6 DEF PowerLoss
    <2> QED
      BY <1>3, <1>4, <2>1, <2>2
  <1> QED
    BY <1>2, <1>4, <1>5, <1>6
    DEF Next, vars, MainStores, OtherStores, MiscRead, MiscWrite, MiscFails, NewProv, HttpWifi,
        HttpCloud, HttpReadBack, BleCloud, BleWifi, MainTo, Registered, Rejected, StoreId,
        BootWithoutData, BootWithoutId, BootWithId, BootConnects, BootRegisters, Cleanup,
        GattLeave, ProvEnter

\* The provisionings.
LEMMA ProvTypedNext ==
    ASSUME NvTyped, [Next]_vars PROVE ProvTyped'
  <1> USE DEF NvTyped
  <1>1. ASSUME NEW a \in Actors, OpDone(a) PROVE ProvTyped'
    <2>1. UNCHANGED <<cur, prov>> /\ call[a] # NoCall
      BY <1>1 DEF OpDone, bounds
    <2>2. call[a].arg \in Provs
      BY <2>1, HeadTyped DEF Calls
    <2>3. given' \in {given} \cup {[given EXCEPT ![call[a].half] = call[a].arg]}
      BY <1>1 DEF OpDone
    <2>4. given' \in [Halves -> Provs]
      BY <2>2, <2>3 DEF ProvTyped
    <2> QED
      BY <2>1, <2>4 DEF ProvTyped
  <1>2. CASE NewProv
    <2>1. prov + 1 \in 0 .. MaxProvs
      BY <1>2, NvAssumption DEF NewProv, ProvTyped
    <2>2. cur' \in Provs
      BY <1>2, <2>1 DEF NewProv, Provs
    <2> QED
      BY <1>2, <2>1, <2>2 DEF NewProv, ProvTyped, ghosts
  <1>3. CASE \E self \in BOOLEAN : BootWithId(self)
    BY <1>3 DEF BootWithId, ProvTyped, bounds, ghosts, Halves
  <1>4. CASE PowerLoss
    BY <1>4, NoProvTyped DEF PowerLoss, ProvTyped
  <1>5. CASE UNCHANGED <<cur, given, prov>>
    BY <1>5 DEF ProvTyped
  <1> QED
    BY <1>1, <1>2, <1>3, <1>4, <1>5
    DEF Next, vars, bounds, ghosts, OpFails, MainStores, OtherStores, MiscRead, MiscWrite, MiscFails,
        HttpWifi, HttpCloud, HttpReadBack, BleCloud, BleWifi, MainTo, Registered, Rejected, StoreId,
        BootWithoutData, BootWithoutId, BootConnects, BootRegisters, Cleanup, GattLeave, ProvEnter

\* A call is started, a set among them.
LEMMA StartTyped ==
    ASSUME CallsTyped, NEW a \in Actors, NEW ops \in Seq(Access), ops # <<>>,
           NEW rest \in Seq(Access), NEW yes \in Modes, NEW no \in Modes,
           NEW h \in Halves \cup {""}, NEW arg \in Provs,
           call' = [call EXCEPT ![a] = [ops |-> ops, rest |-> rest, yes |-> yes, no |-> no,
                                        half |-> h, arg |-> arg]]
    PROVE  CallsTyped'
  <1> DEFINE c == [ops |-> ops, rest |-> rest, yes |-> yes, no |-> no, half |-> h, arg |-> arg]
  <1>1. c \in Calls /\ c.ops # <<>>
    BY DEF Calls
  <1> HIDE DEF c
  <1>2. call' = [call EXCEPT ![a] = c]
    BY DEF c
  <1> QED
    BY <1>1, <1>2 DEF CallsTyped

LEMMA SetCalls ==
    /\ \A p : iot_nv_set_wifi_prov_data(p) = SetOps("wifi", p)
    /\ \A p : iot_nv_set_cloud_prov_data(p) = SetOps("cloud", p)
  BY DEF SetOps, iot_nv_set_wifi_prov_data, iot_nv_set_cloud_prov_data, Status

LEMMA SetTyped ==
    ASSUME CallsTyped, NEW h \in Halves, NEW p \in Provs, NEW yes \in Modes, NEW no \in Modes,
           StartSet(h, SetOps(h, p), p, yes, no)
    PROVE  CallsTyped'
  <1>1. SetOps(h, p) \in Seq(Access) /\ SetOps(h, p) # <<>> /\ <<>> \in Seq(Access)
    BY SetOpsAre, EmptySeq
  <1>2. call' = [call EXCEPT !["main"] = [ops |-> SetOps(h, p), rest |-> <<>>, yes |-> yes,
                                           no |-> no, half |-> h, arg |-> p]]
    BY DEF StartSet
  <1> QED
    BY <1>1, <1>2, StartTyped DEF Actors

\* The other calls.
LEMMA PlainOps ==
    /\ iot_nv_erase_prov_data \in Seq(Access) /\ iot_nv_erase_prov_data # <<>>
    /\ <<iot_nv_erase("id")>> \in Seq(Access) /\ <<iot_nv_erase("id")>> # <<>>
    /\ \A g \in Nat : iot_nv_set_device_id(g) \in Seq(Access) /\ iot_nv_set_device_id(g) # <<>>
  <1>1. Write("wifiStatus", None) \in Access /\ Write("cloudStatus", None) \in Access
    BY AccessTyped, FileFacts DEF Halves
  <1>2. iot_nv_erase_prov_data \in Seq(Access) /\ iot_nv_erase_prov_data # <<>>
    BY <1>1, Tuples DEF iot_nv_erase_prov_data
  <1>3. <<iot_nv_erase("id")>> \in Seq(Access) /\ <<iot_nv_erase("id")>> # <<>>
    BY AccessTyped, Tuples
  <1>4. ASSUME NEW g \in Nat
        PROVE  iot_nv_set_device_id(g) \in Seq(Access) /\ iot_nv_set_device_id(g) # <<>>
    BY AccessTyped, Tuples DEF iot_nv_set_device_id
  <1> QED
    BY <1>2, <1>3, <1>4

LEMMA PlainTyped ==
    ASSUME CallsTyped, NEW a \in Actors, NEW ops \in Seq(Access), ops # <<>>,
           NEW rest \in Seq(Access), NEW yes \in Modes, NEW no \in Modes,
           Start(a, ops, rest, yes, no)
    PROVE  CallsTyped'
  BY StartTyped, NoProvTyped DEF Start

\* The calls.
LEMMA CallsTypedNext ==
    ASSUME NvTyped, [Next]_vars PROVE CallsTyped'
  <1> USE DEF NvTyped
  <1>a. "main" \in Actors /\ "other" \in Actors
    BY DEF Actors
  <1>e. <<>> \in Seq(Access)
    BY EmptySeq
  <1>m. /\ "boot" \in Modes /\ "prov" \in Modes /\ "half" \in Modes /\ "put" \in Modes
        /\ "reg" \in Modes /\ "join" \in Modes /\ "run" \in Modes
    BY DEF Modes
  <1>h. "wifi" \in Halves /\ "cloud" \in Halves
    BY DEF Halves
  <1>c. cur \in Provs /\ cur' \in Provs
    BY ProvTypedNext DEF ProvTyped
  <1>1. ASSUME NEW a \in Actors, OpDone(a) PROVE CallsTyped'
    <2>1. call[a] # NoCall /\ GoOn(a, call[a], Tail(call[a].ops), call[a].yes)
      BY <1>1 DEF OpDone
    <2>2. Tail(call[a].ops) \in Seq(Access) /\ call[a].yes \in Modes \cup {""}
      BY <2>1, HeadTyped DEF Calls
    <2> QED
      BY <2>1, <2>2, GoOnTyped
  <1>2. ASSUME NEW a \in Actors, OpFails(a) PROVE CallsTyped'
    <2>1. call[a] # NoCall
      BY <1>2 DEF OpFails
    <2>2. /\ Tail(call[a].ops) \in Seq(Access)
          /\ call[a].yes \in Modes \cup {""} /\ call[a].no \in Modes \cup {""}
      BY <2>1, HeadTyped DEF Calls
    <2>3. \/ GoOn(a, call[a], Tail(call[a].ops), call[a].yes)
          \/ GoOn(a, call[a], <<>>, call[a].no)
      BY <1>2 DEF OpFails
    <2> QED
      BY <1>e, <2>2, <2>3, GoOnTyped
  <1>3. CASE HttpWifi
    <2>1. StartSet("wifi", SetOps("wifi", cur'), cur', "half", "prov")
      BY <1>3, SetCalls DEF HttpWifi
    <2> QED
      BY <1>c, <1>h, <1>m, <2>1, SetTyped
  <1>4. CASE HttpCloud
    <2>1. StartSet("cloud", SetOps("cloud", cur), cur, "put", "prov")
      BY <1>4, SetCalls DEF HttpCloud
    <2> QED
      BY <1>c, <1>h, <1>m, <2>1, SetTyped
  <1>5. CASE BleCloud
    <2>1. StartSet("cloud", SetOps("cloud", cur'), cur', "reg", "prov")
      BY <1>5, SetCalls DEF BleCloud
    <2> QED
      BY <1>c, <1>h, <1>m, <2>1, SetTyped
  <1>6. CASE BleWifi
    <2>1. StartSet("wifi", SetOps("wifi", cur), cur, "run", "run")
      BY <1>6, SetCalls DEF BleWifi
    <2> QED
      BY <1>c, <1>h, <1>m, <2>1, SetTyped
  <1>7. CASE StoreId
    <2> DEFINE to == IF media = "ble" /\ used = <<>> THEN "join" ELSE "run"
    <2>1. Start("main", iot_nv_set_device_id(cur.gen), <<>>, to, to) /\ to \in Modes
      BY <1>7, <1>m DEF StoreId
    <2>2. cur.gen \in Nat
      BY <1>c, GenTyped
    <2> HIDE DEF to
    <2> QED
      BY <1>a, <1>e, <2>1, <2>2, PlainOps, PlainTyped
  <1>8. CASE BootWithoutData
    BY <1>8, <1>a, <1>e, <1>m, PlainOps, PlainTyped DEF BootWithoutData, BootErase
  <1>9. CASE Cleanup
    BY <1>9, <1>a, <1>m, PlainOps, PlainTyped DEF Cleanup
  <1>10. CASE GattLeave
    <2> DEFINE c == [ops |-> iot_nv_erase_prov_data, rest |-> <<iot_nv_erase("id")>>,
                     yes |-> "", no |-> "", half |-> "", arg |-> NoProv]
    <2>1. c \in Calls /\ c.ops # <<>>
      BY PlainOps, NoProvTyped DEF Calls
    <2>2. call' = [call EXCEPT !["other"] = c]
      BY <1>10 DEF GattLeave, Start
    <2> HIDE DEF c
    <2> QED
      BY <2>1, <2>2 DEF CallsTyped
  <1>11. CASE PowerLoss
    BY <1>11, NoProvTyped DEF PowerLoss, CallsTyped
  <1>12. CASE UNCHANGED call
    BY <1>12 DEF CallsTyped
  <1> QED
    BY <1>1, <1>2, <1>3, <1>4, <1>5, <1>6, <1>7, <1>8, <1>9, <1>10, <1>11, <1>12
    DEF Next, vars, MainStores, OtherStores, MiscRead, MiscWrite, MiscFails, HttpReadBack, MainTo,
        Registered, Rejected, BootWithoutId, BootWithId, BootConnects, BootRegisters, ProvEnter

\* MiscInfo.
LEMMA MiscTypedNext ==
    ASSUME NvTyped, [Next]_vars PROVE MiscTyped'
  <1> USE DEF NvTyped
  <1>1. ASSUME NEW a \in Actors, NEW e \in IF a = "main" THEN {"dip", "loId"} ELSE {"prevErr"},
               NEW v \in Nat, NEW ok \in BOOLEAN, MiscRead(a, e, v, ok), extras' \in Nat
        PROVE  MiscTyped'
    <2> DEFINE p == [key |-> e, old |-> misc, over |-> ~ok,
                     new |-> SetEntry(IF ok THEN misc ELSE NoEntries, e, v)]
    <2>1. UNCHANGED <<misc, stored, lost>> /\ pend' = [pend EXCEPT ![a] = <<p>>]
      BY <1>1 DEF MiscRead, ghosts
    <2>2. misc \in Json /\ NoEntries \in Json
      BY DEF MiscTyped, Json, NoEntries
    <2>3. SetEntry(IF ok THEN misc ELSE NoEntries, e, v) \in Json
      BY <2>2 DEF SetEntry, Json
    <2>4. p \in Pending(a)
      BY <2>2, <2>3 DEF Pending
    <2> HIDE DEF p
    <2> QED
      BY <1>1, <2>1, <2>4 DEF MiscTyped
  <1>2. CASE MainStores
    <2>1. cur.gen \in Nat
      BY GenTyped DEF ProvTyped
    <2>2. extras' \in Nat
      BY <1>2 DEF MainStores, MiscTyped
    <2> QED
      BY <1>1, <1>2, <2>1, <2>2 DEF MainStores, Actors
  <1>3. CASE OtherStores
    <2>1. extras + 1 \in Nat /\ extras' \in Nat
      BY <1>3 DEF OtherStores, MiscTyped
    <2> QED
      BY <1>1, <1>3, <2>1 DEF OtherStores, Actors
  <1>4. ASSUME NEW a \in Actors, EndStore(a)
        PROVE  /\ DOMAIN pend' = Actors
               /\ \A b \in Actors : pend'[b] = <<>> \/ \E p \in Pending(b) : pend'[b] = <<p>>
    <2>1. DOMAIN pend' = Actors
      BY <1>4 DEF EndStore
    <2>2. ASSUME NEW b \in Actors, pend'[b] # <<>>
          PROVE  \E p \in Pending(b) : pend'[b] = <<p>>
      <3>1. pend[b] # <<>> /\ pend'[b] = <<[pend[b][1] EXCEPT !.over = TRUE]>>
        BY <1>4, <2>2 DEF EndStore
      <3>2. PICK p \in Pending(b) : pend[b] = <<p>>
        BY <3>1 DEF MiscTyped
      <3>3. [p EXCEPT !.over = TRUE] \in Pending(b)
        BY DEF Pending
      <3> QED
        BY <3>1, <3>2, <3>3
    <2> QED
      BY <2>1, <2>2
  <1>5. ASSUME NEW a \in Actors, pend[a] # <<>>
        PROVE  pend[a][1] \in Pending(a) /\ pend[a][1].key \in Entries
    BY <1>5 DEF MiscTyped, Pending, Entries
  <1>6. ASSUME NEW a \in Actors, MiscWrite(a) PROVE MiscTyped'
    <2> DEFINE p == pend[a][1]
    <2>1. p \in Pending(a) /\ p.key \in Entries
      BY <1>5, <1>6 DEF MiscWrite
    <2>2. p.new \in Json /\ p.new[p.key] \in Nat
      BY <2>1 DEF Pending, Json
    <2>3. misc' \in {misc, p.new} /\ stored' = [stored EXCEPT ![p.key] = p.new[p.key]]
      BY <1>6 DEF MiscWrite
    <2>4. lost' \subseteq Entries
      BY <1>6 DEF MiscWrite, MiscTyped
    <2>5. extras' = extras /\ EndStore(a)
      BY <1>6 DEF MiscWrite, bounds
    <2> HIDE DEF p
    <2>6. misc' \in Json /\ stored' \in Json
      BY <2>2, <2>3 DEF MiscTyped, Json
    <2> QED
      BY <1>4, <2>4, <2>5, <2>6 DEF MiscTyped
  <1>7. ASSUME NEW a \in Actors, MiscFails(a) PROVE MiscTyped'
    <2> DEFINE p == pend[a][1]
    <2>1. p \in Pending(a) /\ p.key \in Entries
      BY <1>5, <1>7 DEF MiscFails
    <2>2. p.new \in Json /\ p.new[p.key] \in Nat /\ NoEntries \in Json
      BY <2>1 DEF Pending, Json, NoEntries
    <2>3. misc' \in {misc, NoEntries} /\ stored' = [stored EXCEPT ![p.key] = p.new[p.key]]
      BY <1>7 DEF MiscFails
    <2>4. lost' \subseteq Entries
      BY <1>7, <2>1 DEF MiscFails, MiscTyped
    <2>5. extras' = extras /\ EndStore(a)
      BY <1>7 DEF MiscFails
    <2> HIDE DEF p
    <2>6. misc' \in Json /\ stored' \in Json
      BY <2>2, <2>3 DEF MiscTyped, Json
    <2> QED
      BY <1>4, <2>4, <2>5, <2>6 DEF MiscTyped
  <1>8. CASE PowerLoss
    <2>1. /\ misc' \in {misc, NoEntries} /\ lost' \in {lost, Entries}
          /\ pend' = [a \in Actors |-> <<>>] /\ UNCHANGED <<extras, stored>>
      BY <1>8 DEF PowerLoss
    <2> QED
      BY <2>1 DEF MiscTyped, Json, NoEntries
  <1>9. ASSUME UNCHANGED <<misc, stored, lost, pend>>, extras' \in {extras, extras + 1}
        PROVE  MiscTyped'
    BY <1>9 DEF MiscTyped
  <1> QED
    BY <1>2, <1>3, <1>6, <1>7, <1>8, <1>9
    DEF Next, vars, bounds, ghosts, OpDone, OpFails, NewProv, HttpWifi, HttpCloud, HttpReadBack,
        BleCloud, BleWifi, MainTo, Registered, Rejected, StoreId, BootWithoutData, BootWithoutId,
        BootWithId, BootConnects, BootRegisters, Cleanup, GattLeave, ProvEnter

LEMMA TypedInit == Init => NvTyped
  <1> SUFFICES ASSUME Init PROVE NvTyped
    OBVIOUS
  <1>1. FlashTyped
    <2>1. <<>> \in Seq(Seq(Nat)) /\ \A f : Content(f, <<>>)
      BY EmptySeq DEF Content
    <2> QED
      BY <2>1, NvAssumption DEF Init, FlashTyped
  <1>2. ProvTyped
    BY NoProvTyped, NvAssumption DEF Init, ProvTyped
  <1>3. CallsTyped
    BY NoProvTyped DEF Init, CallsTyped
  <1>4. MiscTyped
    BY DEF Init, MiscTyped, Json, NoEntries
  <1> QED
    BY <1>1, <1>2, <1>3, <1>4 DEF NvTyped

LEMMA TypedNext == NvTyped /\ [Next]_vars => NvTyped'
  BY FlashTypedNext, ProvTypedNext, CallsTypedNext, MiscTypedNext DEF NvTyped

\* Every file holds at most one text, of the length its accesses allow, and every
\* call under way has an access left to do.
THEOREM NvTypedHolds == Spec => []NvTyped
  <1>1. Init => NvTyped
    BY TypedInit
  <1>2. NvTyped /\ [Next]_vars => NvTyped'
    BY TypedNext
  <1> QED
    BY <1>1, <1>2, PTL DEF Spec

-----------------------------------------------------------------------------
(* The entries of MiscInfo are kept.                                       *)

LEMMA MiscNext ==
    ASSUME NvTyped, MiscInv, [Next]_vars PROVE MiscInv'
  <1>t. /\ misc \in Json /\ stored \in Json /\ lost \subseteq Entries
        /\ \A a \in Actors : pend[a] # <<>> => pend[a][1] \in Pending(a)
    BY DEF NvTyped, MiscTyped
  <1>1. ASSUME NEW a \in Actors, NEW e \in Entries, NEW v, NEW ok \in BOOLEAN, MiscRead(a, e, v, ok)
        PROVE  MiscInv'
    <2> DEFINE p == [key |-> e, old |-> misc, over |-> ~ok,
                     new |-> SetEntry(IF ok THEN misc ELSE NoEntries, e, v)]
    <2>1. UNCHANGED <<misc, stored, lost>> /\ pend' = [pend EXCEPT ![a] = <<p>>]
      BY <1>1 DEF MiscRead, ghosts
    <2>2. misc[p.key] = p.old[p.key]
      OBVIOUS
    <2>3. ~ p.over => p.old = misc /\ \A x \in Entries \ {p.key} : p.new[x] = misc[x]
      BY <1>t DEF SetEntry, Json
    <2> HIDE DEF p
    <2>4. DOMAIN pend = Actors
      BY DEF NvTyped, MiscTyped
    <2>5. PendingIsCurrent'
      BY <2>1, <2>2, <2>3, <2>4 DEF MiscInv, PendingIsCurrent
    <2> QED
      BY <2>1, <2>5 DEF MiscInv, EntriesAreKept
  <1>2. ASSUME NEW a \in Actors, NEW b \in Actors, a # b, pend[a] # <<>>, pend[b] # <<>>
        PROVE  pend[a][1].key # pend[b][1].key
    <2>1. pend[a][1] \in Pending(a) /\ pend[b][1] \in Pending(b)
      BY <1>2, <1>t
    <2> QED
      BY <1>2, <2>1 DEF Pending, Actors
  <1>3. ASSUME NEW a \in Actors, EndStore(a), NEW b \in Actors, pend'[b] # <<>>
        PROVE  /\ b # a /\ pend[b] # <<>> /\ pend'[b][1].over
               /\ pend'[b][1].key = pend[b][1].key /\ pend'[b][1].old = pend[b][1].old
    <2>1. b # a /\ pend[b] # <<>> /\ pend'[b] = <<[pend[b][1] EXCEPT !.over = TRUE]>>
      BY <1>3 DEF EndStore
    <2>2. pend[b][1] \in Pending(b)
      BY <1>t, <2>1
    <2> QED
      BY <2>1, <2>2 DEF Pending
  <1>4. ASSUME NEW a \in Actors, MiscWrite(a) PROVE MiscInv'
    <2> DEFINE p == pend[a][1]
    <2>1. p \in Pending(a) /\ p.key \in Entries /\ pend[a] # <<>>
      BY <1>t, <1>4 DEF MiscWrite, Pending, Entries
    <2>2. /\ misc[p.key] = p.old[p.key] \/ p.key \in lost
          /\ ~ p.over => \A e \in Entries \ {p.key} : p.new[e] = misc[e]
      BY <2>1 DEF MiscInv, PendingIsCurrent
    <2>3. /\ p.new = p.old => misc' = misc /\ lost' = lost
          /\ p.new # p.old => /\ misc' = p.new
                              /\ lost' = (lost \ {p.key}) \cup (IF p.over THEN Entries \ {p.key} ELSE {})
          /\ stored' = [stored EXCEPT ![p.key] = p.new[p.key]] /\ EndStore(a)
      BY <1>4 DEF MiscWrite
    <2>4. p.over \in BOOLEAN /\ p.new \in Json /\ p.old \in Json
      BY <2>1 DEF Pending
    <2> HIDE DEF p
    <2>5. ASSUME NEW e \in Entries \ {p.key}
          PROVE  (misc'[e] = misc[e] /\ (e \in lost => e \in lost')) \/ e \in lost'
      BY <2>2, <2>3, <2>4
    <2>6. ASSUME NEW e \in Entries PROVE misc'[e] = stored'[e] \/ e \in lost'
      <3>1. CASE e = p.key
        BY <1>t, <2>1, <2>2, <2>3, <2>4, <3>1 DEF Json
      <3>2. CASE e # p.key
        BY <1>t, <2>1, <2>3, <2>5, <3>2 DEF Json, MiscInv, EntriesAreKept
      <3> QED
        BY <3>1, <3>2
    <2>7. ASSUME NEW b \in Actors, pend'[b] # <<>>
          PROVE  LET q == pend'[b][1]
                 IN  q.over /\ (misc'[q.key] = q.old[q.key] \/ q.key \in lost')
      <3> DEFINE q == pend[b][1]
      <3>1. /\ b # a /\ pend[b] # <<>> /\ pend'[b][1].over
            /\ pend'[b][1].key = q.key /\ pend'[b][1].old = q.old
        BY <1>3, <2>3, <2>7
      <3>2. q \in Pending(b) /\ q.key \in Entries /\ q.key # p.key
        BY <1>t, <1>2, <2>1, <3>1 DEF Pending, Entries, p
      <3>3. misc[q.key] = q.old[q.key] \/ q.key \in lost
        BY <3>1 DEF MiscInv, PendingIsCurrent
      <3> HIDE DEF q
      <3>4. misc'[q.key] = q.old[q.key] \/ q.key \in lost'
        BY <2>5, <3>2, <3>3
      <3> QED
        BY <3>1, <3>4
    <2> QED
      BY <2>6, <2>7 DEF MiscInv, PendingIsCurrent, EntriesAreKept
  <1>5. ASSUME NEW a \in Actors, MiscFails(a) PROVE MiscInv'
    <2> DEFINE p == pend[a][1]
    <2>1. p \in Pending(a) /\ p.key \in Entries /\ pend[a] # <<>>
      BY <1>t, <1>5 DEF MiscFails, Pending, Entries
    <2>2. /\ \/ misc' = misc /\ lost' = lost \cup {p.key}
             \/ lost' = lost \cup Entries
          /\ stored' = [stored EXCEPT ![p.key] = p.new[p.key]] /\ EndStore(a)
      BY <1>5 DEF MiscFails
    <2> HIDE DEF p
    <2>3. ASSUME NEW e \in Entries PROVE misc'[e] = stored'[e] \/ e \in lost'
      BY <1>t, <2>1, <2>2 DEF Json, MiscInv, EntriesAreKept
    <2>4. ASSUME NEW b \in Actors, pend'[b] # <<>>
          PROVE  LET q == pend'[b][1]
                 IN  q.over /\ (misc'[q.key] = q.old[q.key] \/ q.key \in lost')
      <3> DEFINE q == pend[b][1]
      <3>1. /\ pend[b] # <<>> /\ pend'[b][1].over
            /\ pend'[b][1].key = q.key /\ pend'[b][1].old = q.old
        BY <1>3, <2>2, <2>4
      <3>2. q.key \in Entries
        BY <1>t, <3>1 DEF Pending, Entries
      <3>3. misc[q.key] = q.old[q.key] \/ q.key \in lost
        BY <3>1 DEF MiscInv, PendingIsCurrent
      <3> HIDE DEF q
      <3>4. misc'[q.key] = q.old[q.key] \/ q.key \in lost'
        BY <2>2, <3>2, <3>3
      <3> QED
        BY <3>1, <3>4
    <2> QED
      BY <2>3, <2>4 DEF MiscInv, PendingIsCurrent, EntriesAreKept
  <1>6. CASE PowerLoss
    <2>1. /\ pend' = [a \in Actors |-> <<>>] /\ stored' = stored
          /\ (misc' = misc /\ lost' = lost) \/ lost' = Entries
      BY <1>6 DEF PowerLoss
    <2> QED
      BY <2>1 DEF MiscInv, PendingIsCurrent, EntriesAreKept
  <1>7. CASE UNCHANGED <<misc, stored, lost, pend>>
    BY <1>7 DEF MiscInv, PendingIsCurrent, EntriesAreKept
  <1>8. CASE MainStores \/ OtherStores
    <2>1. \E a \in Actors, e \in Entries, v \in {cur.gen, extras + 1}, ok \in BOOLEAN :
             MiscRead(a, e, v, ok)
      BY <1>8 DEF MainStores, OtherStores, Actors, Entries
    <2> QED
      BY <1>1, <2>1
  <1> QED
    BY <1>4, <1>5, <1>6, <1>7, <1>8
    DEF Next, vars, ghosts, OpDone, OpFails, NewProv, HttpWifi, HttpCloud, HttpReadBack,
        BleCloud, BleWifi, MainTo, Registered, Rejected, StoreId, BootWithoutData, BootWithoutId,
        BootWithId, BootConnects, BootRegisters, Cleanup, GattLeave, ProvEnter

\* MiscInv is an invariant: what a store of MiscInfo has read and not yet
\* written back is current for its own entry, and for all of them unless
\* another store came between.
THEOREM MiscInvHolds == Spec => []MiscInv
  <1>1. Init => MiscInv
    BY DEF Init, MiscInv, PendingIsCurrent, EntriesAreKept
  <1>2. NvTyped /\ MiscInv /\ [Next]_vars => MiscInv'
    BY MiscNext
  <1> QED
    BY <1>1, <1>2, NvTypedHolds, PTL DEF Spec

\* An entry of MiscInfo that was stored (iot_misc_info_store) is there with the
\* value last stored, unless a write of MiscInfo failed, its text could not be
\* read, or two threads stored at the same time.
THEOREM EntriesAreAlwaysKept == Spec => []EntriesAreKept
  <1>1. MiscInv => EntriesAreKept
    BY DEF MiscInv
  <1> QED
    BY <1>1, MiscInvHolds, PTL

-----------------------------------------------------------------------------
(* A half whose status says DONE is whole.                                 *)

\* What is read of a file.
LEMMA ReadOf ==
    ASSUME FlashTyped, NEW f \in Files
    PROVE  /\ \A t \in Seq(Nat) : flash[f] = <<t>> =>
                  /\ _iot_nv_read_data(f, DataSize).err = "none"
                  /\ _iot_nv_read_data(f, DataSize).text = t
           /\ flash[f] = <<>> =>
                  \/ _iot_nv_read_data(f, DataSize).err = "not exist"
                  \/ /\ port = "bl602"
                     /\ _iot_nv_read_data(f, DataSize).err = "none"
                     /\ _iot_nv_read_data(f, DataSize).text = <<>>
  <1>p. port \in {"posix", "esp32", "bl602"} /\ Content(f, flash[f])
    BY DEF FlashTyped
  <1>1. ASSUME NEW t \in Seq(Nat), flash[f] = <<t>>
        PROVE  /\ _iot_nv_read_data(f, DataSize).err = "none"
               /\ _iot_nv_read_data(f, DataSize).text = t
    <2>1. Len(t) \in Nat /\ Len(t) <= 2
      <3>1. Len(t) <= Size(f)
        BY <1>1, <1>p DEF Content
      <3>2. Size(f) \in {1, 2} /\ Len(t) \in Nat
        BY LenProperties DEF Size
      <3> QED
        BY <3>1, <3>2
    <2>2. flash[f] # <<>> /\ flash[f][1] = t
      BY <1>1
    <2>3. \E n \in {Len(t), Len(t) + 1} :
             _iot_security_be_bsp_fs_load_from_nv(f) = [err |-> "none", text |-> t, len |-> n]
      BY <1>p, <2>2 DEF _iot_security_be_bsp_fs_load_from_nv, posix_fs_read, esp32_fs_read,
                        bl602_fs_read, Text
    <2>4. PICK n \in {Len(t), Len(t) + 1} :
             _iot_security_be_bsp_fs_load_from_nv(f) = [err |-> "none", text |-> t, len |-> n]
      BY <2>3
    <2>5. ~ (DataSize < n)
      BY <2>1 DEF DataSize
    <2>6. _iot_nv_read_data(f, DataSize) = [err |-> "none", text |-> t, len |-> n]
      BY <2>4, <2>5 DEF _iot_nv_read_data
    <2> QED
      BY <2>6
  <1>2. ASSUME flash[f] = <<>>
        PROVE  \/ _iot_nv_read_data(f, DataSize).err = "not exist"
               \/ /\ port = "bl602"
                  /\ _iot_nv_read_data(f, DataSize).err = "none"
                  /\ _iot_nv_read_data(f, DataSize).text = <<>>
    <2>1. CASE port \in {"posix", "esp32"}
      <3>1. _iot_security_be_bsp_fs_load_from_nv(f) = NoFile
        BY <1>2, <2>1 DEF _iot_security_be_bsp_fs_load_from_nv, posix_fs_read, esp32_fs_read
      <3>2. NoFile.err = "not exist"
        BY DEF NoFile
      <3>3. _iot_nv_read_data(f, DataSize) = NoFile
        BY <3>1, <3>2 DEF _iot_nv_read_data
      <3> QED
        BY <3>2, <3>3
    <2>2. CASE port = "bl602"
      <3>1. _iot_security_be_bsp_fs_load_from_nv(f) = [err |-> "none", text |-> <<>>, len |-> 0]
        BY <1>2, <2>2 DEF _iot_security_be_bsp_fs_load_from_nv, bl602_fs_read, Text
      <3>2. ~ (DataSize < 0)
        BY DEF DataSize
      <3>3. _iot_nv_read_data(f, DataSize) = [err |-> "none", text |-> <<>>, len |-> 0]
        BY <3>1, <3>2 DEF _iot_nv_read_data
      <3> QED
        BY <2>2, <3>3
    <2> QED
      BY <1>p, <2>1, <2>2
  <1> QED
    BY <1>1, <1>2

LEMMA DoneTyped == Done \in Seq(Nat) /\ Len(Done) = 1 /\ Done # <<>> /\ None # Done
                   /\ None \in Seq(Nat) /\ Len(None) = 1
  <1>1. MaxProvs + 1 \in Nat /\ MaxProvs + 1 # 0
    BY NvAssumption
  <1>2. <<0>> # <<MaxProvs + 1>>
    BY <1>1
  <1> QED
    BY <1>1, <1>2, Tuples DEF None, Done

\* A file that holds what a set wants is read back as it wants it.
ReadAsWanted == \A f \in FieldsOf("wifi") \cup FieldsOf("cloud") : \A a \in Provs :
                    flash[f] = Want(f, a) => Stored(f, a)

LEMMA StoredOf == FlashTyped => ReadAsWanted
  <1> SUFFICES ASSUME FlashTyped, NEW f \in FieldsOf("wifi") \cup FieldsOf("cloud"),
                      NEW a \in Provs, flash[f] = Want(f, a)
               PROVE  Stored(f, a)
    BY DEF ReadAsWanted
  <1> DEFINE r == _iot_nv_read_data(f, DataSize)
  <1>1. f \in Files
    BY FileFacts
  <1>2. Get(f) = IF r.err # "none" \/ (f \in FieldsOf("wifi") /\ r.text = <<>>) THEN <<>> ELSE <<r.text>>
    BY DEF Get
  <1> HIDE DEF r
  <1>3. CASE Want(f, a) = <<>>
    <2>1. r.err = "not exist" \/ (port = "bl602" /\ r.text = <<>>)
      BY <1>1, <1>3, ReadOf DEF r
    <2>2. f \in {"pass", "bssid", "label"}
      <3>1. f \notin Nullable => Want(f, a) # <<>>
        <4>1. \A z : <<z>> # <<>>
          OBVIOUS
        <4> QED
          BY <4>1 DEF Want
      <3> QED
        BY <1>3, <3>1 DEF Nullable
    <2> QED
      BY <1>2, <1>3, <2>1, <2>2, FileFacts DEF Stored
  <1>4. CASE Want(f, a) # <<>>
    <2>1. PICK t \in Seq(Nat) : Want(f, a) = <<t>>
      BY <1>4, WantTyped DEF Content
    <2>2. r.err = "none" /\ r.text = t
      BY <1>1, <2>1, ReadOf DEF r
    <2>3. t = <<>> => f = "label"
      <3>1. f # "label" => Want(f, a) \in {<<>>, <<(<<a.gen, a.gen>>)>>, <<(<<a.gen>>)>>}
        BY DEF Want
      <3>2. \A z : <<z>> # <<>> /\ <<z, z>> # <<>>
        OBVIOUS
      <3> QED
        BY <1>4, <2>1, <3>1, <3>2
    <2>4. Get(f) = <<t>>
      BY <1>2, <2>2, <2>3, FileFacts
    <2> QED
      BY <2>1, <2>4 DEF Stored
  <1> QED
    BY <1>3, <1>4

LEMMA DoneOf ==
    ASSUME FlashTyped, NEW h \in Halves, IsDone(Status[h], DataSize)
    PROVE  flash[Status[h]] = <<Done>>
  <1> DEFINE f == Status[h]
             r == _iot_nv_read_data(f, DataSize)
  <1>1. f \in Files
    BY FileFacts DEF Halves
  <1>2. r.err = "none" /\ r.text = Done
    BY DEF IsDone
  <1>3. flash[f] = <<>> \/ \E t \in Seq(Nat) : flash[f] = <<t>>
    BY <1>1 DEF FlashTyped, Content
  <1> HIDE DEF f, r
  <1>4. flash[f] # <<>>
    BY <1>1, <1>2, ReadOf, DoneTyped DEF r
  <1>5. PICK t \in Seq(Nat) : flash[f] = <<t>>
    BY <1>3, <1>4
  <1>6. r.text = t
    BY <1>1, <1>5, ReadOf DEF r
  <1> QED
    BY <1>2, <1>5, <1>6 DEF f

\* What is stored stays stored while its file is let alone.
LEMMA StoredKept ==
    ASSUME NEW f, NEW a, flash'[f] = flash[f], port' = port, f \in spoiled => f \in spoiled',
           Stored(f, a)
    PROVE  Stored(f, a)'
  <1>1. Get(f)' = Get(f)
    BY DEF Get, _iot_nv_read_data, _iot_security_be_bsp_fs_load_from_nv, posix_fs_read,
           esp32_fs_read, bl602_fs_read
  <1> QED
    BY <1>1 DEF Stored

\* A step that takes no half to DONE and touches no field of one that is.
LEMMA WholeKept ==
    ASSUME HalvesAreWhole, port' = port, given' = given,
           \A h \in Halves : flash'[Status[h]] = <<Done>> =>
              /\ flash[Status[h]] = <<Done>>
              /\ \A f \in FieldsOf(h) : flash'[f] = flash[f] /\ (f \in spoiled => f \in spoiled')
    PROVE  HalvesAreWhole'
  <1>1. ASSUME NEW h \in Halves, flash'[Status[h]] = <<Done>>, NEW f \in FieldsOf(h)
        PROVE  Stored(f, given[h])'
    <2>1. PICK x : x = given[h]
      OBVIOUS
    <2>2. Stored(f, x)
      BY <1>1, <2>1 DEF HalvesAreWhole, HalfIsWhole
    <2>3. Stored(f, x)'
      BY <1>1, <2>2, StoredKept
    <2>4. given'[h] = x
      BY <2>1
    <2> QED
      BY <2>3, <2>4 DEF Stored
  <1> QED
    BY <1>1 DEF HalvesAreWhole, HalfIsWhole

\* The main task is not in a set, or stands still in one whose files are let alone.
LEMMA FitsKept ==
    ASSUME SetFits, NvTyped, call'["main"] = call["main"], port' = port,
           \A f \in FieldsOf("wifi") \cup FieldsOf("cloud") :
              flash'[f] = flash[f] /\ (f \in spoiled => f \in spoiled'),
           \A h \in Halves : flash'[Status[h]] = <<Done>> => flash[Status[h]] = <<Done>>
    PROVE  SetFits'
  <1> SUFFICES ASSUME call["main"].half \in Halves PROVE SetFits'
    BY DEF SetFits
  <1>0. \A h \in Halves : FieldsOf(h) \subseteq FieldsOf("wifi") \cup FieldsOf("cloud")
    BY DEF Halves
  <1>1. PICK c : c = call["main"]
    OBVIOUS
  <1>2. c.half \in Halves
    BY <1>1 DEF NvTyped, CallsTyped, Calls, Actors
  <1>3. ASSUME NEW f \in FieldsOf(c.half)
        PROVE  Stored(f, c.arg)' \/ \E i \in 1 .. Len(c.ops) : c.ops[i].file = f
    <2>1. Stored(f, c.arg) \/ \E i \in 1 .. Len(c.ops) : c.ops[i].file = f
      BY <1>1, <1>2 DEF SetFits
    <2> QED
      BY <1>0, <1>2, <2>1, StoredKept
  <1>4. flash'[Status[c.half]] = <<Done>> => c.ops[1] = Write(Status[c.half], None)
    BY <1>1, <1>2 DEF SetFits
  <1>5. call'["main"] = c
    BY <1>1
  <1> QED
    BY <1>3, <1>4, <1>5 DEF SetFits, Stored

LEMMA TailOf ==
    ASSUME NEW S, NEW s \in Seq(S), s # <<>>
    PROVE  /\ Len(s) \in Nat \ {0} /\ Head(s) = s[1] /\ 1 \in 1 .. Len(s)
           /\ Len(Tail(s)) = Len(s) - 1
           /\ \A i \in 1 .. Len(Tail(s)) : Tail(s)[i] = s[i + 1] /\ i + 1 \in 1 .. Len(s)
           /\ \A j \in 1 .. Len(s) : j # 1 => j - 1 \in 1 .. Len(Tail(s)) /\ Tail(s)[j - 1] = s[j]
           /\ Tail(s) = <<>> <=> Len(s) = 1
  <1>1. Len(s) \in Nat \ {0} /\ Len(Tail(s)) = Len(s) - 1 /\ Tail(s) \in Seq(S)
    BY EmptySeq, HeadTailProperties
  <1>2. \A i \in 1 .. Len(Tail(s)) : Tail(s)[i] = s[i + 1]
    BY HeadTailProperties
  <1>3. \A i \in 1 .. Len(Tail(s)) : i + 1 \in 1 .. Len(s)
    BY <1>1
  <1>4. ASSUME NEW j \in 1 .. Len(s), j # 1
        PROVE  j - 1 \in 1 .. Len(Tail(s)) /\ Tail(s)[j - 1] = s[j]
    <2>1. j - 1 \in 1 .. Len(Tail(s)) /\ (j - 1) + 1 = j
      BY <1>1, <1>4
    <2> QED
      BY <1>2, <2>1
  <1>5. Tail(s) = <<>> <=> Len(s) = 1
    <2>1. Tail(s) = <<>> => Len(Tail(s)) = 0
      BY EmptySeq
    <2>2. Tail(s) # <<>> => Len(Tail(s)) \in Nat \ {0}
      BY <1>1, EmptySeq
    <2> QED
      BY <1>1, <2>1, <2>2
  <1>6. Head(s) = s[1] /\ 1 \in 1 .. Len(s)
    BY <1>1
  <1> QED
    BY <1>1, <1>2, <1>3, <1>4, <1>5, <1>6

\* The shape of a call is kept when it goes on.
LEMMA ShapeKept ==
    ASSUME CallsTyped, CallsFit, NEW a \in Actors, NEW n, call' = [call EXCEPT ![a] = n],
           CallShape(n), a = "other" => n.half \notin Halves
    PROVE  CallsFit'
  BY DEF CallsTyped, CallsFit, Actors

LEMMA NoCallShape == CallShape(NoCall) /\ NoCall.half \notin Halves
  <1>1. NoCall.ops = <<>> /\ NoCall.rest = <<>> /\ NoCall.half \notin Halves
    BY DEF NoCall, Halves
  <1>2. 1 .. Len(<<>>) = {}
    BY EmptySeq
  <1> QED
    BY <1>1, <1>2 DEF CallShape

LEMMA ShapeGoOn ==
    ASSUME CallsTyped, CallsFit, NEW a \in Actors, call[a] # NoCall, NEW ops, NEW to,
           ops = Tail(call[a].ops) \/ ops = <<>>, GoOn(a, call[a], ops, to)
    PROVE  CallsFit'
  <1> DEFINE c == call[a]
             N(o, q) == [ops |-> o, rest |-> q, yes |-> to, no |-> c.no, half |-> c.half, arg |-> c.arg]
  <1>1. c.ops \in Seq(Access) /\ c.ops # <<>> /\ CallShape(c)
    BY HeadTyped DEF CallsFit
  <1>2. a = "other" => c.half \notin Halves
    BY DEF CallsFit
  <1>3. 1 .. Len(<<>>) = {}
    BY EmptySeq
  <1> HIDE DEF c
  <1>4. CASE call' = [call EXCEPT ![a] = N(ops, c.rest)] /\ ops # <<>>
    <2>1. ops = Tail(c.ops)
      BY <1>4 DEF c
    <2>2. /\ Len(c.ops) \in Nat /\ Len(ops) = Len(c.ops) - 1
          /\ \A i \in 1 .. Len(ops) : ops[i] = c.ops[i + 1] /\ i + 1 \in 1 .. Len(c.ops)
      BY <1>1, <2>1, TailOf
    <2>3. CallShape(N(ops, c.rest))
      <3>1. CASE c.half \notin Halves
        BY <1>1, <2>2, <3>1 DEF CallShape
      <3>2. CASE c.half \in Halves
        <4>1. SetShape(c.half, c)
          BY <1>1, <3>2 DEF CallShape
        <4>2. ASSUME NEW i \in 1 .. Len(ops)
              PROVE  \/ ops[i] = Write(Status[c.half], None)
                     \/ ops[i] = Write(Status[c.half], Done) /\ i = Len(ops)
                     \/ \E f \in FieldsOf(c.half) : ops[i] = [file |-> f, text |-> Want(f, c.arg)]
          <5>1. ops[i] = c.ops[i + 1] /\ i + 1 \in 1 .. Len(c.ops)
            BY <2>2
          <5>2. i + 1 = Len(c.ops) => i = Len(ops)
            BY <2>2
          <5> QED
            BY <4>1, <5>1, <5>2 DEF SetShape
        <4>3. ops[Len(ops)] = Write(Status[c.half], Done)
          <5>1. Len(ops) \in 1 .. Len(ops) /\ Len(ops) + 1 = Len(c.ops)
            <6>1. Len(ops) \in Nat \ {0}
              BY <1>1, <1>4, <2>1, EmptySeq, HeadTailProperties
            <6>2. Len(c.ops) \in Nat /\ Len(ops) = Len(c.ops) - 1
              BY <2>2
            <6>3. \A k \in Nat \ {0}, m \in Nat : k = m - 1 => k \in 1 .. k /\ k + 1 = m
              OBVIOUS
            <6> QED
              BY <6>1, <6>2, <6>3
          <5> QED
            BY <2>2, <4>1, <5>1 DEF SetShape
        <4>4. SetShape(c.half, N(ops, c.rest))
          BY <4>1, <4>2, <4>3 DEF SetShape
        <4> QED
          BY <3>2, <4>4 DEF CallShape
      <3> QED
        BY <3>1, <3>2
    <2> QED
      BY <1>2, <1>4, <2>3, ShapeKept
  <1>5. CASE call' = [call EXCEPT ![a] = N(c.rest, <<>>)] /\ c.rest # <<>>
    <2>1. c.half \notin Halves
      BY <1>1, <1>5 DEF CallShape, SetShape
    <2>2. CallShape(N(c.rest, <<>>))
      BY <1>1, <1>3, <2>1 DEF CallShape
    <2> QED
      BY <1>2, <1>5, <2>2, ShapeKept
  <1>6. CASE call' = [call EXCEPT ![a] = NoCall]
    BY <1>6, NoCallShape, ShapeKept
  <1> QED
    BY <1>4, <1>5, <1>6, GoOnCases DEF c

\* The set of the main task, at its next access.
LEMMA SetOp ==
    ASSUME NvTyped, WholeInv, call["main"].half \in Halves
    PROVE  LET c == call["main"]
               h == c.half
               op == Head(c.ops)
           IN  /\ h \in Halves /\ c.rest = <<>> /\ c.arg \in Provs /\ call["main"] # NoCall
               /\ op # Write(Status[h], Done) => Tail(c.ops) # <<>>
               /\ \/ op = Write(Status[h], None)
                  \/ /\ op = Write(Status[h], Done) /\ Tail(c.ops) = <<>>
                     /\ flash[Status[h]] # <<Done>> /\ \A f \in FieldsOf(h) : Stored(f, c.arg)
                  \/ /\ flash[Status[h]] # <<Done>>
                     /\ \E f \in FieldsOf(h) : op = [file |-> f, text |-> Want(f, c.arg)]
  <1> DEFINE c == call["main"]
             h == c.half
             op == Head(c.ops)
  <1>1. c # NoCall /\ c \in Calls
    BY NoCallShape DEF NvTyped, CallsTyped, Actors
  <1>2. h \in Halves /\ c.arg \in Provs
    BY <1>1 DEF Calls
  <1>3. c.ops \in Seq(Access) /\ c.ops # <<>>
    BY <1>1, HeadTyped DEF NvTyped, Actors
  <1>4. op = c.ops[1] /\ 1 \in 1 .. Len(c.ops) /\ Len(c.ops) \in Nat /\ (Tail(c.ops) = <<>> <=> Len(c.ops) = 1)
    BY <1>3, TailOf
  <1>5. SetShape(h, c)
    BY DEF WholeInv, CallsFit, CallShape, Actors
  <1>6. /\ flash[Status[h]] = <<Done>> => op = Write(Status[h], None)
        /\ \A f \in FieldsOf(h) : Stored(f, c.arg) \/ \E i \in 1 .. Len(c.ops) : c.ops[i].file = f
    BY <1>4 DEF WholeInv, SetFits
  <1>7. \A f \in FieldsOf(h) : Status[h] # f
    BY <1>2, FileFacts DEF Halves
  <1> HIDE DEF c, h, op
  <1>t. op # Write(Status[h], Done) => Tail(c.ops) # <<>>
    <2>1. c.ops[Len(c.ops)] = Write(Status[h], Done)
      BY <1>5 DEF SetShape
    <2> QED
      BY <1>4, <2>1
  <1>8. CASE op = Write(Status[h], Done) /\ 1 = Len(c.ops)
    <2>1. op.file = Status[h]
      BY <1>8 DEF Write
    <2>2. \A i \in 1 .. Len(c.ops) : c.ops[i] = op
      <3>1. 1 = Len(c.ops)
        BY <1>8, Zenon
      <3>2. ASSUME NEW i \in 1 .. Len(c.ops) PROVE i = 1
        <4>1. 1 .. Len(c.ops) = 1 .. 1
          BY <3>1
        <4> QED
          BY <4>1
      <3> QED
        BY <1>4, <3>2
    <2>3. \A f \in FieldsOf(h) : Stored(f, c.arg)
      BY <1>6, <1>7, <2>1, <2>2
    <2>4. op # Write(Status[h], None)
      BY <1>8, DoneTyped DEF Write
    <2> QED
      BY <1>1, <1>2, <1>t, <1>4, <1>5, <1>6, <1>8, <2>3, <2>4 DEF SetShape, c, h, op
  <1>9. ASSUME NEW f \in FieldsOf(h), op = [file |-> f, text |-> Want(f, c.arg)]
        PROVE  op # Write(Status[h], None)
    BY <1>7, <1>9 DEF Write
  <1> QED
    BY <1>1, <1>2, <1>t, <1>4, <1>5, <1>6, <1>8, <1>9 DEF SetShape, c, h, op

\* It goes on to the next access.
LEMMA SetAdvances ==
    ASSUME NvTyped, WholeInv, call["main"].half \in Halves, NEW to,
           GoOn("main", call["main"], Tail(call["main"].ops), to), port' = port,
           NEW x, x = call["main"].arg, NEW file, file = Head(call["main"].ops).file,
           \A f \in FieldsOf(call["main"].half) :
              IF f = file THEN Stored(f, x)'
              ELSE flash'[f] = flash[f] /\ (f \in spoiled => f \in spoiled'),
           Tail(call["main"].ops) # <<>> => flash'[Status[call["main"].half]] # <<Done>>
    PROVE  SetFits'
  <1>1. PICK c : c = call["main"]
    OBVIOUS
  <1>2. c.ops \in Seq(Access) /\ c.ops # <<>> /\ c.rest = <<>> /\ c.half \in Halves
    BY <1>1, SetOp, HeadTyped DEF NvTyped, Actors
  <1>3. CASE Tail(c.ops) = <<>>
    <2>1. call'["main"] = NoCall
      BY <1>1, <1>2, <1>3, GoOnCases DEF NvTyped, CallsTyped, Actors
    <2> QED
      BY <2>1, NoCallShape DEF SetFits
  <1>4. CASE Tail(c.ops) # <<>>
    <2> DEFINE n == [ops |-> Tail(c.ops), rest |-> c.rest, yes |-> to, no |-> c.no,
                     half |-> c.half, arg |-> c.arg]
    <2>1. call'["main"] = n
      <3>1. call' = [call EXCEPT !["main"] = n]
        BY <1>1, <1>4, GoOnCases
      <3> HIDE DEF n
      <3>2. "main" \in DOMAIN call
        BY DEF NvTyped, CallsTyped, Actors
      <3> QED
        BY <3>1, <3>2
    <2>2. n.ops = Tail(c.ops) /\ n.half = c.half /\ n.arg = x
      BY <1>1
    <2> HIDE DEF n
    <2>3. ASSUME NEW f \in FieldsOf(c.half)
          PROVE  Stored(f, x)' \/ \E i \in 1 .. Len(Tail(c.ops)) : Tail(c.ops)[i].file = f
      <3>1. CASE f = file
        BY <1>1, <3>1
      <3>2. CASE f # file /\ Stored(f, x)
        BY <1>1, <3>2, StoredKept
      <3>3. CASE f # file /\ \E i \in 1 .. Len(c.ops) : c.ops[i].file = f
        <4>1. PICK i \in 1 .. Len(c.ops) : c.ops[i].file = f
          BY <3>3
        <4>2. i # 1
          BY <1>1, <1>2, <3>3, <4>1, TailOf
        <4>3. i - 1 \in 1 .. Len(Tail(c.ops)) /\ Tail(c.ops)[i - 1] = c.ops[i]
          BY <1>2, <4>2, TailOf
        <4> QED
          BY <4>1, <4>3
      <3>4. Stored(f, x) \/ \E i \in 1 .. Len(c.ops) : c.ops[i].file = f
        BY <1>1, <1>2 DEF WholeInv, SetFits
      <3> QED
        BY <3>1, <3>2, <3>3, <3>4
    <2>4. flash'[Status[c.half]] # <<Done>>
      BY <1>1, <1>4
    <2> QED
      BY <2>1, <2>2, <2>3, <2>4 DEF SetFits, Stored
  <1> QED
    BY <1>3, <1>4

\* What a successful access does to the files.
LEMMA DoneEffect ==
    ASSUME NvTyped, NEW a \in Actors, OpDone(a)
    PROVE  LET op == Head(call[a].ops)
           IN  /\ op \in Access /\ op.file \in Files /\ port' = port /\ media' = media
               /\ \A g \in Files : g # op.file =>
                     flash'[g] = flash[g] /\ (g \in spoiled <=> g \in spoiled')
               /\ flash'[op.file] = op.text \/ op.file \in spoiled'
               /\ op.text = <<>> => flash'[op.file] = <<>>
               /\ \A t \in Seq(Nat) : op.text = <<t>> /\ Len(t) = Size(op.file) =>
                     flash'[op.file] = <<t>>
  <1> DEFINE op == Head(call[a].ops)
             old == flash[op.file]
             new == _iot_security_be_bsp_fs_store_to_nv(old, op.text[1])
             tail == port = "posix" /\ op.text # <<>> /\ old # <<>> /\ Len(old[1]) > Len(op.text[1])
  <1>1. op \in Access
    BY HeadTyped DEF OpDone, NvTyped
  <1>2. /\ flash' = [flash EXCEPT ![op.file] = IF op.text = <<>> THEN <<>> ELSE new]
        /\ spoiled' = IF tail THEN spoiled \cup {op.file} ELSE spoiled \ {op.file}
        /\ port' = port /\ media' = media
    BY DEF OpDone
  <1>3. FlashTyped /\ op.file \in Files
    BY <1>1, AccessOfFile DEF NvTyped
  <1> HIDE DEF op, old, new, tail
  <1>4. flash'[op.file] = IF op.text = <<>> THEN <<>> ELSE new
    BY <1>2, <1>3 DEF FlashTyped
  <1>5. ASSUME op.text # <<>>
        PROVE  /\ op.text = <<op.text[1]>> /\ op.text[1] \in Seq(Nat)
               /\ ~ tail => new = op.text
               /\ Len(op.text[1]) = Size(op.file) => ~ tail
    <2>1. /\ op.text = <<op.text[1]>> /\ op.text[1] \in Seq(Nat)
          /\ Len(op.text[1]) <= Size(op.file)
      BY <1>1, <1>3, <1>5, AccessOfFile
    <2>2. old \in Seq(Seq(Nat)) /\ Content(op.file, old)
      BY <1>1, <1>3, AccessOfFile DEF old
    <2>3. port \in {"posix", "esp32", "bl602"}
      BY <1>3 DEF FlashTyped
    <2>4. port # "posix" \/ old = <<>> \/ Len(old[1]) <= Len(op.text[1]) => new = <<op.text[1]>>
      BY <2>1, <2>2, <2>3, StoredInFile DEF new
    <2>5. old # <<>> => Len(old[1]) \in Nat /\ Len(old[1]) <= Size(op.file)
      BY <2>2, LenProperties DEF Content
    <2>6. Len(op.text[1]) \in Nat
      BY <2>1, LenProperties
    <2>7. ~ tail => port # "posix" \/ old = <<>> \/ Len(old[1]) <= Len(op.text[1])
      BY <1>5, <2>5, <2>6 DEF tail
    <2>8. Len(op.text[1]) = Size(op.file) => ~ tail
      BY <2>5, <2>6 DEF tail
    <2> QED
      BY <2>1, <2>4, <2>7, <2>8
  <1>6. flash'[op.file] = op.text \/ op.file \in spoiled'
    BY <1>2, <1>4, <1>5
  <1>7. ASSUME NEW t \in Seq(Nat), op.text = <<t>>, Len(t) = Size(op.file)
        PROVE  flash'[op.file] = <<t>>
    <2>1. op.text # <<>> /\ op.text[1] = t
      BY <1>7
    <2> QED
      BY <1>4, <1>5, <1>7, <2>1
  <1>8. \A g \in Files : g # op.file =>
            flash'[g] = flash[g] /\ (g \in spoiled <=> g \in spoiled')
    BY <1>2, <1>3 DEF FlashTyped
  <1> QED
    BY <1>1, <1>2, <1>3, <1>4, <1>6, <1>7, <1>8 DEF op

\* A status that is written.
LEMMA StatusDone ==
    ASSUME NvTyped, NEW a \in Actors, OpDone(a), NEW h \in Halves, NEW t \in {None, Done},
           Head(call[a].ops) = Write(Status[h], t)
    PROVE  flash'[Status[h]] = <<t>>
  <1> DEFINE op == Head(call[a].ops)
  <1>1. op.file = Status[h] /\ op.text = <<t>>
    BY DEF Write
  <1>2. Size(Status[h]) = 1
    BY FileFacts DEF Size, Halves
  <1>3. t \in Seq(Nat) /\ Len(t) = 1
    BY DoneTyped
  <1> HIDE DEF op
  <1> QED
    BY <1>1, <1>2, <1>3, DoneEffect DEF op

LEMMA FileKinds ==
    /\ \A h \in Halves : Status[h] \in Files /\ FieldsOf(h) \subseteq Files
    /\ \A h \in Halves : FieldsOf(h) \subseteq FieldsOf("wifi") \cup FieldsOf("cloud")
    /\ \A g, h \in Halves : \A f \in FieldsOf(h) : f # Status[g] /\ f # "id" /\ Status[g] # "id"
    /\ \A g, h \in Halves : g # h => Status[g] # Status[h] /\ \A f \in FieldsOf(h) : f \notin FieldsOf(g)
  BY FileFacts DEF Halves

LEMMA WriteIs ==
    \A f, t : Write(f, t).file = f /\ Write(f, t).text = <<t>> /\ Write(f, t).text # <<>>
  BY DEF Write

\* An access outside a set.
LEMMA PlainOp ==
    ASSUME NvTyped, CallsFit, NEW a \in Actors, call[a] # NoCall, call[a].half \notin Halves
    PROVE  LET op == Head(call[a].ops)
           IN  op.file = "id" \/ \E h \in Halves : op = Write(Status[h], None)
  <1> DEFINE op == Head(call[a].ops)
  <1>1. call[a].ops \in Seq(Access) /\ call[a].ops # <<>>
    BY HeadTyped DEF NvTyped
  <1>2. op = call[a].ops[1] /\ 1 \in 1 .. Len(call[a].ops)
    BY <1>1, TailOf
  <1>3. Plain(op)
    BY <1>2 DEF CallsFit, CallShape
  <1> QED
    BY <1>3, FileFacts DEF Plain, Halves

LEMMA PlainStep ==
    ASSUME NvTyped, WholeInv, NEW a \in Actors, call[a] # NoCall, call[a].half \notin Halves,
           NEW ops, ops = Tail(call[a].ops) \/ ops = <<>>, NEW to, GoOn(a, call[a], ops, to),
           port' = port, given' = given,
           \A g \in Files : g # Head(call[a].ops).file =>
              flash'[g] = flash[g] /\ (g \in spoiled => g \in spoiled'),
           \A h \in Halves : flash'[Status[h]] = <<Done>> => flash[Status[h]] = <<Done>>
    PROVE  WholeInv'
  <1> DEFINE op == Head(call[a].ops)
  <1>1. CallsFit'
    <2>1. CallsTyped /\ CallsFit
      BY DEF NvTyped, WholeInv
    <2> QED
      BY <2>1, ShapeGoOn
  <1>2. op.file = "id" \/ \E h \in Halves : op.file = Status[h]
    <2>1. op.file = "id" \/ \E h \in Halves : op = Write(Status[h], None)
      BY PlainOp DEF WholeInv
    <2> QED
      BY <2>1, WriteIs
  <1> HIDE DEF op
  <1>3. \A f \in FieldsOf("wifi") \cup FieldsOf("cloud") :
           flash'[f] = flash[f] /\ (f \in spoiled => f \in spoiled')
    BY <1>2, FileFacts, FileKinds DEF Halves, op
  <1>4. HalvesAreWhole'
    BY <1>3, FileKinds, WholeKept DEF WholeInv
  <1>5. SetFits'
    <2>1. CASE a = "main"
      <3>1. call'["main"].half \notin Halves
        <4>1. "main" \in DOMAIN call
          BY DEF NvTyped, CallsTyped, Actors
        <4>2. \E n : call' = [call EXCEPT !["main"] = n] /\ n.half \notin Halves
          BY <2>1, GoOnCases, NoCallShape
        <4> QED
          BY <4>1, <4>2
      <3> QED
        BY <3>1 DEF SetFits
    <2>2. CASE a # "main"
      <3>1. call'["main"] = call["main"]
        BY <2>2, GoOnCases DEF NvTyped, CallsTyped, Actors
      <3> QED
        BY <1>3, <3>1, FitsKept DEF WholeInv
    <2> QED
      BY <2>1, <2>2
  <1> QED
    BY <1>1, <1>4, <1>5 DEF WholeInv

LEMMA PlainDone ==
    ASSUME NvTyped, WholeInv, NEW a \in Actors, OpDone(a), call[a].half \notin Halves
    PROVE  WholeInv'
  <1> DEFINE op == Head(call[a].ops)
  <1>1. /\ call[a] # NoCall /\ given' = given
        /\ GoOn(a, call[a], Tail(call[a].ops), call[a].yes)
    <2>1. call[a].half \in Halves \cup {""}
      BY DEF NvTyped, CallsTyped, Calls
    <2>2. call[a].half = ""
      BY <2>1
    <2> QED
      BY <2>2 DEF OpDone
  <1>2. op.file = "id" \/ \E h \in Halves : op.file = Status[h] /\ flash'[Status[h]] = <<None>>
    <2>1. ASSUME NEW h \in Halves, op = Write(Status[h], None)
          PROVE  op.file = Status[h] /\ flash'[Status[h]] = <<None>>
      <3>1. op.file = Status[h]
        BY <2>1 DEF Write
      <3> QED
        BY <2>1, <3>1, StatusDone
    <2> QED
      BY <1>1, <2>1, PlainOp DEF WholeInv
  <1>3. /\ port' = port /\ \A g \in Files : g # op.file =>
              flash'[g] = flash[g] /\ (g \in spoiled => g \in spoiled')
    BY DoneEffect
  <1>4. <<None>> # <<Done>>
    BY DoneTyped
  <1>5. ASSUME NEW h \in Halves, flash'[Status[h]] = <<Done>> PROVE flash[Status[h]] = <<Done>>
    <2> HIDE DEF op
    <2>1. Status[h] # op.file
      BY <1>2, <1>4, <1>5, FileFacts DEF Halves
    <2> QED
      BY <1>3, <1>5, <2>1, FileKinds
  <1> QED
    BY <1>1, <1>3, <1>5, PlainStep

\* An access of a set succeeds.
LEMMA SetDone ==
    ASSUME NvTyped, NvTyped', WholeInv, OpDone("main"), call["main"].half \in Halves
    PROVE  WholeInv'
  <1>1. PICK c : c = call["main"]
    OBVIOUS
  <1> DEFINE h == c.half
             x == c.arg
             op == Head(c.ops)
  <1>2. /\ c # NoCall /\ GoOn("main", call["main"], Tail(call["main"].ops), call["main"].yes)
        /\ given' = IF op = Write(Status[h], Done) THEN [given EXCEPT ![h] = x] ELSE given
    <2>1. call["main"].half # ""
      BY DEF Halves
    <2> QED
      BY <1>1, <2>1 DEF OpDone
  <1>3. CallsFit'
    <2>1. CallsTyped /\ CallsFit /\ "main" \in Actors
      BY DEF NvTyped, WholeInv, Actors
    <2> QED
      BY <1>1, <1>2, <2>1, ShapeGoOn
  <1>4. /\ h \in Halves /\ x \in Provs
        /\ \/ op = Write(Status[h], None)
           \/ /\ op = Write(Status[h], Done) /\ Tail(c.ops) = <<>>
              /\ \A f \in FieldsOf(h) : Stored(f, x)
           \/ /\ flash[Status[h]] # <<Done>>
              /\ \E f \in FieldsOf(h) : op = [file |-> f, text |-> Want(f, x)]
    BY <1>1, SetOp
  <1>5. /\ port' = port /\ op.file \in Files
        /\ \A g \in Files : g # op.file =>
              flash'[g] = flash[g] /\ (g \in spoiled <=> g \in spoiled')
        /\ flash'[op.file] = op.text \/ op.file \in spoiled'
    BY <1>1, DoneEffect DEF Actors
  <1>6. \A t \in {None, Done} : op = Write(Status[h], t) => op.file = Status[h] /\ flash'[Status[h]] = <<t>>
    <2> SUFFICES ASSUME NEW t \in {None, Done}, op = Write(Status[h], t)
                 PROVE  op.file = Status[h] /\ flash'[Status[h]] = <<t>>
      OBVIOUS
    <2>1. op.file = Status[h]
      BY DEF Write
    <2>2. Head(call["main"].ops) = Write(Status[h], t) /\ "main" \in Actors
      BY <1>1 DEF Actors
    <2> HIDE DEF h, op
    <2> QED
      BY <1>4, <2>1, <2>2, StatusDone
  <1>7. <<None>> # <<Done>> /\ Write(Status[h], None) # Write(Status[h], Done)
    BY DoneTyped DEF Write
  <1>8. HalvesAreWhole
    BY DEF WholeInv
  <1>9. ASSUME NEW file, file = op.file,
               \A f \in FieldsOf(h) : IF f = file THEN Stored(f, x)'
                  ELSE flash'[f] = flash[f] /\ (f \in spoiled => f \in spoiled'),
               Tail(c.ops) # <<>> => flash'[Status[h]] # <<Done>>
        PROVE  SetFits'
    <2>1. /\ call["main"].half = h /\ x = call["main"].arg /\ file = Head(call["main"].ops).file
          /\ call["main"].ops = c.ops /\ port' = port
      BY <1>1, <1>5, <1>9
    <2> HIDE DEF h, x, op
    <2> QED
      BY <1>2, <1>9, <2>1, SetAdvances
  <1> HIDE DEF h, x, op
  <1>10. CASE op = Write(Status[h], None)
    <2>1. op.file = Status[h] /\ flash'[Status[h]] = <<None>> /\ given' = given
      BY <1>2, <1>6, <1>7, <1>10
    <2>2. \A g \in Halves : \A f \in FieldsOf(g) :
             f # op.file /\ flash'[f] = flash[f] /\ (f \in spoiled => f \in spoiled')
      BY <1>4, <1>5, <2>1, FileKinds
    <2>3. \A g \in Halves : flash'[Status[g]] = <<Done>> => flash[Status[g]] = <<Done>>
      BY <1>4, <1>5, <1>7, <2>1, FileKinds
    <2>4. HalvesAreWhole'
      BY <1>5, <1>8, <2>1, <2>2, <2>3, WholeKept
    <2>5. SetFits'
      BY <1>4, <1>7, <1>9, <2>1, <2>2
    <2> QED
      BY <1>3, <2>4, <2>5 DEF WholeInv
  <1>11. CASE op = Write(Status[h], Done) /\ Tail(c.ops) = <<>> /\ \A f \in FieldsOf(h) : Stored(f, x)
    <2>1. op.file = Status[h] /\ flash'[Status[h]] = <<Done>> /\ given' = [given EXCEPT ![h] = x]
      BY <1>2, <1>6, <1>11
    <2>2. \A g \in Halves : \A f \in FieldsOf(g) :
             f # op.file /\ flash'[f] = flash[f] /\ (f \in spoiled => f \in spoiled')
      BY <1>4, <1>5, <2>1, FileKinds
    <2>3. ASSUME NEW f \in FieldsOf(h) PROVE Stored(f, x)'
      BY <1>4, <1>5, <1>11, <2>2, StoredKept
    <2>4. given'[h] = x /\ \A g \in Halves : g # h => given'[g] = given[g]
      BY <1>4, <2>1 DEF NvTyped, ProvTyped
    <2>5. HalfIsWhole(h)'
      BY <2>3, <2>4 DEF HalfIsWhole, Stored
    <2>6. ASSUME NEW g \in Halves, g # h PROVE HalfIsWhole(g)'
      <3>1. flash'[Status[g]] = flash[Status[g]]
        BY <1>4, <1>5, <2>1, <2>6, FileKinds
      <3>2. PICK y : y = given[g]
        OBVIOUS
      <3>3. ASSUME flash'[Status[g]] = <<Done>>, NEW f \in FieldsOf(g) PROVE Stored(f, y)'
        <4>1. Stored(f, y)
          BY <1>8, <3>1, <3>2, <3>3 DEF HalvesAreWhole, HalfIsWhole
        <4> QED
          BY <1>5, <2>2, <4>1, StoredKept
      <3>4. given'[g] = y
        BY <2>4, <2>6, <3>2
      <3> QED
        BY <3>3, <3>4 DEF HalfIsWhole, Stored
    <2>7. HalvesAreWhole'
      <3>1. \A g \in Halves : HalfIsWhole(g)'
        BY <2>5, <2>6
      <3> QED
        BY <3>1 DEF HalvesAreWhole
    <2>8. SetFits'
      BY <1>4, <1>9, <1>11, <2>2
    <2> QED
      BY <1>3, <2>7, <2>8 DEF WholeInv
  <1>12. ASSUME flash[Status[h]] # <<Done>>, NEW f \in FieldsOf(h),
                op = [file |-> f, text |-> Want(f, x)]
         PROVE  WholeInv'
    <2>1. op.file = f /\ op.text = Want(f, x) /\ op # Write(Status[h], Done)
      BY <1>4, <1>12, FileKinds DEF Write
    <2>2. given' = given /\ \A g \in Halves : flash'[Status[g]] = flash[Status[g]]
      BY <1>2, <1>4, <1>5, <2>1, FileKinds
    <2>3. \A g \in Halves : \A k \in FieldsOf(g) : g # h \/ k # f =>
             flash'[k] = flash[k] /\ (k \in spoiled => k \in spoiled')
      BY <1>4, <1>5, <2>1, FileKinds
    <2>4. HalvesAreWhole'
      BY <1>5, <1>8, <1>12, <2>2, <2>3, WholeKept
    <2>5. Stored(f, x)'
      <3>1. f \in FieldsOf("wifi") \cup FieldsOf("cloud")
        BY <1>4, FileKinds
      <3>2. FlashTyped'
        BY DEF NvTyped
      <3>3. ReadAsWanted'
        BY <3>2, StoredOf, PTL
      <3>4. CASE flash'[f] = Want(f, x)
        BY <1>4, <3>1, <3>3, <3>4 DEF ReadAsWanted
      <3>5. CASE f \in spoiled'
        BY <3>5 DEF Stored
      <3> QED
        BY <1>5, <2>1, <3>4, <3>5
    <2>6. SetFits'
      BY <1>4, <1>9, <1>12, <2>1, <2>2, <2>3, <2>5
    <2> QED
      BY <1>3, <2>4, <2>6 DEF WholeInv
  <1> QED
    BY <1>4, <1>10, <1>11, <1>12

\* A write that is cut short.
LEMMA TornEffect ==
    ASSUME NvTyped, NEW op \in Access, op.text # <<>>,
           NEW x \in Torn(flash[op.file], op.text[1], Len(op.text[1]) - 1),
           flash' = [flash EXCEPT ![op.file] = x]
    PROVE  /\ \A g \in Files : g # op.file => flash'[g] = flash[g]
           /\ \A h \in Halves : flash'[Status[h]] = <<Done>> => flash[Status[h]] = <<Done>>
  <1>1. FlashTyped /\ op.file \in Files /\ DOMAIN flash = Files
    BY AccessOfFile DEF NvTyped, FlashTyped
  <1>2. \A g \in Files : g # op.file => flash'[g] = flash[g]
    BY <1>1
  <1>3. Size(op.file) = 1 => x \in {flash[op.file], <<(<<>>)>>}
    BY <1>1, AccessOfFile, TornFile
  <1>4. \A h \in Halves : Size(Status[h]) = 1
    BY FileFacts DEF Size, Halves
  <1>5. <<(<<>>)>> # <<Done>>
    BY DoneTyped
  <1>6. ASSUME NEW h \in Halves, flash'[Status[h]] = <<Done>> PROVE flash[Status[h]] = <<Done>>
    <2>1. CASE op.file = Status[h]
      BY <1>1, <1>3, <1>4, <1>5, <1>6, <2>1
    <2>2. CASE op.file # Status[h]
      BY <1>2, <1>6, <2>2, FileKinds
    <2> QED
      BY <2>1, <2>2
  <1> QED
    BY <1>2, <1>6

LEMMA TornWhole ==
    ASSUME NvTyped, WholeInv, NEW a \in Actors, call[a] # NoCall,
           port' = port, given' = given, spoiled' = spoiled,
           \A g \in Files : g # Head(call[a].ops).file => flash'[g] = flash[g],
           \A h \in Halves : flash'[Status[h]] = <<Done>> => flash[Status[h]] = <<Done>>
    PROVE  HalvesAreWhole'
  <1> DEFINE op == Head(call[a].ops)
  <1>1. CASE call[a].half \notin Halves
    <2>1. op.file = "id" \/ \E h \in Halves : op.file = Status[h]
      <3>1. op.file = "id" \/ \E h \in Halves : op = Write(Status[h], None)
        BY <1>1, PlainOp DEF WholeInv
      <3> QED
        BY <3>1, WriteIs
    <2> HIDE DEF op
    <2>2. \A h \in Halves : \A f \in FieldsOf(h) : flash'[f] = flash[f]
      BY <2>1, FileKinds DEF op
    <2> QED
      BY <2>2, WholeKept DEF WholeInv
  <1>2. CASE call[a].half \in Halves
    <2> DEFINE h == call[a].half
    <2>1. a = "main"
      BY <1>2 DEF WholeInv, CallsFit, Actors
    <2>2. \/ op.file = Status[h]
          \/ flash[Status[h]] # <<Done>> /\ op.file \in FieldsOf(h)
      <3>1. \/ \E t : op = Write(Status[h], t)
            \/ /\ flash[Status[h]] # <<Done>>
               /\ \E f \in FieldsOf(h) : op = [file |-> f, text |-> Want(f, call[a].arg)]
        BY <1>2, <2>1, SetOp
      <3> HIDE DEF op, h
      <3>2. \A f \in FieldsOf(h) : op = [file |-> f, text |-> Want(f, call[a].arg)] => op.file = f
        OBVIOUS
      <3> QED
        BY <3>1, <3>2, WriteIs
    <2>3. h \in Halves
      BY <1>2
    <2> HIDE DEF op, h
    <2>4. ASSUME NEW g \in Halves, flash'[Status[g]] = <<Done>>, NEW f \in FieldsOf(g)
          PROVE  flash'[f] = flash[f]
      <3>1. f # op.file
        BY <2>2, <2>3, <2>4, FileKinds
      <3> QED
        BY <3>1, FileKinds DEF op
    <2> QED
      BY <2>4, WholeKept DEF WholeInv
  <1> QED
    BY <1>1, <1>2

\* An access fails.
LEMMA FailsWhole ==
    ASSUME NvTyped, NvTyped', WholeInv, NEW a \in Actors, OpFails(a)
    PROVE  WholeInv'
  <1> DEFINE op == Head(call[a].ops)
  <1>1. call[a] # NoCall /\ port' = port /\ given' = given
    BY DEF OpFails
  <1>2. op \in Access
    BY <1>1, HeadTyped DEF NvTyped
  <1>e. CallsTyped /\ CallsFit
    BY DEF NvTyped, WholeInv
  <1>3. CASE op.text = <<>>
    <2>1. /\ op.text # <<(<<>>)>> /\ flash' = flash /\ spoiled' = spoiled \cup {op.file}
          /\ GoOn(a, call[a], Tail(call[a].ops), call[a].yes)
      <3>1. <<>> # <<(<<>>)>>
        OBVIOUS
      <3> QED
        BY <1>3, <3>1 DEF OpFails, Refused
    <2>2. CASE call[a].half \notin Halves
      BY <1>1, <2>1, <2>2, PlainStep
    <2>3. CASE call[a].half \in Halves
      <3>1. a = "main"
        BY <2>3 DEF WholeInv, CallsFit, Actors
      <3>2. PICK c : c = call["main"]
        OBVIOUS
      <3> DEFINE h == c.half
                 x == c.arg
      <3>3. /\ h \in Halves /\ flash[Status[h]] # <<Done>>
            /\ \E f \in FieldsOf(h) : op = [file |-> f, text |-> Want(f, x)]
        <4>1. \A t : op # Write(Status[h], t)
          BY <1>3, WriteIs
        <4> QED
          BY <2>3, <3>1, <3>2, <4>1, SetOp
      <3>4. CallsFit'
        BY <1>1, <1>e, <2>1, ShapeGoOn
      <3>5. HalvesAreWhole'
        BY <1>1, <2>1, WholeKept DEF WholeInv
      <3>6. PICK f \in FieldsOf(h) : f = op.file
        BY <3>3
      <3>7. Stored(f, x)'
        BY <2>1, <3>6 DEF Stored
      <3>8. SetFits'
        <4>1. /\ call["main"].half = h /\ x = call["main"].arg /\ f = Head(call["main"].ops).file
              /\ GoOn("main", call["main"], Tail(call["main"].ops), call["main"].yes)
          BY <2>1, <3>1, <3>2, <3>6
        <4>2. /\ \A k \in FieldsOf(h) : IF k = f THEN Stored(k, x)'
                    ELSE flash'[k] = flash[k] /\ (k \in spoiled => k \in spoiled')
              /\ flash'[Status[h]] # <<Done>>
          BY <2>1, <3>3, <3>7
        <4> HIDE DEF h, x
        <4> QED
          BY <1>1, <3>3, <4>1, <4>2, SetAdvances
      <3> QED
        BY <3>4, <3>5, <3>8 DEF WholeInv
    <2> QED
      BY <2>2, <2>3
  <1>4. CASE op.text # <<>>
    <2>1. spoiled' = spoiled /\ GoOn(a, call[a], <<>>, call[a].no)
      BY <1>4 DEF OpFails
    <2>2. /\ \A g \in Files : g # op.file => flash'[g] = flash[g]
          /\ \A h \in Halves : flash'[Status[h]] = <<Done>> => flash[Status[h]] = <<Done>>
      <3>1. \/ flash' = flash
            \/ \E x \in Torn(flash[op.file], op.text[1], Len(op.text[1]) - 1) :
                   flash' = [flash EXCEPT ![op.file] = x]
        BY <1>4 DEF OpFails
      <3> HIDE DEF op
      <3> QED
        BY <1>2, <1>4, <3>1, TornEffect
    <2>3. CASE call[a].half \notin Halves
      BY <1>1, <2>1, <2>2, <2>3, PlainStep
    <2>4. CASE call[a].half \in Halves
      <3>1. a = "main"
        BY <2>4 DEF WholeInv, CallsFit, Actors
      <3>2. CallsFit'
        BY <1>1, <1>e, <2>1, ShapeGoOn
      <3>3. HalvesAreWhole'
        BY <1>1, <2>1, <2>2, TornWhole
      <3>4. call'["main"] = NoCall
        <4>1. call["main"].rest = <<>>
          BY <2>4, <3>1, SetOp
        <4>2. call' = [call EXCEPT !["main"] = NoCall]
          BY <2>1, <3>1, <4>1, GoOnCases
        <4> QED
          BY <4>2 DEF NvTyped, CallsTyped, Actors
      <3> QED
        BY <3>2, <3>3, <3>4, NoCallShape DEF WholeInv, SetFits
    <2> QED
      BY <2>3, <2>4
  <1> QED
    BY <1>3, <1>4

\* A call is started, with the files as they were.
LEMMA StartFits ==
    ASSUME NvTyped, WholeInv, UNCHANGED <<port, flash, spoiled, given>>, NEW a \in Actors,
           NEW c, call' = [call EXCEPT ![a] = c], CallShape(c), a = "other" => c.half \notin Halves,
           c.half \in Halves => /\ \A f \in FieldsOf(c.half) :
                                     \E i \in 1 .. Len(c.ops) : c.ops[i].file = f
                                /\ c.ops[1] = Write(Status[c.half], None)
    PROVE  WholeInv'
  <1>1. CallsFit'
    BY ShapeKept DEF NvTyped, WholeInv
  <1>2. HalvesAreWhole'
    BY WholeKept DEF WholeInv
  <1>3. SetFits'
    <2>1. CASE a = "main"
      <3>1. call'["main"] = c
        BY <2>1 DEF NvTyped, CallsTyped
      <3> QED
        BY <3>1 DEF SetFits
    <2>2. CASE a # "main"
      <3>1. call'["main"] = call["main"]
        BY <2>2 DEF NvTyped, CallsTyped, Actors
      <3> QED
        BY <3>1, FitsKept DEF WholeInv
    <2> QED
      BY <2>1, <2>2
  <1> QED
    BY <1>1, <1>2, <1>3 DEF WholeInv

LEMMA SetStarts ==
    ASSUME NvTyped, WholeInv, UNCHANGED <<port, flash, spoiled, given>>,
           NEW h \in Halves, NEW p \in Provs, NEW yes, NEW no, StartSet(h, SetOps(h, p), p, yes, no)
    PROVE  WholeInv'
  <1> DEFINE c == [ops |-> SetOps(h, p), rest |-> <<>>, yes |-> yes, no |-> no, half |-> h, arg |-> p]
  <1>1. call' = [call EXCEPT !["main"] = c]
    BY DEF StartSet
  <1>2. c.ops = SetOps(h, p) /\ c.rest = <<>> /\ c.half = h /\ c.arg = p
    OBVIOUS
  <1> HIDE DEF c
  <1>3. SetShape(h, c)
    BY <1>2, SetOpsAre DEF SetShape
  <1>4. CallShape(c)
    BY <1>2, <1>3 DEF CallShape
  <1>5. /\ \A f \in FieldsOf(h) : \E i \in 1 .. Len(c.ops) : c.ops[i].file = f
        /\ c.ops[1] = Write(Status[h], None)
    BY <1>2, SetOpsAre
  <1>6. "main" \in Actors /\ "main" # "other"
    BY DEF Actors
  <1> QED
    BY <1>1, <1>2, <1>4, <1>5, <1>6, StartFits

LEMMA PlainStarts ==
    ASSUME NvTyped, WholeInv, UNCHANGED <<port, flash, spoiled, given>>, NEW a \in Actors,
           NEW ops, NEW rest, NEW yes, NEW no, Start(a, ops, rest, yes, no),
           \A i \in 1 .. Len(ops) : Plain(ops[i]), \A i \in 1 .. Len(rest) : Plain(rest[i])
    PROVE  WholeInv'
  <1> DEFINE c == [ops |-> ops, rest |-> rest, yes |-> yes, no |-> no, half |-> "", arg |-> NoProv]
  <1>1. call' = [call EXCEPT ![a] = c]
    BY DEF Start
  <1>2. c.ops = ops /\ c.rest = rest /\ c.half \notin Halves
    BY DEF Halves
  <1> HIDE DEF c
  <1>3. CallShape(c)
    BY <1>2 DEF CallShape
  <1> QED
    BY <1>1, <1>2, <1>3, StartFits

LEMMA PlainAre ==
    /\ \A i \in 1 .. Len(iot_nv_erase_prov_data) : Plain(iot_nv_erase_prov_data[i])
    /\ \A i \in 1 .. Len(<<iot_nv_erase("id")>>) : Plain(<<iot_nv_erase("id")>>[i])
    /\ \A g : \A i \in 1 .. Len(iot_nv_set_device_id(g)) : Plain(iot_nv_set_device_id(g)[i])
    /\ \A i \in 1 .. Len(<<>>) : Plain(<<>>[i])
  <1>1. \A i \in 1 .. Len(iot_nv_erase_prov_data) : Plain(iot_nv_erase_prov_data[i])
    <2> DEFINE w == Write("wifiStatus", None)
               z == Write("cloudStatus", None)
    <2>1. Plain(w) /\ Plain(z)
      BY DEF Plain
    <2>2. iot_nv_erase_prov_data = <<w, z>>
      BY DEF iot_nv_erase_prov_data
    <2> HIDE DEF w, z
    <2> QED
      BY <2>1, <2>2
  <1>2. \A i \in 1 .. Len(<<iot_nv_erase("id")>>) : Plain(<<iot_nv_erase("id")>>[i])
    <2>1. Plain(iot_nv_erase("id"))
      BY DEF Plain, iot_nv_erase
    <2> QED
      BY <2>1
  <1>3. ASSUME NEW g
        PROVE  \A i \in 1 .. Len(iot_nv_set_device_id(g)) : Plain(iot_nv_set_device_id(g)[i])
    <2>1. Plain(Write("id", DeviceId(g)))
      BY WriteIs DEF Plain
    <2> QED
      BY <2>1 DEF iot_nv_set_device_id
  <1>4. 1 .. Len(<<>>) = {}
    BY EmptySeq
  <1> QED
    BY <1>1, <1>2, <1>3, <1>4

LEMMA WholeNext ==
    ASSUME NvTyped, NvTyped', WholeInv, [Next]_vars PROVE WholeInv'
  <1>c. cur \in Provs /\ cur' \in Provs
    BY DEF NvTyped, ProvTyped
  <1>h. "wifi" \in Halves /\ "cloud" \in Halves /\ "main" \in Actors /\ "other" \in Actors
    BY DEF Halves, Actors
  <1>1. ASSUME NEW a \in Actors, OpDone(a) PROVE WholeInv'
    <2>1. CASE call[a].half \in Halves
      <3>1. a = "main"
        BY <2>1 DEF WholeInv, CallsFit, Actors
      <3> QED
        BY <1>1, <2>1, <3>1, SetDone
    <2>2. CASE call[a].half \notin Halves
      BY <1>1, <2>2, PlainDone
    <2> QED
      BY <2>1, <2>2
  <1>2. ASSUME NEW a \in Actors, OpFails(a) PROVE WholeInv'
    BY <1>2, FailsWhole
  <1>3. CASE HttpWifi
    <2>1. StartSet("wifi", SetOps("wifi", cur'), cur', "half", "prov")
      BY <1>3, SetCalls DEF HttpWifi
    <2>2. UNCHANGED <<port, flash, spoiled, given>>
      BY <1>3 DEF HttpWifi, NewProv, ghosts
    <2> QED
      BY <1>c, <1>h, <2>1, <2>2, SetStarts
  <1>4. CASE HttpCloud
    <2>1. StartSet("cloud", SetOps("cloud", cur), cur, "put", "prov")
      BY <1>4, SetCalls DEF HttpCloud
    <2>2. UNCHANGED <<port, flash, spoiled, given>>
      BY <1>4 DEF HttpCloud, ghosts
    <2> QED
      BY <1>c, <1>h, <2>1, <2>2, SetStarts
  <1>5. CASE BleCloud
    <2>1. StartSet("cloud", SetOps("cloud", cur'), cur', "reg", "prov")
      BY <1>5, SetCalls DEF BleCloud
    <2>2. UNCHANGED <<port, flash, spoiled, given>>
      BY <1>5 DEF BleCloud, NewProv, ghosts
    <2> QED
      BY <1>c, <1>h, <2>1, <2>2, SetStarts
  <1>6. CASE BleWifi
    <2>1. StartSet("wifi", SetOps("wifi", cur), cur, "run", "run")
      BY <1>6, SetCalls DEF BleWifi
    <2>2. UNCHANGED <<port, flash, spoiled, given>>
      BY <1>6 DEF BleWifi, ghosts
    <2> QED
      BY <1>c, <1>h, <2>1, <2>2, SetStarts
  <1>7. CASE StoreId
    <2> DEFINE to == IF media = "ble" /\ used = <<>> THEN "join" ELSE "run"
    <2>1. Start("main", iot_nv_set_device_id(cur.gen), <<>>, to, to)
      BY <1>7 DEF StoreId
    <2>2. UNCHANGED <<port, flash, spoiled, given>>
      BY <1>7 DEF StoreId, ghosts
    <2> HIDE DEF to
    <2> QED
      BY <1>h, <2>1, <2>2, PlainAre, PlainStarts
  <1>8. CASE BootWithoutData
    <2>1. Start("main", <<iot_nv_erase("id")>>, <<>>, "prov", "prov")
      BY <1>8 DEF BootWithoutData, BootErase
    <2>2. UNCHANGED <<port, flash, spoiled, given>>
      BY <1>8 DEF BootWithoutData, ghosts
    <2> QED
      BY <1>h, <2>1, <2>2, PlainAre, PlainStarts
  <1>9. CASE Cleanup
    <2>1. Start("main", iot_nv_erase_prov_data, <<iot_nv_erase("id")>>, "boot", "boot")
      BY <1>9 DEF Cleanup
    <2>2. UNCHANGED <<port, flash, spoiled, given>>
      BY <1>9 DEF Cleanup, ghosts
    <2> QED
      BY <1>h, <2>1, <2>2, PlainAre, PlainStarts
  <1>10. CASE GattLeave
    <2>1. \E y : Start("other", iot_nv_erase_prov_data, <<iot_nv_erase("id")>>, y, y)
      BY <1>10 DEF GattLeave
    <2>2. UNCHANGED <<port, flash, spoiled, given>>
      BY <1>10 DEF GattLeave, ghosts
    <2> QED
      BY <1>h, <2>1, <2>2, PlainAre, PlainStarts
  <1>11. CASE PowerLoss
    <2>1. call' = [a \in Actors |-> NoCall] /\ UNCHANGED <<port, spoiled, given>>
      BY <1>11 DEF PowerLoss
    <2>2. CallsFit' /\ SetFits'
      BY <1>h, <2>1, NoCallShape DEF CallsFit, SetFits
    <2>3. CASE flash' = flash
      BY <2>1, <2>2, <2>3, WholeKept DEF WholeInv
    <2>4. CASE flash' # flash
      <3>1. PICK a \in Actors :
               /\ call[a] # NoCall /\ Head(call[a].ops).text # <<>>
               /\ \E x \in Torn(flash[Head(call[a].ops).file], Head(call[a].ops).text[1],
                                Len(Head(call[a].ops).text[1]) - 1) :
                     flash' = [flash EXCEPT ![Head(call[a].ops).file] = x]
        BY <1>11, <2>4 DEF PowerLoss
      <3> DEFINE op == Head(call[a].ops)
      <3>2. op \in Access
        BY <3>1, HeadTyped DEF NvTyped
      <3>3. /\ \A g \in Files : g # op.file => flash'[g] = flash[g]
            /\ \A h \in Halves : flash'[Status[h]] = <<Done>> => flash[Status[h]] = <<Done>>
        <4>1. /\ op.text # <<>>
              /\ \E x \in Torn(flash[op.file], op.text[1], Len(op.text[1]) - 1) :
                    flash' = [flash EXCEPT ![op.file] = x]
          BY <3>1
        <4> HIDE DEF op
        <4> QED
          BY <3>2, <4>1, TornEffect
      <3>4. HalvesAreWhole'
        BY <2>1, <3>1, <3>3, TornWhole
      <3> QED
        BY <2>2, <3>4 DEF WholeInv
    <2> QED
      BY <2>3, <2>4
  <1>12. CASE UNCHANGED <<port, flash, spoiled, given, call>>
    <2>1. CallsFit'
      BY <1>12 DEF WholeInv, CallsFit
    <2> QED
      BY <1>12, <2>1, WholeKept, FitsKept DEF WholeInv
  <1> QED
    BY <1>1, <1>2, <1>3, <1>4, <1>5, <1>6, <1>7, <1>8, <1>9, <1>10, <1>11, <1>12
    DEF Next, vars, ghosts, MainStores, OtherStores, MiscRead, MiscWrite, MiscFails, HttpReadBack,
        MainTo, Registered, Rejected, BootWithoutId, BootWithId, BootConnects, BootRegisters,
        ProvEnter

\* WholeInv is an invariant: a set that is under way has every field it did not
\* yet store among the accesses it has left, and DONE is the last of them.
THEOREM WholeInvHolds == Spec => []WholeInv
  <1>1. Init => WholeInv
    <2> SUFFICES ASSUME Init PROVE WholeInv
      OBVIOUS
    <2>1. CallsFit /\ SetFits
      BY NoCallShape DEF Init, CallsFit, SetFits, Actors
    <2>2. <<>> # <<Done>>
      OBVIOUS
    <2>3. \A h \in Halves : flash[Status[h]] = <<>>
      BY FileKinds DEF Init
    <2> QED
      BY <2>1, <2>2, <2>3 DEF WholeInv, HalvesAreWhole, HalfIsWhole
  <1>2. NvTyped /\ NvTyped' /\ WholeInv /\ [Next]_vars => WholeInv'
    BY WholeNext
  <1> QED
    BY <1>1, <1>2, NvTypedHolds, PTL DEF Spec

\* A half whose status says DONE is read back as the iot_nv_set_wifi_prov_data or
\* iot_nv_set_cloud_prov_data that wrote DONE was given it, wherever writes failed
\* and the power went.
THEOREM DoneIsAlwaysWhole == Spec => []DoneIsWhole
  <1>1. NvTyped /\ WholeInv => DoneIsWhole
    <2> SUFFICES ASSUME NvTyped, WholeInv, NEW h \in Halves, IsDone(Status[h], DataSize),
                        NEW f \in FieldsOf(h)
                 PROVE  \/ Get(f) = Want(f, given[h])
                        \/ f \in spoiled
                        \/ port = "bl602" /\ f = "label" /\ Want(f, given[h]) = <<>>
      BY DEF DoneIsWhole
    <2>1. flash[Status[h]] = <<Done>>
      BY DoneOf DEF NvTyped
    <2> QED
      BY <2>1 DEF WholeInv, HalvesAreWhole, HalfIsWhole, Stored
  <1> QED
    BY <1>1, NvTypedHolds, WholeInvHolds, PTL

-----------------------------------------------------------------------------
(* A start connects as provisioned.                                        *)

LEMMA MainGoesOn ==
    ASSUME NvTyped, NEW ops, NEW to, GoOn("main", call["main"], ops, to)
    PROVE  LET c == call["main"]
           IN  /\ call'["other"] = call["other"] /\ (reenter' => reenter)
               /\ \/ /\ ops # <<>> /\ mode' = mode
                     /\ call'["main"] = [ops |-> ops, rest |-> c.rest, yes |-> to, no |-> c.no,
                                         half |-> c.half, arg |-> c.arg]
                  \/ /\ ops = <<>> /\ c.rest # <<>> /\ mode' = mode
                     /\ call'["main"] = [ops |-> c.rest, rest |-> <<>>, yes |-> to, no |-> c.no,
                                         half |-> c.half, arg |-> c.arg]
                  \/ ops = <<>> /\ c.rest = <<>> /\ mode' = to /\ call'["main"] = NoCall
  <1> DEFINE c == call["main"]
             N(o, q) == [ops |-> o, rest |-> q, yes |-> to, no |-> c.no, half |-> c.half, arg |-> c.arg]
  <1>1. DOMAIN call = Actors /\ "main" \in Actors /\ "other" \in Actors /\ "main" # "other"
    BY DEF NvTyped, CallsTyped, Actors
  <1>2. \/ /\ ops # <<>> /\ mode' = mode /\ reenter' = reenter
           /\ call' = [call EXCEPT !["main"] = N(ops, c.rest)]
        \/ /\ ops = <<>> /\ c.rest # <<>> /\ mode' = mode /\ reenter' = reenter
           /\ call' = [call EXCEPT !["main"] = N(c.rest, <<>>)]
        \/ /\ ops = <<>> /\ c.rest = <<>> /\ mode' = to /\ (reenter' => reenter)
           /\ call' = [call EXCEPT !["main"] = NoCall]
    <2>1. reenter' = (reenter \/ "main" = "other") => (reenter' => reenter)
      BY <1>1, Zenon
    <2>2. \/ /\ ops # <<>> /\ mode' = mode /\ reenter' = reenter
             /\ call' = [call EXCEPT !["main"] = N(ops, c.rest)]
          \/ /\ ops = <<>> /\ c.rest # <<>> /\ mode' = mode /\ reenter' = reenter
             /\ call' = [call EXCEPT !["main"] = N(c.rest, <<>>)]
          \/ /\ ops = <<>> /\ c.rest = <<>> /\ mode' = to /\ reenter' = (reenter \/ "main" = "other")
             /\ call' = [call EXCEPT !["main"] = NoCall]
      BY GoOnCases
    <2> QED
      BY <2>1, <2>2, Zenon
  <1>3. \A n : call' = [call EXCEPT !["main"] = n] => call'["main"] = n /\ call'["other"] = call["other"]
    BY <1>1
  <1>4. call'["other"] = call["other"]
    BY <1>2, <1>3, Zenon
  <1>5. reenter' => reenter
    BY <1>2, Zenon
  <1> QED
    BY <1>2, <1>3, <1>4, <1>5, Zenon

LEMMA OtherGoesOn ==
    ASSUME NvTyped, NEW ops, NEW to, GoOn("other", call["other"], ops, to)
    PROVE  LET c == call["other"]
           IN  /\ call'["main"] = call["main"] /\ mode' = mode
               /\ \/ /\ ops # <<>> /\ (reenter' => reenter)
                     /\ call'["other"] = [ops |-> ops, rest |-> c.rest, yes |-> to, no |-> c.no,
                                          half |-> c.half, arg |-> c.arg]
                  \/ /\ ops = <<>> /\ c.rest # <<>> /\ (reenter' => reenter)
                     /\ call'["other"] = [ops |-> c.rest, rest |-> <<>>, yes |-> to, no |-> c.no,
                                          half |-> c.half, arg |-> c.arg]
                  \/ ops = <<>> /\ c.rest = <<>> /\ call'["other"] = NoCall
  <1> DEFINE c == call["other"]
             N(o, q) == [ops |-> o, rest |-> q, yes |-> to, no |-> c.no, half |-> c.half, arg |-> c.arg]
  <1>1. DOMAIN call = Actors /\ "main" \in Actors /\ "other" \in Actors /\ "main" # "other"
    BY DEF NvTyped, CallsTyped, Actors
  <1>2. \/ /\ ops # <<>> /\ mode' = mode /\ reenter' = reenter
           /\ call' = [call EXCEPT !["other"] = N(ops, c.rest)]
        \/ /\ ops = <<>> /\ c.rest # <<>> /\ mode' = mode /\ reenter' = reenter
           /\ call' = [call EXCEPT !["other"] = N(c.rest, <<>>)]
        \/ /\ ops = <<>> /\ c.rest = <<>> /\ mode' = mode
           /\ call' = [call EXCEPT !["other"] = NoCall]
    BY <1>1, GoOnCases, Zenon
  <1>3. \A n : call' = [call EXCEPT !["other"] = n] => call'["other"] = n /\ call'["main"] = call["main"]
    BY <1>1
  <1>4. call'["main"] = call["main"] /\ mode' = mode
    BY <1>2, <1>3, Zenon
  <1>5. reenter' = reenter => (reenter' => reenter)
    BY Zenon
  <1> QED
    BY <1>2, <1>3, <1>4, <1>5

\* The id and the causes after an access.
LEMMA CausesDone ==
    ASSUME NvTyped, NEW a \in Actors, OpDone(a)
    PROVE  LET op == Head(call[a].ops)
           IN  /\ op.file = "id" =>
                     causes' = IF a = "main" /\ op.text # <<>> /\ Cleaning
                               THEN causes \cup {"id"} ELSE causes \ {"id"}
               /\ op = Write(FirstStatus, Done) => causes' = causes \cup {"wifi"}
               /\ op = Write(SecondStatus, Done) => causes' = causes \ {"wifi"}
               /\ op.file # "id" /\ (\A h \in Halves : op # Write(Status[h], Done)) => causes' = causes
  <1> DEFINE op == Head(call[a].ops)
  <1>1. causes' = CASE op.file = "id" -> IF a = "main" /\ op.text # <<>> /\ Cleaning
                                         THEN causes \cup {"id"} ELSE causes \ {"id"}
                    [] op = Write(FirstStatus, Done) -> causes \cup {"wifi"}
                    [] op = Write(SecondStatus, Done) -> causes \ {"wifi"}
                    [] OTHER -> causes
    BY DEF OpDone
  <1>2. /\ Write(FirstStatus, Done).file = FirstStatus /\ Write(SecondStatus, Done).file = SecondStatus
        /\ FirstStatus # "id" /\ SecondStatus # "id" /\ FirstStatus # SecondStatus
        /\ FirstStatus \in {Status["wifi"], Status["cloud"]}
        /\ SecondStatus \in {Status["wifi"], Status["cloud"]}
    BY WriteIs, FileFacts DEF FirstStatus, SecondStatus
  <1>3. "wifi" \in Halves /\ "cloud" \in Halves
    BY DEF Halves
  <1> DEFINE P == Write(FirstStatus, Done)
             Q == Write(SecondStatus, Done)
             C == a = "main" /\ op.text # <<>> /\ Cleaning
  <1>4. (op = P => op.file # "id") /\ (op = Q => op.file # "id") /\ P # Q
    BY <1>2
  <1> HIDE DEF op, P, Q, C
  <1>5. causes' = CASE op.file = "id" -> IF C THEN causes \cup {"id"} ELSE causes \ {"id"}
                    [] op = P -> causes \cup {"wifi"}
                    [] op = Q -> causes \ {"wifi"}
                    [] OTHER -> causes
    BY <1>1 DEF P, Q, C
  <1>6. CASE op.file = "id"
    BY <1>4, <1>5, <1>6 DEF P, Q, C, op
  <1>7. CASE op = P
    BY <1>4, <1>5, <1>7, <1>2, <1>3 DEF P, Q, op
  <1>8. CASE op = Q
    BY <1>4, <1>5, <1>8, <1>2, <1>3 DEF P, Q, op
  <1>9. CASE op.file # "id" /\ op # P /\ op # Q
    <2>1. causes' = causes
      BY <1>5, <1>9
    <2> QED
      BY <1>9, <2>1 DEF P, Q, op
  <1> QED
    BY <1>6, <1>7, <1>8, <1>9

LEMMA IdDone ==
    ASSUME NvTyped, NEW a \in Actors, OpDone(a)
    PROVE  LET op == Head(call[a].ops)
           IN  /\ op.file # "id" => flash'["id"] = flash["id"]
               /\ op = iot_nv_erase("id") => flash'["id"] = <<>>
               /\ \A g \in Nat : op = Write("id", DeviceId(g)) =>
                     /\ flash'["id"] = <<DeviceId(g)>>
                     /\ a = "main" /\ reenter => "id" \in causes'
  <1> DEFINE op == Head(call[a].ops)
  <1>2. "id" \in Files /\ Size("id") = 2
    BY FileFacts DEF Size
  <1>3. /\ op.file # "id" => flash'["id"] = flash["id"]
        /\ op.text = <<>> => flash'[op.file] = <<>>
        /\ \A t \in Seq(Nat) : op.text = <<t>> /\ Len(t) = Size(op.file) => flash'[op.file] = <<t>>
    BY <1>2, DoneEffect
  <1> HIDE DEF op
  <1>6. op = iot_nv_erase("id") => flash'["id"] = <<>>
    <2>1. iot_nv_erase("id").file = "id" /\ iot_nv_erase("id").text = <<>>
      BY DEF iot_nv_erase
    <2> QED
      BY <1>3, <2>1
  <1>7. ASSUME NEW g \in Nat, op = Write("id", DeviceId(g))
        PROVE  flash'["id"] = <<DeviceId(g)>> /\ (a = "main" /\ reenter => "id" \in causes')
    <2>1. op.file = "id" /\ op.text = <<DeviceId(g)>> /\ op.text # <<>>
      BY <1>7, WriteIs
    <2>2. DeviceId(g) \in Seq(Nat) /\ Len(DeviceId(g)) = 2
      BY Tuples DEF DeviceId
    <2>3. flash'["id"] = <<DeviceId(g)>>
      <3>1. Len(DeviceId(g)) = Size("id")
        BY <1>2, <2>2
      <3>2. \A t : t = DeviceId(g) => op.text = <<t>> /\ t \in Seq(Nat) /\ Len(t) = Size(op.file)
        BY <2>1, <2>2, <3>1
      <3>3. PICK t : t = DeviceId(g)
        OBVIOUS
      <3>4. flash'[op.file] = <<t>>
        BY <1>3, <3>2, <3>3
      <3> QED
        BY <2>1, <3>3, <3>4
    <2>4. a = "main" /\ reenter => "id" \in causes'
      <3>1. causes' = IF a = "main" /\ op.text # <<>> /\ Cleaning THEN causes \cup {"id"} ELSE causes \ {"id"}
        BY <2>1, CausesDone DEF op
      <3>2. reenter => Cleaning
        BY Zenon DEF Cleaning
      <3> QED
        BY <2>1, <3>1, <3>2
    <2> QED
      BY <2>3, <2>4
  <1> QED
    BY <1>3, <1>6, <1>7 DEF op

LEMMA IdFails ==
    ASSUME NvTyped, NEW a \in Actors, OpFails(a)
    PROVE  LET op == Head(call[a].ops)
           IN  /\ causes' = causes \cup (IF op.file = "id" THEN {"id"} ELSE {})
               /\ op.file # "id" => flash'["id"] = flash["id"]
               /\ IF op.text = <<>> THEN GoOn(a, call[a], Tail(call[a].ops), call[a].yes)
                  ELSE GoOn(a, call[a], <<>>, call[a].no)
               /\ UNCHANGED <<media, cur, pend, given, stored, lost>>
  <1> DEFINE op == Head(call[a].ops)
  <1>1. /\ causes' = causes \cup (IF op.file = "id" THEN {"id"} ELSE {})
        /\ IF op.text = <<>> THEN GoOn(a, call[a], Tail(call[a].ops), call[a].yes)
                  ELSE GoOn(a, call[a], <<>>, call[a].no)
        /\ UNCHANGED <<media, cur, pend, given, stored, lost>>
    BY DEF OpFails
  <1>2. flash' = flash \/ \E x : flash' = [flash EXCEPT ![op.file] = x]
    BY DEF OpFails
  <1>3. "id" \in Files /\ DOMAIN flash = Files
    BY FileFacts DEF NvTyped, FlashTyped
  <1> HIDE DEF op
  <1>4. op.file # "id" => flash'["id"] = flash["id"]
    BY <1>2, <1>3
  <1> QED
    BY <1>1, <1>4 DEF op

\* What a step leaves as it was.
LEMMA ModeKept ==
    ASSUME ModeFits, mode' = mode, media' = media, cur' = cur, given' = given, IdGone => IdGone',
           reenter' => IdGone', stored'["loId"] = stored["loId"], "loId" \in lost => "loId" \in lost'
    PROVE  ModeFits'
  BY DEF ModeFits

LEMMA IdKept ==
    ASSUME IdMatches, IdGone => IdGone', flash'["id"] = flash["id"] \/ IdGone', given' = given,
           stored'["loId"] = stored["loId"], "loId" \in lost => "loId" \in lost'
    PROVE  IdMatches'
  BY DEF IdMatches

LEMMA PendKept ==
    ASSUME PendFits, pend'["main"] = pend["main"], call'["main"] = call["main"], mode' = mode, cur' = cur
    PROVE  PendFits'
  BY DEF PendFits

LEMMA MainKept ==
    ASSUME MainCall, call'["main"] = call["main"], mode' = mode, cur' = cur, media' = media
    PROVE  MainCall'
  BY DEF MainCall, Setting, StoringId, ErasingId, CleaningUp

\* The next access of the cleanup in the BLE callback.
LEMMA OtherOp ==
    ASSUME NvTyped, OtherCall, call["other"] # NoCall
    PROVE  LET c == call["other"]
               op == Head(c.ops)
           IN  /\ \/ op = iot_nv_erase("id") /\ c.rest = <<>> /\ Tail(c.ops) = <<>>
                  \/ c.rest = <<iot_nv_erase("id")>> /\ \E h \in Halves : op = Write(Status[h], None)
               /\ c.rest = <<iot_nv_erase("id")>> =>
                     \A i \in 1 .. Len(Tail(c.ops)) : \E h \in Halves : Tail(c.ops)[i] = Write(Status[h], None)
  <1>1. PICK c : c = call["other"]
    OBVIOUS
  <1>2. c.ops \in Seq(Access) /\ c.ops # <<>>
    BY <1>1, HeadTyped DEF NvTyped, Actors
  <1>3. /\ Head(c.ops) = c.ops[1] /\ 1 \in 1 .. Len(c.ops)
        /\ \A i \in 1 .. Len(Tail(c.ops)) : i + 1 \in 1 .. Len(c.ops) /\ Tail(c.ops)[i] = c.ops[i + 1]
    BY <1>2, TailOf
  <1>4. \/ /\ c.rest = <<iot_nv_erase("id")>>
           /\ \A i \in 1 .. Len(c.ops) : \E h \in Halves : c.ops[i] = Write(Status[h], None)
        \/ c.rest = <<>> /\ c.ops = <<iot_nv_erase("id")>>
    BY <1>1 DEF OtherCall
  <1>5. <<iot_nv_erase("id")>> # <<>>
    OBVIOUS
  <1>6. CASE c.rest = <<>> /\ c.ops = <<iot_nv_erase("id")>>
    <2>1. Head(c.ops) = iot_nv_erase("id") /\ Tail(c.ops) = <<>>
      BY <1>6
    <2> QED
      BY <1>1, <1>5, <1>6, <2>1
  <1>7. CASE /\ c.rest = <<iot_nv_erase("id")>>
             /\ \A i \in 1 .. Len(c.ops) : \E h \in Halves : c.ops[i] = Write(Status[h], None)
    <2>1. \E h \in Halves : Head(c.ops) = Write(Status[h], None)
      BY <1>3, <1>7
    <2>2. \A i \in 1 .. Len(Tail(c.ops)) : \E h \in Halves : Tail(c.ops)[i] = Write(Status[h], None)
      BY <1>3, <1>7
    <2> QED
      BY <1>1, <1>7, <2>1, <2>2
  <1> QED
    BY <1>4, <1>6, <1>7

\* The cleanup in the BLE callback goes on: when it ends, the id is gone.
LEMMA OtherStep ==
    ASSUME NvTyped, ConnectInv, call["other"] # NoCall, NEW ops, NEW to,
           ops = Tail(call["other"].ops) \/ ops = <<>>, GoOn("other", call["other"], ops, to),
           UNCHANGED <<media, cur, pend, given, stored, lost>>,
           "wifi" \in causes => "wifi" \in causes',
           IdGone => IdGone',
           flash'["id"] = flash["id"] \/ IdGone',
           Head(call["other"].ops).file = "id" => IdGone'
    PROVE  ConnectInv'
  <1>1. PICK c : c = call["other"]
    OBVIOUS
  <1>2. /\ call'["main"] = call["main"] /\ mode' = mode
        /\ \/ /\ ops # <<>> /\ (reenter' => reenter)
              /\ call'["other"] = [ops |-> ops, rest |-> c.rest, yes |-> to, no |-> c.no,
                                   half |-> c.half, arg |-> c.arg]
           \/ /\ ops = <<>> /\ c.rest # <<>> /\ (reenter' => reenter)
              /\ call'["other"] = [ops |-> c.rest, rest |-> <<>>, yes |-> to, no |-> c.no,
                                   half |-> c.half, arg |-> c.arg]
           \/ ops = <<>> /\ c.rest = <<>> /\ call'["other"] = NoCall
    BY <1>1, OtherGoesOn
  <1>3. /\ \/ Head(c.ops) = iot_nv_erase("id") /\ c.rest = <<>> /\ Tail(c.ops) = <<>>
           \/ c.rest = <<iot_nv_erase("id")>> /\ \E h \in Halves : Head(c.ops) = Write(Status[h], None)
        /\ c.rest = <<iot_nv_erase("id")>> =>
              \A i \in 1 .. Len(Tail(c.ops)) : \E h \in Halves : Tail(c.ops)[i] = Write(Status[h], None)
    BY <1>1, OtherOp DEF ConnectInv
  <1>4. <<iot_nv_erase("id")>> # <<>> /\ iot_nv_erase("id").file = "id"
    BY DEF iot_nv_erase
  <1>5. reenter' => IdGone'
    <2>1. reenter => IdGone
      BY Zenon DEF ConnectInv, ModeFits
    <2>2. (reenter' => reenter) \/ c.rest = <<>>
      BY <1>2, Zenon
    <2>3. c.rest = <<>> => IdGone'
      BY <1>1, <1>3, <1>4
    <2> QED
      BY <2>1, <2>2, <2>3, Zenon
  <1>6. OtherCall'
    <2>1. CASE ops # <<>>
      <3>1. ops = Tail(c.ops) /\ c.rest = <<iot_nv_erase("id")>>
        BY <1>1, <1>3, <2>1
      <3>2. call'["other"].ops = ops /\ call'["other"].rest = c.rest
        BY <1>2, <2>1
      <3> QED
        BY <1>3, <3>1, <3>2 DEF OtherCall
    <2>2. CASE ops = <<>> /\ c.rest # <<>>
      <3>1. call'["other"].ops = c.rest /\ call'["other"].rest = <<>>
        BY <1>2, <2>2
      <3> QED
        BY <1>3, <2>2, <3>1 DEF OtherCall
    <2>3. CASE ops = <<>> /\ c.rest = <<>>
      BY <1>2, <2>3 DEF OtherCall
    <2> QED
      BY <2>1, <2>2, <2>3
  <1>7. MainCall' /\ PendFits'
    BY <1>2, MainKept, PendKept DEF ConnectInv
  <1>8. ModeFits' /\ IdMatches'
    BY <1>2, <1>5, ModeKept, IdKept DEF ConnectInv
  <1>9. HalvesMatch'
    BY DEF ConnectInv, HalvesMatch
  <1> QED
    BY <1>6, <1>7, <1>8, <1>9 DEF ConnectInv

LEMMA OtherConnect ==
    ASSUME NvTyped, WholeInv, ConnectInv, OpDone("other") \/ OpFails("other")
    PROVE  ConnectInv'
  <1> DEFINE op == Head(call["other"].ops)
  <1>1. call["other"] # NoCall /\ "other" \in Actors /\ "other" # "main"
    BY DEF OpDone, OpFails, Actors
  <1>2. op = iot_nv_erase("id") \/ \E h \in Halves : op = Write(Status[h], None)
    BY <1>1, OtherOp DEF ConnectInv
  <1>3. iot_nv_erase("id").file = "id" /\ iot_nv_erase("id").text = <<>>
    BY DEF iot_nv_erase
  <1>4. /\ \A h \in Halves : op # Write(Status[h], Done)
        /\ (\E h \in Halves : op = Write(Status[h], None)) => op.file # "id"
    <2>1. \A g, h \in Halves : Write(Status[g], None) # Write(Status[h], Done)
      BY DoneTyped DEF Write
    <2>2. \A h \in Halves : Write(Status[h], None).file # "id"
      BY WriteIs, FileFacts DEF Halves
    <2>3. \A h \in Halves : iot_nv_erase("id") # Write(Status[h], Done)
      BY <1>3, WriteIs
    <2> QED
      BY <1>2, <2>1, <2>2, <2>3
  <1>5. CASE OpDone("other")
    <2>1. /\ UNCHANGED <<media, cur, pend, stored, lost>>
          /\ GoOn("other", call["other"], Tail(call["other"].ops), call["other"].yes)
      BY <1>5 DEF OpDone
    <2>2. given' = given
      <3>1. \/ given' = given
            \/ op = Write(Status[call["other"].half], Done) /\ call["other"].half # ""
        BY <1>5 DEF OpDone
      <3>2. call["other"].half \in Halves \cup {""} /\ call["other"].half \notin Halves
        BY <1>1 DEF NvTyped, CallsTyped, Calls, WholeInv, CallsFit
      <3> QED
        BY <3>1, <3>2
    <2>3. /\ op.file = "id" => flash'["id"] = <<>> /\ causes' = causes \ {"id"}
          /\ op.file # "id" => flash'["id"] = flash["id"] /\ causes' = causes
      BY <1>1, <1>2, <1>4, <1>5, IdDone, CausesDone
    <2>4. /\ "wifi" \in causes => "wifi" \in causes'
          /\ IdGone => IdGone'
          /\ flash'["id"] = flash["id"] \/ IdGone'
          /\ op.file = "id" => IdGone'
      BY <2>3 DEF IdGone
    <2> QED
      BY <1>1, <2>1, <2>2, <2>4, OtherStep
  <1>6. CASE OpFails("other")
    <2>1. /\ causes' = causes \cup (IF op.file = "id" THEN {"id"} ELSE {})
          /\ op.file # "id" => flash'["id"] = flash["id"]
          /\ IF op.text = <<>> THEN GoOn("other", call["other"], Tail(call["other"].ops), call["other"].yes)
             ELSE GoOn("other", call["other"], <<>>, call["other"].no)
          /\ UNCHANGED <<media, cur, pend, given, stored, lost>>
      BY <1>1, <1>6, IdFails
    <2>2. /\ "wifi" \in causes => "wifi" \in causes'
          /\ IdGone => IdGone'
          /\ flash'["id"] = flash["id"] \/ IdGone'
          /\ op.file = "id" => IdGone'
      BY <2>1 DEF IdGone
    <2>3. PICK ops, to : /\ ops = Tail(call["other"].ops) \/ ops = <<>>
                         /\ GoOn("other", call["other"], ops, to)
      BY <2>1
    <2> QED
      BY <1>1, <2>1, <2>2, <2>3, OtherStep
  <1> QED
    BY <1>5, <1>6

\* The main task's next access outside a set.
LEMMA MainOp ==
    ASSUME NvTyped, WholeInv, MainCall, call["main"] # NoCall, call["main"].half \notin Halves
    PROVE  LET c == call["main"]
               op == Head(c.ops)
           IN  \/ StoringId(c) /\ op = Write("id", DeviceId(cur.gen)) /\ Tail(c.ops) = <<>>
               \/ ErasingId(c) /\ op = iot_nv_erase("id") /\ Tail(c.ops) = <<>>
               \/ /\ CleaningUp(c)
                  /\ op = iot_nv_erase("id") \/ \E h \in Halves : op = Write(Status[h], None)
                  /\ \A i \in 1 .. Len(Tail(c.ops)) : Tail(c.ops)[i].file = "id" =>
                        Tail(c.ops)[i] = iot_nv_erase("id")
  <1>1. PICK c : c = call["main"]
    OBVIOUS
  <1>2. c.ops \in Seq(Access) /\ c.ops # <<>>
    BY <1>1, HeadTyped DEF NvTyped, Actors
  <1>3. /\ Head(c.ops) = c.ops[1] /\ 1 \in 1 .. Len(c.ops)
        /\ \A i \in 1 .. Len(Tail(c.ops)) : i + 1 \in 1 .. Len(c.ops) /\ Tail(c.ops)[i] = c.ops[i + 1]
    BY <1>2, TailOf
  <1>4. StoringId(c) \/ ErasingId(c) \/ CleaningUp(c)
    BY <1>1 DEF MainCall, Setting
  <1>5. \A x : c.ops = <<x>> => Head(c.ops) = x /\ Tail(c.ops) = <<>>
    OBVIOUS
  <1>6. CASE StoringId(c)
    BY <1>1, <1>5, <1>6 DEF StoringId, iot_nv_set_device_id
  <1>7. CASE ErasingId(c)
    BY <1>1, <1>5, <1>7 DEF ErasingId
  <1>8. CASE CleaningUp(c)
    <2>1. \A i \in 1 .. Len(c.ops) : c.ops[i].file = "id" => c.ops[i] = iot_nv_erase("id")
      BY <1>8 DEF CleaningUp
    <2>2. Head(c.ops).file = "id" \/ \E h \in Halves : Head(c.ops) = Write(Status[h], None)
      BY <1>1, PlainOp DEF WholeInv, Actors
    <2>3. \A i \in 1 .. Len(Tail(c.ops)) : Tail(c.ops)[i].file = "id" => Tail(c.ops)[i] = iot_nv_erase("id")
      BY <1>3, <2>1
    <2>4. Head(c.ops) = iot_nv_erase("id") \/ \E h \in Halves : Head(c.ops) = Write(Status[h], None)
      BY <1>3, <2>1, <2>2
    <2> QED
      BY <1>1, <1>8, <2>3, <2>4
  <1> QED
    BY <1>4, <1>6, <1>7, <1>8

\* The last access of a call: the main task goes to mode m.
LEMMA MainEnds ==
    ASSUME NvTyped, ConnectInv, call["main"] # NoCall,
           call'["main"] = NoCall, call'["other"] = call["other"], reenter' => reenter,
           NEW m, mode' = m, m \in Modes, m \notin {"half", "put", "reg", "dip", "loc", "id"},
           m = "join" => given["cloud"].gen = cur.gen,
           UNCHANGED <<media, cur, pend, given, stored, lost>>,
           "wifi" \in causes => "wifi" \in causes',
           reenter => IdGone', m = "prov" => IdGone', IdMatches'
    PROVE  ConnectInv'
  <1>1. MainCall' /\ OtherCall'
    BY DEF ConnectInv, MainCall, OtherCall
  <1>2. PendFits'
    BY DEF ConnectInv, PendFits
  <1>3. ModeFits'
    <2>1. reenter' => IdGone'
      BY Zenon
    <2> QED
      BY <2>1 DEF ModeFits
  <1>4. HalvesMatch'
    BY DEF ConnectInv, HalvesMatch
  <1> QED
    BY <1>1, <1>2, <1>3, <1>4 DEF ConnectInv

LEMMA MainPlain ==
    ASSUME NvTyped, WholeInv, ConnectInv, call["main"].half \notin Halves,
           OpDone("main") \/ OpFails("main")
    PROVE  ConnectInv'
  <1>0. PICK c : c = call["main"]
    OBVIOUS
  <1> DEFINE op == Head(c.ops)
  <1>1. c # NoCall /\ "main" \in Actors /\ c \in Calls
    BY <1>0 DEF OpDone, OpFails, Actors, NvTyped, CallsTyped
  <1>2. PICK ops, to :
          /\ GoOn("main", c, ops, to) /\ to \in {c.yes, c.no}
          /\ ops = Tail(c.ops) \/ ops = <<>>
    <2>1. CASE OpDone("main")
      BY <1>0, <2>1 DEF OpDone
    <2>2. CASE OpFails("main")
      BY <1>0, <1>1, <2>2, IdFails
    <2> QED
      BY <2>1, <2>2
  <1>3. UNCHANGED <<media, cur, pend, given, stored, lost>>
    <2>1. CASE OpDone("main")
      <3>1. \/ given' = given
            \/ c.half # ""
        BY <1>0, <2>1 DEF OpDone
      <3>2. c.half \in Halves \cup {""} /\ c.half \notin Halves
        BY <1>0, <1>1 DEF Calls
      <3>3. given' = given
        BY <3>1, <3>2
      <3> QED
        BY <2>1, <3>3 DEF OpDone
    <2>2. CASE OpFails("main")
      BY <1>1, <2>2, IdFails
    <2> QED
      BY <2>1, <2>2
  <1>4. /\ call'["other"] = call["other"] /\ (reenter' => reenter)
        /\ \/ /\ ops # <<>> /\ mode' = mode
              /\ call'["main"] = [ops |-> ops, rest |-> c.rest, yes |-> to, no |-> c.no,
                                  half |-> c.half, arg |-> c.arg]
           \/ /\ ops = <<>> /\ c.rest # <<>> /\ mode' = mode
              /\ call'["main"] = [ops |-> c.rest, rest |-> <<>>, yes |-> to, no |-> c.no,
                                  half |-> c.half, arg |-> c.arg]
           \/ ops = <<>> /\ c.rest = <<>> /\ mode' = to /\ call'["main"] = NoCall
    BY <1>0, <1>2, MainGoesOn
  <1>5. \/ StoringId(c) /\ op = Write("id", DeviceId(cur.gen)) /\ Tail(c.ops) = <<>>
        \/ ErasingId(c) /\ op = iot_nv_erase("id") /\ Tail(c.ops) = <<>>
        \/ /\ CleaningUp(c)
           /\ op = iot_nv_erase("id") \/ \E h \in Halves : op = Write(Status[h], None)
           /\ \A i \in 1 .. Len(Tail(c.ops)) : Tail(c.ops)[i].file = "id" =>
                 Tail(c.ops)[i] = iot_nv_erase("id")
    BY <1>0, <1>1, MainOp DEF ConnectInv
  <1>6. iot_nv_erase("id").file = "id" /\ iot_nv_erase("id").text = <<>>
    BY DEF iot_nv_erase
  <1>7. op.file = "id" \/ \E h \in Halves : op = Write(Status[h], None)
    BY <1>5, <1>6, WriteIs
  <1>8. /\ \A h \in Halves : op # Write(Status[h], Done)
        /\ (\E h \in Halves : op = Write(Status[h], None)) => op.file # "id"
    <2>1. \A g, h \in Halves : Write(Status[g], None) # Write(Status[h], Done)
      BY DoneTyped DEF Write
    <2>2. \A h \in Halves : \A t : Write(Status[h], t).file # "id"
      BY WriteIs, FileFacts DEF Halves
    <2> HIDE DEF op
    <2> QED
      BY <1>7, <2>1, <2>2
  \* The id.
  <1>9. /\ "wifi" \in causes => "wifi" \in causes'
        /\ op.file # "id" => flash'["id"] = flash["id"] /\ ("id" \in causes => "id" \in causes')
        /\ op = iot_nv_erase("id") => IdGone'
    <2>1. CASE OpDone("main")
      <3>1. /\ op.file = "id" => causes' \in {causes \cup {"id"}, causes \ {"id"}}
            /\ op.file # "id" => flash'["id"] = flash["id"] /\ causes' = causes
            /\ op = iot_nv_erase("id") => flash'["id"] = <<>>
        BY <1>0, <1>1, <1>8, <2>1, IdDone, CausesDone
      <3> HIDE DEF op
      <3> QED
        BY <3>1 DEF IdGone
    <2>2. CASE OpFails("main")
      <3>1. /\ causes' = causes \cup (IF op.file = "id" THEN {"id"} ELSE {})
            /\ op.file # "id" => flash'["id"] = flash["id"]
        BY <1>0, <1>1, <2>2, IdFails
      <3> HIDE DEF op
      <3> QED
        BY <1>6, <3>1 DEF IdGone
    <2> QED
      BY <2>1, <2>2
  <1>r. reenter => IdGone
    BY Zenon DEF ConnectInv, ModeFits
  <1>10. CASE StoringId(c) /\ op = Write("id", DeviceId(cur.gen)) /\ Tail(c.ops) = <<>>
    <2>1. /\ mode = "id" /\ to \in {"join", "run"} /\ c.rest = <<>> /\ ops = <<>>
      BY <1>2, <1>10 DEF StoringId
    <2>2. mode' = to /\ call'["main"] = NoCall
      BY <1>4, <2>1
    <2>3. cur.gen \in Nat
      BY GenTyped DEF NvTyped, ProvTyped
    <2>4. given["cloud"].gen = cur.gen /\ (stored["loId"] = cur.gen \/ "loId" \in lost)
      BY <2>1 DEF ConnectInv, ModeFits
    <2>5. /\ \/ flash'["id"] = <<DeviceId(cur.gen)>>
             \/ IdGone'
          /\ reenter => IdGone'
      <3>1. CASE OpDone("main")
        <4>1. flash'["id"] = <<DeviceId(cur.gen)>> /\ (reenter => "id" \in causes')
          BY <1>0, <1>1, <1>10, <2>3, <3>1, IdDone
        <4> QED
          BY <4>1, Zenon DEF IdGone
      <3>2. CASE OpFails("main")
        <4>1. causes' = causes \cup (IF op.file = "id" THEN {"id"} ELSE {})
          BY <1>0, <1>1, <3>2, IdFails
        <4>2. op.file = "id"
          BY <1>10, WriteIs
        <4> HIDE DEF op
        <4>3. IdGone'
          BY <4>1, <4>2 DEF IdGone
        <4> QED
          BY <4>3
      <3> QED
        BY <3>1, <3>2
    <2>6. IdMatches'
      BY <1>3, <2>4, <2>5 DEF IdMatches
    <2> HIDE DEF op
    <2> QED
      BY <1>0, <1>1, <1>3, <1>4, <1>9, <2>1, <2>2, <2>4, <2>5, <2>6, MainEnds DEF Modes
  <1>11. CASE ErasingId(c) /\ op = iot_nv_erase("id") /\ Tail(c.ops) = <<>>
    <2>1. to = "prov" /\ c.rest = <<>> /\ ops = <<>>
      BY <1>2, <1>11 DEF ErasingId
    <2>2. mode' = "prov" /\ call'["main"] = NoCall
      BY <1>4, <2>1
    <2>3. IdGone' /\ IdMatches'
      BY <1>9, <1>11 DEF IdMatches
    <2> HIDE DEF op
    <2> QED
      BY <1>0, <1>1, <1>3, <1>4, <1>9, <2>2, <2>3, MainEnds DEF Modes
  <1>12. CASE /\ CleaningUp(c)
              /\ op = iot_nv_erase("id") \/ \E h \in Halves : op = Write(Status[h], None)
              /\ \A i \in 1 .. Len(Tail(c.ops)) : Tail(c.ops)[i].file = "id" =>
                    Tail(c.ops)[i] = iot_nv_erase("id")
    <2>1. to = "boot" /\ c.no = "boot"
      BY <1>2, <1>12 DEF CleaningUp
    <2>2. (IdGone => IdGone') /\ (flash'["id"] = flash["id"] \/ IdGone')
      <3> HIDE DEF op
      <3> QED
        BY <1>8, <1>9, <1>12 DEF IdGone
    <2>3. IdMatches'
      BY <1>3, <2>2, IdKept DEF ConnectInv
    <2>4. reenter => IdGone'
      BY <1>r, <2>2, Zenon
    <2>5. CASE ops = <<>> /\ c.rest = <<>>
      <3>1. mode' = "boot" /\ call'["main"] = NoCall
        BY <1>4, <2>1, <2>5
      <3> QED
        BY <1>0, <1>1, <1>3, <1>4, <1>9, <2>3, <2>4, <3>1, MainEnds DEF Modes
    <2>6. CASE ops # <<>> \/ c.rest # <<>>
      <3>1. /\ mode' = mode /\ call'["main"].yes = "boot" /\ call'["main"].no = "boot"
            /\ call'["main"].half = c.half
            /\ \/ ops # <<>> /\ call'["main"].ops = ops /\ call'["main"].rest = c.rest
               \/ call'["main"].ops = c.rest /\ call'["main"].rest = <<>>
        BY <1>4, <2>1, <2>6
      <3>2. \A i \in 1 .. Len(c.rest) : c.rest[i] = iot_nv_erase("id")
        BY <1>12 DEF CleaningUp
      <3>3. 1 .. Len(<<>>) = {}
        BY EmptySeq
      <3>4. CleaningUp(call["main"])'
        <4>1. CASE ops # <<>> /\ call'["main"].ops = ops /\ call'["main"].rest = c.rest
          <5>1. ops = Tail(c.ops)
            BY <1>2, <4>1
          <5>2. \A i \in 1 .. Len(ops) : ops[i].file = "id" => ops[i] = iot_nv_erase("id")
            BY <1>12, <5>1
          <5> QED
            BY <3>1, <3>2, <4>1, <5>2 DEF CleaningUp
        <4>2. CASE call'["main"].ops = c.rest /\ call'["main"].rest = <<>>
          BY <3>1, <3>2, <3>3, <4>2 DEF CleaningUp
        <4> QED
          BY <3>1, <4>1, <4>2
      <3>5. MainCall'
        BY <1>0, <3>1, <3>4 DEF MainCall
      <3>6. OtherCall'
        BY <1>4 DEF ConnectInv, OtherCall
      <3>7. PendFits'
        BY <1>0, <1>1, <1>3 DEF ConnectInv, PendFits
      <3>8. ModeFits'
        <4>1. reenter' => IdGone'
          BY <1>4, <2>4, Zenon
        <4> QED
          BY <1>3, <2>2, <3>1, <4>1, ModeKept DEF ConnectInv
      <3>9. HalvesMatch'
        BY <1>3, <1>9 DEF ConnectInv, HalvesMatch
      <3> QED
        BY <2>3, <3>5, <3>6, <3>7, <3>8, <3>9 DEF ConnectInv
    <2> QED
      BY <2>5, <2>6
  <1> QED
    BY <1>5, <1>10, <1>11, <1>12

\* An access of a set succeeds.
LEMMA MainSetDone ==
    ASSUME NvTyped, WholeInv, ConnectInv, call["main"].half \in Halves, OpDone("main")
    PROVE  ConnectInv'
  <1>0. PICK c : c = call["main"]
    OBVIOUS
  <1> DEFINE op == Head(c.ops)
             h == c.half
  <1>1. /\ c # NoCall /\ h \in Halves /\ c.rest = <<>> /\ "main" \in Actors
        /\ op # Write(Status[h], Done) => Tail(c.ops) # <<>>
        /\ op = Write(Status[h], Done) => Tail(c.ops) = <<>>
        /\ op.file # "id" /\ \A g \in Halves \ {h} : op # Write(Status[g], Done)
    <2>1. /\ c # NoCall /\ h \in Halves /\ c.rest = <<>>
          /\ op # Write(Status[h], Done) => Tail(c.ops) # <<>>
          /\ \/ op = Write(Status[h], None)
             \/ op = Write(Status[h], Done) /\ Tail(c.ops) = <<>>
             \/ \E f \in FieldsOf(h) : op = [file |-> f, text |-> Want(f, c.arg)]
      BY <1>0, SetOp
    <2>2. Write(Status[h], None) # Write(Status[h], Done)
      BY DoneTyped DEF Write
    <2>3. (\E t : op = Write(Status[h], t)) \/ op.file \in FieldsOf(h)
      <3>1. \A f \in FieldsOf(h) : op = [file |-> f, text |-> Want(f, c.arg)] => op.file = f
        <4> HIDE DEF op
        <4> QED
          OBVIOUS
      <3> HIDE DEF op, h
      <3> QED
        BY <2>1, <3>1
    <2>4. op.file = Status[h] \/ op.file \in FieldsOf(h)
      BY <2>3, WriteIs
    <2>5. op.file # "id" /\ \A g \in Halves \ {h} : op.file # Status[g]
      <3> HIDE DEF op, h
      <3> QED
        BY <2>1, <2>4, FileFacts DEF Halves
    <2>6. \A g \in Halves \ {h} : op # Write(Status[g], Done)
      BY <2>5, WriteIs
    <2>7. op = Write(Status[h], Done) => Tail(c.ops) = <<>>
      <3>1. ASSUME NEW f \in FieldsOf(h), op = [file |-> f, text |-> Want(f, c.arg)]
            PROVE  op # Write(Status[h], Done)
        <4>1. op.file = f
          BY <3>1
        <4>2. f # Status[h]
          <5> HIDE DEF op, h
          <5> QED
            BY <2>1, FileKinds
        <4> QED
          BY <4>1, <4>2, WriteIs
      <3> HIDE DEF op, h
      <3> QED
        BY <2>1, <2>2, <3>1
    <2>8. "main" \in Actors
      BY DEF Actors
    <2> HIDE DEF op, h
    <2> QED
      BY <2>1, <2>5, <2>6, <2>7, <2>8
  <1>2. /\ GoOn("main", c, Tail(c.ops), c.yes) /\ UNCHANGED <<media, cur, pend, stored, lost>>
        /\ given' = IF op = Write(Status[h], Done) THEN [given EXCEPT ![h] = c.arg] ELSE given
    <2>1. /\ GoOn("main", c, Tail(c.ops), c.yes) /\ UNCHANGED <<media, cur, pend, stored, lost>>
          /\ given' = IF h # "" /\ op = Write(Status[h], Done) THEN [given EXCEPT ![h] = c.arg] ELSE given
      BY <1>0 DEF OpDone
    <2>2. h # ""
      BY <1>1 DEF Halves
    <2> QED
      BY <2>1, <2>2
  <1>3. flash'["id"] = flash["id"]
    BY <1>0, <1>1, IdDone
  <1>4. /\ call'["other"] = call["other"] /\ (reenter' => reenter)
        /\ \/ /\ Tail(c.ops) # <<>> /\ mode' = mode
              /\ call'["main"] = [ops |-> Tail(c.ops), rest |-> c.rest, yes |-> c.yes, no |-> c.no,
                                  half |-> c.half, arg |-> c.arg]
           \/ Tail(c.ops) = <<>> /\ mode' = c.yes /\ call'["main"] = NoCall
    BY <1>0, <1>1, <1>2, MainGoesOn
  <1>5. OtherCall'
    BY <1>4 DEF ConnectInv, OtherCall
  <1>6. PendFits'
    BY <1>0, <1>1, <1>2 DEF ConnectInv, PendFits
  <1>7. Setting(c)
    BY <1>0, <1>1 DEF ConnectInv, MainCall
  <1>r. reenter => IdGone
    BY Zenon DEF ConnectInv, ModeFits
  <1>8. CASE op # Write(Status[h], Done)
    <2>1. causes' = causes
      BY <1>0, <1>1, <1>8, CausesDone
    <2>2. IdGone => IdGone'
      BY <1>3, <2>1 DEF IdGone
    <2>3. given' = given
      BY <1>2, <1>8
    <2>4. mode' = mode /\ LET n == call'["main"]
                          IN  n.half = h /\ n.arg = c.arg /\ n.yes = c.yes /\ n.no = c.no
      BY <1>1, <1>4, <1>8
    <2>5. Setting(call["main"])'
      BY <1>2, <1>7, <2>4 DEF Setting
    <2>6. MainCall'
      BY <2>5 DEF MainCall
    <2>7. reenter' => IdGone'
      BY <1>4, <1>r, <2>2, Zenon
    <2>8. ModeFits' /\ IdMatches'
      BY <1>2, <1>3, <2>2, <2>3, <2>4, <2>7, ModeKept, IdKept DEF ConnectInv
    <2>9. HalvesMatch'
      BY <2>1, <2>3 DEF ConnectInv, HalvesMatch
    <2> QED
      BY <1>5, <1>6, <2>6, <2>8, <2>9 DEF ConnectInv
  <1>9. CASE op = Write(Status[h], Done)
    <2>1. mode' = c.yes /\ call'["main"] = NoCall
      BY <1>1, <1>4, <1>9
    <2>2. given' = [given EXCEPT ![h] = cur] /\ DOMAIN given = Halves
      BY <1>2, <1>7, <1>9 DEF Setting, NvTyped, ProvTyped
    <2>3. given'[h] = cur /\ \A g \in Halves \ {h} : given'[g] = given[g]
      BY <1>1, <2>2
    <2>4. MainCall'
      BY <2>1 DEF MainCall
    <2>5. /\ FirstStatus = Status[IF media = "http" THEN "wifi" ELSE "cloud"]
          /\ SecondStatus = Status[IF media = "http" THEN "cloud" ELSE "wifi"]
      BY FileFacts DEF FirstStatus, SecondStatus
    <2>6. "id" \in causes => "id" \in causes'
      <3>1. causes' \in {causes \cup {"wifi"}, causes \ {"wifi"}}
        BY <1>0, <1>1, <1>7, <1>9, <2>5, CausesDone DEF Setting
      <3> QED
        BY <3>1
    <2>7. IdGone => IdGone'
      BY <1>3, <2>6 DEF IdGone
    <2>8. reenter' => IdGone'
      BY <1>4, <1>r, <2>7, Zenon
    <2>10. ModeFits
      BY DEF ConnectInv
    <2>11. CASE h = "wifi" /\ media = "http" /\ mode = "prov" /\ c.yes = "half"
      <3>1. "wifi" \in causes'
        <4>1. causes' = causes \cup {"wifi"}
          BY <1>0, <1>1, <1>9, <2>5, <2>11, CausesDone
        <4> QED
          BY <4>1
      <3>2. IdGone'
        BY <2>7, <2>10, <2>11 DEF ModeFits
      <3>3. HalvesMatch' /\ IdMatches'
        BY <3>1, <3>2 DEF HalvesMatch, IdMatches
      <3>4. mode' = "half" /\ media' = "http" /\ given'["wifi"].gen = cur'.gen
        BY <1>2, <2>1, <2>3, <2>11
      <3>5. ModeFits'
        BY <3>2, <3>4 DEF ModeFits, Modes
      <3> QED
        BY <1>5, <1>6, <2>4, <3>3, <3>5 DEF ConnectInv
    <2>12. CASE h = "cloud" /\ media = "http" /\ mode = "half" /\ c.yes = "put"
      <3>1. given'["wifi"] = given["wifi"] /\ given["wifi"].gen = cur.gen /\ given'["cloud"] = cur
        BY <2>3, <2>10, <2>12 DEF ModeFits, Halves
      <3>2. IdGone'
        BY <2>7, <2>10, <2>12 DEF ModeFits
      <3>3. HalvesMatch' /\ IdMatches'
        BY <3>1, <3>2 DEF HalvesMatch, IdMatches
      <3>4. mode' = "put" /\ media' = "http" /\ cur' = cur
        BY <1>2, <2>1, <2>12
      <3>5. ModeFits'
        BY <3>1, <3>2, <3>4 DEF ModeFits, Modes
      <3> QED
        BY <1>5, <1>6, <2>4, <3>3, <3>5 DEF ConnectInv
    <2>13. CASE h = "cloud" /\ media = "ble" /\ mode = "prov" /\ c.yes = "reg"
      <3>1. "wifi" \in causes'
        <4>1. causes' = causes \cup {"wifi"}
          BY <1>0, <1>1, <1>9, <2>5, <2>13, CausesDone
        <4> QED
          BY <4>1
      <3>2. IdGone'
        BY <2>7, <2>10, <2>13 DEF ModeFits
      <3>3. HalvesMatch' /\ IdMatches'
        BY <3>1, <3>2 DEF HalvesMatch, IdMatches
      <3>4. mode' = "reg" /\ given'["cloud"].gen = cur'.gen
        BY <1>2, <2>1, <2>3, <2>13
      <3>5. ModeFits'
        BY <3>2, <3>4 DEF ModeFits, Modes
      <3> QED
        BY <1>5, <1>6, <2>4, <3>3, <3>5 DEF ConnectInv
    <2>14. CASE h = "wifi" /\ media = "ble" /\ mode \in {"reg", "join"} /\ c.yes = "run"
      <3>1. given'["cloud"] = given["cloud"] /\ given["cloud"].gen = cur.gen /\ given'["wifi"] = cur
        BY <2>3, <2>10, <2>14 DEF ModeFits, Halves
      <3>2. HalvesMatch'
        BY <3>1 DEF HalvesMatch
      <3>3. IdMatches'
        BY <1>2, <1>3, <2>7, <3>1 DEF ConnectInv, IdMatches
      <3>4. mode' = "run"
        BY <2>1, <2>14
      <3>5. ModeFits'
        BY <2>8, <3>4 DEF ModeFits, Modes
      <3> QED
        BY <1>5, <1>6, <2>4, <3>2, <3>3, <3>5 DEF ConnectInv
    <2> QED
      BY <1>7, <2>11, <2>12, <2>13, <2>14 DEF Setting
  <1> QED
    BY <1>8, <1>9

\* An access of a set fails.
LEMMA MainSetFails ==
    ASSUME NvTyped, WholeInv, ConnectInv, call["main"].half \in Halves, OpFails("main")
    PROVE  ConnectInv'
  <1>0. PICK c : c = call["main"]
    OBVIOUS
  <1> DEFINE op == Head(c.ops)
             h == c.half
  <1>1. /\ c # NoCall /\ h \in Halves /\ c.rest = <<>> /\ "main" \in Actors
        /\ op.text = <<>> => Tail(c.ops) # <<>>
        /\ op.file # "id"
    <2>1. /\ c # NoCall /\ h \in Halves /\ c.rest = <<>>
          /\ op # Write(Status[h], Done) => Tail(c.ops) # <<>>
          /\ \/ \E t : op = Write(Status[h], t)
             \/ \E f \in FieldsOf(h) : op = [file |-> f, text |-> Want(f, c.arg)]
      BY <1>0, SetOp
    <2>2. op.file = Status[h] \/ op.file \in FieldsOf(h)
      <3>1. \A f \in FieldsOf(h) : op = [file |-> f, text |-> Want(f, c.arg)] => op.file = f
        <4> HIDE DEF op
        <4> QED
          OBVIOUS
      <3> HIDE DEF op, h
      <3> QED
        BY <2>1, <3>1, WriteIs
    <2>3. op.file # "id"
      <3> HIDE DEF op, h
      <3> QED
        BY <2>1, <2>2, FileFacts DEF Halves
    <2>4. op.text = <<>> => Tail(c.ops) # <<>>
      BY <2>1, WriteIs
    <2>5. "main" \in Actors
      BY DEF Actors
    <2> HIDE DEF op, h
    <2> QED
      BY <2>1, <2>3, <2>4, <2>5
  <1>2. /\ UNCHANGED <<media, cur, pend, given, stored, lost>> /\ causes' = causes
        /\ flash'["id"] = flash["id"]
        /\ \/ Tail(c.ops) # <<>> /\ GoOn("main", c, Tail(c.ops), c.yes)
           \/ GoOn("main", c, <<>>, c.no)
    <2>1. /\ causes' = causes \cup (IF op.file = "id" THEN {"id"} ELSE {})
          /\ op.file # "id" => flash'["id"] = flash["id"]
          /\ IF op.text = <<>> THEN GoOn("main", c, Tail(c.ops), c.yes) ELSE GoOn("main", c, <<>>, c.no)
          /\ UNCHANGED <<media, cur, pend, given, stored, lost>>
      BY <1>0, <1>1, IdFails
    <2>2. causes' = causes
      <3> HIDE DEF op
      <3> QED
        BY <1>1, <2>1
    <2> QED
      BY <1>1, <2>1, <2>2
  <1>3. /\ call'["other"] = call["other"] /\ (reenter' => reenter)
        /\ \/ /\ mode' = mode
              /\ call'["main"] = [ops |-> Tail(c.ops), rest |-> c.rest, yes |-> c.yes, no |-> c.no,
                                  half |-> c.half, arg |-> c.arg]
           \/ mode' = c.no /\ call'["main"] = NoCall
    <2>1. CASE Tail(c.ops) # <<>> /\ GoOn("main", c, Tail(c.ops), c.yes)
      BY <1>0, <2>1, MainGoesOn
    <2>2. CASE GoOn("main", c, <<>>, c.no)
      BY <1>0, <1>1, <2>2, MainGoesOn
    <2> QED
      BY <1>2, <2>1, <2>2
  <1>4. IdGone => IdGone'
    BY <1>2 DEF IdGone
  <1>5. reenter' => IdGone'
    <2>1. reenter => IdGone
      BY Zenon DEF ConnectInv, ModeFits
    <2> QED
      BY <1>3, <1>4, <2>1, Zenon
  <1>6. Setting(c)
    BY <1>0, <1>1 DEF ConnectInv, MainCall
  <1>7. OtherCall'
    BY <1>3 DEF ConnectInv, OtherCall
  <1>8. PendFits'
    BY <1>0, <1>1, <1>2 DEF ConnectInv, PendFits
  <1>9. HalvesMatch' /\ IdMatches'
    BY <1>2, <1>4, IdKept DEF ConnectInv, HalvesMatch
  <1>10. CASE /\ mode' = mode
              /\ call'["main"] = [ops |-> Tail(c.ops), rest |-> c.rest, yes |-> c.yes, no |-> c.no,
                                  half |-> c.half, arg |-> c.arg]
    <2>1. LET n == call'["main"] IN n.half = h /\ n.arg = c.arg /\ n.yes = c.yes /\ n.no = c.no
      BY <1>10
    <2>2. Setting(call["main"])'
      BY <1>2, <1>6, <1>10, <2>1 DEF Setting
    <2>3. MainCall'
      BY <2>2 DEF MainCall
    <2>4. ModeFits'
      BY <1>2, <1>4, <1>5, <1>10, ModeKept DEF ConnectInv
    <2> QED
      BY <1>7, <1>8, <1>9, <2>3, <2>4 DEF ConnectInv
  <1>11. CASE mode' = c.no /\ call'["main"] = NoCall
    <2>1. MainCall'
      BY <1>11 DEF MainCall
    <2>2. mode' = "run" \/ (mode' = "prov" /\ mode \in {"prov", "half"})
      <3>1. c.no = "run" \/ (c.no = "prov" /\ mode \in {"prov", "half"})
        BY <1>6 DEF Setting
      <3> QED
        BY <1>11, <3>1
    <2>3. mode' = "prov" => IdGone'
      BY <1>4, <2>2 DEF ConnectInv, ModeFits
    <2>4. ModeFits'
      BY <1>5, <2>2, <2>3 DEF ModeFits, Modes
    <2> QED
      BY <1>7, <1>8, <1>9, <2>1, <2>4 DEF ConnectInv
  <1> QED
    BY <1>3, <1>10, <1>11

\* A store of MiscInfo ends.
LEMMA StoreEnds ==
    ASSUME NvTyped, ConnectInv, NEW a \in Actors, pend[a] # <<>>, EndStore(a),
           UNCHANGED <<media, flash, cur, call, reenter, given, causes>>,
           stored' = [stored EXCEPT ![pend[a][1].key] = pend[a][1].new[pend[a][1].key]],
           \A e \in Entries \ {pend[a][1].key} : e \in lost => e \in lost'
    PROVE  ConnectInv'
  <1> DEFINE p == pend[a][1]
             q == pend["main"][1]
  <1>t. /\ DOMAIN pend = Actors /\ DOMAIN stored = Entries /\ p \in Pending(a)
        /\ \A b \in Actors : pend[b] = <<>> \/ \E x \in Pending(b) : pend[b] = <<x>>
    BY DEF NvTyped, MiscTyped, Json
  <1>1. IdGone' = IdGone /\ (reenter' => IdGone')
    <2>1. reenter => IdGone
      BY Zenon DEF ConnectInv, ModeFits
    <2> QED
      BY <2>1 DEF IdGone
  <1>2. OtherCall' /\ HalvesMatch'
    BY DEF ConnectInv, OtherCall, HalvesMatch
  <1>3. "loId" \in Entries /\ "main" \in Actors
    BY DEF Entries, Actors
  <1>4. CASE a = "main"
    <2>1. /\ pend'["main"] = <<>> /\ mode' = NextMode[mode]
      BY <1>3, <1>4 DEF EndStore
    <2>2. /\ call["main"] = NoCall
          /\ \/ mode = "dip" /\ p.key = "dip"
             \/ mode = "loc" /\ p.key = "loId" /\ p.new["loId"] = cur.gen
      BY <1>4 DEF ConnectInv, PendFits
    <2>3. given["cloud"].gen = cur.gen
      BY <2>2 DEF ConnectInv, ModeFits
    <2>4. \/ mode' = "loc" /\ stored'["loId"] = stored["loId"] /\ ("loId" \in lost => "loId" \in lost')
          \/ mode' = "id" /\ stored'["loId"] = cur.gen
      <3>1. NextMode["dip"] = "loc" /\ NextMode["loc"] = "id"
        BY DEF NextMode
      <3>2. CASE mode = "dip" /\ p.key = "dip"
        <4>1. stored'["loId"] = stored["loId"] /\ "loId" \in Entries \ {p.key}
          BY <1>t, <1>3, <3>2
        <4> QED
          BY <2>1, <3>1, <3>2, <4>1
      <3>3. CASE mode = "loc" /\ p.key = "loId" /\ p.new["loId"] = cur.gen
        BY <1>t, <1>3, <2>1, <3>1, <3>3
      <3> QED
        BY <2>2, <3>2, <3>3
    <2>5. MainCall'
      BY <2>2 DEF MainCall
    <2>6. PendFits'
      BY <2>1 DEF PendFits
    <2>7. ModeFits'
      BY <1>1, <2>3, <2>4 DEF ModeFits, Modes
    <2>8. IdMatches'
      BY <1>1, <2>3, <2>4 DEF ConnectInv, IdMatches
    <2> QED
      BY <1>2, <2>5, <2>6, <2>7, <2>8 DEF ConnectInv
  <1>5. CASE a # "main"
    <2>1. mode' = mode
      BY <1>5 DEF EndStore
    <2>2. pend'["main"] = IF pend["main"] = <<>> THEN <<>> ELSE <<[q EXCEPT !.over = TRUE]>>
      BY <1>3, <1>5 DEF EndStore
    <2>3. p.key = "prevErr"
      BY <1>t, <1>5 DEF Pending
    <2>4. stored'["loId"] = stored["loId"] /\ ("loId" \in lost => "loId" \in lost')
      BY <1>t, <1>3, <2>3
    <2>5. MainCall'
      BY <2>1, MainKept DEF ConnectInv
    <2>6. ModeFits' /\ IdMatches'
      BY <1>1, <2>1, <2>4, ModeKept, IdKept DEF ConnectInv
    <2>7. PendFits'
      <3>1. CASE pend["main"] = <<>>
        BY <2>2, <3>1 DEF PendFits
      <3>2. CASE pend["main"] # <<>>
        <4>1. q \in Pending("main")
          BY <1>t, <1>3, <3>2
        <4>2. pend'["main"] # <<>> /\ pend'["main"][1].key = q.key /\ pend'["main"][1].new = q.new
          <5> HIDE DEF q
          <5> QED
            BY <2>2, <3>2, <4>1 DEF Pending
        <4> QED
          BY <2>1, <3>2, <4>2 DEF ConnectInv, PendFits
      <3> QED
        BY <3>1, <3>2
    <2> QED
      BY <1>2, <2>5, <2>6, <2>7 DEF ConnectInv
  <1> QED
    BY <1>4, <1>5

\* A call of the main task starts.
LEMMA MainStarts ==
    ASSUME NvTyped, ConnectInv, call["main"] = NoCall, pend["main"] = <<>>,
           NEW c, call' = [call EXCEPT !["main"] = c],
           UNCHANGED <<media, flash, mode, pend, reenter, given, causes, stored, lost>>,
           \/ Setting(c)'
           \/ c.half \notin Halves /\ (StoringId(c)' \/ ErasingId(c)' \/ CleaningUp(c)'),
           cur' = cur \/ mode = "prov"
    PROVE  ConnectInv'
  <1>1. call'["main"] = c /\ call'["other"] = call["other"]
    BY DEF NvTyped, CallsTyped, Actors
  <1>2. MainCall'
    BY <1>1 DEF MainCall, Setting, StoringId, ErasingId, CleaningUp
  <1>3. OtherCall' /\ HalvesMatch' /\ PendFits' /\ IdMatches'
    BY <1>1 DEF ConnectInv, OtherCall, HalvesMatch, PendFits, IdMatches, IdGone
  <1>4. ModeFits'
    <2>1. IdGone' = IdGone
      BY DEF IdGone
    <2>2. reenter' => IdGone'
      <3>1. reenter => IdGone
        BY Zenon DEF ConnectInv, ModeFits
      <3> QED
        BY <2>1, <3>1
    <2>3. CASE cur' = cur
      BY <2>1, <2>2, <2>3, ModeKept DEF ConnectInv
    <2>4. CASE mode = "prov"
      BY <2>1, <2>2, <2>4 DEF ConnectInv, ModeFits
    <2> QED
      BY <2>3, <2>4
  <1> QED
    BY <1>2, <1>3, <1>4 DEF ConnectInv

\* The main task goes to another mode between calls.
LEMMA ModeChanges ==
    ASSUME NvTyped, ConnectInv, call'["main"] = NoCall \/ (call' = call /\ mode = "put"),
           call'["other"] \in {NoCall, call["other"]}, pend'["main"] = <<>>,
           mode' \in Modes \ {"half", "put", "id"},
           mode' \in {"reg", "dip", "loc", "join"} => given["cloud"].gen = cur'.gen,
           mode' = "prov" => IdGone', reenter' => IdGone', IdGone => IdGone',
           flash'["id"] = flash["id"] \/ IdGone',
           given' = given, stored' = stored, "loId" \in lost => "loId" \in lost',
           "wifi" \in causes => "wifi" \in causes'
    PROVE  ConnectInv'
  <1>1. MainCall'
    <2>1. CASE call'["main"] = NoCall
      BY <2>1 DEF MainCall
    <2>2. CASE call' = call /\ mode = "put"
      <3>1. call["main"] = NoCall \/ (call["main"].half \notin Halves /\ CleaningUp(call["main"]))
        BY <2>2 DEF ConnectInv, MainCall, Setting, StoringId, ErasingId
      <3> QED
        BY <2>2, <3>1 DEF MainCall, CleaningUp
    <2> QED
      BY <2>1, <2>2
  <1>2. OtherCall' /\ HalvesMatch' /\ PendFits'
    BY DEF ConnectInv, OtherCall, HalvesMatch, PendFits
  <1>3. ModeFits'
    BY DEF ModeFits, Modes
  <1>4. IdMatches'
    BY IdKept DEF ConnectInv
  <1> QED
    BY <1>1, <1>2, <1>3, <1>4 DEF ConnectInv

LEMMA StoresConnect ==
    ASSUME NvTyped, ConnectInv, MainStores \/ OtherStores
    PROVE  ConnectInv'
  <1>1. UNCHANGED <<media, flash, mode, cur, call, reenter, given, causes, stored, lost>>
    BY DEF MainStores, OtherStores, MiscRead, ghosts
  <1>2. MainCall' /\ OtherCall' /\ HalvesMatch'
    BY <1>1, MainKept DEF ConnectInv, OtherCall, HalvesMatch
  <1>3. IdGone' = IdGone
    BY <1>1 DEF IdGone
  <1>4. ModeFits' /\ IdMatches'
    <2>1. reenter => IdGone
      BY Zenon DEF ConnectInv, ModeFits
    <2>2. reenter' => IdGone'
      BY <1>1, <1>3, <2>1
    <2> QED
      BY <1>1, <1>3, <2>2, ModeKept, IdKept DEF ConnectInv
  <1>5. PendFits'
    <2>1. DOMAIN pend = Actors /\ "main" \in Actors /\ "other" \in Actors /\ "main" # "other"
      BY DEF NvTyped, MiscTyped, Actors
    <2>2. CASE OtherStores
      <3>1. \E x : pend' = [pend EXCEPT !["other"] = x]
        BY <2>2 DEF OtherStores, MiscRead
      <3>2. pend'["main"] = pend["main"]
        BY <2>1, <3>1
      <3> QED
        BY <1>1, <3>2, PendKept DEF ConnectInv
    <2>3. CASE MainStores
      <3> DEFINE e == IF mode = "dip" THEN "dip" ELSE "loId"
      <3>1. PICK ok \in BOOLEAN : MiscRead("main", e, cur.gen, ok)
        BY <2>3 DEF MainStores
      <3>2. mode \in {"dip", "loc"} /\ call["main"] = NoCall
        BY <2>3 DEF MainStores, Idle
      <3> DEFINE j == IF ok THEN misc ELSE NoEntries
                 r == [key |-> e, old |-> misc, over |-> ~ok, new |-> SetEntry(j, e, cur.gen)]
      <3>3. pend' = [pend EXCEPT !["main"] = <<r>>]
        BY <3>1 DEF MiscRead
      <3>4. r.key = e /\ r.new = SetEntry(j, e, cur.gen)
        OBVIOUS
      <3>5. DOMAIN j = Entries
        BY DEF NvTyped, MiscTyped, Json, NoEntries
      <3>6. "loId" \in Entries
        BY DEF Entries
      <3> HIDE DEF j, r
      <3>7. e = "loId" => r.new["loId"] = cur.gen
        BY <3>4, <3>5, <3>6 DEF SetEntry
      <3>8. pend'["main"] = <<r>>
        BY <2>1, <3>3
      <3>9. pend'["main"][1].key = e /\ (e = "loId" => pend'["main"][1].new["loId"] = cur.gen)
        BY <3>4, <3>7, <3>8
      <3> QED
        BY <1>1, <3>2, <3>9 DEF PendFits
    <2> QED
      BY <2>2, <2>3
  <1> QED
    BY <1>2, <1>4, <1>5 DEF ConnectInv

\* The calls the main task starts.
LEMMA StartsConnect ==
    ASSUME NvTyped, NvTyped', ConnectInv,
           HttpWifi \/ HttpCloud \/ BleCloud \/ BleWifi \/ StoreId \/ BootWithoutData \/ Cleanup
    PROVE  ConnectInv'
  <1> DEFINE Same == UNCHANGED <<media, flash, mode, pend, reenter, given, causes, stored, lost>>
             Set(h, ops, p, y, n) == [ops |-> ops, rest |-> <<>>, yes |-> y, no |-> n, half |-> h, arg |-> p]
  <1>h. "wifi" \in Halves /\ "cloud" \in Halves
    BY DEF Halves
  <1>1. CASE HttpWifi
    <2> DEFINE c == Set("wifi", iot_nv_set_wifi_prov_data(cur'), cur', "half", "prov")
    <2>1. /\ call' = [call EXCEPT !["main"] = c] /\ mode = "prov" /\ media = "http" /\ Same
          /\ call["main"] = NoCall /\ pend["main"] = <<>>
      BY <1>1 DEF HttpWifi, NewProv, StartSet, Idle, ghosts
    <2>2. c.half = "wifi" /\ c.arg = cur' /\ c.yes = "half" /\ c.no = "prov"
      OBVIOUS
    <2>3. PICK d : d = c
      OBVIOUS
    <2> HIDE DEF c
    <2>4. Setting(d)'
      BY <1>h, <2>1, <2>2, <2>3 DEF Setting
    <2> QED
      BY <2>1, <2>3, <2>4, MainStarts
  <1>2. CASE HttpCloud
    <2> DEFINE c == Set("cloud", iot_nv_set_cloud_prov_data(cur), cur, "put", "prov")
    <2>1. /\ call' = [call EXCEPT !["main"] = c] /\ mode = "half" /\ Same /\ cur' = cur
          /\ call["main"] = NoCall /\ pend["main"] = <<>>
      BY <1>2 DEF HttpCloud, StartSet, Idle, ghosts
    <2>2. c.half = "cloud" /\ c.arg = cur /\ c.yes = "put" /\ c.no = "prov"
      OBVIOUS
    <2>3. PICK d : d = c
      OBVIOUS
    <2> HIDE DEF c
    <2>4. media = "http"
      BY <2>1 DEF ConnectInv, ModeFits
    <2>5. Setting(d)'
      BY <1>h, <2>1, <2>2, <2>3, <2>4 DEF Setting
    <2> QED
      BY <2>1, <2>3, <2>5, MainStarts
  <1>3. CASE BleCloud
    <2> DEFINE c == Set("cloud", iot_nv_set_cloud_prov_data(cur'), cur', "reg", "prov")
    <2>1. /\ call' = [call EXCEPT !["main"] = c] /\ mode = "prov" /\ media = "ble" /\ Same
          /\ call["main"] = NoCall /\ pend["main"] = <<>>
      BY <1>3 DEF BleCloud, NewProv, StartSet, Idle, ghosts
    <2>2. c.half = "cloud" /\ c.arg = cur' /\ c.yes = "reg" /\ c.no = "prov"
      OBVIOUS
    <2>3. PICK d : d = c
      OBVIOUS
    <2> HIDE DEF c
    <2>4. Setting(d)'
      BY <1>h, <2>1, <2>2, <2>3 DEF Setting
    <2> QED
      BY <2>1, <2>3, <2>4, MainStarts
  <1>4. CASE BleWifi
    <2> DEFINE c == Set("wifi", iot_nv_set_wifi_prov_data(cur), cur, "run", "run")
    <2>1. /\ call' = [call EXCEPT !["main"] = c] /\ mode \in {"reg", "join"} /\ media = "ble"
          /\ Same /\ cur' = cur /\ call["main"] = NoCall /\ pend["main"] = <<>>
      BY <1>4 DEF BleWifi, StartSet, Idle, ghosts
    <2>2. c.half = "wifi" /\ c.arg = cur /\ c.yes = "run" /\ c.no = "run"
      OBVIOUS
    <2>3. PICK d : d = c
      OBVIOUS
    <2> HIDE DEF c
    <2>4. Setting(d)'
      BY <1>h, <2>1, <2>2, <2>3 DEF Setting
    <2> QED
      BY <2>1, <2>3, <2>4, MainStarts
  <1> DEFINE Other(ops, rest, y, n) == [ops |-> ops, rest |-> rest, yes |-> y, no |-> n,
                                        half |-> "", arg |-> NoProv]
  <1>5. CASE StoreId
    <2> DEFINE to == IF media = "ble" /\ used = <<>> THEN "join" ELSE "run"
               c == Other(iot_nv_set_device_id(cur.gen), <<>>, to, to)
    <2>1. /\ call' = [call EXCEPT !["main"] = c] /\ mode = "id" /\ Same /\ cur' = cur
          /\ call["main"] = NoCall /\ pend["main"] = <<>>
      BY <1>5 DEF StoreId, Start, Idle, ghosts
    <2>2. /\ c.ops = iot_nv_set_device_id(cur.gen) /\ c.rest = <<>> /\ c.yes \in {"join", "run"}
          /\ c.no = c.yes /\ c.half \notin Halves
      BY DEF Halves
    <2>3. PICK d : d = c
      OBVIOUS
    <2> HIDE DEF c
    <2>4. StoringId(d)'
      BY <2>1, <2>2, <2>3 DEF StoringId
    <2> QED
      BY <2>1, <2>2, <2>3, <2>4, MainStarts
  <1>6. CASE BootWithoutData
    <2> DEFINE c == Other(<<iot_nv_erase("id")>>, <<>>, "prov", "prov")
    <2>1. /\ call' = [call EXCEPT !["main"] = c] /\ mode = "boot" /\ Same /\ cur' = cur
          /\ call["main"] = NoCall /\ pend["main"] = <<>>
      BY <1>6 DEF BootWithoutData, BootErase, Booting, Start, Idle, ghosts
    <2>2. /\ c.ops = <<iot_nv_erase("id")>> /\ c.rest = <<>> /\ c.yes = "prov" /\ c.no = "prov"
          /\ c.half \notin Halves
      BY DEF Halves
    <2>3. PICK d : d = c
      OBVIOUS
    <2> HIDE DEF c
    <2>4. ErasingId(d)'
      BY <2>1, <2>2, <2>3 DEF ErasingId
    <2> QED
      BY <2>1, <2>2, <2>3, <2>4, MainStarts
  <1>7. CASE Cleanup
    <2> DEFINE c == Other(iot_nv_erase_prov_data, <<iot_nv_erase("id")>>, "boot", "boot")
    <2>1. /\ call' = [call EXCEPT !["main"] = c] /\ Same /\ cur' = cur
          /\ call["main"] = NoCall /\ pend["main"] = <<>>
      BY <1>7 DEF Cleanup, Start, Idle, ghosts
    <2>2. /\ c.ops = iot_nv_erase_prov_data /\ c.rest = <<iot_nv_erase("id")>> /\ c.yes = "boot"
          /\ c.no = "boot" /\ c.half \notin Halves
      BY DEF Halves
    <2>3. PICK d : d = c
      OBVIOUS
    <2>4. \A i \in 1 .. Len(iot_nv_erase_prov_data) : iot_nv_erase_prov_data[i].file # "id"
      <3> DEFINE w == Write("wifiStatus", None)
                 z == Write("cloudStatus", None)
      <3>1. w.file # "id" /\ z.file # "id"
        BY WriteIs
      <3>2. iot_nv_erase_prov_data = <<w, z>>
        BY DEF iot_nv_erase_prov_data
      <3> HIDE DEF w, z
      <3> QED
        BY <3>1, <3>2
    <2>5. \A i \in 1 .. Len(<<iot_nv_erase("id")>>) : <<iot_nv_erase("id")>>[i] = iot_nv_erase("id")
      OBVIOUS
    <2> HIDE DEF c
    <2>6. CleaningUp(d)'
      BY <2>2, <2>3, <2>4, <2>5 DEF CleaningUp
    <2> QED
      BY <2>1, <2>2, <2>3, <2>6, MainStarts
  <1> QED
    BY <1>1, <1>2, <1>3, <1>4, <1>5, <1>6, <1>7

\* The steps between calls.
LEMMA ModesConnect ==
    ASSUME NvTyped, ConnectInv,
           \/ HttpReadBack \/ Registered \/ Rejected \/ BootWithoutId \/ BootConnects \/ BootRegisters
           \/ ProvEnter \/ PowerLoss
    PROVE  ConnectInv'
  <1>r. /\ reenter => IdGone
        /\ ModeFits
    BY Zenon DEF ConnectInv, ModeFits
  <1>1. CASE HttpReadBack
    <2>1. /\ mode = "put" /\ mode' \in {"reg", "prov"}
          /\ UNCHANGED <<flash, cur, call, pend, reenter, given, causes, stored, lost>>
      BY <1>1 DEF HttpReadBack, ghosts
    <2>2. IdGone /\ given["cloud"].gen = cur.gen
      BY <1>r, <2>1 DEF ModeFits
    <2>3. IdGone'
      BY <2>1, <2>2 DEF IdGone
    <2>4. pend'["main"] = <<>>
      BY <2>1 DEF ConnectInv, PendFits
    <2> QED
      BY <2>1, <2>2, <2>3, <2>4, ModeChanges DEF Modes
  <1>2. CASE Registered
    <2>1. /\ mode = "reg" /\ mode' = "dip" /\ call["main"] = NoCall /\ pend["main"] = <<>>
          /\ UNCHANGED <<flash, cur, call, pend, reenter, given, causes, stored, lost>>
      BY <1>2 DEF Registered, MainTo, Idle
    <2>2. given["cloud"].gen = cur.gen
      BY <1>r, <2>1 DEF ModeFits
    <2>3. IdGone' = IdGone
      BY <2>1 DEF IdGone
    <2>4. reenter' => IdGone'
      BY <1>r, <2>1, <2>3
    <2> QED
      BY <2>1, <2>2, <2>3, <2>4, ModeChanges DEF Modes
  <1>3. CASE Rejected
    <2>1. /\ mode' = "prov" /\ call["main"] = NoCall /\ pend["main"] = <<>>
          /\ UNCHANGED <<flash, call, pend, given, stored, lost>>
          /\ causes' = IF flash["id"] = <<>> THEN causes ELSE causes \cup {"id"}
      BY <1>3 DEF Rejected, MainTo, Idle
    <2>2. IdGone' /\ ("wifi" \in causes => "wifi" \in causes')
      BY <2>1 DEF IdGone
    <2> QED
      BY <2>1, <2>2, ModeChanges DEF Modes
  <1>4. CASE BootWithoutId
    <2>1. /\ mode' = "prov" /\ call["main"] = NoCall /\ pend["main"] = <<>>
          /\ UNCHANGED <<flash, call, pend, given, causes, stored, lost>>
          /\ _iot_nv_read_data("id", DataSize).err # "none"
      BY <1>4 DEF BootWithoutId, Booting, MainTo, Idle, iot_nv_get_device_id
    <2>2. "id" \in Files
      BY FileFacts
    <2>3. flash["id"] = <<>>
      BY <2>1, <2>2, ReadOf DEF NvTyped, FlashTyped, Content
    <2>4. IdGone'
      BY <2>1, <2>3 DEF IdGone
    <2> QED
      BY <2>1, <2>4, ModeChanges DEF Modes
  <1>5. CASE BootConnects \/ BootRegisters
    <2>1. /\ mode' \in {"reg", "run"} /\ call["main"] = NoCall /\ pend["main"] = <<>>
          /\ cur' = given["cloud"]
          /\ UNCHANGED <<flash, call, pend, reenter, given, causes, stored, lost>>
      BY <1>5 DEF BootConnects, BootRegisters, BootWithId, Booting, Idle, ghosts
    <2>2. IdGone' = IdGone
      BY <2>1 DEF IdGone
    <2>3. reenter' => IdGone'
      BY <1>r, <2>1, <2>2
    <2> QED
      BY <2>1, <2>2, <2>3, ModeChanges DEF Modes
  <1>6. CASE ProvEnter
    <2>1. /\ mode' = "prov" /\ call["main"] = NoCall /\ pend["main"] = <<>>
          /\ UNCHANGED <<flash, call, pend, given, causes, stored, lost>>
      BY <1>6 DEF ProvEnter, Idle, ghosts
    <2>2. reenter
      BY <1>6 DEF ProvEnter
    <2>3. IdGone
      BY <1>r, <2>2
    <2>4. IdGone'
      BY <2>1, <2>3 DEF IdGone
    <2> QED
      BY <2>1, <2>4, ModeChanges DEF Modes
  <1>7. CASE PowerLoss
    <2>1. /\ mode' = "boot" /\ call' = [a \in Actors |-> NoCall] /\ pend' = [a \in Actors |-> <<>>]
          /\ causes' = causes \cup (IF flash'["id"] # flash["id"] THEN {"id"} ELSE {})
          /\ UNCHANGED <<given, stored>> /\ reenter' = FALSE
          /\ lost' = lost \/ lost' = Entries
      BY <1>7 DEF PowerLoss
    <2>2. call'["main"] = NoCall /\ call'["other"] = NoCall /\ pend'["main"] = <<>>
      BY <2>1 DEF Actors
    <2>3. /\ "wifi" \in causes => "wifi" \in causes'
          /\ IdGone => IdGone'
          /\ flash'["id"] = flash["id"] \/ IdGone'
      BY <2>1 DEF IdGone
    <2>4. "loId" \in lost => "loId" \in lost'
      BY <2>1 DEF Entries
    <2>5. reenter' => IdGone'
      BY <2>1, Zenon
    <2> QED
      BY <2>1, <2>2, <2>3, <2>4, <2>5, ModeChanges DEF Modes
  <1> QED
    BY <1>1, <1>2, <1>3, <1>4, <1>5, <1>6, <1>7

LEMMA ConnectNext ==
    ASSUME NvTyped, NvTyped', WholeInv, ConnectInv, [Next]_vars PROVE ConnectInv'
  <1>1. ASSUME NEW a \in Actors, OpDone(a) \/ OpFails(a) PROVE ConnectInv'
    <2>1. CASE a = "other"
      BY <1>1, <2>1, OtherConnect
    <2>2. CASE a = "main" /\ call["main"].half \notin Halves
      BY <1>1, <2>2, MainPlain
    <2>3. CASE a = "main" /\ call["main"].half \in Halves
      BY <1>1, <2>3, MainSetDone, MainSetFails
    <2> QED
      BY <2>1, <2>2, <2>3 DEF Actors
  <1>2. ASSUME NEW a \in Actors, MiscWrite(a) \/ MiscFails(a) PROVE ConnectInv'
    <2>1. /\ pend[a] # <<>> /\ EndStore(a) /\ UNCHANGED <<media, flash, cur, call, reenter, given, causes>>
          /\ stored' = [stored EXCEPT ![pend[a][1].key] = pend[a][1].new[pend[a][1].key]]
      BY <1>2 DEF MiscWrite, MiscFails
    <2>2. \A e \in Entries \ {pend[a][1].key} : e \in lost => e \in lost'
      BY <1>2 DEF MiscWrite, MiscFails
    <2> QED
      BY <2>1, <2>2, StoreEnds
  <1>3. CASE GattLeave
    <2>1. /\ UNCHANGED <<media, flash, mode, cur, pend, reenter, given, causes, stored, lost>>
          /\ \E y : Start("other", iot_nv_erase_prov_data, <<iot_nv_erase("id")>>, y, y)
      BY <1>3 DEF GattLeave, ghosts
    <2>2. /\ call'["main"] = call["main"] /\ call'["other"].ops = iot_nv_erase_prov_data
          /\ call'["other"].rest = <<iot_nv_erase("id")>>
      <3>1. PICK y : Start("other", iot_nv_erase_prov_data, <<iot_nv_erase("id")>>, y, y)
        BY <2>1
      <3>2. PICK c : /\ c.ops = iot_nv_erase_prov_data /\ c.rest = <<iot_nv_erase("id")>>
                     /\ call' = [call EXCEPT !["other"] = c]
        <4> DEFINE d == [ops |-> iot_nv_erase_prov_data, rest |-> <<iot_nv_erase("id")>>, yes |-> y,
                         no |-> y, half |-> "", arg |-> NoProv]
        <4>1. d.ops = iot_nv_erase_prov_data /\ d.rest = <<iot_nv_erase("id")>>
          OBVIOUS
        <4>2. call' = [call EXCEPT !["other"] = d]
          BY <3>1 DEF Start
        <4> HIDE DEF d
        <4> QED
          BY <4>1, <4>2
      <3> QED
        BY <3>2 DEF NvTyped, CallsTyped, Actors
    <2>3. MainCall' /\ PendFits'
      BY <2>1, <2>2, MainKept, PendKept DEF ConnectInv
    <2>4. OtherCall'
      <3>1. \A i \in 1 .. Len(iot_nv_erase_prov_data) :
               \E h \in Halves : iot_nv_erase_prov_data[i] = Write(Status[h], None)
        <4> DEFINE w == Write(Status["wifi"], None)
                   z == Write(Status["cloud"], None)
        <4>1. iot_nv_erase_prov_data = <<w, z>>
          BY FileFacts DEF iot_nv_erase_prov_data
        <4>2. "wifi" \in Halves /\ "cloud" \in Halves
          BY DEF Halves
        <4>3. \A i \in 1 .. Len(<<w, z>>) : <<w, z>>[i] \in {w, z}
          <5> HIDE DEF w, z
          <5> QED
            OBVIOUS
        <4> QED
          BY <4>1, <4>2, <4>3
      <3> QED
        BY <2>2, <3>1 DEF OtherCall
    <2>5. IdGone' = IdGone
      BY <2>1 DEF IdGone
    <2>6. reenter' => IdGone'
      <3>1. reenter => IdGone
        BY Zenon DEF ConnectInv, ModeFits
      <3> QED
        BY <2>1, <2>5, <3>1
    <2>7. ModeFits' /\ IdMatches' /\ HalvesMatch'
      BY <2>1, <2>5, <2>6, ModeKept, IdKept DEF ConnectInv, HalvesMatch
    <2> QED
      BY <2>3, <2>4, <2>7 DEF ConnectInv
  <1>4. CASE UNCHANGED vars
    <2>1. UNCHANGED <<media, flash, mode, cur, call, pend, reenter, given, causes, stored, lost>>
      BY <1>4 DEF vars, ghosts
    <2>2. MainCall' /\ PendFits' /\ OtherCall' /\ HalvesMatch'
      BY <2>1, MainKept, PendKept DEF ConnectInv, OtherCall, HalvesMatch
    <2>3. IdGone' = IdGone
      BY <2>1 DEF IdGone
    <2>4. reenter' => IdGone'
      <3>1. reenter => IdGone
        BY Zenon DEF ConnectInv, ModeFits
      <3> QED
        BY <2>1, <2>3, <3>1
    <2>5. ModeFits' /\ IdMatches'
      BY <2>1, <2>3, <2>4, ModeKept, IdKept DEF ConnectInv
    <2> QED
      BY <2>2, <2>5 DEF ConnectInv
  <1> QED
    BY <1>1, <1>2, <1>3, <1>4, StoresConnect, StartsConnect, ModesConnect DEF Next

\* ConnectInv is an invariant: what the main task and the BLE callback still have
\* to do fits the mode, a stored id is of the stored cloud data unless something
\* of causes happened, and whoever may provision next has no id or such a cause.
THEOREM ConnectInvHolds == Spec => []ConnectInv
  <1>1. Init => ConnectInv
    <2> SUFFICES ASSUME Init PROVE ConnectInv
      OBVIOUS
    <2>1. /\ call["main"] = NoCall /\ call["other"] = NoCall /\ pend["main"] = <<>>
          /\ mode = "boot" /\ given["wifi"] = given["cloud"]
      BY DEF Init, Actors, Halves
    <2>2. IdGone
      BY FileFacts DEF Init, IdGone
    <2>3. MainCall /\ OtherCall /\ PendFits /\ HalvesMatch /\ IdMatches
      BY <2>1, <2>2 DEF MainCall, OtherCall, PendFits, HalvesMatch, IdMatches
    <2>4. ModeFits
      BY <2>1, <2>2 DEF ModeFits, Modes
    <2> QED
      BY <2>3, <2>4 DEF ConnectInv
  <1>2. NvTyped /\ NvTyped' /\ WholeInv /\ ConnectInv /\ [Next]_vars => ConnectInv'
    BY ConnectNext
  <1> QED
    BY <1>1, <1>2, NvTypedHolds, WholeInvHolds, PTL DEF Spec

\* The file systems that do not count a terminating zero: iot_nv_prov_data_exist
\* says what iot_nv_get_prov_data does.
LEMMA ExistAgrees ==
    ASSUME NvTyped, port # "esp32", iot_nv_get_prov_data
    PROVE  iot_nv_prov_data_exist
  <1>1. \A h \in Halves : IsDone(Status[h], DataSize)
    BY FileFacts DEF iot_nv_get_prov_data, iot_nv_get_wifi_prov_data, iot_nv_get_cloud_prov_data, Halves
  <1>2. \A h \in Halves : flash[Status[h]] = <<Done>>
    BY <1>1, DoneOf DEF NvTyped
  <1>3. port \in {"posix", "bl602"}
    BY DEF NvTyped, FlashTyped
  <1>4. ASSUME NEW h \in Halves PROVE IsDone(Status[h], StatusSize)
    <2> DEFINE f == Status[h]
               r == _iot_security_be_bsp_fs_load_from_nv(f)
    <2>1. flash[f] = <<Done>> /\ flash[f] # <<>> /\ flash[f][1] = Done /\ Len(Done) = 1
      <3>1. flash[f] = <<Done>>
        BY <1>2
      <3>2. \A d : <<d>> # <<>> /\ <<d>>[1] = d
        OBVIOUS
      <3>3. Len(Done) = 1
        BY DoneTyped
      <3> QED
        BY <3>1, <3>2, <3>3
    <2>2. r = Text(Done, 1)
      BY <1>3, <2>1 DEF _iot_security_be_bsp_fs_load_from_nv, posix_fs_read, bl602_fs_read
    <2>3. r.err = "none" /\ r.text = Done /\ r.len = 1
      BY <2>2 DEF Text
    <2> HIDE DEF r
    <2>4. _iot_nv_read_data(f, StatusSize) = r
      BY <2>3 DEF _iot_nv_read_data, StatusSize, r
    <2> QED
      BY <2>3, <2>4 DEF IsDone
  <1> QED
    BY <1>4, FileFacts DEF iot_nv_prov_data_exist, Halves

LEMMA ConnectsNext ==
    ASSUME NvTyped, MiscInv, ConnectInv, ConnectsAsProvisioned, [Next]_vars
    PROVE  ConnectsAsProvisioned'
  <1>1. CASE used' = used /\ port' = port
    BY <1>1 DEF ConnectsAsProvisioned
  <1>2. CASE used' = <<>>
    BY <1>2 DEF ConnectsAsProvisioned
  <1>3. ASSUME NEW self \in BOOLEAN, BootWithId(self) PROVE ConnectsAsProvisioned'
    <2> DEFINE g == given["cloud"].gen
               id == _iot_nv_read_data("id", DataSize)
               loc == IF self THEN misc["loId"] ELSE 0
               u == [wifi |-> given["wifi"].gen, cloud |-> g, id |-> id.text, loc |-> loc,
                     exist |-> iot_nv_prov_data_exist, why |-> causes, lost |-> lost]
    <2>1. used' = <<u>> /\ port' = port /\ id.err = "none" /\ iot_nv_get_prov_data
      BY <1>3 DEF BootWithId, iot_nv_get_device_id, iot_misc_info_load, GetEntry, Provisioned
    <2>2. /\ u.wifi = given["wifi"].gen /\ u.cloud = g /\ u.id = id.text /\ u.loc = loc
          /\ u.why = causes /\ u.lost = lost
      OBVIOUS
    <2>3. u.exist \/ port = "esp32"
      BY <2>1, ExistAgrees, Zenon
    <2>4. u.wifi = u.cloud \/ "wifi" \in u.why
      BY <2>2 DEF ConnectInv, HalvesMatch
    <2>5. "id" \in Files
      BY FileFacts
    <2>6. \/ "id" \in u.why
          \/ port = "bl602" /\ u.id = <<>>
          \/ /\ u.id = DeviceId(u.cloud)
             /\ stored["loId"] = u.cloud \/ "loId" \in lost
      <3>1. CASE flash["id"] = <<>>
        BY <2>1, <2>2, <2>5, <3>1, ReadOf DEF NvTyped
      <3>2. CASE "id" \in causes
        BY <2>2, <3>2
      <3>3. CASE flash["id"] = <<DeviceId(g)>> /\ (stored["loId"] = g \/ "loId" \in lost)
        <4>1. g \in Nat
          BY GenTyped DEF NvTyped, ProvTyped, Halves
        <4>2. PICK t : t = DeviceId(g)
          OBVIOUS
        <4>3. t \in Seq(Nat) /\ flash["id"] = <<t>>
          BY <3>3, <4>1, <4>2, Tuples DEF DeviceId
        <4>4. id.text = t
          BY <2>5, <4>3, ReadOf DEF NvTyped
        <4> QED
          BY <2>2, <3>3, <4>2, <4>4
      <3> QED
        BY <3>1, <3>2, <3>3 DEF ConnectInv, IdMatches, IdGone
    <2>7. stored["loId"] = u.cloud \/ "loId" \in lost => u.loc \in {0, u.cloud} \/ "loId" \in u.lost
      <3>1. misc["loId"] = stored["loId"] \/ "loId" \in lost
        BY DEF MiscInv, EntriesAreKept, Entries
      <3> QED
        BY <2>2, <3>1
    <2> HIDE DEF u
    <2>8. used'[1] = u
      BY <2>1
    <2> QED
      BY <2>1, <2>3, <2>4, <2>6, <2>7, <2>8 DEF ConnectsAsProvisioned
  <1> QED
    BY <1>1, <1>2, <1>3
    DEF Next, vars, ghosts, OpDone, OpFails, MainStores, OtherStores, MiscRead, MiscWrite, MiscFails,
        NewProv, HttpWifi, HttpCloud, HttpReadBack, BleCloud, BleWifi, MainTo, Registered, Rejected,
        StoreId, BootWithoutData, BootWithoutId, BootConnects, BootRegisters, Cleanup, GattLeave,
        ProvEnter, PowerLoss

\* A start that connects (_check_prov_status, iot_nv_get_device_id) does so with
\* Wi-Fi data, cloud data and a device id of one provisioning, registers itself in
\* the location of that provisioning, and st_info_get says it is provisioned; but
\* for the causes that ConnectsAsProvisioned names.
THEOREM ConnectsAlwaysAsProvisioned == Spec => []ConnectsAsProvisioned
  <1>1. Init => ConnectsAsProvisioned
    BY DEF Init, ConnectsAsProvisioned
  <1>2. NvTyped /\ MiscInv /\ ConnectInv /\ ConnectsAsProvisioned /\ [Next]_vars => ConnectsAsProvisioned'
    BY ConnectsNext
  <1> QED
    BY <1>1, <1>2, NvTypedHolds, MiscInvHolds, ConnectInvHolds, PTL DEF Spec

-----------------------------------------------------------------------------
(* Security contexts: ownership.                                            *)

\* The memory m has buffers K that no pointer of it leads to: what a call leaves
\* alone when its caller has pointers to K.
Apart(K, m) == /\ K \subseteq m.live
               /\ \A s \in Slots : m.at[s] # NULL => m.at[s] \notin K

\* n is what a call may leave of m: ownership is kept.
Kept(m, n) == Owned(m) => Owned(n)

\* Also what was out of reach of the pointers of m is allocated and out of reach
\* still, and the backend's key pair is the same: a call on a context.
Follows(m, n) ==
    /\ Kept(m, n)
    /\ Owned(m) => /\ \A K : Apart(K, m) => Apart(K, n)
                   /\ \A s \in Slots \ ContextSlots : n.at[s] = m.at[s]

\* All outcomes of a call do.
AllKept(m, outs) == \A o \in outs : Kept(m, o.m)
AllFollow(m, outs) == \A o \in outs : Follows(m, o.m)

\* Calls one after the other.
LEMMA FollowsTwice ==
    ASSUME NEW m, NEW n, NEW q, Follows(m, n), Follows(n, q)
    PROVE  Follows(m, q)
  BY DEF Follows, Kept

\* A call that fails at once.
LEMMA FollowsItself ==
    ASSUME NEW m
    PROVE  Follows(m, m)
  BY DEF Follows, Kept

\* There is always an address that is not allocated.
LEMMA FreshIsFree ==
    ASSUME NEW m, IsFiniteSet(m.live)
    PROVE  Fresh(m) \in Nat /\ Fresh(m) # NULL /\ Fresh(m) \notin m.live
  <1>2. PICK c \in Nat : c = Cardinality(m.live)
    BY FS_CardinalityType
  <1>3. ~ (1 .. c + 1 \subseteq m.live)
    <2>1. SUFFICES ASSUME 1 .. c + 1 \subseteq m.live PROVE FALSE
      OBVIOUS
    <2>2. Cardinality(1 .. c + 1) =< c
      BY <1>2, <2>1, FS_Subset
    <2>3. Cardinality(1 .. c + 1) = c + 1
      BY FS_Interval
    <2> QED
      BY <2>2, <2>3
  <1>4. \E b \in 1 .. c + 1 : b \notin m.live
    BY <1>3
  <1>5. Fresh(m) \in 1 .. c + 1 /\ Fresh(m) \notin m.live
    BY <1>2, <1>4 DEF Fresh
  <1> QED
    BY <1>5 DEF NULL

-----------------------------------------------------------------------------
(* What a call does to memory.                                             *)

\* A new buffer in a slot: ownership is kept, and it is nobody else's if the slot
\* belongs to the context.
LEMMA StoreFollows ==
    ASSUME NEW m, NEW s \in Slots
    PROVE  /\ Kept(m, Store(m, s))
           /\ s \in ContextSlots => Follows(m, Store(m, s))
  <1>1. SUFFICES ASSUME Owned(m)
                 PROVE  /\ Owned(Store(m, s))
                        /\ \A K : Apart(K, m) => Apart(K, Store(m, s))
                        /\ \A t \in Slots : t # s => Store(m, s).at[t] = m.at[t]
    BY DEF Follows, Kept
  <1>2. PICK b : b = Fresh(m)
    OBVIOUS
  <1>3. b \in Nat /\ b # NULL /\ b \notin m.live
    BY <1>1, <1>2, FreshIsFree DEF Owned
  <1>4. PICK n : n = Store(m, s)
    OBVIOUS
  <1>5. /\ n = [m EXCEPT !.live = @ \cup {b}, !.at[s] = b]
        /\ m \in Mem
    BY <1>1, <1>2, <1>4 DEF Store, Owned
  <1>6. /\ n.live = m.live \cup {b} /\ n.at = [m.at EXCEPT ![s] = b]
        /\ n.twice = m.twice /\ n.stale = m.stale
        /\ n \in Mem
    BY <1>3, <1>5 DEF Mem
  <1>7. /\ n.at[s] = b /\ \A t \in Slots : t # s => n.at[t] = m.at[t]
    BY <1>5, <1>6 DEF Mem
  <1>8. IsFiniteSet(n.live)
    BY <1>1, <1>6, FS_AddElement DEF Owned
  <1>9. /\ Pointers(m) \subseteq m.live
        /\ \A t, u \in Slots : t # u /\ m.at[t] # NULL => m.at[t] # m.at[u]
        /\ m.twice = {} /\ m.stale = {}
    BY <1>1 DEF Owned
  <1>10. \A t \in Slots : m.at[t] # NULL => m.at[t] \in m.live
    BY <1>9 DEF Pointers
  <1>11. Owned(n)
    <2>1. \A t, u \in Slots : t # u /\ n.at[t] # NULL => n.at[t] # n.at[u]
      BY <1>3, <1>7, <1>9, <1>10
    <2>2. Pointers(n) \subseteq n.live
      BY <1>6, <1>7, <1>10 DEF Pointers
    <2> QED
      BY <1>6, <1>8, <1>9, <2>1, <2>2 DEF Owned
  <1>12. ASSUME NEW K, Apart(K, m) PROVE Apart(K, n)
    BY <1>3, <1>6, <1>7, <1>12 DEF Apart
  <1> QED
    BY <1>4, <1>7, <1>11, <1>12

\* So is an allocation that may fail.
LEMMA MallocFollows ==
    ASSUME NEW m, NEW s \in Slots
    PROVE  AllKept(m, malloc(m, s)) /\ (s \in ContextSlots => AllFollow(m, malloc(m, s)))
  BY StoreFollows, FollowsItself DEF AllFollow, AllKept, Kept, malloc, Ok, Fail

\* Freeing a pointer that is then NULL.
LEMMA FreeFollows ==
    ASSUME NEW m, NEW s \in Slots
    PROVE  /\ Kept(m, iot_security_buffer_free(m, s))
           /\ s \in ContextSlots => Follows(m, iot_security_buffer_free(m, s))
  <1>1. SUFFICES ASSUME Owned(m), m.at[s] # NULL
                 PROVE  /\ Kept(m, iot_security_buffer_free(m, s))
                        /\ s \in ContextSlots => Follows(m, iot_security_buffer_free(m, s))
    BY DEF iot_security_buffer_free, Follows, Kept
  <1>2. PICK b : b = m.at[s]
    OBVIOUS
  <1>3. PICK n : n = iot_security_buffer_free(m, s)
    OBVIOUS
  <1>4. /\ n = [m EXCEPT !.twice = @ \cup ({b} \ m.live), !.live = @ \ {b}, !.at[s] = NULL]
        /\ m \in Mem
        /\ NULL \in Nat
    BY <1>1, <1>2, <1>3 DEF iot_security_buffer_free, Owned, NULL
  <1>5. /\ Pointers(m) \subseteq m.live
        /\ \A t, u \in Slots : t # u /\ m.at[t] # NULL => m.at[t] # m.at[u]
        /\ m.twice = {} /\ m.stale = {}
    BY <1>1 DEF Owned
  <1>6. \A t \in Slots : m.at[t] # NULL => m.at[t] \in m.live
    BY <1>5 DEF Pointers
  <1>7. {b} \ m.live = {}
    BY <1>1, <1>2, <1>6
  <1>8. /\ n.live = m.live \ {b} /\ n.at = [m.at EXCEPT ![s] = NULL]
        /\ n.twice = {} /\ n.stale = {} /\ n.sub = m.sub
    BY <1>4, <1>5, <1>7
  <1>9. n \in Mem
    <2>1. /\ n.live \in SUBSET Nat /\ n.at \in [Slots -> Nat]
          /\ n.sub \in SUBSET SubSystems /\ n.twice \in SUBSET Nat /\ n.stale \in SUBSET Nat
      BY <1>4, <1>8 DEF Mem
    <2> QED
      BY <1>4, <2>1 DEF Mem
  <1>10. n.at[s] = NULL /\ \A t \in Slots : t # s => n.at[t] = m.at[t]
    BY <1>4, <1>8 DEF Mem
  <1>11. IsFiniteSet(n.live)
    BY <1>1, <1>8, FS_RemoveElement DEF Owned
  <1>12. Owned(n)
    <2>1. \A t, u \in Slots : t # u /\ n.at[t] # NULL => n.at[t] # n.at[u]
      BY <1>5, <1>10
    <2>2. Pointers(n) \subseteq n.live
      BY <1>2, <1>5, <1>6, <1>8, <1>10 DEF Pointers
    <2> QED
      BY <1>8, <1>9, <1>11, <2>1, <2>2 DEF Owned
  <1>13. ASSUME NEW K, Apart(K, m) PROVE Apart(K, n)
    BY <1>1, <1>2, <1>8, <1>10, <1>13 DEF Apart
  <1> QED
    BY <1>3, <1>10, <1>12, <1>13 DEF Follows, Kept
\* A memset, and any change of context->sub_system.
LEMMA SetFollows ==
    ASSUME NEW m, NEW S \in SUBSET Slots, NEW n,
           Owned(m) => /\ n \in Mem /\ n.live = m.live
                       /\ n.twice = m.twice /\ n.stale = m.stale
                       /\ \A s \in Slots : n.at[s] = IF s \in S THEN NULL ELSE m.at[s]
    PROVE  Kept(m, n) /\ (S \subseteq ContextSlots => Follows(m, n))
  <1>1. SUFFICES ASSUME Owned(m)
                 PROVE  Kept(m, n) /\ (S \subseteq ContextSlots => Follows(m, n))
    BY DEF Follows, Kept
  <1>2. Owned(n)
    BY <1>1 DEF Owned, Pointers
  <1>3. ASSUME NEW K, Apart(K, m) PROVE Apart(K, n)
    BY <1>1, <1>3 DEF Apart
  <1> QED
    BY <1>1, <1>2, <1>3 DEF Follows, Kept

\* Forgetting pointers: the buffers stay allocated.
LEMMA ClearFollows ==
    ASSUME NEW m, NEW S \in SUBSET Slots
    PROVE  /\ Kept(m, Clear(m, S))
           /\ S \subseteq ContextSlots => Follows(m, Clear(m, S))
  <1>1. Owned(m) => m \in Mem /\ NULL \in Nat
    BY DEF Owned, NULL
  <1>2. PICK n : n = Clear(m, S)
    OBVIOUS
  <1>3. Owned(m) =>
           /\ n \in Mem /\ n.live = m.live /\ n.twice = m.twice /\ n.stale = m.stale
           /\ \A s \in Slots : n.at[s] = IF s \in S THEN NULL ELSE m.at[s]
    BY <1>1, <1>2 DEF Clear, Mem
  <1> QED
    BY <1>2, <1>3, SetFollows

\* Forgetting a context.
LEMMA ClearContextFollows ==
    ASSUME NEW m
    PROVE  Follows(m, ClearContext(m))
  <1>1. Owned(m) => m \in Mem /\ NULL \in Nat
    BY DEF Owned, NULL
  <1>2. PICK n : n = ClearContext(m)
    OBVIOUS
  <1>3. Owned(m) =>
           /\ n \in Mem /\ n.live = m.live /\ n.twice = m.twice /\ n.stale = m.stale
           /\ \A s \in Slots : n.at[s] = IF s \in ContextSlots THEN NULL ELSE m.at[s]
    BY <1>1, <1>2 DEF Clear, ClearContext, Mem
  <1>4. ContextSlots \in SUBSET Slots
    BY DEF Slots
  <1> QED
    BY <1>2, <1>3, <1>4, SetFollows

\* The flags of the subsystems are not memory.
LEMMA SubFollows ==
    ASSUME NEW m, NEW sys \in SubSystems
    PROVE  Follows(m, Enter(m, sys)) /\ Follows(m, Leave(m, sys))
  <1>1. Owned(m) => m \in Mem
    BY DEF Owned
  <1>2. PICK S \in SUBSET ContextSlots : S = {}
    OBVIOUS
  <1>3. ASSUME NEW n \in {Enter(m, sys), Leave(m, sys)} PROVE Follows(m, n)
    <2>1. Owned(m) =>
             /\ n \in Mem /\ n.live = m.live /\ n.twice = m.twice /\ n.stale = m.stale
             /\ \A s \in Slots : n.at[s] = IF s \in S THEN NULL ELSE m.at[s]
      BY <1>1, <1>2, <1>3 DEF Enter, Leave, Mem
    <2>2. S \in SUBSET Slots
      BY DEF Slots
    <2> QED
      BY <2>1, <2>2, SetFollows
  <1> QED
    BY <1>3

-----------------------------------------------------------------------------
(* Composition: after outcomes that follow m, a call whose outcomes follow. *)

\* The slots of every call.
LEMMA SlotNames ==
    /\ {"ctx", "be", "storage", "cipher", "key", "iv", "ecdh", "t_seckey", "c_pubkey",
        "salt", "pk", "seckey", "pubkey"} \subseteq ContextSlots
    /\ ContextSlots \subseteq Slots /\ {"eph_sec", "eph_pub"} \subseteq Slots
    /\ {"pk", "cipher", "ecdh", "manager", "storage"} \subseteq SubSystems
  BY DEF Slots, ContextSlots, CipherSlots, EcdhSlots, PkSlots, SubSystems

\* What each call on a slot of a context, or on all of them, does.
LEMMA SlotFollows ==
    /\ \A m, s : s \in ContextSlots => /\ AllFollow(m, malloc(m, s))
                                       /\ Follows(m, iot_security_buffer_free(m, s))
    /\ \A m, S : S \subseteq ContextSlots => Follows(m, Clear(m, S))
    /\ \A m, sys : sys \in SubSystems => /\ Follows(m, Enter(m, sys))
                                         /\ Follows(m, Leave(m, sys))
    /\ \A m : /\ AllFollow(m, Ok(m)) /\ AllFollow(m, Fail(m)) /\ AllFollow(m, MayFail(m))
    /\ \A m, s : AllFollow(m, _iot_security_be_check_context_and_params_is_valid(m, s))
  <1>1. \A m : /\ AllFollow(m, Ok(m)) /\ AllFollow(m, Fail(m)) /\ AllFollow(m, MayFail(m))
    BY FollowsItself DEF AllFollow, Ok, Fail, MayFail
  <1>2. \A m, s : AllFollow(m, _iot_security_be_check_context_and_params_is_valid(m, s))
    BY <1>1 DEF _iot_security_be_check_context_and_params_is_valid
  <1>3. \A m, s : s \in ContextSlots => /\ AllFollow(m, malloc(m, s))
                                        /\ Follows(m, iot_security_buffer_free(m, s))
    BY MallocFollows, FreeFollows, SlotNames
  <1>4. \A m, S : S \subseteq ContextSlots => Follows(m, Clear(m, S))
    BY ClearFollows, SlotNames
  <1>5. \A m, sys : sys \in SubSystems => /\ Follows(m, Enter(m, sys))
                                          /\ Follows(m, Leave(m, sys))
    BY SubFollows
  <1> QED
    BY <1>1, <1>2, <1>3, <1>4, <1>5

\* Contexts.
LEMMA InitFollows ==
    ASSUME NEW m
    PROVE  AllFollow(ClearContext(m), iot_security_init(m))
  <1>1. PICK x : x = ClearContext(m)
    OBVIOUS
  <1>2. AllFollow(x, malloc(x, "ctx")) /\ \A y : AllFollow(y, malloc(y, "be"))
    BY SlotFollows, SlotNames
  <1>3. \A y : Follows(y, iot_security_buffer_free(y, "ctx"))
    BY SlotFollows, SlotNames
  <1> QED
    BY <1>1, <1>2, <1>3, FollowsTwice
    DEF iot_security_init, iot_security_be_init, Then, Undo, AllFollow

\* iot_security_deinit, which also forgets the parameters.
LEMMA DeinitFollows ==
    ASSUME NEW m
    PROVE  Follows(m, iot_security_deinit(m))
  <1>1. \A y : /\ Follows(y, iot_security_buffer_free(y, "ctx"))
               /\ Follows(y, iot_security_buffer_free(y, "be"))
    BY SlotFollows, SlotNames
  <1> QED
    BY <1>1, ClearContextFollows, FollowsTwice DEF iot_security_deinit, iot_security_be_deinit

\* Keys of the device.
LEMMA LoadKeyFollows ==
    ASSUME NEW m
    PROVE  AllFollow(m, _iot_security_be_software_pk_load_key(m))
  <1>1. \A y : AllFollow(y, malloc(y, "seckey")) /\ AllFollow(y, malloc(y, "pubkey"))
    BY SlotFollows, SlotNames
  <1>2. \A y : Follows(y, Clear(y, {"seckey", "pubkey"}))
    BY SlotFollows, SlotNames
  <1> QED
    BY <1>1, <1>2, FollowsTwice
    DEF _iot_security_be_software_pk_load_key, _iot_security_be_software_pk_load_ecdsa,
        _iot_security_be_software_pk_load_ed25519,
        _iot_security_be_software_pk_load_ed25519_key, Then, Undo, AllFollow

\* iot_security_pk_init.
LEMMA PkInitFollows ==
    ASSUME NEW m
    PROVE  AllFollow(m, iot_security_pk_init(m))
  <1>1. PICK x : x = Clear(m, PkSlots)
    OBVIOUS
  <1>2. Follows(m, x)
    BY <1>1, SlotFollows DEF ContextSlots
  <1>3. \A y : /\ AllFollow(y, malloc(y, "pk")) /\ Follows(y, Enter(y, "pk"))
               /\ Follows(y, iot_security_buffer_free(y, "pk"))
    BY SlotFollows, SlotNames
  <1> QED
    BY <1>1, <1>2, <1>3, LoadKeyFollows, FollowsTwice
    DEF iot_security_pk_init, Then, Undo, AllFollow, Ok

\* iot_security_pk_deinit.
LEMMA PkDeinitFollows ==
    ASSUME NEW m
    PROVE  AllFollow(m, iot_security_pk_deinit(m)) /\ AllFollow(m, iot_security_pk_sign(m))
  <1>1. \A y : /\ AllFollow(y, _iot_security_be_check_context_and_params_is_valid(y, "pk"))
               /\ AllFollow(y, MayFail(y)) /\ Follows(y, Leave(y, "pk"))
               /\ Follows(y, iot_security_buffer_free(y, "pk"))
               /\ Follows(y, iot_security_buffer_free(y, "seckey"))
               /\ Follows(y, iot_security_buffer_free(y, "pubkey"))
    BY SlotFollows, SlotNames
  <1>2. AllFollow(m, iot_security_pk_sign(m))
    BY <1>1, FollowsTwice DEF iot_security_pk_sign, Then, AllFollow
  <1>3. AllFollow(m, _iot_security_be_software_pk_deinit(m))
    BY <1>1, FollowsTwice DEF _iot_security_be_software_pk_deinit, Then, AllFollow, Ok
  <1>4. AllFollow(m, iot_security_pk_deinit(m))
    BY <1>1, <1>3, FollowsTwice DEF iot_security_pk_deinit, Then, AllFollow, Ok
  <1> QED
    BY <1>2, <1>4

\* The cipher.
LEMMA CipherInitFollows ==
    ASSUME NEW m
    PROVE  AllFollow(m, iot_security_cipher_init(m))
  <1>1. \A y : /\ AllFollow(y, malloc(y, "cipher")) /\ Follows(y, Clear(y, {"key", "iv"}))
               /\ Follows(y, Enter(y, "cipher")) /\ AllFollow(y, Fail(y))
    BY SlotFollows, SlotNames
  <1> QED
    BY <1>1, FollowsTwice DEF iot_security_cipher_init, Then, AllFollow, Ok

\* iot_security_cipher_deinit.
LEMMA CipherDeinitFollows ==
    ASSUME NEW m
    PROVE  AllFollow(m, iot_security_cipher_deinit(m))
  <1>1. \A y : /\ AllFollow(y, _iot_security_be_check_context_and_params_is_valid(y, "cipher"))
               /\ Follows(y, iot_security_buffer_free(y, "key"))
               /\ Follows(y, iot_security_buffer_free(y, "iv"))
               /\ Follows(y, iot_security_buffer_free(y, "cipher"))
               /\ Follows(y, Leave(y, "cipher")) /\ AllFollow(y, Fail(y))
    BY SlotFollows, SlotNames
  <1>2. \A y : Follows(y, Clear(y, CipherSlots))
    BY SlotFollows DEF ContextSlots
  <1>3. AllFollow(m, _iot_security_be_software_cipher_deinit(m))
    BY <1>1, FollowsTwice DEF _iot_security_be_software_cipher_deinit, Then, AllFollow, Ok
  <1> QED
    BY <1>1, <1>2, <1>3, FollowsTwice DEF iot_security_cipher_deinit, Then, AllFollow, Ok

\* A parameter is replaced after the old one is freed.
LEMMA CopyParamsFollows ==
    ASSUME NEW m, NEW s \in ContextSlots
    PROVE  AllFollow(m, CopyParams(m, s))
  BY SlotFollows, FollowsTwice DEF CopyParams, AllFollow

\* iot_security_cipher_set_params.
LEMMA CipherSetParamsFollows ==
    ASSUME NEW m
    PROVE  AllFollow(m, iot_security_cipher_set_params(m))
  <1>1. \A y : /\ AllFollow(y, _iot_security_be_check_context_and_params_is_valid(y, "cipher"))
               /\ AllFollow(y, CopyParams(y, "iv"))
    BY SlotFollows, CopyParamsFollows, SlotNames
  <1> QED
    BY <1>1, FollowsTwice
    DEF iot_security_cipher_set_params, _iot_security_be_software_cipher_copy_params,
        Then, AllFollow

\* The key and the iv that are used are allocated.
LEMMA AesFollows ==
    ASSUME NEW m
    PROVE  AllFollow(m, mbedtls_helper_cipher_aes(m))
  <1>1. SUFFICES ASSUME m.at["key"] # NULL, m.at["iv"] # NULL
                 PROVE  AllFollow(m, mbedtls_helper_cipher_aes(m))
    BY SlotFollows DEF mbedtls_helper_cipher_aes
  <1>2. PICK n : n = [m EXCEPT !.stale = @ \cup ({m.at["key"], m.at["iv"]} \ m.live)]
    OBVIOUS
  <1>3. Owned(m) => m \in Mem /\ {m.at["key"], m.at["iv"]} \ m.live = {}
    BY <1>1, SlotNames DEF Owned, Pointers
  <1>4. PICK S \in SUBSET Slots : S = {}
    OBVIOUS
  <1>5. Owned(m) =>
           /\ n \in Mem /\ n.live = m.live /\ n.twice = m.twice /\ n.stale = m.stale
           /\ \A s \in Slots : n.at[s] = IF s \in S THEN NULL ELSE m.at[s]
    BY <1>2, <1>3, <1>4 DEF Mem
  <1>6. Follows(m, n)
    BY <1>4, <1>5, SetFollows
  <1> QED
    BY <1>1, <1>2, <1>6 DEF mbedtls_helper_cipher_aes, MayFail, Ok, Fail, AllFollow

\* A request that is decrypted, and its answer encrypted.
LEMMA MessageFollows ==
    ASSUME NEW m
    PROVE  AllFollow(m, Then(iot_security_cipher_aes_decrypt(m),
                             iot_security_cipher_aes_encrypt))
  <1>1. \A y : AllFollow(y, _iot_security_be_check_context_and_params_is_valid(y, "cipher"))
    BY SlotFollows
  <1>2. \A y : /\ AllFollow(y, iot_security_cipher_aes_decrypt(y))
               /\ AllFollow(y, iot_security_cipher_aes_encrypt(y))
    BY <1>1, AesFollows, FollowsTwice
    DEF iot_security_cipher_aes_decrypt, iot_security_cipher_aes_encrypt, Then, AllFollow
  <1> QED
    BY <1>2, FollowsTwice DEF Then, AllFollow

\* The manager and the key agreement.
LEMMA ManagerFollows ==
    ASSUME NEW m
    PROVE  /\ AllFollow(m, iot_security_manager_init(m))
           /\ AllFollow(m, iot_security_manager_deinit(m))
           /\ AllFollow(m, iot_security_manager_get_key(m))
           /\ AllFollow(m, iot_security_manager_get_certificate(m))
  BY SlotFollows, SlotNames
  DEF iot_security_manager_init, iot_security_manager_deinit, iot_security_manager_get_key,
      iot_security_manager_get_certificate, AllFollow, Ok

\* iot_security_ecdh_init.
LEMMA EcdhInitFollows ==
    ASSUME NEW m
    PROVE  AllFollow(m, iot_security_ecdh_init(m))
  <1>1. \A y : /\ AllFollow(y, malloc(y, "ecdh")) /\ AllFollow(y, malloc(y, "t_seckey"))
               /\ Follows(y, iot_security_buffer_free(y, "ecdh"))
               /\ Follows(y, Enter(y, "ecdh")) /\ AllFollow(y, Fail(y)) /\ AllFollow(y, Ok(y))
    BY SlotFollows, SlotNames
  <1>2. \A y : Follows(y, Clear(y, EcdhSlots \ {"ecdh"}))
    BY SlotFollows DEF ContextSlots
  <1>3. \A y : AllFollow(y, _iot_security_be_software_ecdh_load(y))
    BY <1>1 DEF _iot_security_be_software_ecdh_load, _iot_security_be_software_ecdh_load_ed25519
  <1>4. \A y, o : o \in _iot_security_be_software_ecdh_load(Clear(y, EcdhSlots \ {"ecdh"}))
                  => Follows(y, o.m)
    BY <1>2, <1>3, FollowsTwice DEF AllFollow
  <1>5. SUFFICES ASSUME m.at["ctx"] # NULL, NEW o \in iot_security_ecdh_init(m)
                 PROVE  Follows(m, o.m)
    BY <1>1 DEF iot_security_ecdh_init, AllFollow
  <1>6. PICK p \in malloc(m, "ecdh") :
           \/ ~ p.ok /\ o = p
           \/ o \in Undo(Then(_iot_security_be_software_ecdh_load(
                                  Clear(p.m, EcdhSlots \ {"ecdh"})),
                              LAMBDA y : Ok(Enter(y, "ecdh"))),
                         LAMBDA y : iot_security_buffer_free(y, "ecdh"))
    BY <1>5 DEF iot_security_ecdh_init, Then
  <1>7. Follows(m, p.m)
    BY <1>1 DEF AllFollow
  <1>8. CASE o = p
    BY <1>7, <1>8
  <1>9. CASE o \in Undo(Then(_iot_security_be_software_ecdh_load(
                                 Clear(p.m, EcdhSlots \ {"ecdh"})),
                             LAMBDA y : Ok(Enter(y, "ecdh"))),
                        LAMBDA y : iot_security_buffer_free(y, "ecdh"))
    <2>1. PICK L : L = _iot_security_be_software_ecdh_load(Clear(p.m, EcdhSlots \ {"ecdh"}))
      OBVIOUS
    <2>2. \A q \in L : Follows(p.m, q.m)
      BY <1>4, <2>1
    <2>3. \/ \E q \in L : o.m = Enter(q.m, "ecdh")
          \/ \E q \in L : o.m = iot_security_buffer_free(q.m, "ecdh")
      BY <1>9, <2>1 DEF Undo, Then, Ok
    <2> QED
      BY <1>1, <1>7, <2>2, <2>3, FollowsTwice
  <1> QED
    BY <1>6, <1>8, <1>9

\* iot_security_ecdh_deinit.
LEMMA EcdhDeinitFollows ==
    ASSUME NEW m
    PROVE  AllFollow(m, iot_security_ecdh_deinit(m))
  <1>1. \A y : /\ AllFollow(y, _iot_security_be_check_context_and_params_is_valid(y, "ecdh"))
               /\ Follows(y, iot_security_buffer_free(y, "t_seckey"))
               /\ Follows(y, iot_security_buffer_free(y, "c_pubkey"))
               /\ Follows(y, iot_security_buffer_free(y, "salt"))
               /\ Follows(y, iot_security_buffer_free(y, "ecdh"))
               /\ Follows(y, Leave(y, "ecdh"))
    BY SlotFollows, SlotNames
  <1>2. \A y : Follows(y, Clear(y, EcdhSlots))
    BY SlotFollows DEF ContextSlots
  <1>3. AllFollow(m, _iot_security_be_software_ecdh_deinit(m))
    BY <1>1, FollowsTwice DEF _iot_security_be_software_ecdh_deinit, Then, AllFollow, Ok
  <1> QED
    BY <1>1, <1>2, <1>3, FollowsTwice DEF iot_security_ecdh_deinit, Then, AllFollow, Ok

\* iot_security_ecdh_set_params.
LEMMA EcdhSetParamsFollows ==
    ASSUME NEW m
    PROVE  AllFollow(m, iot_security_ecdh_set_params(m))
  <1>1. \A y : /\ AllFollow(y, _iot_security_be_check_context_and_params_is_valid(y, "ecdh"))
               /\ AllFollow(y, CopyParams(y, "c_pubkey")) /\ AllFollow(y, CopyParams(y, "salt"))
    BY SlotFollows, CopyParamsFollows, SlotNames
  <1> QED
    BY <1>1, FollowsTwice
    DEF iot_security_ecdh_set_params, _iot_security_be_software_ecdh_copy_params,
        Then, AllFollow

\* A new key pair of the backend.
LEMMA GenerateKeyKeeps ==
    ASSUME NEW m
    PROVE  AllKept(m, iot_security_manager_generate_key(m))
  <1>1. \A y, s : s \in {"eph_sec", "eph_pub"} => AllKept(y, RawKey(y, s))
    BY StoreFollows, ClearFollows, SlotNames DEF RawKey, Ok, Fail, AllKept, Kept
  <1>2. \A y : Kept(y, iot_security_buffer_free(y, "eph_pub"))
    BY FreeFollows, SlotNames
  <1> QED
    BY <1>1, <1>2
    DEF iot_security_manager_generate_key, mbedtls_helper_gen_secp256r1_keypair,
        _convert_pubkey_to_raw, _convert_seckey_to_raw, MayFail, Ok, Fail, Then, Undo,
        AllKept, Kept
-----------------------------------------------------------------------------
(* Calls with a context of their own.                                      *)

\* The storage of a context.
LEMMA StorageFollows ==
    ASSUME NEW m
    PROVE  /\ AllFollow(m, iot_security_storage_init(m))
           /\ Follows(m, _iot_nv_io_storage_deinit(m))
  <1>1. \A y : /\ AllFollow(y, malloc(y, "storage")) /\ Follows(y, Enter(y, "storage"))
               /\ Follows(y, iot_security_buffer_free(y, "storage"))
               /\ Follows(y, Leave(y, "storage"))
    BY SlotFollows, SlotNames
  <1>2. AllFollow(m, iot_security_storage_init(m))
    BY <1>1, FollowsTwice DEF iot_security_storage_init, Then, AllFollow, Ok
  <1>3. Follows(m, _iot_nv_io_storage_deinit(m))
    BY <1>1, DeinitFollows, FollowsTwice
    DEF _iot_nv_io_storage_deinit, iot_security_storage_deinit
  <1> QED
    BY <1>2, <1>3

\* The accesses of the non-volatile data, with a context that begins empty.
LEMMA NvFollows ==
    ASSUME NEW m
    PROVE  /\ AllFollow(ClearContext(m), _iot_nv_io_storage(m))
           /\ AllFollow(ClearContext(m), iot_nv_get_certificate(m))
  <1>1. PICK x : x = ClearContext(m)
    OBVIOUS
  <1>2. AllFollow(x, iot_security_init(m))
    BY <1>1, InitFollows
  <1>3. AllFollow(x, _iot_nv_io_storage_init(m))
    BY <1>2, StorageFollows, DeinitFollows, FollowsTwice
    DEF _iot_nv_io_storage_init, Then, Undo, AllFollow
  <1>4. AllFollow(x, _iot_nv_io_storage(m))
    BY <1>3, StorageFollows, FollowsTwice
    DEF _iot_nv_io_storage, Then, AllFollow, MayFail, Ok, Fail
  <1>5. AllFollow(x, iot_nv_get_certificate(m))
    BY <1>3, StorageFollows, ManagerFollows, FollowsTwice
    DEF iot_nv_get_certificate, Then, AllFollow, Ok
  <1> QED
    BY <1>1, <1>4, <1>5

\* iot_wt_create, likewise.
LEMMA TokenFollows ==
    ASSUME NEW m
    PROVE  AllFollow(ClearContext(m), iot_wt_create(m))
  <1>1. PICK x : x = ClearContext(m)
    OBVIOUS
  <1>2. AllFollow(x, iot_security_init(m))
    BY <1>1, InitFollows
  <1> QED
    BY <1>1, <1>2, PkInitFollows, PkDeinitFollows, DeinitFollows, FollowsTwice
    DEF iot_wt_create, Then, AllFollow

\* The caller's own context is as it was.
LEMMA RestoreKeeps ==
    ASSUME NEW m, NEW o, Follows(ClearContext(m), o.m)
    PROVE  Kept(m, Restore(m, o).m)
  <1>1. SUFFICES ASSUME Owned(m) PROVE Owned(Restore(m, o).m)
    BY DEF Kept
  <1>2. PICK x : x = ClearContext(m)
    OBVIOUS
  <1>3. PICK n : n = o.m
    OBVIOUS
  <1>4. PICK r : r = Restore(m, o).m
    OBVIOUS
  <1>5. m \in Mem /\ NULL \in Nat /\ ContextSlots \subseteq Slots
    BY <1>1, SlotNames DEF Owned, NULL
  <1>6. /\ x.live = m.live
        /\ \A s \in Slots : x.at[s] = IF s \in ContextSlots THEN NULL ELSE m.at[s]
    BY <1>2, <1>5 DEF ClearContext, Clear, Mem
  <1>7. Owned(x)
    BY <1>1, <1>2, ClearContextFollows DEF Follows, Kept
  <1>8. /\ Owned(n) /\ \A K : Apart(K, x) => Apart(K, n)
        /\ \A s \in Slots \ ContextSlots : n.at[s] = x.at[s]
    BY <1>2, <1>3, <1>7 DEF Follows, Kept
  <1>9. /\ n \in Mem /\ IsFiniteSet(n.live) /\ Pointers(n) \subseteq n.live
        /\ n.twice = {} /\ n.stale = {}
    BY <1>8 DEF Owned
  <1>10. /\ r \in Mem /\ r.live = n.live /\ r.twice = n.twice /\ r.stale = n.stale
         /\ \A s \in Slots : r.at[s] = IF s \in ContextSlots THEN m.at[s] ELSE n.at[s]
    BY <1>3, <1>4, <1>5, <1>9 DEF Restore, Mem
  <1>11. \A s \in Slots : r.at[s] = m.at[s]
    BY <1>6, <1>8, <1>10
  <1>12. /\ Pointers(m) \subseteq m.live
         /\ \A s, t \in Slots : s # t /\ m.at[s] # NULL => m.at[s] # m.at[t]
    BY <1>1 DEF Owned
  <1>13. PICK K : K = m.live \ {m.at[s] : s \in Slots \ ContextSlots}
    OBVIOUS
  <1>14. Apart(K, x)
    BY <1>6, <1>13 DEF Apart
  <1>15. K \subseteq n.live
    BY <1>8, <1>14 DEF Apart
  <1>16. ASSUME NEW s \in Slots, m.at[s] # NULL PROVE m.at[s] \in n.live
    <2>1. CASE s \in ContextSlots
      BY <1>5, <1>12, <1>13, <1>15, <1>16, <2>1 DEF Pointers
    <2>2. CASE s \notin ContextSlots
      BY <1>6, <1>8, <1>9, <1>16, <2>2 DEF Pointers
    <2> QED
      BY <2>1, <2>2
  <1>17. Pointers(r) \subseteq r.live
    BY <1>10, <1>11, <1>16 DEF Pointers
  <1> QED
    BY <1>4, <1>9, <1>10, <1>11, <1>12, <1>17 DEF Owned
-----------------------------------------------------------------------------
(* The handlers of the easy setup.                                         *)

\* Following is keeping, and keeping twice is keeping.
LEMMA FollowsKeeps ==
    /\ \A m, n : Follows(m, n) => Kept(m, n)
    /\ \A m, n, q : Kept(m, n) /\ Kept(n, q) => Kept(m, q)
    /\ \A m, outs : AllFollow(m, outs) => AllKept(m, outs)
    /\ \A m : AllKept(m, MayFail(m))
  BY DEF Follows, Kept, AllFollow, AllKept, MayFail, Ok, Fail

\* A new context, or the old one.
LEMMA BleEcdhInitKeeps ==
    ASSUME NEW m
    PROVE  AllKept(m, iot_easysetup_ble_ecdh_init(m))
  <1>1. PICK x : x = ClearContext(m)
    OBVIOUS
  <1>2. Follows(m, x) /\ AllFollow(x, iot_security_init(m))
    BY <1>1, ClearContextFollows, InitFollows
  <1>3. PICK outs : outs = Then(Then(Then(iot_security_init(m), iot_security_pk_init),
                                     iot_security_manager_init), iot_security_cipher_init)
    OBVIOUS
  <1>4. AllFollow(x, outs)
    <2>1. AllFollow(x, Then(iot_security_init(m), iot_security_pk_init))
      BY <1>2, PkInitFollows, FollowsTwice DEF Then, AllFollow
    <2>2. AllFollow(x, Then(Then(iot_security_init(m), iot_security_pk_init),
                            iot_security_manager_init))
      BY <2>1, ManagerFollows, FollowsTwice DEF Then, AllFollow
    <2> QED
      BY <1>3, <2>2, CipherInitFollows, FollowsTwice DEF Then, AllFollow
  <1>5. iot_easysetup_ble_ecdh_init(m) = {IF o.ok THEN o ELSE Restore(m, o) : o \in outs}
    BY <1>3 DEF iot_easysetup_ble_ecdh_init
  <1>6. \A o \in outs : Kept(m, o.m)
    BY <1>2, <1>4, FollowsKeeps DEF AllFollow
  <1>7. \A o \in outs : Kept(m, Restore(m, o).m)
    BY <1>1, <1>4, RestoreKeeps DEF AllFollow
  <1> QED
    BY <1>5, <1>6, <1>7 DEF AllKept

\* The signature of the X.509 DEVICEINFO.
LEMMA SignatureKeeps ==
    ASSUME NEW m
    PROVE  AllKept(m, iot_easysetup_ble_ecdh_compute_shared_signature(m))
  <1>1. \A y : /\ AllKept(y, iot_security_manager_get_certificate(y))
               /\ AllKept(y, iot_security_ecdh_init(y))
               /\ AllKept(y, iot_security_manager_generate_key(y))
               /\ AllKept(y, iot_security_manager_get_key(y))
               /\ AllKept(y, iot_security_pk_sign(y))
    BY ManagerFollows, EcdhInitFollows, GenerateKeyKeeps, PkDeinitFollows, FollowsKeeps
  <1>2. AllKept(m, Then(iot_security_manager_get_certificate(m), iot_security_ecdh_init))
    BY <1>1, FollowsKeeps DEF Then, AllKept
  <1>3. AllKept(m, Then(Then(iot_security_manager_get_certificate(m), iot_security_ecdh_init),
                        iot_security_manager_generate_key))
    BY <1>1, <1>2, FollowsKeeps DEF Then, AllKept
  <1> QED
    BY <1>1, <1>3, FollowsKeeps
    DEF iot_easysetup_ble_ecdh_compute_shared_signature, Then, AllKept

\* A DEVICEINFO, in every variant.
LEMMA DeviceInfoKeeps ==
    ASSUME NEW m, variant \in {"http", "ble", "x509"}
    PROVE  AllKept(m, _es_deviceinfo_handler(m))
  <1>1. \A y : /\ AllKept(y, iot_security_cipher_set_params(y)) /\ AllKept(y, MayFail(y))
               /\ AllKept(y, iot_easysetup_ble_ecdh_init(y))
               /\ AllKept(y, iot_security_cipher_init(y))
               /\ AllKept(y, iot_easysetup_ble_ecdh_compute_shared_signature(y))
    BY CipherSetParamsFollows, BleEcdhInitKeeps, CipherInitFollows, SignatureKeeps, FollowsKeeps
  <1>2. CASE variant = "http"
    BY <1>1, <1>2, FollowsKeeps DEF _es_deviceinfo_handler, Then, AllKept
  <1>3. CASE variant = "ble"
    BY <1>1, <1>3, FollowsKeeps DEF _es_deviceinfo_handler, Then, AllKept
  <1>4. CASE variant = "x509"
    BY <1>1, <1>4, FollowsKeeps DEF _es_deviceinfo_handler, Then, AllKept
  <1> QED
    BY <1>2, <1>3, <1>4

\* A buffer that no pointer leads to yet.
LEMMA MallocLocalKeeps ==
    ASSUME NEW m
    PROVE  Kept(m, MallocLocal(m))
  <1>1. SUFFICES ASSUME Owned(m) PROVE Owned(MallocLocal(m))
    BY DEF Kept
  <1>2. Fresh(m) \in Nat /\ IsFiniteSet(m.live \cup {Fresh(m)})
    BY <1>1, FreshIsFree, FS_AddElement DEF Owned
  <1> QED
    BY <1>1, <1>2 DEF Owned, MallocLocal, Pointers, Mem

\* The secret becomes the key of the cipher as if it had been allocated there.
LEMMA SecretCases ==
    ASSUME NEW m \in Mem, NEW o \in iot_security_ecdh_compute_shared_secret(m)
    PROVE  /\ \/ o.m = m
              \/ "cipher" \notin m.sub /\ o.m = MallocLocal(m)
              \/ "cipher" \in m.sub /\ m.at["cipher"] # NULL /\ o.m = Store(m, "key")
           /\ o.secret = NULL \/ o.secret = Fresh(m)
  <1>1. PICK b : b = Fresh(m)
    OBVIOUS
  <1>2. PICK x : x = MallocLocal(m)
    OBVIOUS
  <1>3. x = [m EXCEPT !.live = @ \cup {b}]
    BY <1>1, <1>2 DEF MallocLocal
  <1>4. PICK set : set = IF "cipher" \in m.sub
                         THEN _iot_security_be_software_manager_set_key(x, b) ELSE Ok(x)
    OBVIOUS
  <1>5. \A p \in set : p.ok => \/ "cipher" \notin m.sub /\ p.m = x
                               \/ /\ "cipher" \in m.sub /\ x.at["cipher"] # NULL
                                  /\ p.m = [x EXCEPT !.at["key"] = b]
    BY <1>4 DEF _iot_security_be_software_manager_set_key,
                _iot_security_be_check_context_and_params_is_valid, Then, Ok, Fail
  <1>6. o.secret \in {NULL, b} /\ (o.m = m \/ \E p \in set : p.ok /\ o.m = p.m)
    BY <1>1, <1>3, <1>4
    DEF iot_security_ecdh_compute_shared_secret,
        _iot_security_be_software_ecdh_compute_shared_secret
  <1>7. [x EXCEPT !.at["key"] = b] = Store(m, "key") /\ x.at = m.at
    BY <1>1, <1>3 DEF Store, Mem
  <1> QED
    BY <1>1, <1>2, <1>5, <1>6, <1>7

\* So the secret keeps ownership.
LEMMA SecretKeeps ==
    ASSUME NEW m, NEW o \in iot_security_ecdh_compute_shared_secret(m)
    PROVE  Kept(m, o.m)
  <1>1. SUFFICES ASSUME Owned(m) PROVE Owned(o.m)
    BY DEF Kept
  <1>2. Owned(MallocLocal(m)) /\ Owned(Store(m, "key"))
    BY <1>1, MallocLocalKeeps, StoreFollows, SlotNames DEF Kept
  <1>3. o.m = m \/ o.m = MallocLocal(m) \/ o.m = Store(m, "key")
    BY <1>1, SecretCases DEF Owned
  <1> QED
    BY <1>1, <1>2, <1>3

\* The parameters, then the secret.
LEMMA KeyInfoSecretKeeps ==
    ASSUME NEW m, NEW o \in KeyInfoSecret(m)
    PROVE  Kept(m, o.m)
  <1>1. PICK p \in iot_security_ecdh_set_params(m) :
           o.m = p.m \/ o \in iot_security_ecdh_compute_shared_secret(p.m)
    BY DEF KeyInfoSecret, Secretless
  <1>2. Kept(m, p.m)
    BY EcdhSetParamsFollows, FollowsKeeps DEF AllFollow
  <1> QED
    BY <1>1, <1>2, SecretKeeps, FollowsKeeps

\* The end of the handler frees the secret only in the case that late records.
LEMMA EndKeyInfoKeeps ==
    ASSUME NEW m, NEW b, NEW err \in BOOLEAN, NEW r \in EndKeyInfo(m, b, err), ~ r.late
    PROVE  Kept(m, r.m)
  <1>1. PICK x : x = IF err /\ b # NULL THEN FreeSecret(m, b) ELSE m
    OBVIOUS
  <1>2. PICK d \in iot_security_ecdh_deinit(x) :
           r = [m |-> d.m, ok |-> ~ err, late |-> err /\ b # NULL]
    BY <1>1, Zenon DEF EndKeyInfo
  <1>3. r.m = d.m /\ ~ (err /\ b # NULL)
    BY <1>2
  <1>4. Kept(x, d.m)
    BY EcdhDeinitFollows, FollowsKeeps DEF AllFollow
  <1> QED
    BY <1>1, <1>3, <1>4

\* How a KEYINFO without certificates ends.
LEMMA KeyInfoRawCases ==
    ASSUME NEW m, NEW r \in KeyInfoRaw(m)
    PROVE  \E i \in Then(MayFail(m), iot_security_ecdh_init) :
              \/ ~ i.ok /\ r.m = i.m
              \/ /\ i.ok
                 /\ \E o \in KeyInfoSecret(i.m) :
                       \/ \E err \in BOOLEAN : r \in EndKeyInfo(o.m, o.secret, err)
                       \/ r \in EndKeyInfo(o.m, NULL, TRUE)
  <1>1. PICK i \in Then(MayFail(m), iot_security_ecdh_init) :
           r \in IF ~ i.ok THEN {[m |-> i.m, ok |-> FALSE, late |-> FALSE]}
                 ELSE UNION {IF o.ok THEN UNION {EndKeyInfo(o.m, o.secret, err) : err \in BOOLEAN}
                             ELSE EndKeyInfo(o.m, NULL, TRUE) : o \in KeyInfoSecret(i.m)}
    BY Zenon DEF KeyInfoRaw
  <1>2. CASE ~ i.ok
    <2>1. r \in {[m |-> i.m, ok |-> FALSE, late |-> FALSE]}
      BY <1>1, <1>2, Zenon
    <2>2. r.m = i.m
      BY <2>1
    <2> QED
      BY <1>2, <2>2, Zenon
  <1>3. CASE i.ok
    <2>1. PICK o \in KeyInfoSecret(i.m) :
             r \in IF o.ok THEN UNION {EndKeyInfo(o.m, o.secret, err) : err \in BOOLEAN}
                   ELSE EndKeyInfo(o.m, NULL, TRUE)
      BY <1>1, <1>3, Zenon
    <2>2. \/ r \in UNION {EndKeyInfo(o.m, o.secret, err) : err \in BOOLEAN}
          \/ r \in EndKeyInfo(o.m, NULL, TRUE)
      BY <2>1, Zenon
    <2>3. \/ \E err \in BOOLEAN : r \in EndKeyInfo(o.m, o.secret, err)
          \/ r \in EndKeyInfo(o.m, NULL, TRUE)
      BY <2>2, Zenon
    <2> QED
      BY <1>3, <2>3, Zenon
  <1> QED
    BY <1>2, <1>3

\* It keeps ownership, unless it is late.
LEMMA KeyInfoRawKeeps ==
    ASSUME NEW m, NEW r \in KeyInfoRaw(m), ~ r.late
    PROVE  Kept(m, r.m)
  <1>1. PICK i \in Then(MayFail(m), iot_security_ecdh_init) :
           \/ r.m = i.m
           \/ \E o \in KeyInfoSecret(i.m) :
                 \/ \E err \in BOOLEAN : r \in EndKeyInfo(o.m, o.secret, err)
                 \/ r \in EndKeyInfo(o.m, NULL, TRUE)
    BY KeyInfoRawCases, Zenon
  <1>2. Kept(m, i.m)
    BY EcdhInitFollows, FollowsKeeps DEF Then, AllFollow, AllKept
  <1>3. CASE r.m = i.m
    BY <1>2, <1>3
  <1>4. ASSUME NEW o \in KeyInfoSecret(i.m), NEW b, NEW err \in BOOLEAN,
               r \in EndKeyInfo(o.m, b, err)
        PROVE  Kept(m, r.m)
    BY <1>2, <1>4, KeyInfoSecretKeeps, EndKeyInfoKeeps, FollowsKeeps
  <1> QED
    BY <1>1, <1>3, <1>4

\* How a KEYINFO with certificates ends.
LEMMA KeyInfoX509Cases ==
    ASSUME NEW m, NEW r \in KeyInfoX509(m)
    PROVE  \/ r.m = m \/ r \in EndKeyInfo(m, NULL, TRUE)
           \/ \E o \in KeyInfoSecret(MallocLocal(m)) :
                 LET x == MallocLocal(MallocLocal(o.m))
                 IN  \/ r \in EndKeyInfo(x, NULL, TRUE) \/ r \in EndKeyInfo(o.m, NULL, TRUE)
                     \/ \E c \in iot_security_cipher_set_params(MallocLocal(x)) :
                           \/ \E err \in BOOLEAN : r \in EndKeyInfo(c.m, o.secret, err)
                           \/ r \in EndKeyInfo(c.m, NULL, TRUE)
  <1> DEFINE keep(y) == EndKeyInfo(y, NULL, TRUE)
             hash(y) == MallocLocal(MallocLocal(y))
             iv(y, b) == UNION {IF c.ok THEN UNION {EndKeyInfo(c.m, b, err) : err \in BOOLEAN}
                                ELSE keep(c.m) : c \in iot_security_cipher_set_params(y)}
  <1>1. \/ r \in {[m |-> m, ok |-> FALSE, late |-> FALSE]} \/ r \in keep(m)
        \/ \E o \in KeyInfoSecret(MallocLocal(m)) :
              r \in IF o.ok THEN keep(hash(o.m)) \cup iv(MallocLocal(hash(o.m)), o.secret)
                    ELSE keep(o.m)
    BY Zenon DEF KeyInfoX509
  <1>2. \/ r.m = m \/ r \in keep(m)
        \/ \E o \in KeyInfoSecret(MallocLocal(m)) :
              \/ r \in keep(hash(o.m)) \/ r \in keep(o.m)
              \/ r \in iv(MallocLocal(hash(o.m)), o.secret)
    <2> HIDE DEF keep, hash, iv
    <2> QED
      BY <1>1
  <1>3. ASSUME NEW y, NEW b, r \in iv(y, b)
        PROVE  \E c \in iot_security_cipher_set_params(y) :
                  \/ \E err \in BOOLEAN : r \in EndKeyInfo(c.m, b, err)
                  \/ r \in EndKeyInfo(c.m, NULL, TRUE)
    <2>1. PICK c \in iot_security_cipher_set_params(y) :
             r \in IF c.ok THEN UNION {EndKeyInfo(c.m, b, err) : err \in BOOLEAN}
                   ELSE keep(c.m)
      BY <1>3, Zenon
    <2>2. r \in UNION {EndKeyInfo(c.m, b, err) : err \in BOOLEAN} \/ r \in keep(c.m)
      BY <2>1, Zenon
    <2> QED
      BY <2>2, Zenon
  <1> QED
    <2> HIDE DEF iv
    <2> QED
      BY <1>2, <1>3

\* It keeps ownership, unless it is late.
LEMMA KeyInfoX509Keeps ==
    ASSUME NEW m, NEW r \in KeyInfoX509(m), ~ r.late
    PROVE  Kept(m, r.m)
  <1>1. \/ r.m = m \/ r \in EndKeyInfo(m, NULL, TRUE)
        \/ \E o \in KeyInfoSecret(MallocLocal(m)) :
              LET x == MallocLocal(MallocLocal(o.m))
              IN  \/ r \in EndKeyInfo(x, NULL, TRUE) \/ r \in EndKeyInfo(o.m, NULL, TRUE)
                  \/ \E c \in iot_security_cipher_set_params(MallocLocal(x)) :
                        \/ \E err \in BOOLEAN : r \in EndKeyInfo(c.m, o.secret, err)
                        \/ r \in EndKeyInfo(c.m, NULL, TRUE)
    BY KeyInfoX509Cases, Zenon
  <1>2. CASE r.m = m
    BY <1>2 DEF Kept
  <1>3. CASE r \in EndKeyInfo(m, NULL, TRUE)
    BY <1>3, EndKeyInfoKeeps
  <1>4. ASSUME NEW o \in KeyInfoSecret(MallocLocal(m)), NEW x, NEW c, NEW b,
               NEW err \in BOOLEAN, x = MallocLocal(MallocLocal(o.m)),
               \/ r \in EndKeyInfo(x, NULL, TRUE) \/ r \in EndKeyInfo(o.m, NULL, TRUE)
               \/ /\ c \in iot_security_cipher_set_params(MallocLocal(x))
                  /\ r \in EndKeyInfo(c.m, b, err)
        PROVE  Kept(m, r.m)
    <2>1. Kept(m, o.m)
      BY KeyInfoSecretKeeps, MallocLocalKeeps, FollowsKeeps
    <2>2. Kept(m, x) /\ Kept(m, MallocLocal(x))
      BY <1>4, <2>1, MallocLocalKeeps, FollowsKeeps
    <2>3. c \in iot_security_cipher_set_params(MallocLocal(x)) => Kept(m, c.m)
      BY <2>2, CipherSetParamsFollows, FollowsKeeps DEF AllFollow
    <2> QED
      BY <1>4, <2>1, <2>2, <2>3, EndKeyInfoKeeps, FollowsKeeps
  <1> QED
    BY <1>1, <1>2, <1>3, <1>4

-----------------------------------------------------------------------------
(* The steps.                                                              *)

\* The invariant: ownership, from one call of the handlers to the next.
SecurityInv == variant \in Variants /\ PointersAreOwned

\* Nothing is allocated at first.
LEMMA SecurityInitInv == SecurityInit => SecurityInv
  <1>1. SUFFICES ASSUME SecurityInit PROVE Owned(mem) /\ variant \in Variants
    BY DEF SecurityInv, PointersAreOwned
  <1>2. IsFiniteSet({})
    BY FS_EmptySet
  <1> QED
    BY <1>1, <1>2 DEF SecurityInit, Empty, Owned, Mem, Pointers, NULL

\* Every call keeps it.
LEMMA SecurityNextInv == SecurityInv /\ [SecurityNext]_securityVars => SecurityInv'
  <1>1. SUFFICES ASSUME SecurityInv, [SecurityNext]_securityVars
                 PROVE  SecurityInv'
    OBVIOUS
  <1>2. variant' \in Variants /\ variant \in {"http", "ble", "x509"}
    BY <1>1, SecurityAssumption
    DEF SecurityInv, SecurityNext, securityVars, Session, Request, CreateContext, DeleteContext,
        EasysetupInit, EasysetupDeinit, DeviceInfo, KeyInfo, Message, OwnContext
  <1>3. SUFFICES ASSUME ~ late' PROVE ~ late /\ Kept(mem, mem')
    BY <1>1, <1>2 DEF SecurityInv, PointersAreOwned, Kept
  <1>4. CASE CreateContext
    <2>1. ~ late /\ \E o \in iot_security_init(mem) : mem' = o.m
      BY <1>3, <1>4 DEF CreateContext, Session
    <2> QED
      BY <2>1, InitFollows, ClearContextFollows, FollowsKeeps DEF AllFollow
  <1>5. CASE DeleteContext
    BY <1>3, <1>5, DeinitFollows, FollowsKeeps DEF DeleteContext
  <1>6. CASE EasysetupInit
    <2>1. ~ late /\ \E o \in iot_security_cipher_init(mem) : mem' = o.m
      BY <1>3, <1>6 DEF EasysetupInit, Session
    <2> QED
      BY <2>1, CipherInitFollows, FollowsKeeps DEF AllFollow
  <1>7. CASE EasysetupDeinit
    BY <1>3, <1>7, CipherDeinitFollows, FollowsKeeps DEF EasysetupDeinit, AllFollow
  <1>8. CASE DeviceInfo
    BY <1>2, <1>3, <1>8, DeviceInfoKeeps DEF DeviceInfo, AllKept
  <1>9. CASE KeyInfo
    <2>1. PICK o \in IF variant = "x509" THEN KeyInfoX509(mem) ELSE KeyInfoRaw(mem) :
             mem' = o.m /\ late' = (late \/ o.late)
      BY <1>9, Zenon DEF KeyInfo
    <2>2. ~ late /\ ~ o.late
      BY <1>3, <2>1, Zenon
    <2> QED
      BY <2>1, <2>2, KeyInfoX509Keeps, KeyInfoRawKeeps
  <1>10. CASE Message
    BY <1>3, <1>10, MessageFollows, FollowsKeeps DEF Message, AllFollow
  <1>11. CASE OwnContext
    <2>1. ~ late
      BY <1>3, <1>11 DEF OwnContext, Session
    <2>2. \E o : mem' = Restore(mem, o).m /\ Follows(ClearContext(mem), o.m)
      BY <1>11, NvFollows, TokenFollows DEF OwnContext, Local, AllFollow
    <2> QED
      BY <2>1, <2>2, RestoreKeeps
  <1>12. CASE UNCHANGED securityVars
    BY <1>3, <1>12 DEF securityVars, Kept
  <1> QED
    BY <1>1, <1>4, <1>5, <1>6, <1>7, <1>8, <1>9, <1>10, <1>11, <1>12 DEF SecurityNext

\* However many contexts, sessions and requests there are and whichever allocation
\* fails, every pointer of the easy-setup context and of the backend leads to an
\* allocated buffer of its own, nothing was freed twice (iot_security_buffer_free)
\* and AES read no freed key: unless a KEYINFO failed after its secret was made.
THEOREM PointersAreAlwaysOwned == SecuritySpec => []PointersAreOwned
  <1>1. SecuritySpec => []SecurityInv
    BY SecurityInitInv, SecurityNextInv, PTL DEF SecuritySpec
  <1> QED
    BY <1>1, PTL DEF SecurityInv

-----------------------------------------------------------------------------
(* Security contexts: losses.                                               *)

\* What the pointers of a memory are, without saying that they are owned: after a
\* late KEYINFO they may not be.
Sized(m) == m \in Mem /\ IsFiniteSet(m.live)
Zero(m, S) == \A s \in S : m.at[s] = NULL
Same(m, n, S) == \A t \in Slots \ S : n.at[t] = m.at[t]
Tight(m, n) == Lost(n) \subseteq Lost(m)

\* The pointers of a context are set only while it says so.
Formed(m) ==
    /\ Sized(m)
    /\ m.at["ctx"] = NULL => Zero(m, ContextSlots) /\ m.sub = {}
    /\ m.at["storage"] = NULL
    /\ "cipher" \notin m.sub => Zero(m, CipherSlots)
    /\ "ecdh" \notin m.sub => Zero(m, EcdhSlots)
    /\ "pk" \notin m.sub => Zero(m, PkSlots)

\* A new buffer is not lost, and nothing else is if the slot was empty.
LEMMA StoreEffect ==
    ASSUME NEW m, Sized(m), NEW s \in Slots, NEW n, n = Store(m, s)
    PROVE  /\ Sized(n) /\ n.sub = m.sub /\ n.at[s] # NULL /\ Same(m, n, {s})
           /\ m.at[s] = NULL => Tight(m, n)
  <1>1. PICK b : b = Fresh(m)
    OBVIOUS
  <1>2. b \in Nat /\ b # NULL /\ b \notin m.live
    BY <1>1, FreshIsFree DEF Sized, Mem
  <1>3. m \in Mem /\ n = [m EXCEPT !.live = @ \cup {b}, !.at[s] = b]
    BY <1>1 DEF Store, Sized
  <1>4. /\ n \in Mem /\ n.live = m.live \cup {b} /\ n.sub = m.sub
        /\ n.at[s] = b /\ \A t \in Slots : t # s => n.at[t] = m.at[t]
    <2>1. /\ n.live = m.live \cup {b} /\ n.sub = m.sub /\ n.at = [m.at EXCEPT ![s] = b]
          /\ n.twice = m.twice /\ n.stale = m.stale
      BY <1>3 DEF Mem
    <2>2. n \in Mem
      <3>1. /\ n.live \in SUBSET Nat /\ n.at \in [Slots -> Nat]
            /\ n.sub \in SUBSET SubSystems /\ n.twice \in SUBSET Nat /\ n.stale \in SUBSET Nat
        BY <1>2, <1>3, <2>1 DEF Mem
      <3> QED
        BY <1>3, <3>1 DEF Mem
    <2> QED
      BY <1>3, <2>1, <2>2 DEF Mem
  <1>5. IsFiniteSet(n.live)
    BY <1>4, FS_AddElement DEF Sized
  <1>6. m.at[s] = NULL => Tight(m, n)
    BY <1>2, <1>4 DEF Tight, Lost, Pointers
  <1> QED
    BY <1>2, <1>4, <1>5, <1>6 DEF Sized, Same

\* An allocation succeeds or changes nothing.
LEMMA MallocCases ==
    ASSUME NEW m, NEW s, NEW o \in malloc(m, s)
    PROVE  o = [m |-> Store(m, s), ok |-> TRUE] \/ o = [m |-> m, ok |-> FALSE]
  BY DEF malloc, Ok, Fail

\* The same for an allocation.
LEMMA MallocEffect ==
    ASSUME NEW m, Sized(m), NEW s \in Slots, NEW o \in malloc(m, s)
    PROVE  /\ Sized(o.m) /\ o.m.sub = m.sub /\ Same(m, o.m, {s})
           /\ o.ok => o.m.at[s] # NULL
           /\ ~ o.ok => o.m = m
           /\ m.at[s] = NULL => Tight(m, o.m)
  <1>1. CASE o = [m |-> Store(m, s), ok |-> TRUE]
    BY <1>1, StoreEffect
  <1>2. CASE o = [m |-> m, ok |-> FALSE]
    BY <1>2 DEF Same, Tight
  <1> QED
    BY <1>1, <1>2 DEF malloc, Ok, Fail

\* Freeing a buffer loses none, also when another pointer leads to it.
LEMMA FreeEffect ==
    ASSUME NEW m, Sized(m), NEW s \in Slots, NEW n, n = iot_security_buffer_free(m, s)
    PROVE  /\ Sized(n) /\ n.sub = m.sub /\ n.at[s] = NULL /\ Same(m, n, {s})
           /\ Tight(m, n)
  <1>1. CASE m.at[s] = NULL
    BY <1>1 DEF iot_security_buffer_free, Same, Tight
  <1>2. CASE m.at[s] # NULL
    <2>1. PICK b : b = m.at[s]
      OBVIOUS
    <2>2. /\ m \in Mem /\ b \in Nat /\ NULL \in Nat
          /\ n = [m EXCEPT !.twice = @ \cup ({b} \ m.live), !.live = @ \ {b}, !.at[s] = NULL]
      BY <1>2, <2>1 DEF iot_security_buffer_free, Sized, NULL, Mem
    <2>3. /\ n.live = m.live \ {b} /\ n.sub = m.sub /\ n.stale = m.stale
          /\ n.twice = m.twice \cup ({b} \ m.live) /\ n.at = [m.at EXCEPT ![s] = NULL]
      BY <2>2 DEF Mem
    <2>4. /\ n \in Mem /\ n.at[s] = NULL /\ \A t \in Slots : t # s => n.at[t] = m.at[t]
      <3>1. /\ n.live \in SUBSET Nat /\ n.at \in [Slots -> Nat]
            /\ n.sub \in SUBSET SubSystems /\ n.twice \in SUBSET Nat /\ n.stale \in SUBSET Nat
        BY <2>2, <2>3 DEF Mem
      <3>2. n \in Mem
        BY <2>2, <3>1 DEF Mem
      <3> QED
        BY <2>2, <2>3, <3>2 DEF Mem
    <2>5. IsFiniteSet(n.live)
      BY <2>3, FS_RemoveElement DEF Sized
    <2>6. Tight(m, n)
      BY <2>1, <2>3, <2>4 DEF Tight, Lost, Pointers
    <2> QED
      BY <2>3, <2>4, <2>5, <2>6 DEF Sized, Same
  <1> QED
    BY <1>1, <1>2

\* Forgetting pointers loses nothing if they were NULL.
LEMMA ClearEffect ==
    ASSUME NEW m, Sized(m), NEW S \in SUBSET Slots, NEW n, n = Clear(m, S)
    PROVE  /\ Sized(n) /\ n.sub = m.sub /\ Zero(n, S) /\ Same(m, n, S)
           /\ Zero(m, S) => Tight(m, n)
  <1>1. m \in Mem /\ NULL \in Nat
    BY DEF Sized, NULL
  <1>2. /\ n \in Mem /\ n.live = m.live /\ n.sub = m.sub
        /\ \A s \in Slots : n.at[s] = IF s \in S THEN NULL ELSE m.at[s]
    BY <1>1 DEF Clear, Mem
  <1>3. Zero(m, S) => Tight(m, n)
    BY <1>2 DEF Tight, Lost, Pointers, Zero
  <1> QED
    BY <1>2, <1>3 DEF Sized, Zero, Same

\* So does forgetting a context.
LEMMA ClearContextEffect ==
    ASSUME NEW m, Sized(m), NEW n, n = ClearContext(m)
    PROVE  /\ Sized(n) /\ n.sub = {} /\ Zero(n, ContextSlots) /\ Same(m, n, ContextSlots)
           /\ n.live = m.live
           /\ Zero(m, ContextSlots) => Tight(m, n)
  <1>1. m \in Mem /\ NULL \in Nat
    BY DEF Sized, NULL
  <1>2. /\ n \in Mem /\ n.live = m.live /\ n.sub = {}
        /\ \A s \in Slots : n.at[s] = IF s \in ContextSlots THEN NULL ELSE m.at[s]
    BY <1>1 DEF Clear, ClearContext, Mem
  <1>3. Zero(m, ContextSlots) => Tight(m, n)
    BY <1>2 DEF Tight, Lost, Pointers, Zero
  <1> QED
    BY <1>2, <1>3, SlotNames DEF Sized, Zero, Same

\* A flag of context->sub_system is set,
LEMMA EnterEffect ==
    ASSUME NEW m, Sized(m), NEW sys \in SubSystems
    PROVE  /\ Sized(Enter(m, sys)) /\ Enter(m, sys).sub = m.sub \cup {sys} /\ Enter(m, sys).at = m.at
           /\ Tight(m, Enter(m, sys))
  BY DEF Enter, Sized, Mem, Tight, Lost, Pointers

\* or cleared.
LEMMA LeaveEffect ==
    ASSUME NEW m, Sized(m), NEW sys \in SubSystems
    PROVE  /\ Sized(Leave(m, sys)) /\ Leave(m, sys).sub = m.sub \ {sys} /\ Leave(m, sys).at = m.at
           /\ Tight(m, Leave(m, sys))
  BY DEF Leave, Sized, Mem, Tight, Lost, Pointers

-----------------------------------------------------------------------------
\* Calls one after the other.
LEMMA TightTwice ==
    /\ \A m : Tight(m, m)
    /\ \A m, n, q : Tight(m, n) /\ Tight(n, q) => Tight(m, q)
  BY DEF Tight

\* A new context: its pointers are set only if there is one.
LEMMA InitEffect ==
    ASSUME NEW m, Sized(m), NEW o \in iot_security_init(m)
    PROVE  /\ Formed(o.m) /\ o.m.sub = {} /\ Same(m, o.m, ContextSlots)
           /\ Zero(o.m, ContextSlots \ {"ctx", "be"})
           /\ o.ok => o.m.at["ctx"] # NULL
           /\ ~ o.ok => Zero(o.m, ContextSlots)
           /\ Tight(ClearContext(m), o.m)
  <1>1. PICK x : x = ClearContext(m)
    OBVIOUS
  <1>2. Sized(x) /\ x.sub = {} /\ Zero(x, ContextSlots) /\ Same(m, x, ContextSlots)
    BY <1>1, ClearContextEffect
  <1>3. PICK p \in malloc(x, "ctx") :
           \/ ~ p.ok /\ o = [m |-> iot_security_buffer_free(p.m, "ctx"), ok |-> FALSE]
           \/ /\ p.ok
              /\ \E q \in malloc(p.m, "be") :
                    \/ q.ok /\ o = q
                    \/ ~ q.ok /\ o = [m |-> iot_security_buffer_free(q.m, "ctx"), ok |-> FALSE]
    BY <1>1 DEF iot_security_init, iot_security_be_init, Then, Undo
  <1>4. /\ Sized(p.m) /\ p.m.sub = {} /\ Same(x, p.m, {"ctx"}) /\ Tight(x, p.m)
        /\ p.ok => p.m.at["ctx"] # NULL
        /\ ~ p.ok => p.m = x
    <2>1. x.at["ctx"] = NULL /\ "ctx" \in Slots
      BY <1>2, SlotNames DEF Zero
    <2>2. /\ Sized(p.m) /\ p.m.sub = x.sub /\ Same(x, p.m, {"ctx"})
          /\ p.ok => p.m.at["ctx"] # NULL
          /\ ~ p.ok => p.m = x
          /\ x.at["ctx"] = NULL => Tight(x, p.m)
      BY <1>2, <2>1, MallocEffect
    <2> QED
      BY <1>2, <2>1, <2>2
  <1>5. p.m.at["be"] = NULL
    BY <1>2, <1>4, SlotNames DEF Same, Zero
  <1>6. ASSUME NEW q, NEW y, q = x \/ q = p.m, Sized(q), y = iot_security_buffer_free(q, "ctx")
        PROVE  /\ Sized(y) /\ y.sub = {} /\ Zero(y, ContextSlots) /\ Tight(x, y)
               /\ Same(m, y, ContextSlots)
    <2>1. /\ Sized(y) /\ y.sub = q.sub /\ y.at["ctx"] = NULL /\ Same(q, y, {"ctx"})
          /\ Tight(q, y)
      BY <1>6, SlotNames, FreeEffect
    <2>2. q.sub = {} /\ Same(x, q, {"ctx"}) /\ Tight(x, q)
      BY <1>2, <1>4, <1>6, TightTwice DEF Same
    <2> QED
      BY <1>2, <2>1, <2>2, TightTwice, SlotNames DEF Same, Zero
  <1>7. CASE ~ o.ok
    <2>1. /\ Sized(o.m) /\ o.m.sub = {} /\ Zero(o.m, ContextSlots) /\ Tight(x, o.m)
          /\ Same(m, o.m, ContextSlots)
      <3>1. CASE o = [m |-> iot_security_buffer_free(p.m, "ctx"), ok |-> FALSE]
        BY <1>4, <1>6, <3>1
      <3>2. ASSUME NEW q \in malloc(p.m, "be"), ~ q.ok,
                   o = [m |-> iot_security_buffer_free(q.m, "ctx"), ok |-> FALSE]
            PROVE  o.m = iot_security_buffer_free(p.m, "ctx")
        <4>1. q.m = p.m
          BY <3>2 DEF malloc, Ok, Fail
        <4> QED
          BY <3>2, <4>1
      <3> QED
        BY <1>3, <1>4, <1>6, <1>7, <3>1, <3>2
    <2> QED
      BY <1>1, <1>7, <2>1, SlotNames DEF Formed, Zero, CipherSlots, EcdhSlots, PkSlots
  <1>8. CASE o.ok
    <2>1. /\ Sized(o.m) /\ o.m.sub = {} /\ Same(p.m, o.m, {"be"}) /\ Tight(p.m, o.m)
          /\ p.ok
      <3>1. p.ok /\ o \in malloc(p.m, "be")
        BY <1>3, <1>8
      <3>2. /\ Sized(o.m) /\ o.m.sub = p.m.sub /\ Same(p.m, o.m, {"be"})
            /\ p.m.at["be"] = NULL => Tight(p.m, o.m)
        BY <1>4, <3>1, SlotNames, MallocEffect
      <3> QED
        BY <1>4, <1>5, <3>1, <3>2
    <2>2. /\ o.m.at["ctx"] # NULL /\ Zero(o.m, ContextSlots \ {"ctx", "be"})
          /\ Same(m, o.m, ContextSlots) /\ Tight(x, o.m)
      BY <1>2, <1>4, <2>1, TightTwice, SlotNames DEF Same, Zero
    <2> QED
      BY <1>1, <1>8, <2>1, <2>2, SlotNames DEF Formed, Zero, CipherSlots, EcdhSlots, PkSlots
  <1> QED
    BY <1>7, <1>8

\* What is left of a context: nothing.
LEMMA DeinitEffect ==
    ASSUME NEW m, Sized(m), NEW n, n = iot_security_deinit(m)
    PROVE  /\ Formed(n) /\ n.sub = {} /\ Zero(n, ContextSlots) /\ Same(m, n, ContextSlots)
           /\ Zero(m, ContextSlots \ {"ctx", "be"}) => Tight(m, n)
  <1>1. PICK x : x = iot_security_buffer_free(m, "be")
    OBVIOUS
  <1>2. PICK y : y = iot_security_buffer_free(x, "ctx")
    OBVIOUS
  <1>3. /\ Sized(x) /\ x.at["be"] = NULL /\ Same(m, x, {"be"}) /\ Tight(m, x)
        /\ Sized(y) /\ y.at["ctx"] = NULL /\ Same(x, y, {"ctx"}) /\ Tight(x, y)
    BY <1>1, <1>2, SlotNames, FreeEffect
  <1>4. n = ClearContext(y)
    BY <1>1, <1>2 DEF iot_security_deinit, iot_security_be_deinit
  <1>5. /\ Sized(n) /\ n.sub = {} /\ Zero(n, ContextSlots) /\ Same(y, n, ContextSlots)
        /\ Zero(y, ContextSlots) => Tight(y, n)
    BY <1>3, <1>4, ClearContextEffect
  <1>6. Zero(m, ContextSlots \ {"ctx", "be"}) => Zero(y, ContextSlots)
    BY <1>3, SlotNames DEF Zero, Same
  <1>7. Same(m, n, ContextSlots)
    BY <1>3, <1>5, SlotNames DEF Same
  <1>8. Formed(n)
    BY <1>5, SlotNames DEF Formed, Zero, CipherSlots, EcdhSlots, PkSlots
  <1> QED
    BY <1>3, <1>5, <1>6, <1>7, <1>8, TightTwice
-----------------------------------------------------------------------------
\* iot_security_cipher_init loses nothing if there was no cipher.
LEMMA CipherInitEffect ==
    ASSUME NEW m, Formed(m), NEW o \in iot_security_cipher_init(m)
    PROVE  /\ Formed(o.m) /\ Same(m, o.m, CipherSlots) /\ o.m.sub \in {m.sub, m.sub \cup {"cipher"}}
           /\ "cipher" \notin m.sub => Tight(m, o.m)
  <1>1. Sized(m)
    BY DEF Formed
  <1>2. CASE o.m = m
    BY <1>2, TightTwice DEF Same
  <1>3. CASE o.m # m
    <2>1. PICK p \in malloc(m, "cipher") :
             /\ p.ok /\ m.at["ctx"] # NULL
             /\ o.m = Enter(Clear(p.m, {"key", "iv"}), "cipher")
      BY <1>3 DEF iot_security_cipher_init, Then, Ok, Fail, malloc
    <2>2. /\ Sized(p.m) /\ p.m.sub = m.sub /\ Same(m, p.m, {"cipher"})
          /\ m.at["cipher"] = NULL => Tight(m, p.m)
      BY <1>1, SlotNames, MallocEffect
    <2>3. PICK x : x = Clear(p.m, {"key", "iv"})
      OBVIOUS
    <2>4. {"key", "iv"} \in SUBSET Slots
      BY SlotNames
    <2>5. /\ Sized(x) /\ x.sub = m.sub /\ Same(p.m, x, {"key", "iv"})
          /\ Zero(p.m, {"key", "iv"}) => Tight(p.m, x)
      BY <2>2, <2>3, <2>4, ClearEffect
    <2>6. Sized(o.m) /\ o.m.sub = m.sub \cup {"cipher"} /\ o.m.at = x.at /\ Tight(x, o.m)
      <3>1. o.m = Enter(x, "cipher")
        BY <2>1, <2>3
      <3>2. "cipher" \in SubSystems
        BY SlotNames
      <3> QED
        BY <2>5, <3>1, <3>2, EnterEffect
    <2>7. Same(m, o.m, CipherSlots)
      BY <2>2, <2>5, <2>6 DEF Same, CipherSlots
    <2>8. "cipher" \notin m.sub => Tight(m, o.m)
      <3>1. SUFFICES ASSUME "cipher" \notin m.sub PROVE Tight(m, o.m)
        OBVIOUS
      <3>2. Zero(m, CipherSlots)
        BY <3>1 DEF Formed
      <3>3. m.at["cipher"] = NULL /\ Zero(p.m, {"key", "iv"})
        BY <2>2, <3>2, SlotNames DEF Zero, Same, CipherSlots
      <3> QED
        BY <2>2, <2>5, <2>6, <3>3, TightTwice
    <2>9. Formed(o.m)
      BY <2>1, <2>6, <2>7, SlotNames
      DEF Formed, Same, Zero, CipherSlots, EcdhSlots, PkSlots
    <2> QED
      BY <2>6, <2>7, <2>8, <2>9
  <1> QED
    BY <1>2, <1>3

\* iot_security_cipher_deinit frees all that the cipher has.
LEMMA CipherDeinitEffect ==
    ASSUME NEW m, Formed(m), NEW o \in iot_security_cipher_deinit(m)
    PROVE  /\ Formed(o.m) /\ Same(m, o.m, CipherSlots) /\ o.m.sub \subseteq m.sub
           /\ Tight(m, o.m)
  <1>1. Sized(m)
    BY DEF Formed
  <1>2. CASE o.m = m
    BY <1>2, TightTwice DEF Same
  <1>3. CASE o.m # m
    <2>1. PICK x, y, z, w :
             /\ x = iot_security_buffer_free(m, "key") /\ y = iot_security_buffer_free(x, "iv")
             /\ z = iot_security_buffer_free(y, "cipher") /\ w = Clear(z, CipherSlots)
      OBVIOUS
    <2>2. m.at["ctx"] # NULL /\ o.m = Leave(w, "cipher")
      BY <1>3, <2>1
      DEF iot_security_cipher_deinit, _iot_security_be_software_cipher_deinit,
          _iot_security_be_check_context_and_params_is_valid, Then, Ok, Fail
    <2>3. Sized(x) /\ x.sub = m.sub /\ x.at["key"] = NULL /\ Same(m, x, {"key"}) /\ Tight(m, x)
      BY <1>1, <2>1, SlotNames, FreeEffect
    <2>4. Sized(y) /\ y.sub = x.sub /\ y.at["iv"] = NULL /\ Same(x, y, {"iv"}) /\ Tight(x, y)
      BY <2>1, <2>3, SlotNames, FreeEffect
    <2>5. Sized(z) /\ z.sub = y.sub /\ z.at["cipher"] = NULL /\ Same(y, z, {"cipher"}) /\ Tight(y, z)
      BY <2>1, <2>4, SlotNames, FreeEffect
    <2>6. CipherSlots \in SUBSET Slots /\ Zero(z, CipherSlots)
      BY <2>3, <2>4, <2>5, SlotNames DEF Same, Zero, CipherSlots
    <2>7. Sized(w) /\ w.sub = z.sub /\ Zero(w, CipherSlots) /\ Same(z, w, CipherSlots) /\ Tight(z, w)
      BY <2>1, <2>5, <2>6, ClearEffect
    <2>8. Sized(o.m) /\ o.m.sub = m.sub \ {"cipher"} /\ o.m.at = w.at /\ Tight(w, o.m)
      <3>1. w.sub = m.sub /\ "cipher" \in SubSystems
        BY <2>3, <2>4, <2>5, <2>7, SlotNames
      <3> QED
        BY <2>2, <2>7, <3>1, LeaveEffect
    <2>9. Same(m, o.m, CipherSlots) /\ Zero(o.m, CipherSlots)
      BY <2>3, <2>4, <2>5, <2>7, <2>8 DEF Same, Zero, CipherSlots
    <2>10. Formed(o.m)
      BY <2>2, <2>8, <2>9, SlotNames
      DEF Formed, Same, Zero, CipherSlots, EcdhSlots, PkSlots
    <2> QED
      BY <2>3, <2>4, <2>5, <2>7, <2>8, <2>9, <2>10, TightTwice
  <1> QED
    BY <1>2, <1>3

\* A parameter is replaced after the old one is freed.
LEMMA CopyParamsEffect ==
    ASSUME NEW m, Sized(m), NEW s \in Slots, NEW o \in CopyParams(m, s)
    PROVE  Sized(o.m) /\ o.m.sub = m.sub /\ Same(m, o.m, {s}) /\ Tight(m, o.m)
  <1>1. PICK x : x = iot_security_buffer_free(m, s)
    OBVIOUS
  <1>2. Sized(x) /\ x.sub = m.sub /\ x.at[s] = NULL /\ Same(m, x, {s}) /\ Tight(m, x)
    BY <1>1, FreeEffect
  <1>3. o \in malloc(x, s)
    BY <1>1 DEF CopyParams
  <1>4. /\ Sized(o.m) /\ o.m.sub = x.sub /\ Same(x, o.m, {s})
        /\ x.at[s] = NULL => Tight(x, o.m)
    BY <1>2, <1>3, MallocEffect
  <1> QED
    BY <1>2, <1>4, TightTwice DEF Same

\* The iv of the cipher is replaced.
LEMMA CipherSetParamsEffect ==
    ASSUME NEW m, Formed(m), NEW o \in iot_security_cipher_set_params(m)
    PROVE  Formed(o.m) /\ o.m.sub = m.sub /\ Same(m, o.m, {"iv"}) /\ Tight(m, o.m)
  <1>1. CASE o.m = m
    BY <1>1, TightTwice DEF Same
  <1>2. CASE o.m # m
    <2>1. m.at["cipher"] # NULL /\ o \in CopyParams(m, "iv")
      BY <1>2 DEF iot_security_cipher_set_params, _iot_security_be_software_cipher_copy_params,
                  _iot_security_be_check_context_and_params_is_valid, Then, Ok, Fail
    <2>2. Sized(o.m) /\ o.m.sub = m.sub /\ Same(m, o.m, {"iv"}) /\ Tight(m, o.m)
      BY <2>1, SlotNames, CopyParamsEffect DEF Formed
    <2>3. "cipher" \in m.sub /\ m.at["ctx"] # NULL
      BY <2>1, SlotNames DEF Formed, Zero, CipherSlots
    <2> QED
      BY <2>2, <2>3, SlotNames DEF Formed, Same, Zero, EcdhSlots, PkSlots
  <1> QED
    BY <1>1, <1>2

\* Decryption and encryption change no pointer.
LEMMA AesEffect ==
    ASSUME NEW m, Sized(m), NEW o \in mbedtls_helper_cipher_aes(m)
    PROVE  Sized(o.m) /\ o.m.sub = m.sub /\ o.m.at = m.at /\ o.m.live = m.live
  <1>1. PICK b, c : b = m.at["key"] /\ c = m.at["iv"]
    OBVIOUS
  <1>2. o.m = m \/ o.m = [m EXCEPT !.stale = @ \cup ({b, c} \ m.live)]
    BY <1>1 DEF mbedtls_helper_cipher_aes, MayFail, Ok, Fail
  <1>3. m \in Mem /\ b \in Nat /\ c \in Nat /\ IsFiniteSet(m.live)
    BY <1>1, SlotNames DEF Sized, Mem
  <1> QED
    BY <1>2, <1>3 DEF Sized, Mem

\* Nor do the requests that are answered with them.
LEMMA MessageEffect ==
    ASSUME NEW m, Formed(m),
           NEW o \in Then(iot_security_cipher_aes_decrypt(m), iot_security_cipher_aes_encrypt)
    PROVE  Formed(o.m) /\ o.m.sub = m.sub /\ o.m.at = m.at /\ Tight(m, o.m)
  <1>1. \A x, p : Sized(x) /\ (\/ p \in iot_security_cipher_aes_decrypt(x)
                               \/ p \in iot_security_cipher_aes_encrypt(x))
                  => Sized(p.m) /\ p.m.sub = x.sub /\ p.m.at = x.at /\ p.m.live = x.live
    <2>1. SUFFICES ASSUME NEW x, NEW p, Sized(x), p.m = x \/ p \in mbedtls_helper_cipher_aes(x)
                   PROVE  Sized(p.m) /\ p.m.sub = x.sub /\ p.m.at = x.at /\ p.m.live = x.live
      BY DEF iot_security_cipher_aes_decrypt, iot_security_cipher_aes_encrypt,
             _iot_security_be_check_context_and_params_is_valid, Then, Ok, Fail
    <2> QED
      BY <2>1, AesEffect
  <1>2. PICK p \in iot_security_cipher_aes_decrypt(m) :
           o = p \/ o \in iot_security_cipher_aes_encrypt(p.m)
    BY DEF Then
  <1>3. Sized(o.m) /\ o.m.sub = m.sub /\ o.m.at = m.at /\ o.m.live = m.live
    BY <1>1, <1>2 DEF Formed
  <1> QED
    BY <1>3 DEF Formed, Zero, Tight, Lost, Pointers
-----------------------------------------------------------------------------
\* The subsystems, by name.
LEMMA SystemNames ==
    /\ "pk" \in SubSystems /\ "cipher" \in SubSystems /\ "ecdh" \in SubSystems
    /\ "manager" \in SubSystems /\ "storage" \in SubSystems
  BY DEF SubSystems

\* The keys are in the context if both were loaded.
LEMMA LoadKeyEffect ==
    ASSUME NEW m, Sized(m), Zero(m, {"seckey", "pubkey"}),
           NEW o \in _iot_security_be_software_pk_load_key(m)
    PROVE  /\ Sized(o.m) /\ o.m.sub = m.sub /\ Same(m, o.m, {"seckey", "pubkey"})
           /\ o.ok => Tight(m, o.m)
           /\ ~ o.ok => Zero(o.m, {"seckey", "pubkey"})
  <1>1. "seckey" \in Slots /\ "pubkey" \in Slots /\ {"seckey", "pubkey"} \in SUBSET Slots
    BY SlotNames
  <1>2. m.at["seckey"] = NULL /\ m.at["pubkey"] = NULL
    BY DEF Zero
  <1>3. CASE o \in malloc(m, "seckey")
    <2>1. /\ Sized(o.m) /\ o.m.sub = m.sub /\ Same(m, o.m, {"seckey"})
          /\ ~ o.ok => o.m = m
          /\ m.at["seckey"] = NULL => Tight(m, o.m)
      BY <1>1, <1>3, MallocEffect
    <2> QED
      BY <1>2, <2>1 DEF Same
  <1>4. CASE variant # "x509"
    <2>1. PICK p \in malloc(m, "seckey") :
             \/ ~ p.ok /\ ~ o.ok /\ o.m = Clear(p.m, {"seckey", "pubkey"})
             \/ /\ p.ok
                /\ \E q \in malloc(p.m, "pubkey") :
                      \/ q.ok /\ o = q
                      \/ ~ q.ok /\ ~ o.ok /\ o.m = Clear(q.m, {"seckey", "pubkey"})
      BY <1>4 DEF _iot_security_be_software_pk_load_key,
                  _iot_security_be_software_pk_load_ed25519,
                  _iot_security_be_software_pk_load_ed25519_key, Then, Undo
    <2>2. /\ Sized(p.m) /\ p.m.sub = m.sub /\ Same(m, p.m, {"seckey"})
          /\ m.at["seckey"] = NULL => Tight(m, p.m)
      BY <1>1, MallocEffect
    <2>3. p.m.at["pubkey"] = NULL
      BY <1>1, <1>2, <2>2 DEF Same
    <2>4. \A q \in malloc(p.m, "pubkey") :
             /\ Sized(q.m) /\ q.m.sub = m.sub /\ Same(p.m, q.m, {"pubkey"})
             /\ Tight(p.m, q.m)
      BY <1>1, <2>2, <2>3, MallocEffect
    <2>5. CASE o.ok
      <3>1. o \in malloc(p.m, "pubkey")
        BY <2>1, <2>5
      <3> QED
        BY <1>2, <2>2, <2>4, <2>5, <3>1, TightTwice DEF Same
    <2>6. CASE ~ o.ok
      <3>1. PICK q : /\ o.m = Clear(q, {"seckey", "pubkey"}) /\ Sized(q) /\ q.sub = m.sub
                     /\ Same(m, q, {"seckey", "pubkey"})
        BY <2>1, <2>2, <2>4, <2>6 DEF Same
      <3>2. PICK n : n = Clear(q, {"seckey", "pubkey"})
        OBVIOUS
      <3>3. /\ Sized(n) /\ n.sub = q.sub /\ Zero(n, {"seckey", "pubkey"})
            /\ Same(q, n, {"seckey", "pubkey"})
        BY <1>1, <3>1, <3>2, ClearEffect
      <3> QED
        BY <2>6, <3>1, <3>2, <3>3 DEF Same
    <2> QED
      BY <2>5, <2>6
  <1> QED
    BY <1>3, <1>4
    DEF _iot_security_be_software_pk_load_key, _iot_security_be_software_pk_load_ecdsa

\* iot_security_pk_init on a context that has no keys.
LEMMA PkInitEffect ==
    ASSUME NEW m, Formed(m), "pk" \notin m.sub, m.at["ctx"] # NULL,
           NEW o \in iot_security_pk_init(m)
    PROVE  /\ Formed(o.m) /\ Same(m, o.m, PkSlots)
           /\ o.ok => /\ o.m.sub = m.sub \cup {"pk"} /\ o.m.at["pk"] # NULL
                      /\ Tight(m, o.m)
           /\ ~ o.ok => o.m.sub = m.sub
  <1>1. PkSlots \in SUBSET Slots /\ "pk" \in Slots /\ "pk" \in SubSystems
    BY SlotNames DEF PkSlots
  <1>2. Sized(m) /\ Zero(m, PkSlots)
    BY DEF Formed
  <1>3. PICK x : x = Clear(m, PkSlots)
    OBVIOUS
  <1>4. /\ Sized(x) /\ x.sub = m.sub /\ Zero(x, PkSlots) /\ Same(m, x, PkSlots)
        /\ Zero(m, PkSlots) => Tight(m, x)
    BY <1>1, <1>2, <1>3, ClearEffect
  <1>5. PICK p \in malloc(x, "pk") :
           \/ ~ p.ok /\ o = p
           \/ /\ p.ok
              /\ \E q \in _iot_security_be_software_pk_load_key(p.m) :
                    \/ q.ok /\ o.ok /\ o.m = Enter(q.m, "pk")
                    \/ ~ q.ok /\ ~ o.ok /\ o.m = iot_security_buffer_free(q.m, "pk")
    BY <1>3 DEF iot_security_pk_init, Then, Undo, Ok
  <1>6. /\ Sized(p.m) /\ p.m.sub = x.sub /\ Same(x, p.m, {"pk"})
        /\ p.ok => p.m.at["pk"] # NULL
        /\ ~ p.ok => p.m = x
        /\ x.at["pk"] = NULL => Tight(x, p.m)
    BY <1>1, <1>4, MallocEffect
  <1>7. x.at["pk"] = NULL /\ Zero(p.m, {"seckey", "pubkey"})
    BY <1>4, <1>6, SlotNames DEF Same, Zero, PkSlots
  <1>8. SUFFICES /\ Sized(o.m) /\ Same(m, o.m, PkSlots)
                 /\ o.ok => /\ o.m.sub = m.sub \cup {"pk"} /\ o.m.at["pk"] # NULL
                            /\ Tight(m, o.m)
                 /\ ~ o.ok => o.m.sub = m.sub /\ Zero(o.m, PkSlots)
    BY SlotNames DEF Formed, Same, Zero, CipherSlots, EcdhSlots, PkSlots
  <1>9. CASE ~ p.ok
    BY <1>4, <1>5, <1>6, <1>9
  <1>10. CASE p.ok
    <2>1. PICK q \in _iot_security_be_software_pk_load_key(p.m) :
             \/ q.ok /\ o.ok /\ o.m = Enter(q.m, "pk")
             \/ ~ q.ok /\ ~ o.ok /\ o.m = iot_security_buffer_free(q.m, "pk")
      BY <1>5, <1>10
    <2>2. /\ Sized(q.m) /\ q.m.sub = p.m.sub /\ Same(p.m, q.m, {"seckey", "pubkey"})
          /\ q.ok => Tight(p.m, q.m)
          /\ ~ q.ok => Zero(q.m, {"seckey", "pubkey"})
      BY <1>6, <1>7, LoadKeyEffect
    <2>3. Same(m, q.m, PkSlots) /\ q.m.at["pk"] = p.m.at["pk"]
      BY <1>1, <1>4, <1>6, <2>2 DEF Same, PkSlots
    <2>4. CASE q.ok
      <3>1. o.ok /\ o.m = Enter(q.m, "pk")
        BY <2>1, <2>4
      <3>2. Sized(o.m) /\ o.m.sub = q.m.sub \cup {"pk"} /\ o.m.at = q.m.at /\ Tight(q.m, o.m)
        BY <1>1, <2>2, <3>1, EnterEffect
      <3> QED
        BY <1>2, <1>4, <1>6, <1>7, <1>10, <2>2, <2>3, <2>4, <3>1, <3>2, TightTwice DEF Same
    <2>5. CASE ~ q.ok
      <3>1. ~ o.ok
        BY <2>1, <2>5
      <3>2. PICK n : n = iot_security_buffer_free(q.m, "pk")
        OBVIOUS
      <3>3. o.m = n
        BY <2>1, <2>5, <3>2
      <3>4. Sized(n) /\ n.sub = q.m.sub /\ n.at["pk"] = NULL /\ Same(q.m, n, {"pk"})
        BY <1>1, <2>2, <3>2, FreeEffect
      <3>5. Zero(n, PkSlots) /\ Same(m, n, PkSlots)
        BY <1>1, <2>2, <2>3, <2>5, <3>4, SlotNames DEF Zero, Same, PkSlots
      <3> QED
        BY <1>4, <1>6, <2>2, <3>1, <3>3, <3>4, <3>5
    <2> QED
      BY <2>4, <2>5
  <1> QED
    BY <1>9, <1>10

\* iot_security_pk_deinit frees all that pk_init allocated.
LEMMA PkDeinitEffect ==
    ASSUME NEW m, Sized(m), m.at["pk"] # NULL, NEW o \in iot_security_pk_deinit(m)
    PROVE  Sized(o.m) /\ Same(m, o.m, PkSlots) /\ Zero(o.m, PkSlots) /\ Tight(m, o.m)
  <1>1. PICK x, y, z : /\ x = iot_security_buffer_free(m, "pubkey")
                       /\ y = iot_security_buffer_free(x, "seckey")
                       /\ z = iot_security_buffer_free(y, "pk")
    OBVIOUS
  <1>2. o.m = Leave(z, "pk")
    BY <1>1 DEF iot_security_pk_deinit, _iot_security_be_software_pk_deinit,
                _iot_security_be_check_context_and_params_is_valid, Then, Ok, Fail
  <1>3. "pubkey" \in Slots /\ "seckey" \in Slots /\ "pk" \in Slots
    BY SlotNames
  <1>4. Sized(x) /\ x.at["pubkey"] = NULL /\ Same(m, x, {"pubkey"}) /\ Tight(m, x)
    BY <1>1, <1>3, FreeEffect
  <1>5. Sized(y) /\ y.at["seckey"] = NULL /\ Same(x, y, {"seckey"}) /\ Tight(x, y)
    BY <1>1, <1>3, <1>4, FreeEffect
  <1>6. Sized(z) /\ z.at["pk"] = NULL /\ Same(y, z, {"pk"}) /\ Tight(y, z)
    BY <1>1, <1>3, <1>5, FreeEffect
  <1>7. Sized(o.m) /\ o.m.at = z.at /\ Tight(z, o.m)
    BY <1>2, <1>6, SystemNames, LeaveEffect
  <1> QED
    BY <1>3, <1>4, <1>5, <1>6, <1>7, TightTwice DEF Same, Zero, PkSlots

\* iot_security_ecdh_init loses nothing if there was no key agreement.
LEMMA EcdhInitEffect ==
    ASSUME NEW m, Formed(m), NEW o \in iot_security_ecdh_init(m)
    PROVE  /\ Formed(o.m) /\ Same(m, o.m, EcdhSlots)
           /\ o.ok => o.m.sub = m.sub \cup {"ecdh"} /\ o.m.at["ecdh"] # NULL
           /\ ~ o.ok => o.m.sub = m.sub
           /\ "ecdh" \notin m.sub => Tight(m, o.m)
  <1>1. Sized(m) /\ ("ecdh" \notin m.sub => Zero(m, EcdhSlots))
    BY DEF Formed
  <1>2. CASE o = [m |-> m, ok |-> FALSE]
    BY <1>2, TightTwice DEF Same
  <1>3. CASE m.at["ctx"] # NULL
    <2> DEFINE E == EcdhSlots \ {"ecdh"}
    <2>1. PICK p \in malloc(m, "ecdh") :
             \/ ~ p.ok /\ o = p
             \/ /\ p.ok
                /\ o \in Undo(Then(_iot_security_be_software_ecdh_load(Clear(p.m, E)),
                                   LAMBDA y : Ok(Enter(y, "ecdh"))),
                              LAMBDA y : iot_security_buffer_free(y, "ecdh"))
      BY <1>3 DEF iot_security_ecdh_init, Then
    <2>2. CASE ~ p.ok
      <3>1. o = [m |-> m, ok |-> FALSE]
        <4>1. p = [m |-> Store(m, "ecdh"), ok |-> TRUE] \/ p = [m |-> m, ok |-> FALSE]
          BY MallocCases
        <4>2. p # [m |-> Store(m, "ecdh"), ok |-> TRUE]
          BY <2>2
        <4> QED
          BY <2>1, <2>2, <4>1, <4>2
      <3> QED
        BY <1>2, <3>1
    <2>3. CASE p.ok
      <3>1. PICK x : x = Clear(p.m, E)
        OBVIOUS
      <3>2. PICK q \in _iot_security_be_software_ecdh_load(x) :
               \/ q.ok /\ o.ok /\ o.m = Enter(q.m, "ecdh")
               \/ ~ q.ok /\ ~ o.ok /\ o.m = iot_security_buffer_free(q.m, "ecdh")
        <4>1. PICK L : L = _iot_security_be_software_ecdh_load(x)
          OBVIOUS
        <4>2. o \in Undo(Then(L, LAMBDA y : Ok(Enter(y, "ecdh"))),
                         LAMBDA y : iot_security_buffer_free(y, "ecdh"))
          BY <2>1, <2>3, <3>1, <4>1
        <4>3. \E q \in L : \/ q.ok /\ o.ok /\ o.m = Enter(q.m, "ecdh")
                           \/ ~ q.ok /\ ~ o.ok /\ o.m = iot_security_buffer_free(q.m, "ecdh")
          BY <4>2 DEF Undo, Then, Ok
        <4> QED
          BY <4>1, <4>3
      <3>3. "ecdh" \in Slots /\ "t_seckey" \in Slots /\ E \in SUBSET Slots
        BY SlotNames DEF EcdhSlots
      <3>4. /\ Sized(p.m) /\ p.m.sub = m.sub /\ Same(m, p.m, {"ecdh"}) /\ p.m.at["ecdh"] # NULL
            /\ m.at["ecdh"] = NULL => Tight(m, p.m)
        <4>1. /\ Sized(p.m) /\ p.m.sub = m.sub /\ Same(m, p.m, {"ecdh"})
              /\ p.ok => p.m.at["ecdh"] # NULL
              /\ m.at["ecdh"] = NULL => Tight(m, p.m)
          <5>1. "ecdh" \in Slots /\ Sized(m) /\ p \in malloc(m, "ecdh")
            BY <1>1, <3>3
          <5> QED
            BY ONLY <5>1, MallocEffect
        <4> QED
          BY <2>3, <4>1
      <3>5. /\ Sized(x) /\ x.sub = p.m.sub /\ Zero(x, E) /\ Same(p.m, x, E)
            /\ Zero(p.m, E) => Tight(p.m, x)
        BY <3>1, <3>3, <3>4, ClearEffect
      <3>6. x.at["t_seckey"] = NULL
        BY <3>5 DEF Zero, EcdhSlots
      <3>7. /\ Sized(q.m) /\ q.m.sub = x.sub /\ Same(x, q.m, {"t_seckey"}) /\ Tight(x, q.m)
            /\ ~ q.ok => q.m = x
        <4>1. CASE q \in malloc(x, "t_seckey")
          <5>1. /\ Sized(q.m) /\ q.m.sub = x.sub /\ Same(x, q.m, {"t_seckey"})
                /\ x.at["t_seckey"] = NULL => Tight(x, q.m)
            BY <3>3, <3>5, <4>1, MallocEffect
          <5>2. ~ q.ok => q.m = x
            BY <4>1 DEF malloc, Ok, Fail
          <5> QED
            BY <3>6, <5>1, <5>2
        <4>2. CASE q = [m |-> x, ok |-> TRUE]
          BY <3>5, <4>2, TightTwice DEF Same
        <4> QED
          BY <4>1, <4>2 DEF _iot_security_be_software_ecdh_load,
                            _iot_security_be_software_ecdh_load_ed25519, Ok
      <3>8. /\ Same(m, q.m, EcdhSlots) /\ q.m.sub = m.sub /\ q.m.at["ecdh"] # NULL
        BY <3>3, <3>4, <3>5, <3>7 DEF Same, EcdhSlots
      <3>9. "ecdh" \notin m.sub => Tight(m, q.m)
        <4>1. SUFFICES ASSUME "ecdh" \notin m.sub PROVE Tight(m, q.m)
          OBVIOUS
        <4>2. m.at["ecdh"] = NULL /\ Zero(p.m, E)
          BY <1>1, <3>3, <3>4, <4>1 DEF Zero, Same, EcdhSlots
        <4> QED
          BY <3>4, <3>5, <3>7, <4>2, TightTwice
      <3>10. CASE q.ok
        <4>1. o.ok /\ o.m = Enter(q.m, "ecdh")
          BY <3>2, <3>10
        <4>2. Sized(o.m) /\ o.m.sub = q.m.sub \cup {"ecdh"} /\ o.m.at = q.m.at /\ Tight(q.m, o.m)
          <5>1. "ecdh" \in SubSystems
            BY SystemNames
          <5> QED
            BY <3>7, <4>1, <5>1, EnterEffect
        <4>3. Same(m, o.m, EcdhSlots)
          BY <3>8, <4>2 DEF Same
        <4>4. Formed(o.m)
          BY <1>3, <3>8, <4>2, <4>3, SlotNames
          DEF Formed, Same, Zero, CipherSlots, EcdhSlots, PkSlots
        <4> QED
          BY <3>8, <3>9, <4>1, <4>2, <4>3, <4>4, TightTwice
      <3>11. CASE ~ q.ok
        <4>1. PICK n : n = iot_security_buffer_free(q.m, "ecdh")
          OBVIOUS
        <4>2. ~ o.ok /\ o.m = n
          BY <3>2, <3>11, <4>1
        <4>3. /\ Sized(n) /\ n.sub = q.m.sub /\ n.at["ecdh"] = NULL /\ Same(q.m, n, {"ecdh"})
              /\ Tight(q.m, n)
          BY <3>3, <3>7, <4>1, FreeEffect
        <4>4. Same(m, n, EcdhSlots) /\ Zero(n, EcdhSlots)
          BY <3>3, <3>5, <3>7, <3>8, <3>11, <4>3 DEF Same, Zero, EcdhSlots
        <4>5. Formed(n)
          BY <1>3, <3>8, <4>3, <4>4, SlotNames
          DEF Formed, Same, Zero, CipherSlots, EcdhSlots, PkSlots
        <4> QED
          BY <3>8, <3>9, <4>2, <4>3, <4>4, <4>5, TightTwice
      <3> QED
        BY <3>10, <3>11
    <2> QED
      BY <2>2, <2>3
  <1> QED
    BY <1>2, <1>3 DEF iot_security_ecdh_init, Fail

\* iot_security_ecdh_deinit frees all that the key agreement has.
LEMMA EcdhDeinitEffect ==
    ASSUME NEW m, Formed(m), NEW o \in iot_security_ecdh_deinit(m)
    PROVE  /\ Formed(o.m) /\ Same(m, o.m, EcdhSlots) /\ o.m.sub \subseteq m.sub
           /\ m.at["ecdh"] # NULL => "ecdh" \notin o.m.sub
           /\ Tight(m, o.m)
  <1>1. Sized(m)
    BY DEF Formed
  <1>2. CASE m.at["ecdh"] = NULL
    <2>1. o.m = m
      BY <1>2 DEF iot_security_ecdh_deinit, _iot_security_be_software_ecdh_deinit,
                  _iot_security_be_check_context_and_params_is_valid, Then, Fail
    <2> QED
      BY <1>2, <2>1, TightTwice DEF Same
  <1>3. CASE m.at["ecdh"] # NULL
    <2>1. PICK x, y, z, v, w :
             /\ x = iot_security_buffer_free(m, "t_seckey")
             /\ y = iot_security_buffer_free(x, "c_pubkey")
             /\ z = iot_security_buffer_free(y, "salt")
             /\ v = iot_security_buffer_free(z, "ecdh") /\ w = Clear(v, EcdhSlots)
      OBVIOUS
    <2>2. o.m = Leave(w, "ecdh")
      BY <1>3, <2>1
      DEF iot_security_ecdh_deinit, _iot_security_be_software_ecdh_deinit,
          _iot_security_be_check_context_and_params_is_valid, Then, Ok, Fail
    <2>3. /\ "t_seckey" \in Slots /\ "c_pubkey" \in Slots /\ "salt" \in Slots
          /\ "ecdh" \in Slots /\ EcdhSlots \in SUBSET Slots
      BY SlotNames DEF EcdhSlots
    <2>4. /\ Sized(x) /\ x.sub = m.sub /\ x.at["t_seckey"] = NULL
          /\ Same(m, x, {"t_seckey"}) /\ Tight(m, x)
      BY <1>1, <2>1, <2>3, FreeEffect
    <2>5. /\ Sized(y) /\ y.sub = x.sub /\ y.at["c_pubkey"] = NULL
          /\ Same(x, y, {"c_pubkey"}) /\ Tight(x, y)
      BY <2>1, <2>3, <2>4, FreeEffect
    <2>6. /\ Sized(z) /\ z.sub = y.sub /\ z.at["salt"] = NULL
          /\ Same(y, z, {"salt"}) /\ Tight(y, z)
      BY <2>1, <2>3, <2>5, FreeEffect
    <2>7. /\ Sized(v) /\ v.sub = z.sub /\ v.at["ecdh"] = NULL
          /\ Same(z, v, {"ecdh"}) /\ Tight(z, v)
      BY <2>1, <2>3, <2>6, FreeEffect
    <2>8. Zero(v, EcdhSlots) /\ Same(m, v, EcdhSlots)
      BY <2>3, <2>4, <2>5, <2>6, <2>7 DEF Same, Zero, EcdhSlots
    <2>9. /\ Sized(w) /\ w.sub = v.sub /\ Zero(w, EcdhSlots) /\ Same(v, w, EcdhSlots)
          /\ Tight(v, w)
      BY <2>1, <2>3, <2>7, <2>8, ClearEffect
    <2>10. Sized(o.m) /\ o.m.sub = w.sub \ {"ecdh"} /\ o.m.at = w.at /\ Tight(w, o.m)
      <3>1. "ecdh" \in SubSystems
        BY SystemNames
      <3> QED
        BY <2>2, <2>9, <3>1, LeaveEffect
    <2>11. /\ Same(m, o.m, EcdhSlots) /\ Zero(o.m, EcdhSlots) /\ o.m.sub = m.sub \ {"ecdh"}
           /\ m.at["ctx"] # NULL
      BY <1>3, <2>3, <2>4, <2>5, <2>6, <2>7, <2>8, <2>9, <2>10, SlotNames
      DEF Same, Zero, Formed
    <2>12. Formed(o.m)
      BY <2>10, <2>11, SlotNames DEF Formed, Same, Zero, CipherSlots, EcdhSlots, PkSlots
    <2> QED
      BY <2>4, <2>5, <2>6, <2>7, <2>9, <2>10, <2>11, <2>12, TightTwice
  <1> QED
    BY <1>2, <1>3

\* Its parameters are replaced.
LEMMA EcdhSetParamsEffect ==
    ASSUME NEW m, Formed(m), NEW o \in iot_security_ecdh_set_params(m)
    PROVE  /\ Formed(o.m) /\ o.m.sub = m.sub /\ Same(m, o.m, {"c_pubkey", "salt"})
           /\ Tight(m, o.m)
  <1>1. CASE m.at["ecdh"] = NULL
    <2>1. o.m = m
      BY <1>1 DEF iot_security_ecdh_set_params,
                  _iot_security_be_check_context_and_params_is_valid, Then, Fail
    <2> QED
      BY <2>1, TightTwice DEF Same
  <1>2. CASE m.at["ecdh"] # NULL
    <2>1. PICK p \in CopyParams(m, "c_pubkey") : o = p \/ o \in CopyParams(p.m, "salt")
      BY <1>2 DEF iot_security_ecdh_set_params, _iot_security_be_software_ecdh_copy_params,
                  _iot_security_be_check_context_and_params_is_valid, Then, Ok, Fail
    <2>2. Sized(m) /\ "c_pubkey" \in Slots /\ "salt" \in Slots
      BY SlotNames DEF Formed
    <2>3. Sized(p.m) /\ p.m.sub = m.sub /\ Same(m, p.m, {"c_pubkey"}) /\ Tight(m, p.m)
      BY <2>2, CopyParamsEffect
    <2>4. \A q \in CopyParams(p.m, "salt") :
             Sized(q.m) /\ q.m.sub = p.m.sub /\ Same(p.m, q.m, {"salt"}) /\ Tight(p.m, q.m)
      BY <2>2, <2>3, CopyParamsEffect
    <2>5. /\ Sized(o.m) /\ o.m.sub = m.sub /\ Same(m, o.m, {"c_pubkey", "salt"})
          /\ Tight(m, o.m)
      BY <2>1, <2>3, <2>4, TightTwice DEF Same
    <2>6. "ecdh" \in m.sub /\ m.at["ctx"] # NULL
      BY <1>2, SlotNames DEF Formed, Zero, EcdhSlots
    <2>7. Formed(o.m)
      BY <2>5, <2>6, SlotNames DEF Formed, Same, Zero, CipherSlots, PkSlots
    <2> QED
      BY <2>5, <2>7
  <1> QED
    BY <1>1, <1>2

\* The backend's key pair is in no context.
LEMMA FormedOutside ==
    ASSUME NEW m, Formed(m), NEW n, Sized(n), n.sub = m.sub,
           Same(m, n, {"eph_sec", "eph_pub"})
    PROVE  Formed(n)
  BY SlotNames DEF Formed, Same, Zero, ContextSlots, CipherSlots, EcdhSlots, PkSlots

\* The ephemeral keys are stored there.
LEMMA GenerateKeyEffect ==
    ASSUME NEW m, Formed(m), NEW o \in iot_security_manager_generate_key(m)
    PROVE  Formed(o.m) /\ o.m.sub = m.sub
  <1>1. "eph_sec" \in Slots /\ "eph_pub" \in Slots /\ Sized(m)
    BY SlotNames DEF Formed
  <1>2. ASSUME NEW x, Sized(x), NEW s \in {"eph_sec", "eph_pub"}, NEW p \in RawKey(x, s)
        PROVE  Sized(p.m) /\ p.m.sub = x.sub /\ Same(x, p.m, {s})
    <2>1. p.m = x \/ p.m = Store(x, s) \/ p.m = Clear(x, {s})
      BY DEF RawKey, Ok, Fail
    <2>2. s \in Slots /\ {s} \in SUBSET Slots
      BY <1>1
    <2>3. \A n : n = Store(x, s) \/ n = Clear(x, {s})
                 => Sized(n) /\ n.sub = x.sub /\ Same(x, n, {s})
      BY <1>2, <2>2, StoreEffect, ClearEffect
    <2>4. CASE p.m = x
      BY <1>2, <2>4 DEF Same
    <2> QED
      BY <2>1, <2>3, <2>4
  <1>3. \/ o.m = m
        \/ \E p \in RawKey(m, "eph_pub") :
              \/ o = p
              \/ \E q \in RawKey(p.m, "eph_sec") :
                    o.m = q.m \/ o.m = iot_security_buffer_free(q.m, "eph_pub")
    BY DEF iot_security_manager_generate_key, mbedtls_helper_gen_secp256r1_keypair,
           _convert_pubkey_to_raw, _convert_seckey_to_raw, MayFail, Ok, Fail, Then, Undo
  <1>4. \A p \in RawKey(m, "eph_pub") :
           Sized(p.m) /\ p.m.sub = m.sub /\ Same(m, p.m, {"eph_pub"})
    BY <1>1, <1>2
  <1>5. ASSUME NEW p \in RawKey(m, "eph_pub"), NEW q \in RawKey(p.m, "eph_sec")
        PROVE  Sized(q.m) /\ q.m.sub = m.sub /\ Same(m, q.m, {"eph_sec", "eph_pub"})
    <2>1. Sized(q.m) /\ q.m.sub = p.m.sub /\ Same(p.m, q.m, {"eph_sec"})
      BY <1>2, <1>4
    <2> QED
      BY <1>4, <2>1 DEF Same
  <1>6. ASSUME NEW p \in RawKey(m, "eph_pub"), NEW q \in RawKey(p.m, "eph_sec"),
               NEW n, n = iot_security_buffer_free(q.m, "eph_pub")
        PROVE  Sized(n) /\ n.sub = m.sub /\ Same(m, n, {"eph_sec", "eph_pub"})
    <2>1. Sized(n) /\ n.sub = q.m.sub /\ Same(q.m, n, {"eph_pub"})
      BY <1>1, <1>5, <1>6, FreeEffect
    <2> QED
      BY <1>5, <2>1 DEF Same
  <1>7. Sized(o.m) /\ o.m.sub = m.sub /\ Same(m, o.m, {"eph_sec", "eph_pub"})
    BY <1>1, <1>3, <1>4, <1>5, <1>6 DEF Same
  <1> QED
    BY <1>7, FormedOutside

\* The caller's context is as it was; what is allocated is what the call left.
LEMMA RestoreEffect ==
    ASSUME NEW m, Formed(m), NEW o, Sized(o.m), Same(m, o.m, ContextSlots),
           NEW n, n = Restore(m, o).m
    PROVE  /\ Formed(n) /\ n.sub = m.sub
           /\ Zero(o.m, ContextSlots) /\ Tight(ClearContext(m), o.m) => Tight(m, n)
  <1>1. PICK q : q = o.m
    OBVIOUS
  <1>2. m \in Mem /\ q \in Mem /\ IsFiniteSet(q.live) /\ Same(m, q, ContextSlots)
    BY <1>1 DEF Formed, Sized
  <1>3. /\ n \in Mem /\ n.live = q.live /\ n.sub = m.sub
        /\ \A s \in Slots : n.at[s] = IF s \in ContextSlots THEN m.at[s] ELSE q.at[s]
    BY <1>1, <1>2, SlotNames DEF Restore, Mem
  <1>4. \A s \in Slots : n.at[s] = m.at[s]
    BY <1>2, <1>3 DEF Same
  <1>5. Formed(n)
    BY <1>2, <1>3, <1>4, SlotNames DEF Formed, Sized, Zero, CipherSlots, EcdhSlots, PkSlots
  <1>6. ASSUME Zero(q, ContextSlots), Tight(ClearContext(m), q) PROVE Tight(m, n)
    <2>1. PICK x : x = ClearContext(m)
      OBVIOUS
    <2>2. x.live = m.live
      BY <2>1, ClearContextEffect DEF Formed
    <2>3. Pointers(n) = Pointers(m) /\ Pointers(q) \subseteq Pointers(m)
      BY <1>2, <1>4, <1>6 DEF Pointers, Same, Zero
    <2>4. q.live \ Pointers(q) \subseteq x.live
      BY <1>6, <2>1 DEF Tight, Lost
    <2> QED
      BY <1>3, <2>2, <2>3, <2>4 DEF Tight, Lost
  <1> QED
    BY <1>1, <1>3, <1>5, <1>6
-----------------------------------------------------------------------------
\* The manager keeps no pointer in the context.
LEMMA ManagerEffect ==
    ASSUME NEW m, Formed(m), m.at["ctx"] # NULL, NEW n, n = Enter(m, "manager")
    PROVE  Formed(n) /\ n.at = m.at /\ n.sub = m.sub \cup {"manager"}
  <1>1. Sized(n) /\ n.sub = m.sub \cup {"manager"} /\ n.at = m.at
    BY SystemNames, EnterEffect DEF Formed
  <1> QED
    BY <1>1, SlotNames DEF Formed, Zero

\* iot_easysetup_ble_ecdh_init leaves a context with no key agreement, or the old one.
LEMMA BleEcdhInitEffect ==
    ASSUME NEW m, Formed(m), NEW o \in iot_easysetup_ble_ecdh_init(m)
    PROVE  Formed(o.m) /\ ("ecdh" \notin m.sub => "ecdh" \notin o.m.sub)
  <1> DEFINE New(n) == Formed(n) /\ Same(m, n, ContextSlots) /\ "ecdh" \notin n.sub
  <1>1. PICK p \in Then(Then(Then(iot_security_init(m), iot_security_pk_init),
                             iot_security_manager_init), iot_security_cipher_init) :
           o = IF p.ok THEN p ELSE Restore(m, p)
    BY DEF iot_easysetup_ble_ecdh_init
  <1>2. PICK a \in iot_security_init(m) :
           \/ ~ a.ok /\ p = a
           \/ /\ a.ok
              /\ \E b \in iot_security_pk_init(a.m) :
                    \/ ~ b.ok /\ p = b
                    \/ b.ok /\ p \in iot_security_cipher_init(Enter(b.m, "manager"))
    BY <1>1 DEF Then, iot_security_manager_init, Ok
  <1>3. /\ Formed(a.m) /\ a.m.sub = {} /\ Same(m, a.m, ContextSlots)
        /\ a.ok => a.m.at["ctx"] # NULL
    BY InitEffect DEF Formed
  <1>4. ASSUME a.ok, NEW b \in iot_security_pk_init(a.m)
        PROVE  /\ New(b.m) /\ b.m.at["ctx"] # NULL
    <2>1. /\ Formed(b.m) /\ Same(a.m, b.m, PkSlots)
          /\ b.ok => b.m.sub = a.m.sub \cup {"pk"}
          /\ ~ b.ok => b.m.sub = a.m.sub
      BY <1>3, <1>4, PkInitEffect
    <2>2. Same(m, b.m, ContextSlots)
      BY <1>3, <2>1 DEF Same, ContextSlots
    <2>3. b.m.at["ctx"] # NULL
      BY <1>3, <1>4, <2>1, SlotNames DEF Same, PkSlots
    <2> QED
      BY <1>3, <2>1, <2>2, <2>3
  <1>5. ASSUME a.ok, NEW b \in iot_security_pk_init(a.m),
               p \in iot_security_cipher_init(Enter(b.m, "manager"))
        PROVE  New(p.m)
    <2>1. PICK x : x = Enter(b.m, "manager")
      OBVIOUS
    <2>2. Formed(x) /\ x.at = b.m.at /\ x.sub = b.m.sub \cup {"manager"}
      BY <1>4, <1>5, <2>1, ManagerEffect
    <2>3. /\ Formed(p.m) /\ Same(x, p.m, CipherSlots)
          /\ p.m.sub \in {x.sub, x.sub \cup {"cipher"}}
      BY <1>5, <2>1, <2>2, CipherInitEffect
    <2> QED
      BY <1>4, <1>5, <2>2, <2>3 DEF Same, ContextSlots
  <1>6. New(p.m)
    BY <1>2, <1>3, <1>4, <1>5
  <1>7. CASE p.ok
    BY <1>1, <1>6, <1>7
  <1>8. CASE ~ p.ok
    <2>1. PICK n : n = Restore(m, p).m
      OBVIOUS
    <2>2. Formed(n) /\ n.sub = m.sub
      BY <1>6, <2>1, RestoreEffect DEF Formed
    <2> QED
      BY <1>1, <1>8, <2>1, <2>2
  <1> QED
    BY <1>7, <1>8

\* The signature of the X.509 DEVICEINFO.
LEMMA SignatureEffect ==
    ASSUME NEW m, Formed(m), NEW o \in iot_easysetup_ble_ecdh_compute_shared_signature(m)
    PROVE  Formed(o.m)
  <1>1. \A x : \A p \in Then(iot_security_manager_get_key(x), iot_security_pk_sign) : p.m = x
    BY DEF iot_security_manager_get_key, iot_security_pk_sign, Then, MayFail, Ok, Fail,
           _iot_security_be_check_context_and_params_is_valid
  <1>2. \/ o.m = m
        \/ \E p \in iot_security_ecdh_init(m) :
              o = p \/ \E q \in iot_security_manager_generate_key(p.m) :
                          \/ o = q
                          \/ o \in Then(iot_security_manager_get_key(q.m), iot_security_pk_sign)
    BY DEF iot_easysetup_ble_ecdh_compute_shared_signature,
           iot_security_manager_get_certificate, Then, MayFail, Ok, Fail
  <1>3. \A p \in iot_security_ecdh_init(m) : Formed(p.m)
    BY EcdhInitEffect
  <1>4. \A p \in iot_security_ecdh_init(m) :
           \A q \in iot_security_manager_generate_key(p.m) : Formed(q.m)
    BY <1>3, GenerateKeyEffect
  <1> QED
    BY <1>1, <1>2, <1>3, <1>4

\* A DEVICEINFO keeps the context formed; over HTTP it loses nothing.
LEMMA DeviceInfoEffect ==
    ASSUME NEW m, Formed(m), variant \in {"http", "ble", "x509"},
           NEW o \in _es_deviceinfo_handler(m)
    PROVE  /\ Formed(o.m)
           /\ variant # "x509" /\ "ecdh" \notin m.sub => "ecdh" \notin o.m.sub
           /\ variant = "http" => Tight(m, o.m)
  <1>1. CASE variant = "http"
    <2>1. o.m = m \/ o \in iot_security_cipher_set_params(m)
      BY <1>1 DEF _es_deviceinfo_handler, Then, MayFail, Ok, Fail
    <2> QED
      BY <1>1, <2>1, CipherSetParamsEffect, TightTwice
  <1>2. CASE variant = "ble"
    <2>1. PICK p \in iot_easysetup_ble_ecdh_init(m) :
             o.m = p.m \/ o \in iot_security_cipher_set_params(p.m)
      <3>1. o \in Then(iot_easysetup_ble_ecdh_init(m),
                       LAMBDA x : Then(MayFail(x), iot_security_cipher_set_params))
        BY <1>2 DEF _es_deviceinfo_handler
      <3>2. PICK p \in iot_easysetup_ble_ecdh_init(m) :
               o = p \/ o \in Then(MayFail(p.m), iot_security_cipher_set_params)
        BY <3>1 DEF Then
      <3>3. CASE o = p
        BY <3>3
      <3>4. CASE o \in Then(MayFail(p.m), iot_security_cipher_set_params)
        <4>1. o.m = p.m \/ o \in iot_security_cipher_set_params(p.m)
          BY <3>4 DEF Then, MayFail, Ok, Fail
        <4> QED
          BY <4>1
      <3> QED
        BY <3>2, <3>3, <3>4
    <2>2. Formed(p.m) /\ ("ecdh" \notin m.sub => "ecdh" \notin p.m.sub)
      BY BleEcdhInitEffect
    <2>3. \A q \in iot_security_cipher_set_params(p.m) : Formed(q.m) /\ q.m.sub = p.m.sub
      BY <2>2, CipherSetParamsEffect
    <2> QED
      BY <1>2, <2>1, <2>2, <2>3
  <1>3. CASE variant = "x509"
    <2>1. PICK c \in iot_security_cipher_init(m) :
             \/ o.m = c.m
             \/ \E p \in iot_easysetup_ble_ecdh_init(c.m) :
                   o = p \/ o \in iot_easysetup_ble_ecdh_compute_shared_signature(p.m)
      BY <1>3 DEF _es_deviceinfo_handler, Then, MayFail, Ok, Fail
    <2>2. Formed(c.m)
      BY CipherInitEffect
    <2>3. \A p \in iot_easysetup_ble_ecdh_init(c.m) : Formed(p.m)
      BY <2>2, BleEcdhInitEffect
    <2>4. \A p \in iot_easysetup_ble_ecdh_init(c.m) :
             \A q \in iot_easysetup_ble_ecdh_compute_shared_signature(p.m) : Formed(q.m)
      BY <2>3, SignatureEffect
    <2> QED
      BY <1>3, <2>1, <2>2, <2>3, <2>4
  <1> QED
    BY <1>1, <1>2, <1>3
-----------------------------------------------------------------------------
\* A local buffer is in no context.
LEMMA MallocLocalEffect ==
    ASSUME NEW m, Formed(m), NEW n, n = MallocLocal(m)
    PROVE  Formed(n) /\ n.at = m.at /\ n.sub = m.sub
  <1>1. PICK b : b = Fresh(m)
    OBVIOUS
  <1>2. b \in Nat /\ m \in Mem /\ IsFiniteSet(m.live \cup {b})
    BY <1>1, FreshIsFree, FS_AddElement DEF Formed, Sized, Mem
  <1>3. n = [m EXCEPT !.live = @ \cup {b}]
    BY <1>1 DEF MallocLocal
  <1>4. Sized(n) /\ n.at = m.at /\ n.sub = m.sub
    BY <1>2, <1>3 DEF Sized, Mem
  <1> QED
    BY <1>4 DEF Formed, Zero

\* The secret is lost only if the cipher has a key, or if there is no cipher.
LEMMA SecretEffect ==
    ASSUME NEW m, Formed(m), NEW o \in iot_security_ecdh_compute_shared_secret(m)
    PROVE  /\ Formed(o.m) /\ o.m.sub = m.sub /\ Same(m, o.m, {"key"}) /\ o.secret \in Nat
           /\ m.at["key"] = NULL /\ "cipher" \in m.sub => Tight(m, o.m)
  <1>1. Sized(m) /\ m \in Mem /\ "key" \in Slots
    BY SlotNames DEF Formed, Sized
  <1>2. /\ \/ o.m = m
           \/ "cipher" \notin m.sub /\ o.m = MallocLocal(m)
           \/ "cipher" \in m.sub /\ m.at["cipher"] # NULL /\ o.m = Store(m, "key")
        /\ o.secret = NULL \/ o.secret = Fresh(m)
    BY <1>1, SecretCases
  <1>3. o.secret \in Nat
    BY <1>1, <1>2, FreshIsFree DEF Sized, Mem, NULL
  <1>4. CASE o.m = m
    BY <1>3, <1>4, TightTwice DEF Same
  <1>5. CASE "cipher" \notin m.sub /\ o.m = MallocLocal(m)
    <2>1. Formed(o.m) /\ o.m.at = m.at /\ o.m.sub = m.sub
      BY <1>5, MallocLocalEffect
    <2> QED
      BY <1>3, <1>5, <2>1 DEF Same
  <1>6. CASE "cipher" \in m.sub /\ m.at["cipher"] # NULL /\ o.m = Store(m, "key")
    <2>1. PICK n : n = Store(m, "key")
      OBVIOUS
    <2>2. /\ Sized(n) /\ n.sub = m.sub /\ Same(m, n, {"key"})
          /\ m.at["key"] = NULL => Tight(m, n)
      BY <1>1, <2>1, StoreEffect
    <2>3. m.at["ctx"] # NULL
      BY <1>6 DEF Formed
    <2>4. Formed(n)
      BY <1>6, <2>2, <2>3, SlotNames DEF Formed, Same, Zero, EcdhSlots, PkSlots
    <2> QED
      BY <1>3, <1>6, <2>1, <2>2, <2>4
  <1> QED
    BY <1>2, <1>4, <1>5, <1>6

\* The parameters, then the secret.
LEMMA KeyInfoSecretEffect ==
    ASSUME NEW m, Formed(m), NEW o \in KeyInfoSecret(m)
    PROVE  /\ Formed(o.m) /\ o.m.sub = m.sub /\ Same(m, o.m, {"c_pubkey", "salt", "key"})
           /\ o.secret \in Nat
           /\ m.at["key"] = NULL /\ "cipher" \in m.sub => Tight(m, o.m)
  <1>1. PICK p \in iot_security_ecdh_set_params(m) :
           \/ o.m = p.m /\ o.secret = NULL
           \/ o \in iot_security_ecdh_compute_shared_secret(p.m)
    BY DEF KeyInfoSecret, Secretless
  <1>2. Formed(p.m) /\ p.m.sub = m.sub /\ Same(m, p.m, {"c_pubkey", "salt"}) /\ Tight(m, p.m)
    BY EcdhSetParamsEffect
  <1>3. CASE o.m = p.m /\ o.secret = NULL
    BY <1>2, <1>3 DEF Same, NULL
  <1>4. CASE o \in iot_security_ecdh_compute_shared_secret(p.m)
    <2>1. /\ Formed(o.m) /\ o.m.sub = p.m.sub /\ Same(p.m, o.m, {"key"}) /\ o.secret \in Nat
          /\ p.m.at["key"] = NULL /\ "cipher" \in p.m.sub => Tight(p.m, o.m)
      BY <1>2, <1>4, SecretEffect
    <2>2. p.m.at["key"] = m.at["key"]
      BY <1>2, SlotNames DEF Same
    <2>3. Same(m, o.m, {"c_pubkey", "salt", "key"})
      BY <1>2, <2>1 DEF Same
    <2> QED
      BY <1>2, <2>1, <2>2, <2>3, TightTwice
  <1> QED
    BY <1>1, <1>3, <1>4

\* The end of the handler frees what it may, and the key agreement.
LEMMA EndKeyInfoEffect ==
    ASSUME NEW m, Formed(m), NEW b \in Nat, NEW err \in BOOLEAN, NEW r \in EndKeyInfo(m, b, err)
    PROVE  /\ Formed(r.m) /\ r.m.sub \subseteq m.sub /\ Tight(m, r.m)
           /\ m.at["ecdh"] # NULL => "ecdh" \notin r.m.sub
  <1>1. PICK x : x = IF err /\ b # NULL THEN FreeSecret(m, b) ELSE m
    OBVIOUS
  <1>2. PICK d \in iot_security_ecdh_deinit(x) :
           r = [m |-> d.m, ok |-> ~ err, late |-> err /\ b # NULL]
    BY <1>1, Zenon DEF EndKeyInfo
  <1>3. r.m = d.m
    BY <1>2
  <1>4. Formed(x) /\ x.at = m.at /\ x.sub = m.sub /\ Tight(m, x)
    <2>1. CASE x = m
      BY <2>1, TightTwice
    <2>2. CASE x = FreeSecret(m, b)
      <3>1. m \in Mem /\ IsFiniteSet(m.live \ {b})
        BY FS_RemoveElement DEF Formed, Sized
      <3>2. x = [m EXCEPT !.twice = @ \cup ({b} \ m.live), !.live = @ \ {b}]
        BY <2>2 DEF FreeSecret
      <3>3. Sized(x) /\ x.at = m.at /\ x.sub = m.sub /\ x.live = m.live \ {b}
        BY <3>1, <3>2 DEF Sized, Mem
      <3> QED
        BY <3>3 DEF Formed, Zero, Tight, Lost, Pointers
    <2> QED
      BY <1>1, <2>1, <2>2
  <1>5. /\ Formed(d.m) /\ d.m.sub \subseteq x.sub
        /\ x.at["ecdh"] # NULL => "ecdh" \notin d.m.sub
        /\ Tight(x, d.m)
    BY <1>4, EcdhDeinitEffect
  <1> QED
    BY <1>3, <1>4, <1>5, TightTwice

\* Without certificates the key agreement ends with the request.
LEMMA KeyInfoRawEffect ==
    ASSUME NEW m, Formed(m), "ecdh" \notin m.sub, NEW r \in KeyInfoRaw(m)
    PROVE  /\ Formed(r.m) /\ "ecdh" \notin r.m.sub
           /\ m.at["key"] = NULL /\ "cipher" \in m.sub => Tight(m, r.m)
  <1>1. PICK i \in Then(MayFail(m), iot_security_ecdh_init) :
           \/ ~ i.ok /\ r.m = i.m
           \/ /\ i.ok
              /\ \E o \in KeyInfoSecret(i.m) :
                    \/ \E err \in BOOLEAN : r \in EndKeyInfo(o.m, o.secret, err)
                    \/ r \in EndKeyInfo(o.m, NULL, TRUE)
    BY KeyInfoRawCases, Zenon
  <1>2. i = [m |-> m, ok |-> FALSE] \/ i \in iot_security_ecdh_init(m)
    BY DEF Then, MayFail, Ok, Fail
  <1>3. /\ Formed(i.m) /\ Same(m, i.m, EcdhSlots) /\ Tight(m, i.m)
        /\ i.ok => i.m.sub = m.sub \cup {"ecdh"} /\ i.m.at["ecdh"] # NULL
        /\ ~ i.ok => i.m.sub = m.sub
    <2>1. CASE i = [m |-> m, ok |-> FALSE]
      BY <2>1, TightTwice DEF Same
    <2>2. CASE i \in iot_security_ecdh_init(m)
      BY <2>2, EcdhInitEffect
    <2> QED
      BY <1>2, <2>1, <2>2
  <1>4. CASE ~ i.ok /\ r.m = i.m
    BY <1>3, <1>4
  <1>5. ASSUME i.ok, NEW o \in KeyInfoSecret(i.m), NEW b \in Nat, NEW err \in BOOLEAN,
               r \in EndKeyInfo(o.m, b, err)
        PROVE  /\ Formed(r.m) /\ "ecdh" \notin r.m.sub
               /\ m.at["key"] = NULL /\ "cipher" \in m.sub => Tight(m, r.m)
    <2>1. /\ Formed(o.m) /\ o.m.sub = i.m.sub /\ Same(i.m, o.m, {"c_pubkey", "salt", "key"})
          /\ i.m.at["key"] = NULL /\ "cipher" \in i.m.sub => Tight(i.m, o.m)
      BY <1>3, KeyInfoSecretEffect
    <2>2. /\ Formed(r.m) /\ Tight(o.m, r.m)
          /\ o.m.at["ecdh"] # NULL => "ecdh" \notin r.m.sub
      BY <1>5, <2>1, EndKeyInfoEffect
    <2>3. i.m.at["key"] = m.at["key"] /\ o.m.at["ecdh"] # NULL
      BY <1>3, <1>5, <2>1, SlotNames DEF Same, EcdhSlots
    <2> QED
      BY <1>3, <1>5, <2>1, <2>2, <2>3, TightTwice
  <1>6. NULL \in Nat /\ \A o \in KeyInfoSecret(i.m) : o.secret \in Nat
    BY <1>3, KeyInfoSecretEffect DEF NULL
  <1> QED
    BY <1>1, <1>4, <1>5, <1>6

\* With certificates it may not end, and local buffers are lost.
LEMMA KeyInfoX509Effect ==
    ASSUME NEW m, Formed(m), NEW r \in KeyInfoX509(m)
    PROVE  Formed(r.m)
  <1>1. \/ r.m = m \/ r \in EndKeyInfo(m, NULL, TRUE)
        \/ \E o \in KeyInfoSecret(MallocLocal(m)) :
              LET x == MallocLocal(MallocLocal(o.m))
              IN  \/ r \in EndKeyInfo(x, NULL, TRUE) \/ r \in EndKeyInfo(o.m, NULL, TRUE)
                  \/ \E c \in iot_security_cipher_set_params(MallocLocal(x)) :
                        \/ \E err \in BOOLEAN : r \in EndKeyInfo(c.m, o.secret, err)
                        \/ r \in EndKeyInfo(c.m, NULL, TRUE)
    BY KeyInfoX509Cases, Zenon
  <1>2. /\ NULL \in Nat
        /\ \A n : Formed(n) => Formed(MallocLocal(n))
    BY MallocLocalEffect DEF NULL
  <1>3. \A n, b, err, q : Formed(n) /\ b \in Nat /\ err \in BOOLEAN /\ q \in EndKeyInfo(n, b, err)
                          => Formed(q.m)
    BY EndKeyInfoEffect
  <1>4. \A n : Formed(n) => \A c \in iot_security_cipher_set_params(n) : Formed(c.m)
    BY CipherSetParamsEffect
  <1>5. \A o \in KeyInfoSecret(MallocLocal(m)) : Formed(o.m) /\ o.secret \in Nat
    BY <1>2, KeyInfoSecretEffect
  <1> QED
    BY <1>1, <1>2, <1>3, <1>4, <1>5
-----------------------------------------------------------------------------
\* Calls with a context of their own: what they leave of it, and what they lose.
Gone(m, n) == Zero(n, ContextSlots) /\ Tight(ClearContext(m), n)

\* A context with storage, or none.
LEMMA StorageInitEffect ==
    ASSUME NEW m, Sized(m), NEW o \in _iot_nv_io_storage_init(m)
    PROVE  /\ Sized(o.m) /\ Same(m, o.m, ContextSlots) /\ Tight(ClearContext(m), o.m)
           /\ ~ o.ok => Zero(o.m, ContextSlots)
           /\ o.ok => Zero(o.m, ContextSlots \ {"ctx", "be", "storage"})
  <1>1. PICK a \in iot_security_init(m) :
           \/ ~ a.ok /\ o = a
           \/ /\ a.ok
              /\ \E q \in malloc(a.m, "storage") :
                    \/ q.ok /\ o.ok /\ o.m = Enter(q.m, "storage")
                    \/ ~ q.ok /\ ~ o.ok /\ o.m = iot_security_deinit(q.m)
    BY DEF _iot_nv_io_storage_init, iot_security_storage_init, Then, Undo, Ok
  <1>2. /\ Formed(a.m) /\ Same(m, a.m, ContextSlots)
        /\ Zero(a.m, ContextSlots \ {"ctx", "be"})
        /\ ~ a.ok => Zero(a.m, ContextSlots)
        /\ Tight(ClearContext(m), a.m)
    BY InitEffect
  <1>3. Sized(a.m)
    BY <1>2 DEF Formed
  <1>4. CASE ~ a.ok /\ o = a
    BY <1>2, <1>3, <1>4
  <1>5. ASSUME NEW q \in malloc(a.m, "storage"), q.ok, o.ok, o.m = Enter(q.m, "storage")
        PROVE  /\ Sized(o.m) /\ Same(m, o.m, ContextSlots) /\ Tight(ClearContext(m), o.m)
               /\ Zero(o.m, ContextSlots \ {"ctx", "be", "storage"})
    <2>1. "storage" \in Slots /\ "storage" \in ContextSlots /\ "storage" \in SubSystems
      BY SlotNames DEF SubSystems, ContextSlots
    <2>2. /\ Sized(q.m) /\ Same(a.m, q.m, {"storage"})
          /\ a.m.at["storage"] = NULL => Tight(a.m, q.m)
      BY <1>3, <2>1, MallocEffect
    <2>3. Sized(o.m) /\ o.m.at = q.m.at /\ Tight(q.m, o.m)
      BY <1>5, <2>1, <2>2, EnterEffect
    <2>4. a.m.at["storage"] = NULL
      BY <1>2 DEF Formed
    <2>5. Same(m, o.m, ContextSlots) /\ Zero(o.m, ContextSlots \ {"ctx", "be", "storage"})
      BY <1>2, <2>1, <2>2, <2>3, SlotNames DEF Same, Zero
    <2> QED
      BY <1>2, <2>2, <2>3, <2>4, <2>5, TightTwice
  <1>6. ASSUME NEW q \in malloc(a.m, "storage"), ~ q.ok, o.m = iot_security_deinit(q.m)
        PROVE  /\ Sized(o.m) /\ Same(m, o.m, ContextSlots) /\ Tight(ClearContext(m), o.m)
               /\ Zero(o.m, ContextSlots)
    <2>1. q.m = a.m
      BY <1>6 DEF malloc, Ok, Fail
    <2>2. PICK n : n = iot_security_deinit(a.m)
      OBVIOUS
    <2>3. /\ Formed(n) /\ Zero(n, ContextSlots) /\ Same(a.m, n, ContextSlots)
          /\ Zero(a.m, ContextSlots \ {"ctx", "be"}) => Tight(a.m, n)
      BY <1>3, <2>2, DeinitEffect
    <2>4. Sized(n) /\ Same(m, n, ContextSlots)
      BY <1>2, <2>3 DEF Formed, Same
    <2> QED
      BY <1>2, <1>6, <2>1, <2>2, <2>3, <2>4, TightTwice
  <1> QED
    BY <1>1, <1>4, <1>5, <1>6

\* It is freed whole.
LEMMA StorageDeinitEffect ==
    ASSUME NEW m, Sized(m), Zero(m, ContextSlots \ {"ctx", "be", "storage"}),
           NEW n, n = _iot_nv_io_storage_deinit(m)
    PROVE  Sized(n) /\ Zero(n, ContextSlots) /\ Same(m, n, ContextSlots) /\ Tight(m, n)
  <1>1. PICK x, y : x = iot_security_buffer_free(m, "storage") /\ y = Leave(x, "storage")
    OBVIOUS
  <1>2. "storage" \in Slots /\ "storage" \in ContextSlots /\ "storage" \in SubSystems
    BY SlotNames DEF SubSystems, ContextSlots
  <1>3. Sized(x) /\ x.at["storage"] = NULL /\ Same(m, x, {"storage"}) /\ Tight(m, x)
    BY <1>1, <1>2, FreeEffect
  <1>4. Sized(y) /\ y.at = x.at /\ Tight(x, y)
    BY <1>1, <1>2, <1>3, LeaveEffect
  <1>5. Zero(y, ContextSlots \ {"ctx", "be"}) /\ Same(m, y, ContextSlots)
    BY <1>2, <1>3, <1>4, SlotNames DEF Same, Zero
  <1>6. n = iot_security_deinit(y)
    BY <1>1 DEF _iot_nv_io_storage_deinit, iot_security_storage_deinit
  <1>7. /\ Formed(n) /\ Zero(n, ContextSlots) /\ Same(y, n, ContextSlots)
        /\ Zero(y, ContextSlots \ {"ctx", "be"}) => Tight(y, n)
    BY <1>4, <1>6, DeinitEffect
  <1> QED
    BY <1>3, <1>4, <1>5, <1>7, TightTwice DEF Formed, Same

\* _iot_nv_io_storage frees its context whatever fails.
LEMMA NvEffect ==
    ASSUME NEW m, Sized(m), NEW o \in _iot_nv_io_storage(m)
    PROVE  Sized(o.m) /\ Same(m, o.m, ContextSlots) /\ Gone(m, o.m)
  <1>1. PICK p \in _iot_nv_io_storage_init(m) :
           (~ p.ok /\ o = p) \/ (p.ok /\ o.m = _iot_nv_io_storage_deinit(p.m))
    <2>1. PICK p \in _iot_nv_io_storage_init(m) :
             (~ p.ok /\ o = p) \/ (p.ok /\ o \in MayFail(_iot_nv_io_storage_deinit(p.m)))
      BY DEF _iot_nv_io_storage, Then
    <2>2. o \in MayFail(_iot_nv_io_storage_deinit(p.m)) => o.m = _iot_nv_io_storage_deinit(p.m)
      BY DEF MayFail, Ok, Fail
    <2> QED
      BY <2>1, <2>2
  <1>2. /\ Sized(p.m) /\ Same(m, p.m, ContextSlots) /\ Tight(ClearContext(m), p.m)
        /\ ~ p.ok => Zero(p.m, ContextSlots)
        /\ p.ok => Zero(p.m, ContextSlots \ {"ctx", "be", "storage"})
    BY StorageInitEffect
  <1>3. CASE ~ p.ok /\ o = p
    BY <1>2, <1>3 DEF Gone
  <1>4. CASE p.ok /\ o.m = _iot_nv_io_storage_deinit(p.m)
    <2>1. Sized(o.m) /\ Zero(o.m, ContextSlots) /\ Same(p.m, o.m, ContextSlots) /\ Tight(p.m, o.m)
      BY <1>2, <1>4, StorageDeinitEffect
    <2> QED
      BY <1>2, <2>1, TightTwice DEF Gone, Same
  <1> QED
    BY <1>1, <1>3, <1>4

\* iot_nv_get_certificate does if it succeeds.
LEMMA CertificateEffect ==
    ASSUME NEW m, Sized(m), NEW o \in iot_nv_get_certificate(m)
    PROVE  Sized(o.m) /\ Same(m, o.m, ContextSlots) /\ (o.ok => Gone(m, o.m))
  <1>1. PICK p \in _iot_nv_io_storage_init(m) :
           \/ ~ p.ok /\ o = p
           \/ /\ p.ok /\ ~ o.ok /\ o.m = Enter(p.m, "manager")
           \/ /\ p.ok
              /\ o.m = _iot_nv_io_storage_deinit(Leave(Enter(p.m, "manager"), "manager"))
    <2> DEFINE get(x) == Then(iot_security_manager_init(x), iot_security_manager_get_certificate)
               end(x) == Then(iot_security_manager_deinit(x),
                              LAMBDA y : Ok(_iot_nv_io_storage_deinit(y)))
    <2>1. \A x : \A q \in get(x) : q.m = Enter(x, "manager")
      BY DEF iot_security_manager_init, iot_security_manager_get_certificate,
             Then, MayFail, Ok, Fail
    <2>2. \A x : \A q \in end(x) : q.m = _iot_nv_io_storage_deinit(Leave(x, "manager"))
      BY DEF iot_security_manager_deinit, Then, Ok
    <2>3. PICK g \in Then(_iot_nv_io_storage_init(m), get) :
             (~ g.ok /\ o = g) \/ (g.ok /\ o \in end(g.m))
      <3>1. o \in Then(Then(_iot_nv_io_storage_init(m), get), end)
        BY DEF iot_nv_get_certificate
      <3> HIDE DEF get, end
      <3> QED
        BY <3>1 DEF Then
    <2> HIDE DEF get, end
    <2>4. PICK p \in _iot_nv_io_storage_init(m) : 
             (~ p.ok /\ g = p) \/ (p.ok /\ g \in get(p.m))
      BY DEF Then
    <2>5. CASE ~ p.ok /\ g = p
      BY <2>3, <2>5
    <2>6. CASE p.ok /\ g \in get(p.m)
      <3>1. g.m = Enter(p.m, "manager")
        BY <2>1, <2>6
      <3> QED
        BY <2>2, <2>3, <2>6, <3>1
    <2> QED
      BY <2>4, <2>5, <2>6
  <1>2. /\ Sized(p.m) /\ Same(m, p.m, ContextSlots) /\ Tight(ClearContext(m), p.m)
        /\ ~ p.ok => Zero(p.m, ContextSlots)
        /\ p.ok => Zero(p.m, ContextSlots \ {"ctx", "be", "storage"})
    BY StorageInitEffect
  <1>3. PICK x, y : x = Enter(p.m, "manager") /\ y = Leave(x, "manager")
    OBVIOUS
  <1>4. Sized(x) /\ x.at = p.m.at /\ Tight(p.m, x) /\ Sized(y) /\ y.at = x.at /\ Tight(x, y)
    <2>1. "manager" \in SubSystems
      BY SystemNames
    <2> QED
      BY <1>2, <1>3, <2>1, EnterEffect, LeaveEffect
  <1>5. CASE ~ p.ok /\ o = p
    BY <1>2, <1>5
  <1>6. CASE p.ok /\ ~ o.ok /\ o.m = x
    BY <1>2, <1>4, <1>6 DEF Same
  <1>7. CASE p.ok /\ o.m = _iot_nv_io_storage_deinit(y)
    <2>1. Zero(y, ContextSlots \ {"ctx", "be", "storage"})
      BY <1>2, <1>4, <1>7 DEF Zero
    <2>2. Sized(o.m) /\ Zero(o.m, ContextSlots) /\ Same(y, o.m, ContextSlots) /\ Tight(y, o.m)
      BY <1>4, <1>7, <2>1, StorageDeinitEffect
    <2>3. Same(m, o.m, ContextSlots)
      BY <1>2, <1>4, <2>2 DEF Same
    <2> QED
      BY <1>2, <1>4, <2>2, <2>3, TightTwice DEF Gone
  <1> QED
    BY <1>1, <1>3, <1>5, <1>6, <1>7

\* So does iot_wt_create.
LEMMA TokenEffect ==
    ASSUME NEW m, Sized(m), NEW o \in iot_wt_create(m)
    PROVE  Sized(o.m) /\ Same(m, o.m, ContextSlots) /\ (o.ok => Gone(m, o.m))
  <1>1. PICK a \in iot_security_init(m) :
           \/ ~ a.ok /\ o = a
           \/ /\ a.ok
              /\ \E p \in iot_security_pk_init(a.m) :
                    \/ ~ p.ok /\ o = p
                    \/ /\ p.ok
                       /\ \E q \in iot_security_pk_deinit(p.m) : o.m = iot_security_deinit(q.m)
    BY DEF iot_wt_create, Then
  <1>2. /\ Formed(a.m) /\ a.m.sub = {} /\ Same(m, a.m, ContextSlots)
        /\ Zero(a.m, ContextSlots \ {"ctx", "be"})
        /\ a.ok => a.m.at["ctx"] # NULL
        /\ Tight(ClearContext(m), a.m)
        /\ ~ a.ok => Zero(a.m, ContextSlots)
    BY InitEffect
  <1>3. CASE ~ a.ok /\ o = a
    BY <1>2, <1>3 DEF Formed
  <1>4. ASSUME a.ok, NEW p \in iot_security_pk_init(a.m)
        PROVE  /\ Formed(p.m) /\ Same(a.m, p.m, PkSlots) /\ Same(m, p.m, ContextSlots)
               /\ p.ok => p.m.at["pk"] # NULL /\ Tight(a.m, p.m)
    <2>1. /\ Formed(p.m) /\ Same(a.m, p.m, PkSlots)
          /\ p.ok => /\ p.m.sub = a.m.sub \cup {"pk"} /\ p.m.at["pk"] # NULL
                     /\ Tight(a.m, p.m)
      BY <1>2, <1>4, PkInitEffect
    <2> QED
      BY <1>2, <2>1 DEF Same, ContextSlots
  <1>5. ASSUME a.ok, NEW p \in iot_security_pk_init(a.m), ~ p.ok, o = p
        PROVE  Sized(o.m) /\ Same(m, o.m, ContextSlots) /\ ~ o.ok
    BY <1>4, <1>5 DEF Formed
  <1>6. ASSUME a.ok, NEW p \in iot_security_pk_init(a.m), p.ok,
               NEW q \in iot_security_pk_deinit(p.m), o.m = iot_security_deinit(q.m)
        PROVE  Sized(o.m) /\ Same(m, o.m, ContextSlots) /\ Gone(m, o.m)
    <2>1. Sized(p.m) /\ p.m.at["pk"] # NULL /\ Tight(a.m, p.m) /\ Same(a.m, p.m, PkSlots)
      BY <1>4, <1>6 DEF Formed
    <2>2. Sized(q.m) /\ Same(p.m, q.m, PkSlots) /\ Zero(q.m, PkSlots) /\ Tight(p.m, q.m)
      BY <2>1, PkDeinitEffect
    <2>3. Zero(q.m, ContextSlots \ {"ctx", "be"}) /\ Same(m, q.m, ContextSlots)
      BY <1>2, <2>1, <2>2, SlotNames DEF Same, Zero, ContextSlots
    <2>4. PICK n : n = iot_security_deinit(q.m)
      OBVIOUS
    <2>5. /\ Formed(n) /\ Zero(n, ContextSlots) /\ Same(q.m, n, ContextSlots)
          /\ Zero(q.m, ContextSlots \ {"ctx", "be"}) => Tight(q.m, n)
      BY <2>2, <2>4, DeinitEffect
    <2>6. Sized(n) /\ Same(m, n, ContextSlots)
      BY <2>3, <2>5 DEF Formed, Same
    <2> QED
      BY <1>2, <1>6, <2>1, <2>2, <2>3, <2>4, <2>5, <2>6, TightTwice DEF Gone
  <1> QED
    BY <1>1, <1>3, <1>5, <1>6
-----------------------------------------------------------------------------
(* The steps.                                                              *)

\* The context is formed, and only the X.509 handlers leave a key agreement in it.
ContextInv ==
    /\ variant \in Variants
    /\ Formed(mem)
    /\ variant # "x509" => "ecdh" \notin mem.sub

\* At first there is no context.
LEMMA ContextInitInv == SecurityInit => ContextInv
  <1>1. IsFiniteSet({})
    BY FS_EmptySet
  <1>2. Empty \in Mem /\ Empty.sub = {} /\ Empty.live = {} /\ \A s \in Slots : Empty.at[s] = NULL
    BY DEF Empty, Mem, NULL
  <1>3. Formed(Empty)
    BY <1>1, <1>2, SlotNames DEF Formed, Sized, Zero, CipherSlots, EcdhSlots, PkSlots
  <1> QED
    BY <1>2, <1>3 DEF SecurityInit, ContextInv

\* What a step may lose, and that it keeps the invariant.
LEMMA ContextNextInv ==
    ASSUME ContextInv, [SecurityNext]_securityVars
    PROVE  ContextInv' /\ (Tight(mem, mem') \/ why' # {} \/ UNCHANGED securityVars)
  <1> DEFINE Good == ContextInv' /\ (Tight(mem, mem') \/ why' # {})
  <1>1. /\ Formed(mem) /\ Sized(mem) /\ variant \in Variants
        /\ variant \in {"http", "ble", "x509"}
        /\ variant # "x509" => "ecdh" \notin mem.sub
    BY SecurityAssumption DEF ContextInv, Formed
  <1>2. SUFFICES ASSUME SecurityNext PROVE Good
    <2>1. CASE UNCHANGED securityVars
      BY <2>1 DEF securityVars, ContextInv
    <2> QED
      BY <1>2, <2>1
  <1>3. SUFFICES /\ variant' = variant
                 /\ Formed(mem') /\ (variant # "x509" => "ecdh" \notin mem'.sub)
                 /\ Tight(mem, mem') \/ why' # {}
    BY <1>1 DEF ContextInv
  <1>4. CASE CreateContext
    <2>1. variant' = variant /\ mem.at["ctx"] = NULL
      BY <1>4 DEF CreateContext, Session
    <2>2. PICK o \in iot_security_init(mem) : mem' = o.m
      BY <1>4 DEF CreateContext
    <2>3. Formed(o.m) /\ o.m.sub = {} /\ Tight(ClearContext(mem), o.m)
      BY <1>1, InitEffect
    <2>4. Tight(mem, ClearContext(mem))
      <3>1. Zero(mem, ContextSlots)
        BY <1>1, <2>1 DEF Formed
      <3> QED
        BY <1>1, <3>1, ClearContextEffect
    <2> QED
      BY <2>1, <2>2, <2>3, <2>4, TightTwice
  <1>5. CASE DeleteContext
    <2>1. /\ variant' = variant /\ mem' = iot_security_deinit(mem)
          /\ mem.sub = {} \/ why' # {}
      BY <1>5 DEF DeleteContext
    <2>2. /\ Formed(mem') /\ mem'.sub = {}
          /\ Zero(mem, ContextSlots \ {"ctx", "be"}) => Tight(mem, mem')
      BY <1>1, <2>1, DeinitEffect
    <2>3. mem.sub = {} => Zero(mem, ContextSlots \ {"ctx", "be"})
      BY <1>1 DEF Formed, Zero, ContextSlots
    <2> QED
      BY <2>1, <2>2, <2>3
  <1>6. CASE EasysetupInit
    <2>1. variant' = variant /\ ("cipher" \notin mem.sub \/ why' # {})
      BY <1>6 DEF EasysetupInit, Session
    <2>2. PICK o \in iot_security_cipher_init(mem) : mem' = o.m
      BY <1>6 DEF EasysetupInit
    <2>3. /\ Formed(o.m) /\ o.m.sub \in {mem.sub, mem.sub \cup {"cipher"}}
          /\ "cipher" \notin mem.sub => Tight(mem, o.m)
      BY <1>1, CipherInitEffect
    <2> QED
      BY <1>1, <2>1, <2>2, <2>3
  <1>7. CASE EasysetupDeinit
    <2>1. variant' = variant
      BY <1>7 DEF EasysetupDeinit
    <2>2. PICK o \in iot_security_cipher_deinit(mem) : mem' = o.m
      BY <1>7 DEF EasysetupDeinit
    <2>3. Formed(o.m) /\ o.m.sub \subseteq mem.sub /\ Tight(mem, o.m)
      BY <1>1, CipherDeinitEffect
    <2> QED
      BY <1>1, <2>1, <2>2, <2>3
  <1>8. CASE DeviceInfo
    <2>1. variant' = variant /\ (variant = "http" \/ why' # {})
      BY <1>8 DEF DeviceInfo, Request
    <2>2. PICK o \in _es_deviceinfo_handler(mem) : mem' = o.m
      BY <1>8 DEF DeviceInfo
    <2>3. /\ Formed(o.m)
          /\ variant # "x509" /\ "ecdh" \notin mem.sub => "ecdh" \notin o.m.sub
          /\ variant = "http" => Tight(mem, o.m)
      BY <1>1, DeviceInfoEffect
    <2> QED
      BY <1>1, <2>1, <2>2, <2>3
  <1>9. CASE KeyInfo
    <2>1. variant' = variant
      BY <1>9 DEF KeyInfo, Request
    <2>2. PICK o \in IF variant = "x509" THEN KeyInfoX509(mem) ELSE KeyInfoRaw(mem) :
             /\ mem' = o.m
             /\ why' = {c \in {"rekey", "left", "locals"} :
                           CASE c = "rekey"  -> mem.at["key"] # NULL
                             [] c = "left"   -> "cipher" \notin mem.sub
                             [] c = "locals" -> variant = "x509"}
      BY <1>9 DEF KeyInfo
    <2>3. \/ mem.at["key"] = NULL /\ "cipher" \in mem.sub /\ variant # "x509"
          \/ "rekey" \in why' \/ "left" \in why' \/ "locals" \in why'
      BY <2>2
    <2>4. CASE variant = "x509"
      <3>1. Formed(o.m)
        BY <1>1, <2>2, <2>4, KeyInfoX509Effect
      <3> QED
        BY <2>1, <2>2, <2>3, <2>4, <3>1
    <2>5. CASE variant # "x509"
      <3>1. o \in KeyInfoRaw(mem)
        BY <2>2, <2>5
      <3>2. /\ Formed(o.m) /\ "ecdh" \notin o.m.sub
            /\ mem.at["key"] = NULL /\ "cipher" \in mem.sub => Tight(mem, o.m)
        BY <1>1, <2>5, <3>1, KeyInfoRawEffect
      <3> QED
        BY <2>1, <2>2, <2>3, <3>2
    <2> QED
      BY <2>4, <2>5
  <1>10. CASE Message
    <2>1. variant' = variant
      BY <1>10 DEF Message, Request
    <2>2. PICK o \in Then(iot_security_cipher_aes_decrypt(mem), iot_security_cipher_aes_encrypt) :
             mem' = o.m
      BY <1>10 DEF Message
    <2>3. Formed(o.m) /\ o.m.sub = mem.sub /\ Tight(mem, o.m)
      BY <1>1, MessageEffect
    <2> QED
      BY <1>1, <2>1, <2>2, <2>3
  <1>11. CASE OwnContext
    <2>1. variant' = variant
      BY <1>11 DEF OwnContext, Session
    <2>2. PICK p : /\ mem' = Restore(mem, p).m
                   /\ \/ p \in _iot_nv_io_storage(mem)
                      \/ /\ p \in iot_nv_get_certificate(mem) \/ p \in iot_wt_create(mem)
                         /\ p.ok \/ why' # {}
      <3>1. CASE \E o \in Local(mem, _iot_nv_io_storage) : mem' = o.m
        BY <3>1 DEF Local
      <3>2. CASE \E o \in Local(mem, iot_nv_get_certificate) \cup Local(mem, iot_wt_create) :
                    mem' = o.m /\ why' = IF o.ok THEN {} ELSE {"half"}
        <4>1. PICK o \in Local(mem, iot_nv_get_certificate) \cup Local(mem, iot_wt_create) :
                 mem' = o.m /\ why' = IF o.ok THEN {} ELSE {"half"}
          BY <3>2
        <4>2. PICK p : /\ p \in iot_nv_get_certificate(mem) \/ p \in iot_wt_create(mem)
                       /\ o = Restore(mem, p)
          BY <4>1 DEF Local
        <4>3. o.ok = p.ok
          BY <4>2 DEF Restore
        <4> QED
          BY <4>1, <4>2, <4>3
      <3> QED
        BY <1>11, <3>1, <3>2 DEF OwnContext
    <2>3. /\ Sized(p.m) /\ Same(mem, p.m, ContextSlots)
          /\ Gone(mem, p.m) \/ why' # {}
      BY <1>1, <2>2, NvEffect, CertificateEffect, TokenEffect
    <2>4. /\ Formed(mem') /\ mem'.sub = mem.sub
          /\ Zero(p.m, ContextSlots) /\ Tight(ClearContext(mem), p.m) => Tight(mem, mem')
      BY <1>1, <2>2, <2>3, RestoreEffect
    <2> QED
      BY <1>1, <2>1, <2>3, <2>4 DEF Gone
  <1> QED
    BY <1>2, <1>4, <1>5, <1>6, <1>7, <1>8, <1>9, <1>10, <1>11 DEF SecurityNext

\* A step of the handlers or of another call loses a buffer only where the code
\* drops it: for every variant and however many requests and sessions there are.
THEOREM LossAlwaysHasCause == SecuritySpec => LossHasCause
  <1>1. ContextInv /\ [SecurityNext]_securityVars => ContextInv'
    BY ContextNextInv
  <1>2. ContextInv /\ [SecurityNext]_securityVars
        => [Lost(mem') \subseteq Lost(mem) \/ why' # {}]_securityVars
    BY ContextNextInv DEF Tight
  <1> QED
    BY <1>1, <1>2, ContextInitInv, PTL DEF SecuritySpec, LossHasCause
=============================================================================

------------------------------- MODULE NvStore -------------------------------
(***************************************************************************)
(* The non-volatile data (iot_nv_data.c over the storage backend and the   *)
(* ports' file systems): the two halves of a provisioning, each written    *)
(* between a status NONE and a status DONE, the device id and the          *)
(* miscellaneous entries, through provisioning, registration, restart and  *)
(* cleanup, with writes that fail and power lost between and inside        *)
(* writes.  A text is a sequence of the number of the provisioning it      *)
(* belongs to, so that its length and where it comes from can be told.     *)
(***************************************************************************)
EXTENDS Integers, Sequences

CONSTANTS Ports,        \* file systems: "posix", "esp32", "bl602"
          Medias,       \* easy setups: "http", "ble"
          MaxProvs,     \* bound: provisionings
          MaxFaults,    \* bound: failed accesses and power losses
          MaxExtras     \* bound: cleanups and error codes of other threads

ASSUME NvAssumption == /\ Ports \subseteq {"posix", "esp32", "bl602"}
                       /\ Medias \subseteq {"http", "ble"}
                       /\ MaxProvs \in Nat /\ MaxFaults \in Nat
                       /\ MaxExtras \in Nat

VARIABLES port, media,
          flash,     \* file -> <<>> or <<its text>>
          misc,      \* the entries of MiscInfo, 0 when there is none
          mode,      \* where the main task is
          cur,       \* the provisioning the main task works for, its shape
          call,      \* actor -> the writes left of its call and what follows it
          pend,      \* actor -> <<>> or <<the new misc_info it will write>>
          reenter,   \* a state update to PROV_ENTER waits in the main queue
          used,      \* <<>> or <<what the last start connected with>>
          prov, faults, extras,
          given,     \* history: half -> arguments of the set that wrote DONE
          spoiled,   \* history: files a successful set left otherwise
          causes,    \* history: why id or one half may be of another provisioning
          stored,    \* history: entry -> the value last stored
          lost       \* history: entries that may have gone

ghosts == <<given, spoiled, causes, stored, lost>>
bounds == <<prov, faults, extras>>
vars == <<port, media, flash, misc, mode, cur, call, pend, reenter, used, bounds, ghosts>>

Halves == {"wifi", "cloud"}
Fields == [wifi |-> <<"ssid", "pass", "bssid", "auth">>, cloud |-> <<"url", "port", "label">>]
FieldsOf(h) == {Fields[h][i] : i \in DOMAIN Fields[h]}
Status == [wifi |-> "wifiStatus", cloud |-> "cloudStatus"]
Files == FieldsOf("wifi") \cup FieldsOf("cloud") \cup {"wifiStatus", "cloudStatus", "id"}
Entries == {"dip", "loId", "prevErr"}
Actors == {"main", "other"}

\* "NONE" and "DONE" differ in their first character only: one unit of text.
None == <<0>>
Done == <<MaxProvs + 1>>
StatusSize == 1         \* sizeof(nv_status) - 1
DataSize == 9           \* DATA_SIZE, longer than any text here
Rest(old, n) == IF old = <<>> THEN <<>> ELSE SubSeq(old[1], n + 1, Len(old[1]))

-----------------------------------------------------------------------------
\* The ports' file systems

\* open without O_TRUNC, then write: a longer old text keeps its end.
posix_fs_write(old, t) == <<t \o Rest(old, Len(t))>>
esp32_fs_write(old, t) == <<t>>
bl602_fs_write(old, t) == <<t>>
_iot_security_be_bsp_fs_store_to_nv(old, t) ==
    CASE port = "posix" -> posix_fs_write(old, t)
      [] port = "esp32" -> esp32_fs_write(old, t)
      [] port = "bl602" -> bl602_fs_write(old, t)

\* What a write that fails or loses power may leave, after n units.
Torn(old, t, max) ==
    {old} \cup (IF port = "posix"
                THEN {posix_fs_write(old, SubSeq(t, 1, n)) : n \in 0 .. max} ELSE {})

NoFile == [err |-> "not exist", text |-> <<>>, len |-> 0]
Text(t, n) == [err |-> "none", text |-> t, len |-> n]

posix_fs_read(f) == IF flash[f] = <<>> THEN NoFile ELSE Text(flash[f][1], Len(flash[f][1]))
\* nvs_get_str counts the terminating zero.
esp32_fs_read(f) == IF flash[f] = <<>> THEN NoFile ELSE Text(flash[f][1], Len(flash[f][1]) + 1)
\* ef_get_env_blob of a missing name reads nothing and is no error.
bl602_fs_read(f) == IF flash[f] = <<>> THEN Text(<<>>, 0) ELSE Text(flash[f][1], Len(flash[f][1]))
_iot_security_be_bsp_fs_load_from_nv(f) ==
    CASE port = "posix" -> posix_fs_read(f)
      [] port = "esp32" -> esp32_fs_read(f)
      [] port = "bl602" -> bl602_fs_read(f)

-----------------------------------------------------------------------------
\* Reading (iot_nv_data.c)

_iot_nv_read_data(f, size) ==
    LET r == _iot_security_be_bsp_fs_load_from_nv(f)
    IN  IF r.err = "none" /\ size < r.len THEN [r EXCEPT !.err = "buffer"] ELSE r

IsDone(f, size) == LET r == _iot_nv_read_data(f, size) IN r.err = "none" /\ r.text = Done

iot_nv_prov_data_exist ==
    IsDone("wifiStatus", StatusSize) /\ IsDone("cloudStatus", StatusSize)

\* A field in the provisioning structure: an array that is empty, or a pointer
\* that is NULL, when there is no file.
Get(f) == LET r == _iot_nv_read_data(f, DataSize)
          IN  IF r.err # "none" \/ (f \in FieldsOf("wifi") /\ r.text = <<>>)
              THEN <<>> ELSE <<r.text>>

iot_nv_get_wifi_prov_data ==
    IF IsDone("wifiStatus", DataSize) THEN <<[f \in FieldsOf("wifi") |-> Get(f)]>> ELSE <<>>
iot_nv_get_cloud_prov_data ==
    IF IsDone("cloudStatus", DataSize) THEN <<[f \in FieldsOf("cloud") |-> Get(f)]>> ELSE <<>>

\* iot_nv_get_prov_data and then _check_prov_data_validation.
iot_nv_get_prov_data == iot_nv_get_wifi_prov_data # <<>> /\ iot_nv_get_cloud_prov_data # <<>>
_check_prov_data_validation == /\ iot_nv_get_wifi_prov_data[1].ssid # <<>>
                               /\ iot_nv_get_cloud_prov_data[1].url # <<>>
                               /\ iot_nv_get_cloud_prov_data[1].port # <<>>
Provisioned == iot_nv_get_prov_data /\ _check_prov_data_validation

iot_nv_get_device_id == _iot_nv_read_data("id", DataSize)

-----------------------------------------------------------------------------
\* Writing: a call is the sequence of its accesses; a failed write ends it, the
\* result of an erase is not looked at.

Write(f, t) == [file |-> f, text |-> <<t>>]
iot_nv_erase(f) == [file |-> f, text |-> <<>>]

\* The arguments of a set: with every field and long texts, with short texts and
\* without the fields that may be left out, and with an empty device name.
Shapes == {"long", "bare", "empty"}
VarLen == {"url", "port", "label"}
Nullable == {"pass", "bssid", "label"}
Want(f, a) ==
    CASE f \in Nullable /\ a.shape = "bare" -> <<>>
      [] f = "label" /\ a.shape = "empty" -> <<(<<>>)>>
      [] f \in VarLen /\ a.shape = "long" -> <<(<<a.gen, a.gen>>)>>
      [] OTHER -> <<(<<a.gen>>)>>

SetFields(h, a) == [i \in DOMAIN Fields[h] |-> [file |-> Fields[h][i], text |-> Want(Fields[h][i], a)]]

\* Mistake: the status is not taken back before the fields are written.
SetWithoutNone(a) == SetFields("cloud", a) \o <<Write("cloudStatus", Done)>>

iot_nv_set_wifi_prov_data(a) ==
    <<Write("wifiStatus", None)>> \o SetFields("wifi", a) \o <<Write("wifiStatus", Done)>>

iot_nv_set_cloud_prov_data(a) ==
    <<Write("cloudStatus", None)>> \o SetFields("cloud", a) \o <<Write("cloudStatus", Done)>>

iot_nv_erase_prov_data == <<Write("wifiStatus", None), Write("cloudStatus", None)>>

DeviceId(g) == <<g, g>>
iot_nv_set_device_id(g) == <<Write("id", DeviceId(g))>>

\* A call: its accesses, those that follow it in any case, and the mode of the
\* main task after its success and after its failure.
NoProv == [gen |-> 0, shape |-> ""]
NoCall == [ops |-> <<>>, rest |-> <<>>, yes |-> "", no |-> "", half |-> "", arg |-> NoProv]
Idle(a) == call[a] = NoCall /\ pend[a] = <<>>
Start(a, ops, rest, yes, no) ==
    call' = [call EXCEPT ![a] = [ops |-> ops, rest |-> rest, yes |-> yes, no |-> no,
                                 half |-> "", arg |-> NoProv]]
StartSet(h, ops, arg, yes, no) ==
    call' = [call EXCEPT !["main"] = [ops |-> ops, rest |-> <<>>, yes |-> yes, no |-> no,
                                      half |-> h, arg |-> arg]]

\* The accesses left when c goes on with ops; when none is left the main task
\* goes to the mode to, and the other thread asks it to enter provisioning.
GoOn(a, c, ops, to) ==
    LET left == IF ops = <<>> THEN c.rest ELSE ops
    IN  IF left # <<>>
        THEN /\ call' = [call EXCEPT ![a] =
                           [ops |-> left, rest |-> IF ops = <<>> THEN <<>> ELSE c.rest,
                            yes |-> to, no |-> c.no, half |-> c.half, arg |-> c.arg]]
             /\ UNCHANGED <<mode, reenter>>
        ELSE /\ call' = [call EXCEPT ![a] = NoCall]
             /\ mode' = IF a = "main" THEN to ELSE mode
             /\ reenter' = (reenter \/ a = "other")

\* A write of no bytes is refused on every layer.
Refused(op) == op.text = <<(<<>>)>>

Cleaning == call["other"] # NoCall \/ reenter

\* The half of a provisioning that is stored first, and the other one.
FirstStatus == IF media = "http" THEN "wifiStatus" ELSE "cloudStatus"
SecondStatus == IF media = "http" THEN "cloudStatus" ELSE "wifiStatus"

\* An access succeeds.
OpDone(a) ==
    LET c == call[a]
        op == Head(c.ops)
        old == flash[op.file]
        tail == port = "posix" /\ op.text # <<>> /\ old # <<>> /\ Len(old[1]) > Len(op.text[1])
    IN  /\ c # NoCall /\ ~Refused(op)
        /\ flash' = [flash EXCEPT ![op.file] = IF op.text = <<>> THEN <<>>
                                                ELSE _iot_security_be_bsp_fs_store_to_nv(old, op.text[1])]
        /\ GoOn(a, c, Tail(c.ops), c.yes)
        /\ spoiled' = IF tail THEN spoiled \cup {op.file} ELSE spoiled \ {op.file}
        /\ given' = IF c.half # "" /\ op = Write(Status[c.half], Done)
                    THEN [given EXCEPT ![c.half] = c.arg] ELSE given
        /\ causes' = CASE op.file = "id" -> IF a = "main" /\ op.text # <<>> /\ Cleaning
                                            THEN causes \cup {"id"} ELSE causes \ {"id"}
                       [] op = Write(FirstStatus, Done) -> causes \cup {"wifi"}
                       [] op = Write(SecondStatus, Done) -> causes \ {"wifi"}
                       [] OTHER -> causes
        /\ UNCHANGED <<port, media, misc, cur, pend, used, bounds, stored, lost>>

\* An access fails: a write ends the call, an erase is only logged.
OpFails(a) ==
    LET c == call[a]
        op == Head(c.ops)
        erase == op.text = <<>>
    IN  /\ c # NoCall
        /\ IF Refused(op) THEN UNCHANGED <<flash, faults>>
           ELSE /\ faults < MaxFaults /\ faults' = faults + 1
                /\ IF erase THEN UNCHANGED flash
                   ELSE \E t \in Torn(flash[op.file], op.text[1], Len(op.text[1]) - 1) :
                            flash' = [flash EXCEPT ![op.file] = t]
        /\ GoOn(a, c, IF erase THEN Tail(c.ops) ELSE <<>>, IF erase THEN c.yes ELSE c.no)
        /\ spoiled' = IF erase THEN spoiled \cup {op.file} ELSE spoiled
        /\ causes' = causes \cup (IF op.file = "id" THEN {"id"} ELSE {})
        /\ UNCHANGED <<port, media, misc, cur, pend, used, prov, extras, given, stored, lost>>

-----------------------------------------------------------------------------
\* MiscInfo (iot_api.c): a store reads the entries, changes one and writes all.

NoEntries == [e \in Entries |-> 0]

\* Mistake: the entries there are not taken over.
SetAlone(json, e, v) == [NoEntries EXCEPT ![e] = v]

\* _set_dip_to_json, _set_location_to_json, _set_preverr_to_json.
SetEntry(json, e, v) == [json EXCEPT ![e] = v]

\* _get_dip_from_json, _get_location_from_json, _get_preverr_from_json.
GetEntry(json, e) == json[e]
iot_misc_info_load(e) == GetEntry(misc, e)

\* iot_misc_info_store up to the write; entries that cannot be read or parsed
\* are replaced by an empty object.
MiscRead(a, e, v, readable) ==
    /\ pend' = [pend EXCEPT ![a] = <<[key |-> e, old |-> misc, over |-> ~readable,
                                      new |-> SetEntry(IF readable THEN misc ELSE NoEntries, e, v)]>>]
    /\ UNCHANGED <<port, media, flash, misc, mode, cur, call, reenter, used, prov, ghosts>>

Readable(ok) == \/ ok /\ UNCHANGED faults
                \/ ~ok /\ faults < MaxFaults /\ faults' = faults + 1

\* IOT_COMMAND_CLOUD_REGISTERED stores the DIP and the location.
MainStores ==
    /\ mode \in {"dip", "loc"} /\ Idle("main")
    /\ \E ok \in BOOLEAN : /\ Readable(ok)
                           /\ MiscRead("main", IF mode = "dip" THEN "dip" ELSE "loId", cur.gen, ok)
    /\ UNCHANGED extras

\* iot_set_st_ecode on the MQTT or an easy-setup thread.
OtherStores ==
    /\ extras < MaxExtras /\ mode # "boot" /\ Idle("other")
    /\ extras' = extras + 1
    /\ \E ok \in BOOLEAN : Readable(ok) /\ MiscRead("other", "prevErr", extras + 1, ok)

NextMode == [dip |-> "loc", loc |-> "id"]
EndStore(a) == /\ pend' = [b \in Actors |->
                             IF b = a \/ pend[b] = <<>> THEN <<>>
                             ELSE <<[pend[b][1] EXCEPT !.over = TRUE]>>]
               /\ mode' = IF a = "main" THEN NextMode[mode] ELSE mode

\* The write, skipped when nothing changed.
MiscWrite(a) ==
    /\ pend[a] # <<>>
    /\ LET p == pend[a][1]
           same == p.new = p.old
       IN  /\ misc' = IF same THEN misc ELSE p.new
           /\ stored' = [stored EXCEPT ![p.key] = p.new[p.key]]
           /\ lost' = IF same THEN lost
                      ELSE (lost \ {p.key}) \cup (IF p.over THEN Entries \ {p.key} ELSE {})
    /\ EndStore(a)
    /\ UNCHANGED <<port, media, flash, cur, call, reenter, used, bounds, given, spoiled, causes>>

\* The write fails; the caller only logs it.
MiscFails(a) ==
    /\ pend[a] # <<>> /\ faults < MaxFaults /\ faults' = faults + 1
    /\ \E left \in IF port = "posix" THEN {misc, NoEntries} ELSE {misc} :
          /\ misc' = left
          /\ lost' = lost \cup (IF left = misc THEN {pend[a][1].key} ELSE Entries)
    /\ stored' = [stored EXCEPT ![pend[a][1].key] = pend[a][1].new[pend[a][1].key]]
    /\ EndStore(a)
    /\ UNCHANGED <<port, media, flash, cur, call, reenter, used, prov, extras,
                   given, spoiled, causes>>

-----------------------------------------------------------------------------
\* Provisioning and registration

NewProv == /\ mode = "prov" /\ Idle("main") /\ prov < MaxProvs
           /\ prov' = prov + 1 /\ cur' \in [gen : {prov + 1}, shape : Shapes]
           /\ UNCHANGED <<port, media, flash, misc, mode, pend, reenter, used, faults, extras, ghosts>>

\* _es_wifi_prov_parse and _es_cloud_prov_parse of the wifiprovisioninginfo
\* handler over HTTP.
HttpWifi == /\ media = "http" /\ NewProv
            /\ StartSet("wifi", iot_nv_set_wifi_prov_data(cur'), cur', "half", "prov")

HttpCloud ==
    /\ mode = "half" /\ Idle("main")
    /\ StartSet("cloud", iot_nv_set_cloud_prov_data(cur), cur, "put", "prov")
    /\ UNCHANGED <<port, media, flash, misc, mode, cur, pend, reenter, used, bounds, ghosts>>

\* The handler reads back what it stored.
HttpReadBack ==
    /\ mode = "put"
    /\ \E ok \in BOOLEAN : Readable(ok) /\ mode' = IF ok /\ iot_nv_get_prov_data THEN "reg" ELSE "prov"
    /\ UNCHANGED <<port, media, flash, misc, cur, call, pend, reenter, used, prov, extras, ghosts>>

\* Over BLE the cloud half comes first.
BleCloud == /\ media = "ble" /\ NewProv
            /\ StartSet("cloud", iot_nv_set_cloud_prov_data(cur'), cur', "reg", "prov")

\* The Wi-Fi half in iot_easysetup_deinit, when the device has connected or
\* the connection timer ran out with no error noted.
BleWifi ==
    /\ media = "ble" /\ mode \in {"reg", "join"} /\ Idle("main") /\ used = <<>>
    /\ StartSet("wifi", iot_nv_set_wifi_prov_data(cur), cur, "run", "run")
    /\ UNCHANGED <<port, media, flash, misc, mode, cur, pend, reenter, used, bounds, ghosts>>

MainTo(m) == /\ mode' = m
             /\ UNCHANGED <<port, media, flash, misc, cur, call, pend, reenter, bounds,
                            given, spoiled, stored, lost>>

Registered == mode = "reg" /\ Idle("main") /\ MainTo("dip") /\ UNCHANGED <<used, causes>>

\* The broker rejects the registration: PROV_ENTER, whatever id is stored.
Rejected == /\ mode = "reg" /\ Idle("main") /\ MainTo("prov")
            /\ used' = <<>>
            /\ causes' = IF flash["id"] = <<>> THEN causes ELSE causes \cup {"id"}

StoreId ==
    /\ mode = "id" /\ Idle("main")
    /\ LET to == IF media = "ble" /\ used = <<>> THEN "join" ELSE "run"
       IN  Start("main", iot_nv_set_device_id(cur.gen), <<>>, to, to)
    /\ UNCHANGED <<port, media, flash, misc, mode, cur, pend, reenter, used, bounds, ghosts>>

-----------------------------------------------------------------------------
\* Start and cleanup

Booting == mode = "boot" /\ Idle("main")

\* Mistake: the provisioning data are erased and the id is left.
BootErasesData == iot_nv_erase_prov_data

BootErase == <<iot_nv_erase("id")>>

\* _check_prov_status: no data, or none that is valid, or it cannot be read.
BootWithoutData ==
    /\ Booting
    /\ \E ok \in BOOLEAN : Readable(ok) /\ ~(ok /\ Provisioned)
    /\ Start("main", BootErase, <<>>, "prov", "prov")
    /\ UNCHANGED <<port, media, flash, misc, mode, cur, pend, reenter, used, prov, extras, ghosts>>

BootWithoutId ==
    /\ Booting /\ Provisioned /\ iot_nv_get_device_id.err # "none"
    /\ MainTo("prov") /\ UNCHANGED <<used, causes>>

\* The device id is there: connect, or register by itself when the stored DIP
\* is not the firmware's and the old location can be read.
BootWithId(self) ==
    /\ Booting /\ Provisioned /\ iot_nv_get_device_id.err = "none"
    /\ self => iot_misc_info_load("loId") # 0
    /\ mode' = IF self THEN "reg" ELSE "run"
    /\ cur' = given["cloud"]
    /\ used' = <<[wifi |-> given["wifi"].gen, cloud |-> given["cloud"].gen,
                  id |-> iot_nv_get_device_id.text, loc |-> IF self THEN iot_misc_info_load("loId") ELSE 0,
                  exist |-> iot_nv_prov_data_exist, why |-> causes, lost |-> lost]>>
    /\ UNCHANGED <<port, media, flash, misc, call, pend, reenter, bounds, ghosts>>

BootConnects == BootWithId(FALSE)
BootRegisters == BootWithId(TRUE)

\* iot_device_cleanup by iot_cleanup, then a restart or INITIALIZED again.
Cleanup ==
    /\ mode \in {"prov", "half", "reg", "join", "run"} /\ Idle("main") /\ extras < MaxExtras
    /\ extras' = extras + 1
    /\ Start("main", iot_nv_erase_prov_data, <<iot_nv_erase("id")>>, "boot", "boot")
    /\ used' = <<>>
    /\ UNCHANGED <<port, media, flash, misc, mode, cur, pend, reenter, prov, faults, ghosts>>

\* The phone leaves before the onboarding is complete: the BLE callback cleans
\* up, while the main task goes on with what it does.
GattLeave ==
    /\ media = "ble" /\ mode \in {"prov", "reg", "dip", "loc", "id", "join"} /\ used = <<>>
    /\ call["main"].half # "wifi" /\ Idle("other") /\ extras < MaxExtras
    /\ extras' = extras + 1
    /\ Start("other", iot_nv_erase_prov_data, <<iot_nv_erase("id")>>, "", "")
    /\ UNCHANGED <<port, media, flash, misc, mode, cur, pend, reenter, used, prov, faults, ghosts>>

ProvEnter == /\ reenter /\ Idle("main") /\ mode \in {"prov", "reg", "join", "run"}
             /\ mode' = "prov" /\ reenter' = FALSE
             /\ UNCHANGED <<port, media, flash, misc, cur, call, pend, used, bounds, ghosts>>

\* The power goes, between accesses or within one.
PowerLoss ==
    /\ mode # "boot" \/ call["main"] # NoCall
    /\ faults < MaxFaults /\ faults' = faults + 1
    /\ \/ UNCHANGED <<flash, misc, lost>>
       \/ /\ port = "posix" /\ UNCHANGED <<misc, lost>>
          /\ \E a \in Actors :
                /\ call[a] # NoCall /\ Head(call[a].ops).text # <<>>
                /\ LET op == Head(call[a].ops)
                   IN  \E t \in Torn(flash[op.file], op.text[1], Len(op.text[1]) - 1) :
                          flash' = [flash EXCEPT ![op.file] = t]
       \/ /\ port = "posix" /\ \E a \in Actors : pend[a] # <<>>
          /\ misc' = NoEntries /\ lost' = Entries /\ UNCHANGED flash
    /\ mode' = "boot" /\ cur' = NoProv /\ reenter' = FALSE /\ used' = <<>>
    /\ call' = [a \in Actors |-> NoCall] /\ pend' = [a \in Actors |-> <<>>]
    /\ causes' = causes \cup (IF flash'["id"] # flash["id"] THEN {"id"} ELSE {})
    /\ UNCHANGED <<port, media, prov, extras, given, spoiled, stored>>

Init ==
    /\ port \in Ports /\ media \in Medias
    /\ flash = [f \in Files |-> <<>>] /\ misc = NoEntries
    /\ mode = "boot" /\ cur = NoProv /\ reenter = FALSE /\ used = <<>>
    /\ call = [a \in Actors |-> NoCall] /\ pend = [a \in Actors |-> <<>>]
    /\ prov = 0 /\ faults = 0 /\ extras = 0
    /\ given = [h \in Halves |-> NoProv] /\ spoiled = {} /\ causes = {}
    /\ stored = NoEntries /\ lost = {}

Next ==
    \/ \E a \in Actors : OpDone(a)
    \/ \E a \in Actors : OpFails(a)
    \/ MainStores
    \/ OtherStores
    \/ \E a \in Actors : MiscWrite(a)
    \/ \E a \in Actors : MiscFails(a)
    \/ HttpWifi
    \/ HttpCloud
    \/ HttpReadBack
    \/ BleCloud
    \/ BleWifi
    \/ Registered
    \/ Rejected
    \/ StoreId
    \/ BootWithoutData
    \/ BootWithoutId
    \/ BootConnects
    \/ BootRegisters
    \/ Cleanup
    \/ GattLeave
    \/ ProvEnter
    \/ PowerLoss

Spec == Init /\ [][Next]_vars

-----------------------------------------------------------------------------
\* Properties

\* When a status says DONE, loading that half gives every field the set that
\* wrote DONE was called with, whatever writes failed and wherever the power
\* went; but for a field whose erase failed, the end of a longer old text that
\* the POSIX port leaves, and a device name that was left out, which the bl602
\* port reads back as an empty one.
DoneIsWhole ==
    \A h \in Halves : IsDone(Status[h], DataSize) =>
        \A f \in FieldsOf(h) :
            \/ Get(f) = Want(f, given[h])
            \/ f \in spoiled
            \/ port = "bl602" /\ f = "label" /\ Want(f, given[h]) = <<>>

\* A start that does not provision connects with Wi-Fi data, cloud data and a
\* device id of one and the same provisioning, registers itself only in the
\* location of that provisioning, and st_info_get then says it is provisioned;
\* except that a device id may be left from an earlier provisioning when its
\* erase or write failed, a self-registration was rejected or the phone left
\* during the registration; that between the storing of the two halves of a
\* provisioning (over BLE the cloud data first, over HTTP the Wi-Fi data) the other
\* half is the earlier one's; that the bl602 port takes a missing id for an empty
\* one; and that the esp32 port never says it is.
ConnectsAsProvisioned ==
    used # <<>> =>
        LET u == used[1]
        IN  \/ "id" \in u.why
            \/ port = "bl602" /\ u.id = <<>>
            \/ /\ u.id = DeviceId(u.cloud)
               /\ u.wifi = u.cloud \/ "wifi" \in u.why
               /\ u.loc \in {0, u.cloud} \/ "loId" \in u.lost
               /\ u.exist \/ port = "esp32"

\* A stored entry of MiscInfo is still there with the value last stored, unless
\* a write of MiscInfo failed, its old text could not be read, or two threads
\* stored entries at the same time.
EntriesAreKept == \A e \in Entries : misc[e] = stored[e] \/ e \in lost
=============================================================================

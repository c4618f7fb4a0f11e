---------------------------- MODULE CapabilityData ----------------------------
(***************************************************************************)
(* What the sequential calls of iot_capability.c do, as operators:         *)
(* registration and lookup of command callbacks, the texts of events, the  *)
(* parsing of notifications and commands, and the creation and release of  *)
(* attributes and arguments.  Checked for all small inputs.                *)
(***************************************************************************)
EXTENDS Naturals, Sequences, SequencesExt

-----------------------------------------------------------------------------
\* Command callbacks.  A name is a sequence of letters; a handle is a pair of
\* component and capability (key) with the names of its callbacks, newest first.

\* st_cap_handle_init appends to the list.
st_cap_handle_init(list, key) == Append(list, [key |-> key, cmds |-> <<>>])

\* st_cap_cmd_set_cb, with strncmp over the length of the new name: a name that
\* begins one of the handle's names is refused.
st_cap_cmd_set_cb(list, i, name) ==
    IF \E j \in DOMAIN list[i].cmds : IsPrefix(name, list[i].cmds[j])
    THEN list ELSE [list EXCEPT ![i].cmds = <<name>> \o @]

\* _iot_process_cmd: the first handle with the key, and its callback with the
\* name: <<handle, name>>, or <<>> if there is none.
_iot_process_cmd(list, key, name) ==
    LET handles == {i \in DOMAIN list : list[i].key = key}
        first   == CHOOSE i \in handles : \A j \in handles : i <= j
    IN  IF handles # {} /\ Contains(list[first].cmds, name) THEN <<first, name>> ELSE <<>>

Names == {<<"s">>, <<"s", "l">>, <<"t">>}
Keys == {"k1", "k2"}

\* The lists that two handles and up to MaxSets registrations can make.
MaxSets == 4
Register(list, r) == st_cap_cmd_set_cb(list, r[1], r[2])
HandleLists ==
    {FoldLeft(Register, st_cap_handle_init(st_cap_handle_init(<<>>, k1), k2), regs) :
        k1 \in Keys, k2 \in Keys, regs \in BoundedSeq({1, 2} \X Names, MaxSets)}

RegisteredIsReached ==
    \A list \in HandleLists, key \in Keys, name \in Names :
        LET has == {i \in DOMAIN list : list[i].key = key /\ Contains(list[i].cmds, name)}
            r   == _iot_process_cmd(list, key, name)
        IN  /\ r # <<>> => r[1] \in has /\ r[2] = name
            /\ \A i \in has : r = <<i, name>> \/ \E j \in 1 .. i - 1 : list[j].key = key

\* A command of a message: key and name, and what it says ("ok": a component, a
\* capability and a command; "args": arguments and an id besides; "bad": less).
Commands == {[key |-> k, name |-> n, has |-> h] :
                k \in {"k1"}, n \in {<<"s">>, <<"t">>}, h \in {"bad", "ok", "args"}}

\* Mistake: the first command that cannot be parsed ends the loop.
SubUntilBad(list, cmds) ==
    LET bad  == SelectInSeq(cmds, LAMBDA c : c.has = "bad")
        good == IF bad = 0 THEN cmds ELSE SubSeq(cmds, 1, bad - 1)
    IN  SelectSeq([i \in DOMAIN good |-> _iot_process_cmd(list, good[i].key, good[i].name)],
                  LAMBDA r : r # <<>>)

\* iot_cap_sub_cb: the callbacks that a message runs, in order.
iot_cap_sub_cb(list, cmds) ==
    LET parsed == SelectSeq(cmds, LAMBDA c : c.has # "bad")
        found  == [i \in DOMAIN parsed |-> _iot_process_cmd(list, parsed[i].key, parsed[i].name)]
    IN  SelectSeq(found, LAMBDA r : r # <<>>)

\* iot_cap_commands_cb: the calls of noti_cb, of which there is one with all
\* the commands, or none.
iot_cap_commands_cb(cmds) ==
    IF cmds # <<>> /\ \A i \in DOMAIN cmds : cmds[i].has = "args" THEN <<cmds>> ELSE <<>>

BadCommandIsPassedOver ==
    \A list \in {st_cap_cmd_set_cb(st_cap_handle_init(<<>>, "k1"), 1, <<"s">>)},
       cmds \in BoundedSeq(Commands, 3) :
        LET good == SelectSeq(cmds, LAMBDA c : c.has # "bad" /\ c.name = <<"s">>)
            all  == iot_cap_commands_cb(cmds)
        IN  /\ iot_cap_sub_cb(list, cmds) = [i \in DOMAIN good |-> <<1, <<"s">>>>]
            /\ all # <<>> => /\ Len(all) = 1 /\ all[1] = cmds
                             /\ \A i \in DOMAIN cmds : cmds[i].has = "args"

-----------------------------------------------------------------------------
\* Events.  Of an attribute, the kind of its value and what was given with it;
\* of the JSON text, its fields.

\* _iot_make_evt_data; displayed is "null" when the option is not given.
_iot_make_evt_data(kind, given, displayed) ==
    IF kind \notin {"boolean", "integer", "number", "string", "strings", "json"} THEN {}
    ELSE {"component", "capability", "attribute", "value", "sequenceNumber"}
           \cup (given \cap {"commandId", "unit", "data", "stateChange"})
           \cup (IF displayed = "null" THEN {} ELSE {"visibility"})

\* Mistake: the history flag is read the wrong way round.
MakeShown(kind, given, history) ==
    IF ~ {"component", "capability", "attribute"} \subseteq given THEN {}
    ELSE {"component", "capability", "attribute", "sequenceNumber"}
           \cup (IF kind \in {"boolean", "number", "string", "json"} THEN {"value"} ELSE {})
           \cup (given \cap {"commandId", "unit", "data", "stateChange"})
           \cup (IF history THEN {"visibility"} ELSE {})

\* _iot_make_evt_data_v2: the names may be missing, and values of other kinds
\* are left out.
_iot_make_evt_data_v2(kind, given, history) ==
    IF ~ {"component", "capability", "attribute"} \subseteq given THEN {}
    ELSE {"component", "capability", "attribute", "sequenceNumber"}
           \cup (IF kind \in {"boolean", "number", "string", "json"} THEN {"value"} ELSE {})
           \cup (given \cap {"commandId", "unit", "data", "stateChange"})
           \cup (IF history THEN {} ELSE {"visibility"})

\* Both calls on the attributes that both can send.
SameInBothVersions ==
    \A kind \in {"boolean", "number", "string", "json"},
       given \in SUBSET {"commandId", "unit", "data", "stateChange"}, history \in BOOLEAN :
        _iot_make_evt_data(kind, given, IF history THEN "null" ELSE "false") =
            _iot_make_evt_data_v2(kind, given \cup {"component", "capability", "attribute"},
                                  history)

-----------------------------------------------------------------------------
\* Notifications.  A message is its event and the names in it; preferences have
\* a type and a value, or miss one of them ("none").

Required == [deleted |-> {}, jwt |-> {"currentTime"},
             rate |-> {"count", "threshold", "remainingTime", "sequenceNumber"},
             quota |-> {"used", "limit"}, preference |-> {"values"}]

\* _iot_parse_noti_data: the notification that is queued ("type" none: ignored),
\* and the type of every preference.  A value without a type is a comparison
\* with NULL.
_iot_parse_noti_data(event, names, prefs) ==
    IF event \notin DOMAIN Required \/ ~ Required[event] \subseteq names
         \/ (event = "preference" /\ prefs = <<>>)
    THEN [type |-> "none", prefs |-> <<>>]
    ELSE [type |-> event,
          prefs |-> IF event # "preference" THEN <<>> ELSE
                    [i \in DOMAIN prefs |->
                       IF prefs[i].value = "none" THEN "null" ELSE
                       CASE prefs[i].type = "none" -> "crash"
                         [] prefs[i].type \in {"string", "number", "boolean", "integer"} -> prefs[i].type
                         [] OTHER -> "unknown"]]

\* IOT_COMMAND_NOTIFICATION_RECEIVED releases them after noti_cb.
FreeNoti(noti) ==
    IF noti.type # "preference" THEN {}
    ELSE {<<"array", 0>>} \cup {<<"name", i>> : i \in DOMAIN noti.prefs}
           \cup {<<"text", i>> : i \in {j \in DOMAIN noti.prefs : noti.prefs[j] = "string"}}

Preferences == [type : {"string", "integer", "color", "none"}, value : {"some", "none"}]

NotiIsFreed ==
    \A prefs \in BoundedSeq(Preferences, 2), names \in SUBSET {"values", "currentTime"} :
        LET noti == _iot_parse_noti_data("preference", names, prefs)
            texts == {i \in DOMAIN prefs : prefs[i] = [type |-> "string", value |-> "some"]}
        IN  noti.type = "preference" =>
              FreeNoti(noti) = {<<"array", 0>>} \cup {<<"name", i>> : i \in DOMAIN prefs}
                                 \cup {<<"text", i>> : i \in texts}

-----------------------------------------------------------------------------
\* Memory.  A block is named by the pointer that owns it.

\* What a value owns: a string, an array with its strings, or JSON text.
ValueBlocks(v) == CASE v = "string" -> {"string"}
                    [] v = "strings" -> {"strings", "elements"}
                    [] v = "json" -> {"json_object"}
                    [] OTHER -> {}

Values == {"boolean", "integer", "number", "string", "strings", "json", "unknown",
           "nostring", "noelement"}

\* _iot_cap_create_attr: the blocks it makes, with unit and data if given.  A
\* value of no known type or without its text fails with part of them made.
_iot_cap_create_attr(v, given) ==
    IF v \in {"unknown", "nostring", "noelement"}
    THEN [ok |-> FALSE, value |-> IF v = "noelement" THEN "strings" ELSE "boolean",
          made |-> {"evt", "evt_type"} \cup
                   IF v = "noelement" THEN ValueBlocks("strings") ELSE {}]
    ELSE [ok |-> TRUE, value |-> v,
          made |-> {"evt", "evt_type"} \cup ValueBlocks(v) \cup given]

\* st_cap_create_attr_with_option (and the calls without options or with a
\* command id only): options that cannot be copied fail.
st_cap_create_attr_with_option(v, given, options, copied) ==
    LET e == _iot_cap_create_attr(v, given) IN
    IF e.ok THEN [e EXCEPT !.ok = copied = options, !.made = @ \cup copied] ELSE e

\* _iot_free_val and _iot_free_unit go by type, and the type is set before
\* the text.
_iot_free_val(v) == ValueBlocks(v)

\* _iot_free_evt_data and the event itself: st_cap_free_attr, and every failure.
_iot_free_evt_data(e) ==
    {"evt", "evt_type"} \cup _iot_free_val(e.value)
        \cup (e.made \cap {"evt_unit", "evt_value_data", "command_id", "displayed"})

AttrIsFreed ==
    \A v \in Values, given \in SUBSET {"evt_unit", "evt_value_data"},
       options \in SUBSET {"command_id", "displayed"} :
        \A copied \in SUBSET options :
            LET e == st_cap_create_attr_with_option(v, given, options, copied)
            IN  _iot_free_evt_data(e) = e.made

Kinds == {"bool", "number", "string", "object", "null"}

\* The arguments whose text is a block of its own.
Texts(types, kinds) == {i \in DOMAIN types : types[i] \in kinds}

\* _iot_parse_cmd_data: two arrays, and a copy of every text; a null is passed
\* over.  args: the values in order; memory: the arrays could be made.
_iot_parse_cmd_data(args, memory) ==
    LET made == args # <<>> /\ memory IN
    [types |-> IF made THEN SelectSeq(args, LAMBDA k : k # "null") ELSE <<>>,
     arrays |-> made]

\* Mistake: the copies are left to the callback.
FreeArrays(d) == [texts |-> {}, arrays |-> d.types # <<>>]

\* _iot_free_cmd_data, which iot_cap_sub_cb calls when there are arguments.
_iot_free_cmd_data(d) ==
    IF d.types = <<>> THEN [texts |-> {}, arrays |-> FALSE]
    ELSE [texts |-> Texts(d.types, {"string", "object"}), arrays |-> TRUE]

\* _iot_parse_cmd_data_v2 keeps every argument; a string belongs to the JSON
\* tree, an object is printed.
_iot_parse_cmd_data_v2(args) == [types |-> args, arrays |-> args # <<>>]

\* _iot_free_cmd_data_v2, always called.
_iot_free_cmd_data_v2(d) ==
    [texts |-> Texts(d.types, {"object"}), arrays |-> d.arrays]

ArgsAreFreed ==
    \A args \in BoundedSeq(Kinds, 3), memory \in BOOLEAN :
        LET d1 == _iot_parse_cmd_data(args, memory)
            d2 == _iot_parse_cmd_data_v2(args)
        IN  /\ _iot_free_cmd_data(d1) = [texts |-> Texts(d1.types, {"string", "object"}),
                                         arrays |-> d1.arrays]
               \/ (args # <<>> /\ \A i \in DOMAIN args : args[i] = "null")
            /\ _iot_free_cmd_data_v2(d2) = [texts |-> Texts(args, {"object"}),
                                            arrays |-> args # <<>>]

=============================================================================

------------------------------- MODULE LogFile -------------------------------
(***************************************************************************)
(* The log in RAM (iot_log_file.c with RAM_ONLY, the one type that a port  *)
(* of the repository supports) and the dump that is made of it             *)
(* (iot_dump_log.c), as operators.  Sizes are those of the code, except    *)
(* the size of the ring, a configuration value, and Uint, which stands for *)
(* the 2^32 at which unsigned arithmetic wraps.                            *)
(***************************************************************************)
EXTENDS WebToken

CONSTANTS Uint,       \* numbers an unsigned int has
          RingSizes,  \* sizes of the log in RAM
          StateSizes  \* sizes of struct iot_dump_state; it holds a long

ASSUME LogFileAssumption == /\ Uint \in Nat
                            /\ RingSizes \subseteq 1 .. Uint - 1
                            /\ StateSizes \subseteq Nat

IOT_LOG_FILE_MAX_STRING_SIZE == 128
IOT_DUMP_LOG_MSG_LINE_LENGTH == 16
IOT_DUMP_BUFFER_SIZE == 48
HeaderSize == 16

GET_LARGEST_MULTIPLE(x, n) == (x \div n) * n

-----------------------------------------------------------------------------
(* The ring.                                                               *)

\* A tuple of zeroes: TLC loses updates of a function that it keeps as a formula.
Zeroes(size) == SubSeq([i \in 1 .. size |-> 0], 1, size)

iot_log_file_init(size) == [buf |-> Zeroes(size), cnt |-> 0,
                            overridden |-> FALSE, enable |-> TRUE]

_iot_log_file_store_char(b, c) ==
    LET full == b.cnt >= Len(b.buf)
        cnt  == IF full THEN 0 ELSE b.cnt
    IN  [b EXCEPT !.buf[cnt + 1] = c, !.cnt = cnt + 1, !.overridden = @ \/ full]

iot_log_file_store(b, data) ==
    IF ~ b.enable \/ Len(data) >= IOT_LOG_FILE_MAX_STRING_SIZE THEN b
    ELSE FoldLeft(_iot_log_file_store_char, b, data)

\* iot_log_file_open switches the log off as long as the file is open.
iot_log_file_open(b) ==
    [log  |-> [b EXCEPT !.enable = FALSE],
     tail |-> b.cnt,
     size |-> IF b.overridden THEN Len(b.buf) ELSE b.cnt,
     cur  |-> IF b.overridden THEN b.cnt ELSE 0]

iot_log_file_close(f) == [f.log EXCEPT !.enable = TRUE]

\* Mistake: the position is not brought back into the log.
SeekUnwrapped(f, back) ==
    IF f.size = 0 THEN f
    ELSE [f EXCEPT !.cur = IF back > f.tail THEN 0 ELSE f.tail - back]

\* From the tail back.  The difference is unsigned, so the test for a negative
\* offset that follows it in the code is never true.
iot_log_file_seek(f, back) ==
    IF f.size = 0 THEN f
    ELSE [f EXCEPT !.cur = ((f.tail - back) % Uint) % f.size]

\* One piece, or two when the end of the ring comes in between.
iot_log_file_read(f, n) ==
    LET buf   == f.log.buf
        first == f.size - f.cur
        rest  == Min({n - first, f.cur})
    IN  IF f.cur + n <= f.size
        THEN [file |-> [f EXCEPT !.cur = @ + n],
              bytes |-> SubSeq(buf, f.cur + 1, f.cur + n)]
        ELSE [file |-> [f EXCEPT !.cur = rest],
              bytes |-> SubSeq(buf, f.cur + 1, f.size) \o SubSeq(buf, 1, rest)]

-----------------------------------------------------------------------------
(* The dump.                                                               *)

\* The dump under construction: what is written, how much room there is in all,
\* and up to two bytes in temp_buf that are not yet encoded.

_iot_dump_copy_memory(d, src, base64) ==
    LET room == d.size - Len(d.out)
        s    == SubSeq(src, 1, Min({Len(src), room}))
        pre  == IF d.rest = <<>> THEN 0 ELSE 3 - Len(d.rest)
        main == GET_LARGEST_MULTIPLE(Len(s) - pre, 3)
        e1   == IF pre = 0 THEN Text(<<>>)
                ELSE iot_security_base64_encode(d.rest \o SubSeq(s, 1, pre), room)
        e2   == IF main = 0 THEN Text(<<>>)
                ELSE iot_security_base64_encode(SubSeq(s, pre + 1, pre + main),
                                                room - Len(e1.text))
    IN  IF d.err \/ s = <<>> THEN [d EXCEPT !.err = TRUE]
        ELSE IF ~ base64 THEN [d EXCEPT !.out = @ \o s]
        ELSE [d EXCEPT !.out = @ \o e1.text \o e2.text,
                       !.err = ~ (e1.ok /\ e2.ok),
                       !.rest = SubSeq(s, pre + main + 1, Len(s))]

\* One turn of the loop over the messages: temp_buf holds the rest, and what is
\* read goes behind it.
CopyMessages(x, base64) ==
    LET n == Min({IOT_DUMP_BUFFER_SIZE - Len(x.d.rest), x.left})
        r == iot_log_file_read(x.file, n)
    IN  IF x.left = 0 \/ x.d.err THEN x
        ELSE [file |-> r.file, left |-> x.left - Len(r.bytes),
              d |-> _iot_dump_copy_memory([x.d EXCEPT !.rest = <<>>],
                                          x.d.rest \o r.bytes, base64)]

\* The last bytes are filled up to three.  temp_buf was set to zero behind them,
\* but is also the source, so they follow themselves; with one byte the copy
\* overlaps, and what the third one is depends on memcpy.
CopyRest(d, third) ==
    LET b == d.rest[1]
        fill == IF Len(d.rest) = 2 THEN <<b>> ELSE <<b, IF third THEN b ELSE 0>>
    IN  IF d.rest = <<>> \/ d.err THEN d ELSE _iot_dump_copy_memory(d, fill, TRUE)

_iot_dump_create_header == [i \in 1 .. HeaderSize |-> 200 + i]
_iot_dump_create_dump_state(size) == [i \in 1 .. size |-> i]

\* The messages that fit into max bytes of text, in whole lines.
MessageSize(f, max, base64, stateSize) ==
    LET all  == IF base64 THEN ((max - 1) \div 4) * 3 ELSE max
        room == all - HeaderSize - stateSize
    IN  GET_LARGEST_MULTIPLE(Min({room, f.size}), IOT_DUMP_LOG_MSG_LINE_LENGTH)

DumpSize(n, base64) == IF base64 THEN IOT_SECURITY_B64_ENCODE_LEN(n) ELSE n

\* failed is the allocation that fails, if any.  stateSize is 0 when no state is
\* wanted; without a header the code then writes through NULL.
st_create_log_dump(b, max, base64, stateSize, failed, third) ==
    LET f     == iot_log_file_open(b)
        n     == MessageSize(f, max, base64, stateSize)
        size  == DumpSize(HeaderSize + stateSize + n, base64)
        copy(d, src) == _iot_dump_copy_memory(d, src, base64)
        begin == copy([out |-> <<>>, size |-> size, rest |-> <<>>,
                       err |-> FALSE], _iot_dump_create_header)
        state == IF stateSize = 0 THEN begin
                 ELSE copy(begin, IF failed = "state" THEN <<>>
                                  ELSE _iot_dump_create_dump_state(stateSize))
        all   == FoldLeft(LAMBDA x, i : CopyMessages(x, base64),
                          [file |-> iot_log_file_seek(f, n), left |-> n,
                           d |-> state], [i \in 1 .. n |-> i])
        d     == CopyRest(all.d, third)
        none  == [out |-> <<>>, size |-> 0]
    IN  IF max < DumpSize(HeaderSize + stateSize, base64) \/ failed = "handle"
        THEN [log |-> b, dump |-> none, result |-> "error"]
        ELSE IF failed = "header" /\ stateSize = 0
        THEN [log |-> f.log, dump |-> none, result |-> "crash"]
        ELSE IF failed \in {"dump", "header"} \/ d.err
        THEN [log |-> iot_log_file_close(f), dump |-> none, result |-> "error"]
        ELSE [log |-> iot_log_file_close(all.file),
              dump |-> [out |-> d.out, size |-> size], result |-> "ok"]

-----------------------------------------------------------------------------

Latest(s, n) == SubSeq(s, Len(s) - n + 1, Len(s))

(* n messages, each byte of them different, and the ring they leave.       *)

Messages(n) == [i \in 1 .. n * IOT_DUMP_LOG_MSG_LINE_LENGTH |-> i]
iot_dump_log(b, i) ==
    iot_log_file_store(b, Latest(Messages(i), IOT_DUMP_LOG_MSG_LINE_LENGTH))
Ring(size, n) ==
    FoldLeft(iot_dump_log, iot_log_file_init(size), [i \in 1 .. n |-> i])


\* Header, state and latest messages, for every length and alignment.
LatestIsDumped ==
    \A size \in RingSizes, n \in 0 .. 9, stateSize \in StateSizes \cup {0},
       max \in {20, 64, 250, 300, 330, 400}, base64, third \in BOOLEAN :
        LET b == Ring(size, n)
            r == st_create_log_dump(b, max, base64, stateSize, "no", third)
            f == iot_log_file_open(b)
            k == MessageSize(f, max, base64, stateSize)
            all == _iot_dump_create_header
                     \o _iot_dump_create_dump_state(stateSize)
                     \o Latest(Messages(n), k)
            fills == {x \in BoundedSeq({0} \cup Range(Latest(all, 2)), 2) :
                        (Len(all) + Len(x)) % 3 = 0}
            encoded(x) == iot_security_base64_encode(x, r.dump.size).text
        IN  /\ r.log = b
            /\ r.result = IF max < DumpSize(HeaderSize + stateSize, base64)
                          THEN "error" ELSE "ok"
            /\ r.result = "ok" =>
                 /\ r.dump.size <= max
                 /\ \/ ~ base64 /\ r.dump.out = all
                    \/ base64 /\ \E x \in fills : r.dump.out = encoded(all \o x)
                    \/ Uint % size # 0 /\ f.tail < k
            /\ \A failed \in {"handle", "dump", "header", "state"} :
                 LET x == st_create_log_dump(b, max, base64, stateSize, failed,
                                             third)
                 IN  x.log = b \/ x.result = "crash"

=============================================================================

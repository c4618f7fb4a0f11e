------------------------------- MODULE WebToken -------------------------------
(***************************************************************************)
(* Base64 (security/iot_security_util.c) and the web tokens made of it     *)
(* (iot_wt.c), as operators.  A character is its place in base64_enc_map   *)
(* or one of the numbers below; JSON and CBOR texts are their lengths.     *)
(***************************************************************************)
EXTENDS Integers, Sequences, SequencesExt, FiniteSets, FiniteSetsExt

CONSTANTS Bytes,      \* bytes that texts are made of
          MaxBytes,   \* bound: length of a text
          Chars,      \* characters of arbitrary input to the decoder
          MaxChars    \* bound: length of that input

ASSUME WebTokenAssumption == /\ Bytes \subseteq 0 .. 255 /\ Chars \subseteq 0 .. 127
                             /\ MaxBytes \in Nat /\ MaxChars \in Nat

\* '+', '/', '=', and what is not in base64_enc_map.
PLUS == 62
SLASH == 63
PAD == 64
MINUS == 65
UNDERSCORE == 66
SPACE == 67
CR == 68
LF == 69

\* Division that rounds up.
Groups(n, k) == (n + k - 1) \div k

IOT_SECURITY_B64_ALIGN_LEN(n) == 4 * Groups(n, 4)
IOT_SECURITY_B64_ENCODE_LEN(n) == 4 * Groups(n, 3) + 1
IOT_SECURITY_B64_DECODE_LEN(n) == 3 * Groups(n, 4) + 1

-----------------------------------------------------------------------------
\* Base64

Error == [ok |-> FALSE, text |-> <<>>]
Text(t) == [ok |-> TRUE, text |-> t]

Encode3(c1, c2, c3) == <<c1 \div 4, (c1 % 4) * 16 + c2 \div 16,
                         (c2 % 16) * 4 + c3 \div 64, c3 % 64>>

\* Whole groups, then the rest with padding, then a zero byte.
_base64_encode(src, dlen) ==
    LET n     == Groups(Len(src), 3)
        at(i) == IF i <= Len(src) THEN src[i] ELSE 0
        group(k) == LET g == Encode3(at(3 * k - 2), at(3 * k - 1), at(3 * k))
                    IN  [j \in 1 .. 4 |-> IF j > Len(src) - 3 * k + 4 THEN PAD ELSE g[j]]
    IN  IF src = <<>> THEN Text(<<>>)
        ELSE IF dlen < 4 * n + 1 THEN Error
        ELSE Text(FlattenSeq([k \in 1 .. n |-> group(k)]))

base64_dec_map(c) == IF c <= PAD THEN c ELSE 127

\* First pass: n characters that count, j of them padding.  spaces is what
\* stands before the current character.
Valid(src) ==
    LET Take(s, i) ==
            LET c == src[i]
            IN  IF s.bad THEN s
                ELSE IF c = SPACE THEN [s EXCEPT !.spaces = @ + 1]
                ELSE IF c = LF \/ (c = CR /\ i < Len(src) /\ src[i + 1] = LF)
                     THEN [s EXCEPT !.spaces = 0]
                ELSE LET j == s.j + (IF c = PAD THEN 1 ELSE 0)
                     IN  [n |-> s.n + 1, j |-> j, spaces |-> 0,
                          bad |-> \/ s.spaces # 0
                                  \/ j > 2
                                  \/ base64_dec_map(c) = 127
                                  \/ (c < PAD /\ j # 0)]
    IN  FoldLeft(Take, [n |-> 0, j |-> 0, spaces |-> 0, bad |-> FALSE],
                 [i \in 1 .. Len(src) |-> i])

\* The length that dst must have.
DecodedLen(v) == 6 * (v.n \div 8) + (6 * (v.n % 8) + 7) \div 8 - v.j

\* Mistake: padding does not shorten the last group.
DecodeAll(src) ==
    LET Take(s, c) ==
            LET x == s.x * 64 + (base64_dec_map(c) % 64)
            IN  IF c \in {CR, LF, SPACE} THEN s
                ELSE IF s.n < 3 THEN [s EXCEPT !.n = @ + 1, !.x = x]
                ELSE [n |-> 0, x |-> 0, j |-> s.j,
                      out |-> s.out \o <<(x \div 65536) % 256, (x \div 256) % 256, x % 256>>]
    IN  FoldLeft(Take, [n |-> 0, x |-> 0, j |-> 3, out |-> <<>>], src).out

\* Second pass: four characters make up to three bytes, j of them.
Decode(src) ==
    LET Take(s, c) ==
            LET j == s.j - (IF c = PAD THEN 1 ELSE 0)
                x == s.x * 64 + (base64_dec_map(c) % 64)
            IN  IF c \in {CR, LF, SPACE} THEN s
                ELSE IF s.n < 3 THEN [s EXCEPT !.n = @ + 1, !.x = x, !.j = j]
                ELSE [n |-> 0, x |-> 0, j |-> j,
                      out |-> s.out \o SubSeq(<<(x \div 65536) % 256, (x \div 256) % 256,
                                                x % 256>>, 1, j)]
    IN  FoldLeft(Take, [n |-> 0, x |-> 0, j |-> 3, out |-> <<>>], src).out

_base64_decode(src, dlen) ==
    LET v == Valid(src)
    IN  IF v.bad THEN Error
        ELSE IF v.n = 0 THEN Text(<<>>)
        ELSE IF dlen < DecodedLen(v) THEN Error
        ELSE Text(Decode(src))

Replace(t, c, d) == [i \in 1 .. Len(t) |-> IF t[i] = c THEN d ELSE t[i]]

_iot_security_url_encode(t) == Replace(Replace(t, PLUS, MINUS), SLASH, UNDERSCORE)
_iot_security_url_decode(t) == Replace(Replace(t, MINUS, PLUS), UNDERSCORE, SLASH)

iot_security_base64_encode(src, dlen) ==
    IF src = <<>> \/ dlen = 0 THEN Error ELSE _base64_encode(src, dlen)

iot_security_base64_decode(src, dlen) ==
    IF src = <<>> \/ dlen = 0 THEN Error ELSE _base64_decode(src, dlen)

iot_security_base64_encode_urlsafe(src, dlen) ==
    LET e == iot_security_base64_encode(src, dlen)
    IN  [e EXCEPT !.text = _iot_security_url_encode(@)]

\* '=' removed from the tail is put back first.
iot_security_base64_decode_urlsafe(src, dlen) ==
    LET pad == [i \in 1 .. IOT_SECURITY_B64_ALIGN_LEN(Len(src)) - Len(src) |-> PAD]
    IN  IF src = <<>> \/ dlen = 0 THEN Error
        ELSE _base64_decode(_iot_security_url_decode(src \o pad), dlen)

-----------------------------------------------------------------------------
\* Certificates in tokens: texts over small alphabets

\* A certificate's text: prefix and suffix start with the same character.
DASH == 1
Prefix == <<DASH, 2>>
Suffix == <<DASH, 3>>
CertChars == 1 .. 5
NEWLINE == 4

\* strstr: the first place of s in t, 0 if there is none.
Strstr(t, s) ==
    LET at == {i \in 1 .. Len(t) - Len(s) + 1 : SubSeq(t, i, i + Len(s) - 1) = s}
    IN  IF at = {} THEN 0 ELSE Min(at)

Lines(t) == SelectSeq(t, LAMBDA c : c # NEWLINE)

\* The prefix is taken to stand at the beginning; the text ends at the first
\* dash that has a suffix at or after it.
_iot_jwt_header_trim_certificate(origin) ==
    LET first == IF Strstr(origin, Prefix) # 0 THEN Len(Prefix) + 1 ELSE 1
        ends  == {i \in first .. Len(origin) :
                    /\ origin[i] = DASH
                    /\ Strstr(SubSeq(origin, i, Len(origin)), Suffix) # 0}
    IN  Lines(SubSeq(origin, first, IF ends = {} THEN Len(origin) ELSE Min(ends) - 1))

_iot_nv_trim_certificate(cert) ==
    LET head == IF Strstr(cert, Prefix) = 0 THEN 1 ELSE Strstr(cert, Prefix) + Len(Prefix)
        tail == IF Strstr(cert, Suffix) = 0 THEN Len(cert) + 1 ELSE Strstr(cert, Suffix)
    IN  Lines(SubSeq(cert, head, tail - 1))

-----------------------------------------------------------------------------
\* Signatures: two integers in DER (made by mbedTLS), sent as their bytes

SEQUENCE == 48
INTEGER == 2

\* An integer of n bytes in DER: no leading zeros, but one before a high bit.
DerInt(b) ==
    LET first == Min({i \in 1 .. Len(b) : b[i] # 0})
        v     == (IF b[first] >= 128 THEN <<0>> ELSE <<>>) \o SubSeq(b, first, Len(b))
    IN  <<INTEGER, Len(v)>> \o v

DerPair(r, s) == LET v == DerInt(r) \o DerInt(s) IN <<SEQUENCE, Len(v)>> \o v

\* The value of the integer at p, without one leading zero, and the place after.
RawInt(der, p) ==
    LET zero == der[p + 2] = 0
        end  == p + 2 + der[p + 1]
    IN  [raw |-> SubSeq(der, IF zero THEN p + 3 ELSE p + 2, end - 1), next |-> end]

\* The integers one after the other, at the length they happen to have.
_pk_der_to_raw(der) ==
    LET r == RawInt(der, 3)
        s == RawInt(der, r.next)
    IN  r.raw \o s.raw

-----------------------------------------------------------------------------
\* Tokens: fails is the set of steps that fail

iot_security_pk_get_signature_len(key) ==
    CASE key = "rsa" -> 256 [] key = "ecc" -> 1024 [] key = "ed25519" -> 64

\* What a signature really takes: an ECDSA one has at most 72 bytes.
SignatureLens(key) == IF key = "ecc" THEN 70 .. 72 ELSE {iot_security_pk_get_signature_len(key)}

\* The base64 text of n bytes, by its length; 0 and no error when
\* _iot_wt_alloc_b64_buffer fails.
_iot_wt_alloc_b64_buffer(n, fails, alloc) ==
    IF alloc \in fails THEN 0 ELSE IOT_SECURITY_B64_ENCODE_LEN(n)

B64Part(n, fails, make, alloc) ==
    [err |-> make \in fails,
     len |-> IF make \in fails \/ _iot_wt_alloc_b64_buffer(n, fails, alloc) = 0 THEN 0
             ELSE _iot_wt_alloc_b64_buffer(n, fails, alloc) - 1]

\* Header and payload are JSON; the header with its certificates.
_iot_jwt_create_b64h(n, fails) == B64Part(n, fails, "header", "header_b64")
_iot_jwt_create_b64p(n, fails) == B64Part(n, fails, "payload", "payload_b64")
_iot_jwt_create_b64s(n, fails) == B64Part(n, fails, "sign", "sign_b64")

JwtSteps == {"init", "pk_init", "key_type", "header", "header_b64", "payload",
             "payload_b64", "token", "sign", "sign_b64"}

\* Mistake: no room for the points and the end of the text.
TokenLenShort(h, p, key) == h + p + IOT_SECURITY_B64_ENCODE_LEN(
                                        iot_security_pk_get_signature_len(key)) - 1

TokenLen(h, p, key) == h + p + IOT_SECURITY_B64_ENCODE_LEN(
                                   iot_security_pk_get_signature_len(key)) + 3

\* left: what is still allocated when it returns.
_iot_jwt_create(n, fails, key) ==
    LET h == _iot_jwt_create_b64h(n.header, fails)
        p == _iot_jwt_create_b64p(n.payload, fails)
        s == _iot_jwt_create_b64s(n.sign, fails)
        failed(left) == [err |-> TRUE, parts |-> <<>>, written |-> 0, size |-> 0, left |-> left]
    IN  CASE "init" \in fails -> failed({})
          [] "init" \notin fails /\ "pk_init" \in fails -> failed({"context"})
          [] fails \cap {"init", "pk_init"} = {} ->
                IF "key_type" \in fails \/ h.err \/ p.err \/ "token" \in fails \/ s.err
                THEN failed({})
                ELSE [err |-> FALSE, parts |-> <<h.len, p.len, s.len>>,
                      written |-> h.len + 1 + p.len + 1 + s.len + 1,
                      size |-> TokenLen(h.len, p.len, key), left |-> {"token"}]

IOT_CBOR_MAX_BUF_LEN == 1024

\* A CBOR text of n bytes is made in a buffer of 256 bytes, then 128 more, up to
\* the first one not below the maximum; a buffer it fills is not enough.
CborBuf(n) == Min({b \in {128 * k : k \in 2 .. 8} : b > n \/ b >= IOT_CBOR_MAX_BUF_LEN})

_iot_cwt_create_payload(n) == n < CborBuf(n)

CwtSteps == {"init", "pk_init", "key_type", "cbor", "protected", "payload", "sign",
             "b64", "encode"}

\* A text that is too long: the buffer is freed, and freed again on the way out,
\* with err as the signature left it.
_iot_cwt_create(n, fails) ==
    LET failed(left) == [err |-> TRUE, token |-> FALSE, twice |-> FALSE, left |-> left]
    IN  IF "init" \in fails THEN failed({})
        ELSE IF "pk_init" \in fails THEN failed({"context"})
        ELSE IF fails \cap {"key_type", "cbor", "protected", "payload", "sign"} # {}
             THEN failed({})
        ELSE IF n >= CborBuf(n)
             THEN [err |-> FALSE, token |-> FALSE, twice |-> TRUE, left |-> {}]
        ELSE IF fails \cap {"b64", "encode"} # {} THEN failed({})
        ELSE [err |-> FALSE, token |-> TRUE, twice |-> FALSE, left |-> {"token"}]

-----------------------------------------------------------------------------
\* Properties

Strip(t) == SelectSeq(t, LAMBDA c : c # PAD)

\* What was encoded is decoded, and what is written fits.
DecodedIsEncoded ==
    /\ \A b \in BoundedSeq(Bytes, MaxBytes) \ {<<>>} :
          LET e == iot_security_base64_encode(b, IOT_SECURITY_B64_ENCODE_LEN(Len(b)))
              u == iot_security_base64_encode_urlsafe(b, IOT_SECURITY_B64_ENCODE_LEN(Len(b)))
              d == IOT_SECURITY_B64_DECODE_LEN(Len(e.text))
          IN  /\ e.ok /\ Len(e.text) < IOT_SECURITY_B64_ENCODE_LEN(Len(b))
              /\ iot_security_base64_decode(e.text, Len(b)) = Text(b)
              /\ iot_security_base64_decode(<<SPACE, CR, LF>> \o e.text \o <<LF, SPACE>>, d) = Text(b)
              /\ iot_security_base64_decode_urlsafe(Strip(u.text), d) = Text(b)
    /\ \A t \in BoundedSeq(Chars, MaxChars), dlen \in 1 .. MaxChars :
          Len(iot_security_base64_decode(t, dlen).text) <= dlen

CertTexts == BoundedSeq(CertChars, 6)

\* A certificate that starts with its prefix, or has none, is trimmed to its lines
\* up to the suffix, alike for the header of a token and for the serial number
\* (whose text has no dash of its own); copy and end fit the text's length.
TrimIsBody ==
    \A t \in CertTexts :
       LET trim == _iot_jwt_header_trim_certificate(t)
           body == _iot_nv_trim_certificate(t)
       IN  Strstr(t, Prefix) \in {0, 1} /\ Strstr(t, Suffix) # 0
             => /\ Len(trim) < Len(t)
                /\ DASH \notin {body[i] : i \in 1 .. Len(body)} => trim = body

B64Steps == {"header_b64", "payload_b64", "sign_b64"}
Lengths == [header : {1, 90, 200}, payload : {1, 100}, sign : 64 .. 72 \cup {256}]

\* A token that is returned has all three parts and fits what was allocated for
\* it, and after a failure nothing stays allocated.
JwtIsWhole ==
    \A key \in {"rsa", "ecc", "ed25519"}, fails \in SUBSET JwtSteps :
    \A n \in {x \in Lengths : x.sign \in SignatureLens(key)} :
       LET r == _iot_jwt_create(n, fails, key)
       IN  /\ r.err <=> fails \ B64Steps # {}
           /\ r.left = IF ~ r.err THEN {"token"}
                       ELSE IF "init" \notin fails /\ "pk_init" \in fails THEN {"context"}
                       ELSE {}
           /\ ~ r.err => /\ r.written <= r.size
                         /\ \A i \in 1 .. 3 : r.parts[i] = 0 => fails \cap B64Steps # {}

\* A CBOR token is returned when nothing failed, and only then.
CwtIsWhole ==
    \A n \in {1, 255, 256, 1023, 1024, 1025}, fails \in SUBSET CwtSteps :
       LET r == _iot_cwt_create(n, fails)
       IN  n < IOT_CBOR_MAX_BUF_LEN => /\ ~ r.twice
                                       /\ r.token <=> ~ r.err
                                       /\ r.token <=> fails = {}

\* The raw signature is the two integers at full length, unless one begins with a
\* zero byte (mbedtls_helper.c:302, 318: it is not put back).
SignatureIsRaw ==
    \A r, s \in [1 .. 2 -> Bytes] :
       r[1] # 0 /\ s[1] # 0 => _pk_der_to_raw(DerPair(r, s)) = r \o s

=============================================================================

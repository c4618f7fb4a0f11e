------------------------------ MODULE MCSecurity ------------------------------
(* The security contexts, and with them base64, the web tokens and the log *)
(* dump, whose properties are about no state: they are checked in the      *)
(* first ones.                                                             *)
EXTENDS Security, LogFile

\* What was encoded is decoded, also without its padding in the URL alphabet and
\* when broken into lines, and fits the lengths that callers allocate; what the
\* decoder writes for any input at all fits the length it checked.
Base64RoundTrip == SecurityInit => DecodedIsEncoded

\* Tokens are whole or an error, whichever step fails: except that base64's
\* buffer not to be had is no error (iot_wt.c:858, 969, 1039), that keys not
\* loaded lose the context (iot_wt.c:1086, 441), and that a CBOR text of the
\* maximum is neither (iot_wt.c:522).  Their certificates
\* are trimmed to the body and their signatures have the two integers.
TokenIsWhole ==
    SecurityInit => JwtIsWhole /\ CwtIsWhole /\ TrimIsBody /\ SignatureIsRaw

\* A dump is the header, the state and, in order, the latest messages, as many as
\* fit: however often the ring has wrapped, wherever its end falls among the
\* pieces that are read, and however the pieces fall on the groups of base64.
\* It never takes more than was asked for, and it leaves the log as it was and
\* switched on.  One exception: when the size of the ring does not divide 2^32, a
\* seek back across its beginning ends elsewhere.
DumpIsLatestLog == SecurityInit => LatestIsDumped

=============================================================================

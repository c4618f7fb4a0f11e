----------------------------- MODULE EventGroup -----------------------------
(***************************************************************************)
(* The event groups of the POSIX port (iot_os_util_posix.c).  A group is a *)
(* status byte plus one pipe per bit: a waiter sleeps in select() on the   *)
(* pipes, so a bit can wake it only while its pipe holds a token.  A group *)
(* is the record                                                           *)
(*                                                                         *)
(*   status : the set of bits in event_status                              *)
(*   pipe   : for each bit, how many tokens ("Set") its pipe holds         *)
(*                                                                         *)
(* Every operator below is one critical section of eventgroup->mutex; the  *)
(* select() of a waiter runs outside it, which is why Readable is separate *)
(* from ReadBits.                                                          *)
(***************************************************************************)
EXTENDS Naturals

\* iot_os_eventgroup_create: no bit set, every pipe empty.
EmptyGroup(Bits) == [status |-> {}, pipe |-> [b \in Bits |-> 0]]

GroupType(Bits) == [status : SUBSET Bits, pipe : [Bits -> Nat]]

\* Mistake: a token for every set, also of a bit that is set already.
SetBitsAlways(g, s) ==
    [status |-> g.status \cup s,
     pipe   |-> [b \in DOMAIN g.pipe |->
                   IF b \in s THEN g.pipe[b] + 1 ELSE g.pipe[b]]]

\* iot_os_eventgroup_set_bits: a token is written only for a bit that is not
\* already set.
SetBits(g, s) ==
    [status |-> g.status \cup s,
     pipe   |-> [b \in DOMAIN g.pipe |->
                   IF b \in s \ g.status THEN g.pipe[b] + 1 ELSE g.pipe[b]]]

\* iot_os_eventgroup_clear_bits: the status byte only; "TODO: clear written
\* event to pipe".
ClearBits(g, s) == [g EXCEPT !.status = @ \ s]

\* What select() reports to a waiter of the bits w.
Readable(g, w) == {b \in w : g.pipe[b] > 0}

\* Mistake: the tokens are read and the status is left as it was.
ReadTokensOnly(g, r, c) ==
    [status |-> g.status,
     pipe   |-> [b \in DOMAIN g.pipe |->
                   IF b \in r THEN g.pipe[b] - 1 ELSE g.pipe[b]]]

\* iot_os_eventgroup_wait_bits after select() reported the bits r: one token is
\* read from each reported pipe, and the bits c leave the status byte (c is r
\* with clear_on_exit, {} without).  The call returns the status before that.
ReadBits(g, r, c) ==
    [status |-> g.status \ c,
     pipe   |-> [b \in DOMAIN g.pipe |->
                   IF b \in r THEN g.pipe[b] - 1 ELSE g.pipe[b]]]

=============================================================================

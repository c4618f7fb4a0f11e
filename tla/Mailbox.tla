------------------------------- MODULE Mailbox -------------------------------
(***************************************************************************)
(* What the device work queue promises its callers: a work that was        *)
(* accepted waits in line, is run after every work accepted before it, is  *)
(* run once, alone, and is run eventually.                                 *)
(***************************************************************************)
EXTENDS Naturals, Sequences

CONSTANT Works      \* the works callers may put

VARIABLES line,     \* accepted works, in the order of acceptance
          active,   \* the work being run: a sequence of length 0 or 1
          done      \* the works that were run, in order

vars == <<line, active, done>>

Init == line = <<>> /\ active = <<>> /\ done = <<>>

Accept(w) == /\ line' = Append(line, w)
             /\ UNCHANGED <<active, done>>

Begin == /\ active = <<>>
         /\ line # <<>>
         /\ active' = <<Head(line)>>
         /\ line' = Tail(line)
         /\ UNCHANGED done

Finish == /\ active # <<>>
          /\ done' = done \o active
          /\ active' = <<>>
          /\ UNCHANGED line

Next == (\E w \in Works : Accept(w)) \/ Begin \/ Finish

\* Safety alone, and safety with the promise that every accepted work runs.
SafeSpec == Init /\ [][Next]_vars
Spec == SafeSpec /\ WF_vars(Begin) /\ WF_vars(Finish)

=============================================================================

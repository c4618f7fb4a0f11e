----------------------------- MODULE MCCapability -----------------------------
(* The threads of the capabilities, and with them the sequential calls,    *)
(* whose properties are about no state: they are checked in the first one. *)
EXTENDS Capability, CapabilityData

\* A command runs the callback registered for its very name on its capability,
\* and no other, whatever was registered in which order; only a callback on a
\* second handle for the same capability is never reached.  A message with a
\* command that is malformed or not registered runs the other commands, in order,
\* when callbacks per command are used; with the notification callback it is all
\* or nothing.
CommandReachesCallback == Init => RegisteredIsReached /\ BadCommandIsPassedOver

\* The two calls make the same event of an attribute that both can send, where
\* "no history" of one is "displayed: false" of the other.
VersionsAgree == Init => SameInBothVersions

\* What was allocated is released exactly once.  Every block of an attribute, when
\* the attribute is freed or its creation fails halfway; the memory of a command's
\* arguments after its callbacks, except that both arrays are lost when all the
\* arguments are null; what the parser copied from a notification by the work
\* thread, the texts of the string preferences that have a value included.
AllocatedIsFreed == Init => AttrIsFreed /\ ArgsAreFreed /\ NotiIsFreed

=============================================================================

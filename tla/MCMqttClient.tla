----------------------------- MODULE MCMqttClient -----------------------------
(* The client, and with it the codec of its packets, whose property is     *)
(* about no state: it is checked in the first one.                         *)
EXTENDS MqttClient, MqttPacket

\* The codec as a whole.  Every length that four digits can hold is read as it was
\* written.  What the client wrote, a server reads, and the other way round; the
\* length that was computed beforehand is that of the body, and what the client
\* allocates and sends is the packet (with the exceptions at ChunkIsPacket).  The
\* id by which an acknowledgement finds its packet is that of the packet, also
\* behind a topic of any length.  A packet that arrives in pieces is the packet
\* that arrives at once, wherever it is cut.
PacketRoundTrip == Init => /\ LengthRoundTrip /\ ChunkIsPacket
                           /\ PublishRoundTrip /\ AckRoundTrip
                           /\ ConnectRoundTrip /\ PiecesMakePacket

=============================================================================

--------------------------- MODULE MCPacketManager ---------------------------
\* Two endpoints; a buffer that holds a packet and one byte more.
EXTENDS PacketManager
CONSTANTS a, b

MCPeer(p) == IF p = a THEN b ELSE a
=============================================================================

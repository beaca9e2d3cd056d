-------------------------- MODULE MCPacketExchange --------------------------
EXTENDS PacketExchange, PacketCatalogue

MCCatalogue == PacketClasses
MCClasses == ClassNames
MCPicks ==
    {0, 1, 2, 4, 5, 77, 1234567, 7654321, 99887766, 314159265, 987654321, 1357924680,
     1999999973, 2111222333}
MCRepicks == {0, 45678902, 271828183, 1618033988}
=============================================================================

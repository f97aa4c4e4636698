---------------------------- MODULE MCPktFabric ----------------------------
EXTENDS PktFabric

Packet(s, d, v, l) == [src |-> s, dest |-> d, vc |-> v, len |-> l]

\* Both sources contend for port 0 on channel 1, past source 0's packets on
\* channel 0 to port 0, where they may be refused, and to port 1.
HotSpot == {Packet(0, 0, 0, 2), Packet(0, 0, 1, 2), Packet(0, 1, 0, 1), Packet(1, 0, 1, 1)}
TwoAndOne == [p \in Port |-> IF p = 0 THEN 2 ELSE 1]

\* Port 0 may refuse channel 0 for ever, port 1 takes everything.
Refusing == [p \in Port |-> IF p = 0 THEN {{1}, {0, 1}} ELSE {{0, 1}}]
TakeOne  == {1}

\* A refused channel, and a stream on the other one to the same port.
Stream   == {Packet(0, 0, 0, 1), Packet(1, 0, 1, 1)}
Sustained == [p \in Port |-> IF p = 0 THEN 2 ELSE 12]
Refused  == [p \in Port |-> {{1}}]

NoKill  == {}
KillOne == {<<0, 0, 1>>}
=============================================================================

---------------------------- MODULE MCLidarLink ----------------------------
EXTENDS LidarLink

Packet(type, len, loop, data) == [type |-> type, len |-> len, loop |-> loop, data |-> data]
Link(kind, sent) == [kind |-> kind, script |-> sent]

\* An answer whose payload looks like a header, and a scan of two samples; an empty
\* message, and a scan of one sample; for a socket an answer.
MCLinks == {
    Link("serial", <<Packet(4, 2, FALSE, <<165, 90>>), Packet(129, 1, TRUE, <<165, 4>>)>>),
    Link("serial", <<Packet(6, 0, FALSE, <<>>), Packet(130, 2, TRUE, <<1, 90>>)>>),
    Link("tcp", <<Packet(4, 1, FALSE, <<165>>)>>),
    Link("udp", <<Packet(4, 1, FALSE, <<165>>)>>)}
=============================================================================

---------------------------- MODULE MCUdpService ----------------------------
EXTENDS UdpService, TLC

CONSTANTS c1, c2

Setting(orderly, losses, clients, calls, firstReply, listPackets, refused) ==
  [orderly |-> orderly, losses |-> losses, clients |-> clients, calls |-> calls,
   firstReply |-> firstReply, listPackets |-> listPackets, refused |-> refused]

\* A server that has answered others before gives its replies numbers that the
\* clients' commands do not have; a server that has just started does not.
MCSettings ==
  { \* two clients, datagrams delayed and reordered
    Setting(FALSE, 0, {c1, c2}, 1, 5, 1, FALSE),
    \* several commands of one client, so that what belongs to an old one can
    \* meet a new one
    Setting(FALSE, 0, {c1}, 3, 5, 1, FALSE),
    \* longer lists, and a lost datagram, on an orderly network
    Setting(TRUE, 1, {c1, c2}, 1, 5, 3, FALSE),
    \* the same numbers in both directions, and a server that may end
    Setting(TRUE, 1, {c1}, 2, 0, 2, TRUE),
    \* longer lists, delayed and reordered: what asks for a packet can come when the
    \* message is long sent
    Setting(FALSE, 0, {c1}, 1, 5, 2, FALSE) }

\* One client, lists of three packets, and a lost datagram.
LongLists == { Setting(TRUE, 1, {c1}, 2, 5, 3, FALSE) }

MaxInFlight == 3   \* bound: the datagrams on their way to one socket, where the
                   \* timers may put any number there

FewInFlight == Outrun => \A s \in Sockets : Len(net[s]) <= MaxInFlight
=============================================================================

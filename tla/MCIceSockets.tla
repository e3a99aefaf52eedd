---------------------------- MODULE MCIceSockets ----------------------------
\* Instances of IceSockets for TLC.
EXTENDS IceSockets, TLC

\* The first viewer has a TURN server only, the second one the local network.
RelayThenHost == << <<"turns">>, <<"host">> >>

SocketNumbers == Permutations(Descriptors)
=============================================================================

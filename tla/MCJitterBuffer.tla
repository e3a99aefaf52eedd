--------------------------- MODULE MCJitterBuffer ---------------------------
(***************************************************************************)
(* JitterBuffer for TLC: what a sender may send.  A frame is a string of   *)
(* packets; s starts a frame or a NAL unit of it, i continues one, b has a *)
(* payload the depacketizer refuses.                                       *)
(***************************************************************************)
EXTENDS JitterBuffer

StreamOf(kinds, frames) ==
    [n \in DOMAIN kinds |-> [frame |-> frames[n], kind |-> kinds[n]]]

s == "start"
i == "inner"
b == "bad"

MCStreams ==
    { StreamOf(<<s, s, s, s, s, s, s, s, s, s, s, s>>,
               <<0, 1, 2, 3, 4, 5, 6, 7, 8, 9, 10, 11>>),
      StreamOf(<<s, i, s, i, s, i, s, i, s, i, s, s>>,
               <<0, 0, 1, 1, 2, 2, 3, 3, 4, 4, 5, 6>>),
      StreamOf(<<s, s, b, s, s, s, i, s, s, s, s, s>>,
               <<0, 0, 1, 1, 2, 3, 3, 4, 5, 5, 6, 7>>) }
=============================================================================

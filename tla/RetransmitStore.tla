-------------------------- MODULE RetransmitStore --------------------------
(***************************************************************************)
(* What the rolling buffer promises the two tasks that share it: while a   *)
(* peer is connected it keeps the last Capacity packets stored for that    *)
(* peer, every packet sent once, in the order of sending and under         *)
(* consecutive numbers from 0.  A retransmission sends one of the packets  *)
(* kept, under the number it was stored with, and as long as it is in      *)
(* progress nothing is stored, evicted or thrown away.                     *)
(*                                                                         *)
(* Packets are numbered in the order in which they are built.              *)
(***************************************************************************)
EXTENDS Naturals, Sequences

CONSTANTS Capacity, SeqModulus

VARIABLES
    open,    \* there is a rolling buffer
    window,  \* the packets kept, the oldest first
    next,    \* the number the next packet is stored under
    newest,  \* the packet stored last, by any peer's buffer
    answer   \* the retransmission in progress, <<number, packet>>, or <<>>

store == <<open, window, next, newest, answer>>

Init == open = FALSE /\ window = <<>> /\ next = 0 /\ newest = 0 /\ answer = <<>>

\* The number of the packet kept at place k: as far behind next as k is behind
\* the end of the window.
Number(k) ==
    LET back == Len(window) + 1 - k
    IN  IF back <= next THEN next - back ELSE next + SeqModulus - back

\* A peer connects: its packets are numbered from 0.
Open ==
    /\ ~open /\ answer = <<>>
    /\ open' = TRUE
    /\ next' = 0
    /\ UNCHANGED <<window, newest, answer>>

\* The next packet is kept, and the oldest makes room for it.
Store ==
    /\ open /\ answer = <<>>
    /\ newest' = newest + 1
    /\ window' = Append(IF Len(window) = Capacity THEN Tail(window) ELSE window, newest')
    /\ next' = IF next + 1 = SeqModulus THEN 0 ELSE next + 1
    /\ UNCHANGED <<open, answer>>

\* A kept packet is to be sent again.
Answer(k) ==
    /\ answer = <<>>
    /\ answer' = <<Number(k), window[k]>>
    /\ UNCHANGED <<open, window, next, newest>>

\* It was sent, or could not be.
Answered == answer # <<>> /\ answer' = <<>> /\ UNCHANGED <<open, window, next, newest>>

\* The peer is gone and so are its packets.
Close ==
    /\ open /\ answer = <<>>
    /\ open' = FALSE
    /\ window' = <<>>
    /\ UNCHANGED <<next, newest, answer>>

Next ==
    \/ Open \/ Store \/ Answered \/ Close
    \/ \E k \in 1 .. Len(window) : Answer(k)

Spec == Init /\ [][Next]_store
=============================================================================

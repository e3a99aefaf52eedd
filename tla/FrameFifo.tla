----------------------------- MODULE FrameFifo -----------------------------
(***************************************************************************)
(* What the video ring promises the encoder and the sender when sessions   *)
(* follow each other quietly: a queue of at most Capacity frames.  A frame *)
(* the encoder could not append is gone.  A frame it appended is taken     *)
(* once, in the order of appending, or it is wiped, between two sessions   *)
(* only, and a session opens on an empty queue.                            *)
(*                                                                         *)
(* Frames are numbered in the order in which they are encoded.             *)
(***************************************************************************)
EXTENDS Naturals, Sequences

CONSTANT Capacity

VARIABLES
    open,    \* a session is open
    queue,   \* the frames appended and neither taken nor wiped
    newest,  \* the number of the last frame appended
    taken    \* the number of the last frame taken since the last Renew, or 0

fifo == <<open, queue, newest, taken>>

Init == open = FALSE /\ queue = <<>> /\ newest = 0 /\ taken = 0

\* The encoder appends a frame encoded after every frame appended before.
Put ==
    /\ Len(queue) < Capacity
    /\ newest' > newest
    /\ queue' = Append(queue, newest')
    /\ UNCHANGED <<open, taken>>

\* The sender takes the oldest frame.
Take ==
    /\ queue # <<>>
    /\ taken' = Head(queue)
    /\ queue' = Tail(queue)
    /\ UNCHANGED <<open, newest>>

\* The next session is being prepared.
Renew == ~open /\ taken' = 0 /\ UNCHANGED <<open, queue, newest>>

\* A frame the last session left is dropped, from either end of the queue.
Wipe ==
    /\ ~open
    /\ queue # <<>>
    /\ \/ queue' = Tail(queue)
       \/ queue' = SubSeq(queue, 1, Len(queue) - 1)
    /\ UNCHANGED <<open, newest, taken>>

Open == ~open /\ queue = <<>> /\ open' = TRUE /\ UNCHANGED <<queue, newest, taken>>

Close == open /\ open' = FALSE /\ UNCHANGED <<queue, newest, taken>>

Next == Put \/ Take \/ Renew \/ Wipe \/ Open \/ Close

Spec == Init /\ [][Next]_fifo
=============================================================================

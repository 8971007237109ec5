------------------------------- MODULE FrameStream -------------------------------
(* What a reader of /api/v1/stream is promised: frames that a transport accepted, in the  *)
(* order in which they were accepted, each acceptance at most once. Frames may be missing. *)
EXTENDS Integers, Sequences

CONSTANT Readers

VARIABLES
    accepted,   \* number of frames that a transport accepted, a frame is its position
    heard       \* heard[r]: the frames that were written to a reader

StreamInit ==
    /\ accepted = 0
    /\ heard = [r \in Readers |-> <<>>]

Accept ==
    /\ accepted' = accepted + 1
    /\ UNCHANGED heard

Newest(frames) == IF frames = <<>> THEN 0 ELSE frames[Len(frames)]

Hear(r) ==
    /\ \E frame \in Newest(heard[r]) + 1 .. accepted : heard' = [heard EXCEPT ![r] = Append(@, frame)]
    /\ UNCHANGED accepted

StreamSpec == StreamInit /\ [][Accept \/ \E r \in Readers : Hear(r)]_<<accepted, heard>>
==================================================================================

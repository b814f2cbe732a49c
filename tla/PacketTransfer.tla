--------------------------- MODULE PacketTransfer ---------------------------
(***************************************************************************)
(* What the link layer promises its two users: a writer hands packets 1,   *)
(* 2, 3, ... over one at a time, a reader gets them in order, and the two  *)
(* close or give up.  There are no frames, no timers and no channels here. *)
(***************************************************************************)
EXTENDS Naturals, Sequences

VARIABLES
    acked,      \* packets the writer knows to have been received
    received,   \* the packets the reader got, in order
    writer,     \* "busy", "ok" or "fail"
    reader      \* "busy", "closing", "ok", "lost" or "fail"

vars == <<acked, received, writer, reader>>

Init == acked = 0 /\ received = <<>> /\ writer = "busy" /\ reader = "busy"

\* The packet being written reaches the reader.
Deliver ==
    /\ reader = "busy"
    /\ Len(received) = acked
    /\ received' = Append(received, acked + 1)
    /\ UNCHANGED <<acked, writer, reader>>

\* The writer learns that it did, and may write the next one.
Acknowledge ==
    /\ writer = "busy"
    /\ Len(received) = acked + 1
    /\ acked' = acked + 1
    /\ UNCHANGED <<received, writer, reader>>

\* The reader answers the writer's request to close, which comes when
\* everything is acknowledged.
ReaderCloses ==
    /\ reader = "busy" /\ Len(received) = acked
    /\ reader' = "closing"
    /\ UNCHANGED <<acked, received, writer>>

\* The writer gets the answer, although the reader may be gone by then.
WriterDone ==
    /\ writer = "busy" /\ reader \in {"closing", "lost"}
    /\ writer' = "ok"
    /\ UNCHANGED <<acked, received, reader>>

\* The reader learns that the writer did, or it never learns it.
ReaderDone ==
    /\ reader = "closing"
    /\ \/ writer = "ok" /\ reader' = "ok"
       \/ reader' = "lost"
    /\ UNCHANGED <<acked, received, writer>>

\* Either end may give up before that, whatever the other one knows.
WriterFails ==
    /\ writer = "busy"
    /\ writer' = "fail"
    /\ UNCHANGED <<acked, received, reader>>

ReaderFails ==
    /\ reader = "busy"
    /\ reader' = "fail"
    /\ UNCHANGED <<acked, received, writer>>

Next == Deliver \/ Acknowledge \/ ReaderCloses \/ WriterDone \/ ReaderDone
        \/ WriterFails \/ ReaderFails

Spec == Init /\ [][Next]_vars

=============================================================================

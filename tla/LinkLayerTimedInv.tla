-------------------------- MODULE LinkLayerTimedInv --------------------------
(***************************************************************************)
(* The inductive invariant behind the transmitter's statistics in          *)
(* LinkLayerTimed: what it has counted at any moment, not only at the end. *)
(***************************************************************************)
EXTENDS LinkLayerTimed, LinkLayerInv, FiniteSets

\* A timer runs during every wait, and all of the transmitter's time is in the
\* timers that have expired and the one that runs.
ClockInv ==
    /\ ttimer = "armed" <=> TxWaits
    /\ TxWaits => elapsed + tleft = timeouts * Timeout + Timeout
    /\ ~TxWaits => tleft = 0 /\ elapsed = timeouts * Timeout

\* Once some of a wait has passed nothing will end it but its timer: no answer
\* is on its way, and no frame that the receiver would answer.
QuietInv ==
    TxWaits /\ tleft < Timeout =>
        rt = <<>> /\ rpc # "ready" /\ (RxWaits => tr = <<>>)

\* The frames of a transfer without faults, as far as the transmitter has got.
Needed == CASE tpc = "idle"  -> 0
            [] tpc = "open"  -> 1
            [] tpc = "ready" -> written + 1
            [] tpc = "write" -> written + 2
            [] tpc = "close" -> N + 2
            [] tpc = "ok"    -> N + 3

CountInv == tpc # "fail" => frames = Needed + timeouts + errors

-----------------------------------------------------------------------------
(* Why errors and timeouts are no more than faults: each error goes back to a *)
(* damaged frame, and as time passes only when nothing is on its way, each    *)
(* timeout to a frame that the line or the receiver's flush has taken.        *)

\* What makes the transmitter count an error, or the receiver reject a packet.
Bad(f) == f.damage # "none" \/ f.c = "REJ"

Marks(channel) == Cardinality({i \in 1..Len(channel) : Bad(channel[i])})

Stopped == IF rauto = "STOP_UA" THEN 1 ELSE 0

ErrorInv == errors + Marks(tr) + Marks(rt) + Stopped <= faults

\* The answer that ends the wait is on its way.
Answered == \E i \in 1..Len(rt) : TxOutcome(rt[i]) = "stop" /\ TxAccepts(rt[i])

\* A transmitter that will fail, as nobody answers it any more: the answers to
\* SET and to the last packet are sent once, and not at all by a receiver that
\* has ended.
Doomed ==
    \/ tpc = "fail"
    \/ /\ ~Answered
       /\ \/ tpc = "open"  /\ rpc \notin {"idle", "open"}
          \/ tpc = "write" /\ (rpc = "fail" \/ Count = N)
          \/ tpc = "close" /\ rpc \in {"lost", "fail"}

\* A receiver that is past llopen gets no SET but those noise makes.
SetInv ==
    /\ tpc = "idle" => tr = <<>> /\ rpc \in {"idle", "open", "fail"}
    /\ rpc = "open" => Len(tr) <= 1
    /\ rpc \notin {"idle", "open"} =>
          \A i \in 1..Len(tr) : tr[i].c = "SET" => tr[i].damage # "none"

\* The frame that is waited for an answer to, or its answer, is on its way.
Alive ==
    \/ \E i \in 1..Len(tr) : tr[i] = TxFrame
    \/ \E i \in 1..Len(rt) : TxOutcome(rt[i]) = "stop"

\* Every timeout but the one that is due has had its fault, or its SET flushed.
TimeoutInv ==
    IF rpc = "idle"
    THEN /\ timeouts <= faults + Len(tr)
         /\ TxWaits => timeouts < faults + Len(tr)
    ELSE /\ timeouts <= faults + flushed
         /\ TxWaits /\ ~Alive => timeouts < faults + flushed

LossInv == IF tpc = "ok" THEN CountsAreFaults
                         ELSE Doomed \/ (ErrorInv /\ SetInv /\ TimeoutInv)

-----------------------------------------------------------------------------
\* The inductive invariant of the specification.
TimedInv ==
    /\ TimedTypeOK /\ LinkInv /\ ClockInv /\ QuietInv /\ CountInv
    /\ LossInv

=============================================================================

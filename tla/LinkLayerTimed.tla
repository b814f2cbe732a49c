--------------------------- MODULE LinkLayerTimed ---------------------------
(***************************************************************************)
(* LinkLayer with clocks, on a line and machines that are fast compared    *)
(* with the timeout: time passes only when both ends wait and nothing is   *)
(* on its way, so that an alarm means that an answer is not coming.  Both  *)
(* ends have the same timeout, as the measurement drivers of stats/ give   *)
(* them, and start at most Skew apart.  This is the setting for which the  *)
(* transmitter's statistics (include/stats.h) are interpreted.             *)
(***************************************************************************)
EXTENDS LinkLayer

CONSTANTS
    Timeout,    \* ll_config.timeout, in ticks
    Skew,       \* bound on the time between the starts of the two ends
    Faulty      \* what the line does: a subset of {"lost", "header", "payload"}

ASSUME TimedAssumption ==
    /\ Timeout \in Nat \ {0} /\ Skew \in Nat
    /\ Faulty \subseteq {"lost", "header", "payload"}

VARIABLES
    tleft,      \* transmitter: ticks until its timer expires
    rleft,      \* receiver: likewise
    waited,     \* ticks for which one end has waited for the other to start
    elapsed,    \* stats.T of the transmitter: ticks spent in its calls
    frames,     \* stats.N of the transmitter: frames sent
    errors,     \* stats.Ne of the transmitter
    timeouts,   \* stats.Nt of the transmitter
    flushed,    \* frames the receiver's llopen has discarded
    cost,       \* attempts that lost and damaged frames can have cost
    vital       \* "hit" once a frame has been lost that is not sent again

statVars  == <<elapsed, frames, errors, timeouts>>
timedVars == <<vars, tleft, rleft, waited, elapsed, frames, errors, timeouts,
               flushed, cost, vital>>

-----------------------------------------------------------------------------
TimedInit ==
    /\ Init
    /\ tleft = 0 /\ rleft = 0 /\ waited = 0
    /\ elapsed = 0 /\ frames = 0 /\ errors = 0 /\ timeouts = 0
    /\ flushed = 0 /\ cost = 0 /\ vital = "spared"

\* setitimer() starts the timer again for each attempt of a call.
TxTimer ==
    tleft' = IF ttimer' = "off" THEN 0
             ELSE IF <<tpc', tatt'>> = <<tpc, tatt>> THEN tleft ELSE Timeout

RxTimer ==
    rleft' = IF rtimer' = "off" THEN 0
             ELSE IF <<rpc', ratt'>> = <<rpc, ratt>> THEN rleft ELSE Timeout

\* ADD_FRAME, for every frame of the transmitter.
TxFrames == frames' = frames + Len(tr') - Len(tr)

\* A retransmission in llclose is not counted as a timeout.
MutTimeouts == IF tpc = "close" THEN 0 ELSE 1

\* ADD_FRAME_TIMEOUT, at a timeout.
Timeouts == 1

\* A REJ is not counted.
MutErrors(f) == 0

\* ADD_FRAME_ERROR, at the REJ of the packet being written.
Errors(f) == IF tpc = "write" /\ f.c = "REJ" /\ f.n = Flip(tseq) THEN 1 ELSE 0

\* A step of the transmitter, with what it adds to its statistics.
TxTimed ==
    /\ \/ /\ \/ TxOpen \/ TxOpened \/ TxCallWrite \/ TxAcked \/ TxCallClose
             \/ TxDisc \/ TxSkip
          /\ UNCHANGED <<errors, timeouts>>
       \/ /\ TxRefuse
          /\ errors' = errors + Errors(Head(rt)) /\ UNCHANGED timeouts
       \/ /\ TxResendRR
          /\ errors' = errors + 1 /\ UNCHANGED timeouts
       \/ /\ TxTimeout /\ tleft = 0
          /\ timeouts' = timeouts + Timeouts /\ UNCHANGED errors
    /\ TxTimer /\ TxFrames
    /\ UNCHANGED <<rleft, waited, elapsed, flushed, cost, vital>>

\* A step of the receiver, whose statistics nobody reads.
RxTimedStep ==
    /\ \/ RxOpen \/ RxOpened \/ RxCallRead \/ RxDeliver \/ RxDamaged \/ RxSet
       \/ RxStopped \/ RxResendRR \/ RxSkip \/ RxCallClose \/ RxDisc
       \/ RxClosed \/ RxDiscAgain
       \/ RxTimeout /\ rleft = 0
    /\ RxTimer
    /\ flushed' = IF rpc = "idle" THEN Len(tr) ELSE flushed
    /\ UNCHANGED <<tleft, waited, statVars, cost, vital>>

\* The answers that are sent once only: what follows the loss of one is in the
\* claims of LinkLayerClaims, and that of the last UA cannot be helped.
Vital(f) == \/ f.c = "UA"
            \/ f.a = "RECV" /\ f.c = "DISC"
            \/ f.a = "SEND" /\ f.c = "RR" /\ Len(delivered) = N

\* The frame that a step of the line takes or damages.
Victim == IF tr' # tr THEN Head(tr) ELSE Head(rt)

LineTimed ==
    /\ \/ /\ "lost" \in Faulty /\ (LoseTr \/ LoseRt)
          /\ cost' = cost + 1
       \/ /\ \/ DamageTr /\ Head(tr').damage \in Faulty
             \/ DamageRt /\ Head(rt').damage \in Faulty
          /\ cost' = cost + 2
    /\ vital' = IF Vital(Victim) THEN "hit" ELSE vital
    /\ UNCHANGED <<tleft, rleft, waited, statVars, flushed>>

-----------------------------------------------------------------------------
(* Time *)

Starts == (tpc = "idle") # (rpc = "idle")

\* Nothing can happen before some time has passed.
Quiet ==
    /\ tpc # "ready" /\ (TxWaits => tleft > 0 /\ rt = <<>>)
    /\ rpc # "ready" /\ (RxWaits => tr = <<>>) /\ (RxTimed => rleft > 0)

Minus(ticks) == IF ticks = 0 THEN 0 ELSE ticks - 1

Tick ==
    /\ Quiet
    /\ IF Starts THEN waited < Skew /\ waited' = waited + 1
                 ELSE tleft + rleft > 0 /\ UNCHANGED waited
    /\ tleft' = Minus(tleft) /\ rleft' = Minus(rleft)
    /\ elapsed' = IF TxWaits THEN elapsed + 1 ELSE elapsed
    /\ UNCHANGED <<vars, frames, errors, timeouts, flushed, cost, vital>>

Progress == TxTimed \/ RxTimedStep \/ Tick

TimedNext == Progress \/ LineTimed

\* Processes run, and time passes; nothing makes the line lose frames.
TimedSpec == /\ TimedInit /\ [][TimedNext]_timedVars
             /\ WF_timedVars(Progress)

-----------------------------------------------------------------------------
(* Properties *)

\* Every variable has its type.
TimedTypeOK ==
    /\ TypeOK
    /\ tleft \in 0..Timeout /\ rleft \in 0..Timeout /\ waited \in 0..Skew
    /\ elapsed \in Nat /\ frames \in Nat /\ errors \in Nat /\ timeouts \in Nat
    /\ flushed \in Nat /\ cost \in Nat /\ vital \in {"spared", "hit"}

\* The attempts of llopen that the end that starts first has spent on its own.
Late == IF flushed > 0 THEN flushed ELSE waited \div Timeout

\* A transfer succeeds at both ends as long as a call has one attempt more than
\* the line can have cost it: one for each frame lost, two for each frame that
\* is damaged (src/ll.c:244 refuses no damaged packet once a timer has expired,
\* so that it costs the receiver the attempt it ends and the one that times
\* out), and those of the end that starts first; but for the answers that are
\* sent only once.
SurvivesFaults ==
    <>(\/ tpc = "ok" /\ rpc = "ok"
       \/ vital = "hit" \/ cost + Late >= Retransmissions)

\* The transmitter's time is its timeouts: T - Nt * timeout, from which
\* stats/stats_transmitter.c computes the propagation time, is what frames
\* take to arrive, and has no wait in it that was cut short.
TimeIsTimeouts == tpc = "ok" => elapsed = timeouts * Timeout

\* "N - N_t - N_e is a constant, representing the minimum amount of frames"
\* (report.tex:1004): SET, the packets, DISC and UA.  Each timeout and each
\* error has cost exactly one frame more.
FramesAddUp == tpc = "ok" => frames = N + 3 + timeouts + errors

\* A transfer that succeeds counts no error and no timeout for which no frame
\* was damaged or lost, although answers are repeated, refused and ignored.
CountsAreFaults ==
    tpc = "ok" => errors <= faults /\ timeouts <= faults + flushed

\* "we can consider timeouts do not occur when evaluating the performance of
\* this protocol" (report.tex:1026), as there is always a receiver and only
\* I-frames are damaged.
TimeoutsDoNotOccur == rpc # "idle" /\ flushed = 0 => timeouts = 0

=============================================================================

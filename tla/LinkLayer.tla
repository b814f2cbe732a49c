----------------------------- MODULE LinkLayer -----------------------------
(***************************************************************************)
(* The link layer (src/ll.c, src/ll_internal.c) of the two ends of         *)
(* one serial line, frame by frame.  The transmitter calls llopen, then    *)
(* llwrite once per packet, then llclose; the receiver calls llopen,       *)
(* llread once per packet, llclose.  A call that returns an error ends its *)
(* process, as application() in src/app.c does, and so does an error       *)
(* of the application between two calls.                                   *)
(*                                                                         *)
(* The line is two FIFO channels of the frames of LinkFrames, which may be *)
(* lost or damaged but not reordered or duplicated.  The operators named   *)
(* Mut... are changes a bug in the code could make to the definition that  *)
(* follows; nothing uses them but the mutation runs.                       *)
(***************************************************************************)
EXTENDS Naturals, Sequences, LinkFrames

CONSTANTS
    Retransmissions,  \* ll_config.retransmissions: attempts per call
    MaxFaults,        \* bound on the frames the line loses or damages
    MissedAlarms      \* may SIGALRM arrive while its process is not in read()?

ASSUME LinkLayerAssumption ==
    /\ N \in Nat
    /\ Retransmissions \in Nat
    /\ MaxFaults \in Nat
    /\ MissedAlarms \in BOOLEAN

VARIABLES
    tpc,        \* transmitter: the call it is in, or what it ended with
    tseq,       \* transmitter: sequence_number
    tatt,       \* transmitter: attempts, in the loop of the current call
    ttimer,     \* transmitter: the interval timer, "armed" or "off"
    written,    \* transmitter: llwrite calls that returned successfully
    rpc,        \* receiver: likewise; "lost" when llclose failed after
                \* it had answered DISC
    rseq,       \* receiver: sequence_number
    ratt,       \* receiver: attempts
    rtimer,     \* receiver: the interval timer, "armed" or "off"
    rerrno,     \* receiver: errno; once EINTR, nothing clears it
    rauto,      \* receiver: "STOP_UA" when the I automaton is in that state
    delivered,  \* receiver: the packets llread returned, in order
    tr,         \* frames on the line towards the receiver
    rt,         \* frames on the line towards the transmitter
    faults      \* frames lost or damaged so far

txVars == <<tpc, tseq, tatt, ttimer, written>>
rxVars == <<rpc, rseq, ratt, rtimer, rerrno, rauto, delivered>>
vars   == <<tpc, tseq, tatt, ttimer, written,
            rpc, rseq, ratt, rtimer, rerrno, rauto, delivered,
            tr, rt, faults>>

-----------------------------------------------------------------------------
Init ==
    /\ tpc = "idle" /\ tseq = 0 /\ tatt = 0 /\ ttimer = "off" /\ written = 0
    /\ rpc = "idle" /\ rseq = 0 /\ ratt = 0 /\ rtimer = "off"
    /\ rerrno = "none" /\ rauto = "run" /\ delivered = <<>>
    /\ tr = <<>> /\ rt = <<>> /\ faults = 0

-----------------------------------------------------------------------------
(* Transmitter *)

TxWaits == tpc \in {"open", "write", "close"}

\* The timer is armed before the loop, not in it.
MutTxAttempt(k, pc, f) ==
    \/ /\ k < Retransmissions
       /\ tpc' = pc /\ tatt' = k /\ ttimer' = IF k = 0 THEN "armed" ELSE "off"
       /\ tr' = Append(tr, f)
    \/ /\ k = Retransmissions
       /\ tpc' = "fail" /\ tatt' = 0 /\ ttimer' = "off"
       /\ UNCHANGED tr

\* The head of a call's retransmission loop: attempt k of the call pc arms
\* the timer and sends f; after the last attempt the call returns -1.
TxAttempt(k, pc, f) ==
    \/ /\ k < Retransmissions
       /\ tpc' = pc /\ tatt' = k /\ ttimer' = "armed"
       /\ tr' = Append(tr, f)
    \/ /\ k = Retransmissions
       /\ tpc' = "fail" /\ tatt' = 0 /\ ttimer' = "off"
       /\ UNCHANGED tr

\* The sequence bit is flipped for each attempt, not for each packet.
MutTxFrame == CASE tpc = "open"  -> TxSET
                [] tpc = "write" -> TxI(IF tatt = 0 THEN Flip(tseq) ELSE tseq, written + 1)
                [] OTHER         -> TxDISC

\* The frame the call in progress transmits.
TxFrame == CASE tpc = "open"  -> TxSET
             [] tpc = "write" -> TxI(tseq, written + 1)
             [] OTHER         -> TxDISC

TxOutcome(f) == IF tpc = "open" THEN UOutcome(f) ELSE SOutcome(tseq, f)

\* A REJ is taken for an RR.
MutTxAccepts(f) ==
    CASE tpc = "open"  -> f.a = "SEND" /\ f.c = "UA"
      [] tpc = "write" -> f.a = "SEND" /\ f.c \in {"RR", "REJ"}
      [] OTHER         -> f.a = "RECV" /\ f.c = "DISC"

\* The answer that lets the call in progress leave its loop.
TxAccepts(f) ==
    CASE tpc = "open"  -> f.a = "SEND" /\ f.c = "UA"
      [] tpc = "write" -> f.a = "SEND" /\ f.c = "RR" /\ f.n = Flip(tseq)
      [] OTHER         -> f.a = "RECV" /\ f.c = "DISC"

TxReceives == TxWaits /\ rt # <<>> /\ rt' = Tail(rt)

TxRetry == TxAttempt(tatt + 1, tpc, TxFrame)

\* The pending input is not flushed.
MutTxOpen ==
    /\ tpc = "idle"
    /\ tseq' = 1
    /\ TxAttempt(0, "open", TxSET)
    /\ UNCHANGED <<written, rxVars, rt, faults>>

\* llopen: the pending input is flushed and the first SET goes out.
TxOpen ==
    /\ tpc = "idle"
    /\ rt' = <<>>
    /\ tseq' = 1
    /\ TxAttempt(0, "open", TxSET)
    /\ UNCHANGED <<written, rxVars, faults>>

\* The UA: llopen returns.
TxOpened ==
    /\ tpc = "open"
    /\ TxReceives /\ TxOutcome(Head(rt)) = "stop" /\ TxAccepts(Head(rt))
    /\ tpc' = "ready" /\ tatt' = 0 /\ ttimer' = "off"
    /\ UNCHANGED <<tseq, written, rxVars, tr, faults>>

\* llwrite with the next packet.
TxCallWrite ==
    /\ tpc = "ready" /\ written < N
    /\ tseq' = Flip(tseq)
    /\ TxAttempt(0, "write", TxI(Flip(tseq), written + 1))
    /\ UNCHANGED <<written, rxVars, rt, faults>>

\* The RR of the packet being written: llwrite returns.
TxAcked ==
    /\ tpc = "write"
    /\ TxReceives /\ TxOutcome(Head(rt)) = "stop" /\ TxAccepts(Head(rt))
    /\ tpc' = "ready" /\ tatt' = 0 /\ ttimer' = "off"
    /\ written' = written + 1
    /\ UNCHANGED <<tseq, rxVars, tr, faults>>

\* llclose, once everything is written.
TxCallClose ==
    /\ tpc = "ready" /\ written = N
    /\ TxAttempt(0, "close", TxDISC)
    /\ UNCHANGED <<tseq, written, rxVars, rt, faults>>

\* The application fails between two calls, and its process ends.
TxQuit ==
    /\ tpc = "ready"
    /\ tpc' = "fail"
    /\ UNCHANGED <<tseq, tatt, ttimer, written, rxVars, tr, rt, faults>>

\* The receiver's DISC: the transmitter answers UA and closes the port,
\* discarding the input it has not read (TCSAFLUSH).
TxDisc ==
    /\ tpc = "close" /\ rt # <<>>
    /\ TxOutcome(Head(rt)) = "stop" /\ TxAccepts(Head(rt))
    /\ tpc' = "ok" /\ tatt' = 0 /\ ttimer' = "off"
    /\ tr' = Append(tr, TxUA) /\ rt' = <<>>
    /\ UNCHANGED <<tseq, written, rxVars, faults>>

\* A frame that ends the wait but is not the answer costs an attempt, as a
\* timeout does.
TxRefuse ==
    /\ TxReceives /\ TxOutcome(Head(rt)) = "stop" /\ ~TxAccepts(Head(rt))
    /\ TxRetry
    /\ UNCHANGED <<tseq, written, rxVars, faults>>

\* A frame the automaton does not recognise.
TxSkip ==
    /\ TxReceives /\ TxOutcome(Head(rt)) = "skip"
    /\ UNCHANGED <<txVars, rxVars, tr, faults>>

\* A REJ whose header noise has made an I-frame's is answered, with the RR that
\* the receiver would send, and the wait goes on.
TxResendRR ==
    /\ TxReceives /\ TxOutcome(Head(rt)) = "resend"
    /\ tr' = Append(tr, TxRR(Flip(tseq)))
    /\ UNCHANGED <<txVars, rxVars, faults>>

\* The alarm interrupts read().
TxTimeout ==
    /\ TxWaits /\ ttimer = "armed"
    /\ TxRetry
    /\ UNCHANGED <<tseq, written, rxVars, rt, faults>>

\* The alarm arrives outside read(): alarmHandler() runs, the timer is spent,
\* and the read() that follows has nothing to interrupt it.
TxAlarmMissed ==
    /\ MissedAlarms /\ TxWaits /\ ttimer = "armed"
    /\ ttimer' = "off"
    /\ UNCHANGED <<tpc, tseq, tatt, written, rxVars, tr, rt, faults>>

-----------------------------------------------------------------------------
(* Receiver *)

\* The calls that loop over attempts under a timer; the waits of llclose
\* ("close" for the DISC, "ua" for the UA) have neither.
RxTimed == rpc \in {"open", "read"}
RxWaits == RxTimed \/ rpc \in {"close", "ua"}

\* The timer is armed before the loop, not in it.
MutRxAttempt(k, pc) ==
    \/ /\ k < Retransmissions
       /\ rpc' = pc /\ ratt' = k /\ rtimer' = IF k = 0 THEN "armed" ELSE "off"
    \/ /\ k = Retransmissions
       /\ rpc' = "fail" /\ ratt' = 0 /\ rtimer' = "off"

RxAttempt(k, pc) ==
    \/ /\ k < Retransmissions
       /\ rpc' = pc /\ ratt' = k /\ rtimer' = "armed"
    \/ /\ k = Retransmissions
       /\ rpc' = "fail" /\ ratt' = 0 /\ rtimer' = "off"

RxRetry == RxAttempt(ratt + 1, rpc)

RxOutcome(f) == CASE rpc = "read" -> IOutcome(rseq, f)
                  [] rpc = "ua"   -> UOutcome(f)
                  [] OTHER        -> SOutcome(rseq, f)

RxGets(outcome) == /\ RxWaits /\ rauto = "run" /\ tr # <<>>
                   /\ RxOutcome(Head(tr)) = outcome
                   /\ tr' = Tail(tr)

\* The call ends, with the timer off.
RxReturn(pc) == rpc' = pc /\ ratt' = 0 /\ rtimer' = "off"

RxSend(f) == rt' = Append(rt, f)

\* The pending input is not flushed.
MutRxOpen ==
    /\ rpc = "idle"
    /\ rseq' = 0
    /\ RxAttempt(0, "open")
    /\ UNCHANGED <<rerrno, rauto, delivered, txVars, tr, rt, faults>>

\* llopen: the pending input is flushed, and the wait for SET begins.
RxOpen ==
    /\ rpc = "idle"
    /\ tr' = <<>>
    /\ rseq' = 0
    /\ RxAttempt(0, "open")
    /\ UNCHANGED <<rerrno, rauto, delivered, txVars, rt, faults>>

\* SET is answered with UA; anything else that ends the wait is an error.
RxOpened ==
    /\ rpc = "open" /\ RxGets("stop")
    /\ IF Head(tr).a = "SEND" /\ Head(tr).c = "SET"
       THEN RxReturn("ready") /\ RxSend(RxUA)
       ELSE RxReturn("fail") /\ UNCHANGED rt
    /\ UNCHANGED <<rseq, rerrno, rauto, delivered, txVars, faults>>

\* llread for the next packet.
RxCallRead ==
    /\ rpc = "ready" /\ Len(delivered) < N
    /\ rseq' = Flip(rseq)
    /\ RxAttempt(0, "read")
    /\ UNCHANGED <<rerrno, rauto, delivered, txVars, tr, rt, faults>>

\* The expected I-frame, intact: acknowledged with RR, and llread returns it.
RxDeliver ==
    /\ rpc = "read" /\ RxGets("data")
    /\ delivered' = Append(delivered, Head(tr).d)
    /\ RxSend(RxRR(rseq))
    /\ RxReturn("ready")
    /\ UNCHANGED <<rseq, rerrno, rauto, txVars, faults>>

\* A failed attempt of llread sends REJ, but not while errno is EINTR.
RxReject == IF rerrno = "EINTR" THEN UNCHANGED rt ELSE RxSend(RxREJ(rseq))

\* The expected I-frame with a wrong BCC2.
RxDamaged ==
    /\ rpc = "read" /\ RxGets("bad")
    /\ RxReject
    /\ RxRetry
    /\ UNCHANGED <<rseq, rerrno, rauto, delivered, txVars, faults>>

\* A retransmitted SET takes the I automaton to LL_I_STOP_UA, which the loop
\* of ll_expect_Iframe does not leave.
RxSet ==
    /\ rpc = "read" /\ RxGets("set")
    /\ rauto' = "STOP_UA"
    /\ UNCHANGED <<rpc, rseq, ratt, rtimer, rerrno, delivered, txVars, rt, faults>>

\* The first byte of the next frame: the automaton cannot leave LL_I_STOP_UA,
\* and the attempt fails.  That byte is an opening FLAG, which the next
\* attempt does not need to read the rest of the frame.
RxStopped ==
    /\ rpc = "read" /\ rauto = "STOP_UA" /\ tr # <<>>
    /\ rauto' = "run"
    /\ RxReject
    /\ RxRetry
    /\ UNCHANGED <<rseq, rerrno, delivered, txVars, tr, faults>>

\* A duplicate is answered with ll_send_RR.
MutRxResendRR ==
    /\ RxGets("resend")
    /\ RxSend(RxRR(rseq))
    /\ UNCHANGED <<rxVars, txVars, faults>>

\* An I-frame that is not expected is answered with RR, and the wait goes on.
RxResendRR ==
    /\ RxGets("resend")
    /\ RxSend(RxRR(Flip(rseq)))
    /\ UNCHANGED <<rxVars, txVars, faults>>

\* A frame the automaton does not recognise.
RxSkip ==
    /\ RxGets("skip")
    /\ UNCHANGED <<rxVars, txVars, rt, faults>>

\* The alarm interrupts read(): errno is EINTR from now on.
RxTimeout ==
    /\ RxTimed /\ rtimer = "armed"
    /\ rerrno' = "EINTR" /\ rauto' = "run"
    /\ RxRetry
    /\ UNCHANGED <<rseq, delivered, txVars, tr, rt, faults>>

RxAlarmMissed ==
    /\ MissedAlarms /\ RxTimed /\ rtimer = "armed"
    /\ rtimer' = "off"
    /\ UNCHANGED <<rpc, rseq, ratt, rerrno, rauto, delivered, txVars, tr, rt, faults>>

\* llclose, once the application has every packet.  No timer is armed.
RxCallClose ==
    /\ rpc = "ready" /\ Len(delivered) = N
    /\ rpc' = "close"
    /\ UNCHANGED <<rseq, ratt, rtimer, rerrno, rauto, delivered, txVars, tr, rt, faults>>

\* The application fails between two calls, and its process ends.
RxQuit ==
    /\ rpc = "ready"
    /\ rpc' = "fail"
    /\ UNCHANGED <<rseq, ratt, rtimer, rerrno, rauto, delivered, txVars, tr, rt, faults>>

\* llclose does not wait for the UA.
MutRxDisc ==
    /\ rpc = "close" /\ RxGets("stop")
    /\ RxReturn("ok") /\ RxSend(RxDISC)
    /\ UNCHANGED <<rseq, rerrno, rauto, delivered, txVars, faults>>

\* The transmitter's DISC is answered with DISC.
RxDisc ==
    /\ rpc = "close" /\ RxGets("stop")
    /\ IF Head(tr).a = "SEND" /\ Head(tr).c = "DISC"
       THEN RxReturn("ua") /\ RxSend(RxDISC)
       ELSE RxReturn("fail") /\ UNCHANGED rt
    /\ UNCHANGED <<rseq, rerrno, rauto, delivered, txVars, faults>>

\* The transmitter's UA: llclose returns, and the port is closed.
RxClosed ==
    /\ rpc = "ua" /\ RxGets("stop")
    /\ RxReturn(IF Head(tr).a = "RECV" THEN "ok" ELSE "lost")
    /\ UNCHANGED <<rseq, rerrno, rauto, delivered, txVars, rt, faults>>

\* A retransmitted DISC is answered with DISC; ll_send_DISC returns the number
\* of bytes it wrote, which ll_expect_Uframe takes for an error.
RxDiscAgain ==
    /\ RxGets("disc")
    /\ RxSend(RxDISC)
    /\ RxReturn("lost")
    /\ UNCHANGED <<rseq, rerrno, rauto, delivered, txVars, faults>>

-----------------------------------------------------------------------------
(* The line.  Both channels are FIFO, so that losing a frame anywhere in one *)
(* is losing it when it reaches the head.                                    *)

Fault == faults < MaxFaults /\ faults' = faults + 1

LoseTr ==
    /\ Fault /\ tr # <<>>
    /\ tr' = Tail(tr)
    /\ UNCHANGED <<txVars, rxVars, rt>>

LoseRt ==
    /\ Fault /\ rt # <<>>
    /\ rt' = Tail(rt)
    /\ UNCHANGED <<txVars, rxVars, tr>>

\* Noise, or GEN_FRAME_ERROR, on a frame that is not lost.
DamageTr ==
    /\ Fault /\ tr # <<>> /\ Head(tr).damage = "none"
    /\ \E f \in Damaged(Head(tr)) : tr' = [tr EXCEPT ![1] = f]
    /\ UNCHANGED <<txVars, rxVars, rt>>

DamageRt ==
    /\ Fault /\ rt # <<>> /\ Head(rt).damage = "none"
    /\ \E f \in Damaged(Head(rt)) : rt' = [rt EXCEPT ![1] = f]
    /\ UNCHANGED <<txVars, rxVars, tr>>

-----------------------------------------------------------------------------
TxNext == \/ TxOpen \/ TxOpened \/ TxCallWrite \/ TxAcked \/ TxCallClose
          \/ TxQuit \/ TxDisc \/ TxRefuse \/ TxSkip \/ TxResendRR
          \/ TxTimeout \/ TxAlarmMissed

RxNext == \/ RxOpen \/ RxOpened \/ RxCallRead \/ RxDeliver \/ RxDamaged
          \/ RxSet \/ RxStopped \/ RxResendRR \/ RxSkip \/ RxTimeout
          \/ RxAlarmMissed \/ RxCallClose \/ RxQuit \/ RxDisc \/ RxClosed
          \/ RxDiscAgain

LineNext == LoseTr \/ LoseRt \/ DamageTr \/ DamageRt

Next == TxNext \/ RxNext \/ LineNext

Spec == Init /\ [][Next]_vars

-----------------------------------------------------------------------------
(* Properties *)

\* Every variable has its type.
TypeOK ==
    /\ tpc \in {"idle", "open", "ready", "write", "close", "ok", "fail"}
    /\ tseq \in {0, 1} /\ tatt \in Nat /\ ttimer \in {"armed", "off"}
    /\ written \in 0..N
    /\ rpc \in {"idle", "open", "ready", "read", "close", "ua", "ok", "lost", "fail"}
    /\ rseq \in {0, 1} /\ ratt \in Nat /\ rtimer \in {"armed", "off"}
    /\ rerrno \in {"none", "EINTR"} /\ rauto \in {"run", "STOP_UA"}
    /\ delivered \in Seq(1..N)
    /\ tr \in Seq(Frames) /\ rt \in Seq(Frames)
    /\ faults \in 0..MaxFaults

\* The receiver's application gets the packets of the transmitter's in order,
\* none lost, repeated or damaged, whatever timeouts and faults do: the
\* sequence bit and the BCC2 checks of ll_expect_Iframe.
DeliveredInOrder == \A i \in 1..Len(delivered) : delivered[i] = i

\* A packet llwrite reported as written has been returned by llread, and the
\* receiver is at most the packet being written ahead: no RR is taken for the
\* acknowledgement of a packet it does not acknowledge, however late it is.
AckedIsDelivered == written <= Len(delivered) /\ Len(delivered) <= written + 1

\* Every RR on its way that the transmitter would accept for the packet it is
\* writing was sent when that packet had been delivered.
NoFalseAck ==
    tpc = "write" =>
        \A i \in 1..Len(rt) :
            rt[i].c = "RR" /\ rt[i].n = Flip(tseq) => Len(delivered) = written + 1

\* llopen succeeds at the transmitter only after the receiver's llopen sent UA;
\* llclose is reached, and succeeds, only with everything delivered; the
\* transmitter's succeeds only if the receiver's answered it, and the
\* receiver's only after the transmitter's has.
PhasesAgree ==
    /\ tpc \in {"ready", "write", "close", "ok"} => rpc \notin {"idle", "open"}
    /\ tpc \in {"close", "ok"} => Len(delivered) = N
    /\ tpc = "ok" => rpc \in {"ua", "ok", "lost"}
    /\ rpc \in {"ua", "lost"} => tpc \in {"close", "ok", "fail"} /\ written = N
    /\ rpc = "ok" => tpc = "ok"

\* The only answer that costs the transmitter an attempt is a REJ of the packet
\* it is writing: not an RR that comes late, nor what the receiver's llclose
\* answers to duplicates, although the wait of llclose ends with RR and REJ too.
OnlyRejected ==
    [][TxRefuse => tpc = "write" /\ Head(rt).c = "REJ"]_vars

\* llread and llwrite as their users see them: PacketTransfer.
Ended(pc) == CASE pc \in {"ok", "fail", "lost"} -> pc
               [] pc = "ua"                     -> "closing"
               [] OTHER                         -> "busy"

Transfer == INSTANCE PacketTransfer
                WITH acked    <- written,
                     received <- delivered,
                     writer   <- Ended(tpc),
                     reader   <- Ended(rpc)

\* The two ends, the timers and the line together do nothing but deliver and
\* acknowledge packets one at a time, close in three steps (the receiver
\* answers, the transmitter is done, the receiver is done) and give up.
ImplementsTransfer == Transfer!Spec

(* What the scheduling of a process justifies: one that can run does run.   *)
(* Nothing is assumed of the line, or of the other end.                     *)
TxRuns == WF_vars(TxNext)
RxRuns == WF_vars(RxNext)

TxFairSpec == Spec /\ TxRuns

\* However the line and the other end behave, or if the other end never runs,
\* the transmitter's calls return: its loops are bounded and every wait in
\* them is under a timer.  That is so with MissedAlarms = FALSE only, if each
\* alarm finds its process in read(): see UnansweredCallEnds.
TxReturns == TxRuns => []<>(tpc \in {"ok", "fail"})

\* Likewise the receiver's llopen and llread, with the same MissedAlarms; only its
\* llclose, which arms no timer, may wait for ever.
RxReturns == RxRuns => []<>(rpc \in {"close", "ua", "ok", "lost", "fail"})

=============================================================================

-------------------------- MODULE LinkLayer_proofs --------------------------
(***************************************************************************)
(* The safety of LinkLayer for every number of packets, of attempts and of *)
(* faults: LinkLayerInv!LinkInv is inductive and implies the properties.   *)
(***************************************************************************)
EXTENDS LinkLayerInv, SequenceTheorems, TLAPS

-----------------------------------------------------------------------------
(* The sequence bit *)

\* The numbers of two packets in a row differ, and Flip leads from one to the
\* other.
LEMMA BitAlternates ==
    ASSUME NEW k \in Nat
    PROVE  /\ Bit(k) \in {0, 1}
           /\ Bit(k + 1) # Bit(k)
           /\ Flip(Bit(k)) = Bit(k + 1)
           /\ Bit(k + 2) = Bit(k)
BY DEF Bit, Flip

\* Flip exchanges the two values of the bit.
LEMMA FlipExchanges ==
    ASSUME NEW b \in {0, 1}
    PROVE  Flip(b) \in {0, 1} /\ Flip(b) # b /\ Flip(Flip(b)) = b
BY DEF Flip

-----------------------------------------------------------------------------
(* Channels *)

\* What taking the first frame off a channel leaves.
LEMMA TailOfChannel ==
    ASSUME NEW S, NEW s \in Seq(S), s # <<>>
    PROVE  /\ Len(s) \in Nat \ {0} /\ Head(s) = s[1] /\ Head(s) \in S
           /\ Tail(s) \in Seq(S) /\ Len(Tail(s)) = Len(s) - 1
           /\ \A i \in 1..Len(Tail(s)) : i + 1 \in 1..Len(s) /\ Tail(s)[i] = s[i + 1]
OBVIOUS

\* What sending a frame on a channel makes of it.
LEMMA AppendToChannel ==
    ASSUME NEW S, NEW s \in Seq(S), NEW e \in S
    PROVE  /\ Append(s, e) \in Seq(S) /\ Len(Append(s, e)) = Len(s) + 1
           /\ \A i \in 1..Len(s) : Append(s, e)[i] = s[i]
           /\ Append(s, e)[Len(s) + 1] = e
OBVIOUS

\* Every frame the two ends send is a frame.
LEMMA FramesSent ==
    /\ {TxSET, TxDISC, TxUA, RxUA, RxDISC} \subseteq Frames
    /\ \A n \in {0, 1} : RxRR(n) \in Frames /\ RxREJ(n) \in Frames
    /\ \A n \in {0, 1}, d \in 1..N : TxI(n, d) \in Frames
BY LinkLayerAssumption
   DEF Frames, Frame, TxSET, TxI, TxDISC, TxUA, RxUA, RxRR, RxREJ, RxDISC

-----------------------------------------------------------------------------
(* Types *)

LEMMA TypeInit == Init => TypeInv
BY LinkLayerAssumption DEF Init, TypeInv, TypeOK

\* The RR that a transmitter answers with.
LEMMA AnswerSent ==
    ASSUME NEW n \in {0, 1}
    PROVE  TxRR(n) \in Frames /\ TxRR(n).c = "RR" /\ ~Intact(TxRR(n))
BY LinkLayerAssumption DEF TxRR, Frame, Frames, Intact

\* Sending an I-frame of a packet in 1..N, or another frame, to the receiver.
LEMMA SendTyped ==
    ASSUME TypeInv, NEW f \in Frames, Intact(f) => f.d \in 1..N,
           tr' = Append(tr, f)
    PROVE  /\ tr' \in Seq(Frames)
           /\ (\A i \in 1..Len(tr) : Intact(tr[i]) => tr[i].d \in 1..N)'
<1>1. tr \in Seq(Frames) /\ \A i \in 1..Len(tr) : Intact(tr[i]) => tr[i].d \in 1..N
    BY DEF TypeInv, TypeOK
<1> HIDE DEF Intact
<1> QED BY <1>1, AppendToChannel

\* An attempt of the transmitter's changes its loop variables and sends f.
LEMMA AttemptTyped ==
    ASSUME TypeInv, NEW f \in Frames, Intact(f) => f.d \in 1..N,
           NEW k \in Nat, NEW pc \in {"open", "write", "close"},
           TxAttempt(k, pc, f)
    PROVE  /\ tpc' \in {pc, "fail"} /\ tatt' \in Nat /\ ttimer' \in {"armed", "off"}
           /\ tr' \in Seq(Frames)
           /\ (\A i \in 1..Len(tr) : Intact(tr[i]) => tr[i].d \in 1..N)'
<1>1. CASE tr' = Append(tr, f)
    <2>1. tpc' \in {pc, "fail"} /\ tatt' \in Nat /\ ttimer' \in {"armed", "off"}
        BY DEF TxAttempt
    <2> QED BY <1>1, <2>1, SendTyped
<1>2. CASE UNCHANGED tr
    BY <1>2 DEF TxAttempt, TypeInv, TypeOK
<1> QED BY <1>1, <1>2 DEF TxAttempt

\* The frames the transmitter's attempts send.
LEMMA FramesAttempted ==
    /\ ~Intact(TxSET) /\ ~Intact(TxDISC) /\ ~Intact(TxUA)
    /\ \A n, d : Intact(TxI(n, d)) /\ TxI(n, d).d = d /\ TxI(n, d).n = n
BY DEF Intact, TxSET, TxDISC, TxUA, TxI, Frame

LEMMA RetryTyped ==
    ASSUME TypeInv, TxWaits, TxRetry
    PROVE  /\ tpc' \in {tpc, "fail"} /\ tatt' \in Nat /\ ttimer' \in {"armed", "off"}
           /\ tr' \in Seq(Frames)
           /\ (\A i \in 1..Len(tr) : Intact(tr[i]) => tr[i].d \in 1..N)'
<1>1. /\ TxFrame \in Frames
      /\ Intact(TxFrame) => TxFrame.d \in 1..N
    <2>1. CASE tpc = "open"
        BY <2>1, FramesSent, FramesAttempted DEF TxFrame
    <2>2. CASE tpc = "close"
        BY <2>2, FramesSent, FramesAttempted DEF TxFrame
    <2>3. CASE tpc = "write"
        <3>1. TxFrame = TxI(tseq, written + 1)
            BY <2>3 DEF TxFrame
        <3>2. written + 1 \in 1..N /\ tseq \in {0, 1}
            BY <2>3, LinkLayerAssumption DEF TypeInv, TypeOK
        <3> QED BY <3>1, <3>2, FramesSent, FramesAttempted
    <2> QED BY <2>1, <2>2, <2>3 DEF TxWaits
<1>2. tatt + 1 \in Nat /\ tpc \in {"open", "write", "close"}
    BY DEF TypeInv, TypeOK, TxWaits
<1> QED BY <1>1, <1>2, AttemptTyped DEF TxRetry

\* The transmitter's own variables keep their types, and llwrite is called for
\* the packets there are.
LEMMA TxControlTyped ==
    ASSUME TypeInv, TxNext
    PROVE  /\ tpc' \in {"idle", "open", "ready", "write", "close", "ok", "fail"}
           /\ tseq' \in {0, 1} /\ tatt' \in Nat /\ ttimer' \in {"armed", "off"}
           /\ written' \in 0..N /\ (tpc' = "write" => written' < N)
           /\ UNCHANGED <<rxVars, faults>>
<1>1. /\ tpc \in {"idle", "open", "ready", "write", "close", "ok", "fail"}
      /\ tseq \in {0, 1} /\ tatt \in Nat /\ ttimer \in {"armed", "off"}
      /\ written \in 0..N /\ (tpc = "write" => written < N)
      /\ tatt + 1 \in Nat /\ N \in Nat
    BY LinkLayerAssumption DEF TypeInv, TypeOK
<1>2. ASSUME NEW k \in Nat, NEW pc \in {"open", "write", "close"}, NEW f,
             TxAttempt(k, pc, f)
      PROVE  tpc' \in {pc, "fail"} /\ tatt' \in Nat /\ ttimer' \in {"armed", "off"}
    BY <1>2 DEF TxAttempt
<1>3. CASE TxOpen \/ TxCallWrite \/ TxCallClose
    BY <1>1, <1>2, <1>3, FlipExchanges DEF TxOpen, TxCallWrite, TxCallClose
<1>4. CASE TxRefuse \/ TxTimeout
    BY <1>1, <1>2, <1>4 DEF TxRefuse, TxTimeout, TxReceives, TxRetry, TxWaits
<1>5. CASE TxOpened \/ TxAcked \/ TxDisc
    BY <1>1, <1>5 DEF TxOpened, TxAcked, TxDisc
<1>6. CASE TxQuit \/ TxSkip \/ TxResendRR \/ TxAlarmMissed
    BY <1>1, <1>6 DEF TxQuit, TxSkip, TxResendRR, TxAlarmMissed, txVars
<1> QED BY <1>3, <1>4, <1>5, <1>6 DEF TxNext

\* What the transmitter sends is a frame, and its I-frames carry packets.
LEMMA TxOutputTyped ==
    ASSUME TypeInv, TxNext
    PROVE  /\ tr' \in Seq(Frames)
           /\ (\A i \in 1..Len(tr) : Intact(tr[i]) => tr[i].d \in 1..N)'
<1>1. /\ tr \in Seq(Frames)
      /\ \A i \in 1..Len(tr) : Intact(tr[i]) => tr[i].d \in 1..N
    BY DEF TypeInv, TypeOK
<1> HIDE DEF Intact
<1>2. CASE UNCHANGED tr
    BY <1>1, <1>2
<1>3. CASE TxOpen
    BY <1>3, AttemptTyped, FramesSent, FramesAttempted DEF TxOpen
<1>4. CASE TxCallWrite
    <2> DEFINE f == TxI(Flip(tseq), written + 1)
    <2>1. Flip(tseq) \in {0, 1} /\ written + 1 \in 1..N
        BY <1>4, FlipExchanges, LinkLayerAssumption DEF TxCallWrite, TypeInv, TypeOK
    <2>2. f \in Frames /\ f.d \in 1..N
        BY <2>1, FramesSent, FramesAttempted
    <2>3. TxAttempt(0, "write", f)
        BY <1>4 DEF TxCallWrite
    <2> HIDE DEF f
    <2> QED BY <2>2, <2>3, AttemptTyped
<1>5. CASE TxCallClose
    BY <1>5, AttemptTyped, FramesSent, FramesAttempted DEF TxCallClose
<1>6. CASE TxDisc
    BY <1>6, SendTyped, FramesSent, FramesAttempted DEF TxDisc
<1>7. CASE TxRefuse \/ TxTimeout
    BY <1>7, RetryTyped DEF TxRefuse, TxTimeout, TxReceives
<1>8. CASE TxOpened \/ TxAcked \/ TxQuit \/ TxSkip \/ TxAlarmMissed
    BY <1>2, <1>8 DEF TxOpened, TxAcked, TxQuit, TxSkip, TxAlarmMissed
<1>9. CASE TxResendRR
    <2>1. TxRR(Flip(tseq)) \in Frames /\ ~Intact(TxRR(Flip(tseq)))
        BY AnswerSent, FlipExchanges DEF TypeInv, TypeOK
    <2> QED BY <1>9, <2>1, SendTyped DEF TxResendRR
<1> QED BY <1>3, <1>4, <1>5, <1>6, <1>7, <1>8, <1>9 DEF TxNext

\* What the transmitter leaves on the line is what was there.
LEMMA TxInputTyped ==
    ASSUME TypeInv, TxNext
    PROVE  rt' \in Seq(Frames)
<1>1. rt \in Seq(Frames)
    BY DEF TypeInv, TypeOK
<1>2. \/ UNCHANGED rt
      \/ rt' = <<>>
      \/ rt # <<>> /\ rt' = Tail(rt)
    BY DEF TxNext, TxOpen, TxOpened, TxCallWrite, TxAcked, TxCallClose,
        TxQuit, TxDisc, TxRefuse, TxSkip, TxResendRR, TxTimeout, TxAlarmMissed, TxReceives
<1>3. CASE rt' = <<>>
    BY <1>3
<1>4. CASE rt # <<>> /\ rt' = Tail(rt)
    BY <1>1, <1>4, TailOfChannel
<1> QED BY <1>1, <1>2, <1>3, <1>4

\* The transmitter's steps preserve the types.
LEMMA TypeTx ==
    ASSUME TypeInv, TxNext
    PROVE  TypeInv'
<1>1. /\ rpc' = rpc /\ rseq' = rseq /\ ratt' = ratt /\ rtimer' = rtimer
      /\ rerrno' = rerrno /\ rauto' = rauto /\ delivered' = delivered
      /\ faults' = faults
    BY TxControlTyped DEF rxVars
<1>2. TypeOK'
    BY <1>1, TxControlTyped, TxOutputTyped, TxInputTyped DEF TypeInv, TypeOK
<1> QED BY <1>2, TxControlTyped, TxOutputTyped DEF TypeInv

\* What the receiver takes off the line is a frame, and a packet if accepted.
LEMMA TakeTyped ==
    ASSUME TypeInv, NEW outcome, RxGets(outcome)
    PROVE  /\ Head(tr) \in Frames
           /\ Intact(Head(tr)) => Head(tr).d \in 1..N
           /\ tr' \in Seq(Frames)
           /\ (\A i \in 1..Len(tr) : Intact(tr[i]) => tr[i].d \in 1..N)'
<1>1. /\ tr \in Seq(Frames) /\ tr # <<>> /\ tr' = Tail(tr)
      /\ \A i \in 1..Len(tr) : Intact(tr[i]) => tr[i].d \in 1..N
    BY DEF TypeInv, TypeOK, RxGets
<1> HIDE DEF Intact
<1> QED BY <1>1, TailOfChannel

\* Sending a frame to the transmitter.
LEMMA AnswerTyped ==
    ASSUME TypeInv, NEW f \in Frames, RxSend(f)
    PROVE  rt' \in Seq(Frames)
BY DEF TypeInv, TypeOK, RxSend

LEMMA RejectTyped ==
    ASSUME TypeInv, RxReject
    PROVE  rt' \in Seq(Frames)
<1>1. RxREJ(rseq) \in Frames /\ rt \in Seq(Frames)
    BY FramesSent DEF TypeInv, TypeOK
<1> QED BY <1>1, AnswerTyped DEF RxReject

\* An accepted frame is intact.
LEMMA DataIntact ==
    ASSUME NEW f, NEW seq, IOutcome(seq, f) = "data"
    PROVE  Intact(f) /\ f.n = Flip(seq)
BY DEF IOutcome, Intact

\* The receiver's own variables keep their types.
LEMMA RxControlTyped ==
    ASSUME TypeInv, RxNext
    PROVE  /\ rpc' \in {"idle", "open", "ready", "read", "close", "ua", "ok", "lost", "fail"}
           /\ rseq' \in {0, 1} /\ ratt' \in Nat /\ rtimer' \in {"armed", "off"}
           /\ rerrno' \in {"none", "EINTR"} /\ rauto' \in {"run", "STOP_UA"}
           /\ UNCHANGED <<txVars, faults>>
<1>1. /\ rpc \in {"idle", "open", "ready", "read", "close", "ua", "ok", "lost", "fail"}
      /\ rseq \in {0, 1} /\ ratt \in Nat /\ rtimer \in {"armed", "off"}
      /\ rerrno \in {"none", "EINTR"} /\ rauto \in {"run", "STOP_UA"}
      /\ ratt + 1 \in Nat
    BY DEF TypeInv, TypeOK
<1>2. ASSUME NEW k \in Nat, NEW pc \in {"open", "read", "ua", "close"}, RxAttempt(k, pc)
      PROVE  /\ rpc' \in {"open", "read", "ua", "close", "fail"}
             /\ ratt' \in Nat /\ rtimer' \in {"armed", "off"}
    BY <1>2 DEF RxAttempt
<1>3. ASSUME NEW pc \in {"ready", "ua", "ok", "lost", "fail"}, RxReturn(pc)
      PROVE  /\ rpc' \in {"ready", "ua", "ok", "lost", "fail"}
             /\ ratt' \in Nat /\ rtimer' \in {"armed", "off"}
    BY <1>3 DEF RxReturn
<1>4. CASE RxRetry /\ rpc \in {"open", "read", "ua"} /\ UNCHANGED <<rseq, txVars, faults>>
           /\ rerrno' \in {"none", "EINTR"} /\ rauto' \in {"run", "STOP_UA"}
    BY <1>1, <1>2, <1>4 DEF RxRetry
<1> HIDE DEF TypeInv
<1>5. CASE RxOpen
    BY <1>1, <1>2, <1>5 DEF RxOpen
<1>6. CASE RxOpened \/ RxDisc
    BY <1>1, <1>3, <1>6 DEF RxOpened, RxDisc
<1>7. CASE RxCallRead
    BY <1>1, <1>2, <1>7, FlipExchanges DEF RxCallRead
<1>8. CASE RxDeliver \/ RxDiscAgain
    BY <1>1, <1>3, <1>8 DEF RxDeliver, RxDiscAgain
<1>9. CASE RxDamaged \/ RxStopped
    BY <1>1, <1>4, <1>9 DEF RxDamaged, RxStopped
<1>10. CASE RxTimeout
    BY <1>1, <1>4, <1>10 DEF RxTimeout, RxTimed, RxWaits
<1>11. CASE RxSet \/ RxResendRR \/ RxSkip
    BY <1>1, <1>11 DEF RxSet, RxResendRR, RxSkip, rxVars
<1>12. CASE RxAlarmMissed \/ RxCallClose \/ RxQuit
    BY <1>1, <1>12 DEF RxAlarmMissed, RxCallClose, RxQuit
<1>13. CASE RxClosed
    BY <1>1, <1>3, <1>13 DEF RxClosed
<1> QED
    BY <1>5, <1>6, <1>7, <1>8, <1>9, <1>10, <1>11, <1>12, <1>13 DEF RxNext

\* What the receiver sends is a frame.
LEMMA RxOutputTyped ==
    ASSUME TypeInv, RxNext
    PROVE  rt' \in Seq(Frames)
<1>1. /\ rt \in Seq(Frames) /\ rseq \in {0, 1} /\ Flip(rseq) \in {0, 1}
      /\ RxUA \in Frames /\ RxDISC \in Frames
      /\ RxRR(rseq) \in Frames /\ RxRR(Flip(rseq)) \in Frames
    BY FramesSent, FlipExchanges DEF TypeInv, TypeOK
<1>2. CASE RxDeliver \/ RxResendRR
    BY <1>1, <1>2, AnswerTyped DEF RxDeliver, RxResendRR
<1>3. CASE RxOpened \/ RxDisc \/ RxDiscAgain
    BY <1>1, <1>3, AnswerTyped DEF RxOpened, RxDisc, RxDiscAgain
<1>4. CASE RxDamaged \/ RxStopped
    BY <1>4, RejectTyped DEF RxDamaged, RxStopped
<1>5. CASE UNCHANGED rt
    BY <1>1, <1>5
<1>6. CASE RxOpen \/ RxCallRead \/ RxSet \/ RxSkip \/ RxTimeout \/ RxAlarmMissed
           \/ RxCallClose \/ RxQuit \/ RxClosed
    BY <1>5, <1>6 DEF RxOpen, RxCallRead, RxSet, RxSkip, RxTimeout, RxAlarmMissed,
                      RxCallClose, RxQuit, RxClosed
<1> QED BY <1>2, <1>3, <1>4, <1>6 DEF RxNext

\* What the receiver leaves on the line is what was there.
LEMMA RxInputTyped ==
    ASSUME TypeInv, RxNext
    PROVE  /\ tr' \in Seq(Frames)
           /\ (\A i \in 1..Len(tr) : Intact(tr[i]) => tr[i].d \in 1..N)'
<1>1. /\ tr \in Seq(Frames)
      /\ \A i \in 1..Len(tr) : Intact(tr[i]) => tr[i].d \in 1..N
    BY DEF TypeInv, TypeOK
<1> HIDE DEF Intact
<1>2. CASE \E outcome : RxGets(outcome)
    BY <1>2, TakeTyped
<1>3. CASE tr' = <<>>
    BY <1>3
<1>4. CASE UNCHANGED tr
    BY <1>1, <1>4
<1>5. CASE RxOpened \/ RxDeliver \/ RxDamaged \/ RxSet \/ RxResendRR \/ RxSkip
           \/ RxDisc \/ RxClosed \/ RxDiscAgain
    BY <1>2, <1>5 DEF RxOpened, RxDeliver, RxDamaged, RxSet, RxResendRR, RxSkip,
                      RxDisc, RxClosed, RxDiscAgain
<1>6. CASE RxCallRead \/ RxStopped \/ RxTimeout \/ RxAlarmMissed \/ RxCallClose
           \/ RxQuit
    BY <1>4, <1>6 DEF RxCallRead, RxStopped, RxTimeout, RxAlarmMissed, RxCallClose,
                      RxQuit
<1> QED BY <1>3, <1>5, <1>6 DEF RxNext, RxOpen

\* The application receives packets.
LEMMA RxDeliveredTyped ==
    ASSUME TypeInv, RxNext
    PROVE  delivered' \in Seq(1..N)
<1>1. delivered \in Seq(1..N)
    BY DEF TypeInv, TypeOK
<1>2. CASE RxDeliver
    <2>1. RxGets("data") /\ IOutcome(rseq, Head(tr)) = "data"
        BY <1>2 DEF RxDeliver, RxGets, RxOutcome
    <2>2. Head(tr).d \in 1..N
        BY <2>1, TakeTyped, DataIntact
    <2> QED BY <1>1, <1>2, <2>2 DEF RxDeliver
<1>3. CASE ~RxDeliver
    <2>1. UNCHANGED delivered
        BY <1>3 DEF RxNext, RxOpen, RxOpened, RxCallRead, RxDamaged, RxSet, RxStopped,
                    RxResendRR, RxSkip, RxTimeout, RxAlarmMissed, RxCallClose, RxQuit, RxDisc,
                    RxClosed, RxDiscAgain, rxVars
    <2> QED BY <1>1, <2>1
<1> QED BY <1>2, <1>3

\* The receiver's steps preserve the types.
LEMMA TypeRx ==
    ASSUME TypeInv, RxNext
    PROVE  TypeInv'
<1>1. UNCHANGED <<txVars, faults>>
    BY RxControlTyped
<1>2. /\ tpc' = tpc /\ tseq' = tseq /\ tatt' = tatt /\ ttimer' = ttimer
      /\ written' = written /\ faults' = faults
    BY <1>1 DEF txVars
<1>3. TypeOK'
    BY <1>2, RxControlTyped, RxOutputTyped, RxInputTyped, RxDeliveredTyped
    DEF TypeInv, TypeOK
<1>4. (tpc = "write" => written < N)'
    BY <1>2 DEF TypeInv
<1> QED BY <1>3, <1>4, RxInputTyped DEF TypeInv

\* A damaged frame is still a frame, and neither intact nor an answer.
LEMMA DamagedTyped ==
    ASSUME NEW f \in Frames, NEW g \in Damaged(f)
    PROVE  /\ g \in Frames
           /\ g.damage # "none" /\ g.a = f.a
           /\ \/ f.c = "I" /\ g.c \in {"I", "SET"}
              \/ f.c = "REJ" /\ g.c = "I"
<1>1. f.n \in {0, 1} /\ Flip(f.n) \in {0, 1} /\ 0 \in 0..N
    BY FlipExchanges, LinkLayerAssumption DEF Frames
<1>2. CASE f.c = "I"
    <2>1. CASE g = [f EXCEPT !.damage = "payload", !.d = 0]
        BY <1>1, <1>2, <2>1 DEF Frames
    <2>2. CASE g = [f EXCEPT !.damage = "header", !.n = Flip(@)]
        BY <1>1, <1>2, <2>2 DEF Frames
    <2>3. CASE g = [f EXCEPT !.damage = "header", !.c = "SET"]
        BY <1>1, <1>2, <2>3 DEF Frames
    <2> QED BY <1>2, <2>1, <2>2, <2>3 DEF Damaged
<1>3. CASE f.c = "REJ" /\ f.n = 0
    <2>1. g = [f EXCEPT !.damage = "header", !.c = "I"]
        BY <1>3 DEF Damaged
    <2> QED BY <1>3, <2>1 DEF Frames
<1> QED BY <1>2, <1>3 DEF Damaged

\* Damage replaces the frame at the head of its channel by a damaged one, which
\* is neither an acknowledgement nor a DISC.
LEMMA DamageTrTyped ==
    ASSUME TypeInv, DamageTr
    PROVE  \E g \in Frames :
              /\ g.damage # "none" /\ tr # <<>>
              /\ \/ Head(tr).c = "I" /\ g.c \in {"I", "SET"}
                 \/ Head(tr).c = "REJ" /\ g.c = "I"
              /\ tr' = [tr EXCEPT ![1] = g]
<1>1. Head(tr) \in Frames /\ tr # <<>>
    BY TailOfChannel DEF TypeInv, TypeOK, DamageTr
<1>2. PICK g \in Damaged(Head(tr)) : tr' = [tr EXCEPT ![1] = g]
    BY DEF DamageTr
<1> QED BY <1>1, <1>2, DamagedTyped

LEMMA DamageRtTyped ==
    ASSUME TypeInv, DamageRt
    PROVE  \E g \in Frames :
              /\ g.damage # "none" /\ g.a = Head(rt).a
              /\ rt # <<>> /\ Head(rt).damage = "none"
              /\ \/ Head(rt).c = "I" /\ g.c \in {"I", "SET"}
                 \/ Head(rt).c = "REJ" /\ g.c = "I"
              /\ rt' = [rt EXCEPT ![1] = g]
<1>1. Head(rt) \in Frames /\ rt # <<>>
    BY TailOfChannel DEF TypeInv, TypeOK, DamageRt
<1>2. PICK g \in Damaged(Head(rt)) : rt' = [rt EXCEPT ![1] = g]
    BY DEF DamageRt
<1>3. Head(rt).damage = "none"
    BY DEF DamageRt
<1> QED BY <1>1, <1>2, <1>3, DamagedTyped

\* The line's faults preserve the types.
LEMMA TypeLine ==
    ASSUME TypeInv, LineNext
    PROVE  TypeInv'
<1> USE LinkLayerAssumption DEF TypeInv, TypeOK, Fault, txVars, rxVars
<1>1. CASE LoseTr
    BY <1>1 DEF LoseTr
<1>2. CASE LoseRt
    BY <1>2 DEF LoseRt
<1>3. CASE DamageTr
    <2>1. PICK f \in Frames : f.damage # "none" /\ tr' = [tr EXCEPT ![1] = f]
        BY <1>3, DamageTrTyped
    <2>2. ~Intact(f) /\ tr \in Seq(Frames) /\ tr # <<>>
        BY <1>3, <2>1 DEF Intact, DamageTr
    <2>3. /\ tr' \in Seq(Frames)
          /\ (\A i \in 1..Len(tr) : Intact(tr[i]) => tr[i].d \in 1..N)'
        BY <2>1, <2>2
    <2> QED BY <1>3, <2>3 DEF DamageTr
<1>4. CASE DamageRt
    <2>1. PICK f \in Frames : rt' = [rt EXCEPT ![1] = f]
        BY <1>4, DamageRtTyped
    <2>2. rt \in Seq(Frames) /\ rt # <<>>
        BY <1>4 DEF DamageRt
    <2>3. rt' \in Seq(Frames)
        BY <2>1, <2>2
    <2> QED BY <1>4, <2>3 DEF DamageRt
<1> QED BY <1>1, <1>2, <1>3, <1>4 DEF LineNext

\* The packets and frames that travel are the transmitter's: every variable
\* keeps its type.
THEOREM TypesHold == Spec => []TypeOK
<1>1. TypeInv /\ [Next]_vars => TypeInv'
    <2>1. CASE UNCHANGED vars
        BY <2>1 DEF vars, TypeInv, TypeOK
    <2> QED BY <2>1, TypeTx, TypeRx, TypeLine DEF Next
<1>2. TypeInv => TypeOK
    BY DEF TypeInv
<1> QED BY TypeInit, <1>1, <1>2, PTL DEF Spec

-----------------------------------------------------------------------------
(* What one step does to each end and to each channel.  The proof of LinkInv  *)
(* rests on these four tables, and looks at no action again.                  *)

\* The RR that lets llwrite return is taken off the line.
AckTaken ==
    /\ tpc = "write" /\ tpc' = "ready" /\ tseq' = tseq
    /\ written' = written + 1 /\ delivered' = delivered
    /\ rt # <<>> /\ Head(rt).c = "RR" /\ Head(rt).n = Flip(tseq)
    /\ rt' = Tail(rt) /\ tr' = tr

TxMove ==
    \/ tpc' = tpc /\ tseq' = tseq /\ written' = written
    \/ tpc \notin {"ok", "fail"} /\ tpc' = "fail" /\ written' = written
    \/ /\ tpc = "idle" /\ tpc' = "open" /\ tseq' = 1 /\ written' = written
       /\ rt' = <<>>
    \/ /\ tpc = "open" /\ tpc' = "ready" /\ rt # <<>> /\ Head(rt).c = "UA"
       /\ tseq' = tseq /\ written' = written
    \/ /\ tpc = "ready" /\ tpc' = "write" /\ written < N
       /\ tseq' = Flip(tseq) /\ written' = written
    \/ AckTaken
    \/ /\ tpc = "ready" /\ tpc' = "close" /\ written = N
       /\ tseq' = tseq /\ written' = written
    \/ /\ tpc = "close" /\ tpc' = "ok" /\ written' = written
       /\ rt # <<>> /\ Head(rt).c = "DISC"

\* An intact I-frame with the expected number is taken off the line.
PacketTaken ==
    /\ rpc = "read" /\ rpc' = "ready" /\ rseq' = rseq
    /\ tr # <<>> /\ Intact(Head(tr)) /\ Head(tr).n = Flip(rseq)
    /\ delivered' = Append(delivered, Head(tr).d)
    /\ tr' = Tail(tr) /\ rt' = Append(rt, RxRR(rseq))
    /\ tpc' = tpc /\ written' = written

RxMove ==
    \/ rpc' = rpc /\ rseq' = rseq /\ delivered' = delivered
    \/ /\ rpc \notin {"ua", "ok", "lost", "fail"} /\ rpc' = "fail"
       /\ delivered' = delivered
    \/ rpc = "ua" /\ rpc' = "lost" /\ delivered' = delivered
    \/ /\ rpc = "idle" /\ rpc' = "open" /\ rseq' = 0 /\ delivered' = delivered
       /\ tr' = <<>>
    \/ /\ rpc = "open" /\ rpc' = "ready" /\ tr # <<>>
       /\ rseq' = rseq /\ delivered' = delivered
    \/ /\ rpc = "ready" /\ rpc' = "read" /\ Count < N
       /\ rseq' = Flip(rseq) /\ delivered' = delivered
    \/ PacketTaken
    \/ /\ rpc = "ready" /\ rpc' = "close" /\ Count = N
       /\ rseq' = rseq /\ delivered' = delivered
    \/ /\ rpc = "close" /\ rpc' = "ua" /\ tr # <<>> /\ Head(tr).c = "DISC"
       /\ rseq' = rseq /\ delivered' = delivered
    \/ /\ rpc = "ua" /\ rpc' = "ok" /\ tr # <<>> /\ Head(tr).c = "UA"
       /\ tr' = Tail(tr) /\ rseq' = rseq /\ delivered' = delivered

\* A step that moves the transmitter goes by the table.
LEMMA TxMoves ==
    ASSUME TypeInv, [Next]_vars
    PROVE  TxMove
<1> USE DEF TxMove, TxAttempt, TxRetry, TxWaits, TxReceives, txVars, rxVars
<1>1. CASE TxNext
    <2>1. CASE TxOpen
        BY <2>1 DEF TxOpen
    <2>2. CASE TxOpened
        BY <2>2 DEF TxOpened, TxAccepts
    <2>3. CASE TxCallWrite
        BY <2>3 DEF TxCallWrite
    <2>4. CASE TxAcked
        BY <2>4 DEF TxAcked, TxAccepts, AckTaken
    <2>5. CASE TxCallClose
        BY <2>5 DEF TxCallClose
    <2>6. CASE TxDisc
        BY <2>6 DEF TxDisc, TxAccepts
    <2>7. CASE TxRefuse
        BY <2>7 DEF TxRefuse
    <2>8. CASE TxSkip
        BY <2>8 DEF TxSkip
    <2>12. CASE TxResendRR
        BY <2>12 DEF TxResendRR
    <2>9. CASE TxTimeout
        BY <2>9 DEF TxTimeout
    <2>10. CASE TxAlarmMissed
        BY <2>10 DEF TxAlarmMissed
    <2>11. CASE TxQuit
        BY <2>11 DEF TxQuit
    <2> QED BY <1>1, <2>1, <2>2, <2>3, <2>4, <2>5, <2>6, <2>7, <2>8, <2>9, <2>10,
               <2>11, <2>12 DEF TxNext
<1>2. CASE RxNext
    BY <1>2 DEF RxNext, RxOpen, RxOpened, RxCallRead, RxDeliver, RxDamaged,
        RxSet, RxStopped, RxResendRR, RxSkip, RxTimeout, RxAlarmMissed,
        RxCallClose, RxQuit, RxDisc, RxClosed, RxDiscAgain
<1>3. CASE LineNext
    BY <1>3 DEF LineNext, LoseTr, LoseRt, DamageTr, DamageRt
<1>4. CASE UNCHANGED vars
    BY <1>4 DEF vars
<1> QED BY <1>1, <1>2, <1>3, <1>4 DEF Next

\* A step that moves the receiver goes by the table.
LEMMA RxMoves ==
    ASSUME TypeInv, [Next]_vars
    PROVE  RxMove
<1> USE DEF RxMove, RxAttempt, RxRetry, RxTimed, RxWaits, RxGets, RxReturn,
        txVars, rxVars
<1>1. CASE RxNext
    <2>1. CASE RxOpen
        BY <2>1 DEF RxOpen
    <2>2. CASE RxOpened
        BY <2>2 DEF RxOpened
    <2>3. CASE RxCallRead
        BY <2>3 DEF RxCallRead, Count
    <2>4. CASE RxDeliver
        BY <2>4, DataIntact DEF RxDeliver, RxOutcome, RxSend, PacketTaken
    <2>5. CASE RxDamaged
        BY <2>5 DEF RxDamaged
    <2>6. CASE RxSet
        BY <2>6 DEF RxSet
    <2>7. CASE RxStopped
        BY <2>7 DEF RxStopped
    <2>8. CASE RxResendRR
        BY <2>8 DEF RxResendRR
    <2>9. CASE RxSkip
        BY <2>9 DEF RxSkip
    <2>10. CASE RxTimeout
        BY <2>10 DEF RxTimeout
    <2>11. CASE RxAlarmMissed
        BY <2>11 DEF RxAlarmMissed
    <2>12. CASE RxCallClose
        BY <2>12 DEF RxCallClose, Count
    <2>13. CASE RxDisc
        BY <2>13 DEF RxDisc
    <2>14. CASE RxClosed
        BY <2>14 DEF RxClosed, RxOutcome, UOutcome
    <2>15. CASE RxDiscAgain
        BY <2>15 DEF RxDiscAgain, RxOutcome, UOutcome, SOutcome, IOutcome
    <2>16. CASE RxQuit
        BY <2>16 DEF RxQuit
    <2> QED BY <1>1, <2>1, <2>2, <2>3, <2>4, <2>5, <2>6, <2>7, <2>8, <2>9,
               <2>10, <2>11, <2>12, <2>13, <2>14, <2>15, <2>16 DEF RxNext
<1>2. CASE TxNext
    BY <1>2 DEF TxNext, TxOpen, TxOpened, TxCallWrite, TxAcked, TxCallClose,
        TxQuit, TxDisc, TxRefuse, TxSkip, TxResendRR, TxTimeout, TxAlarmMissed
<1>3. CASE LineNext
    BY <1>3 DEF LineNext, LoseTr, LoseRt, DamageTr, DamageRt
<1>4. CASE UNCHANGED vars
    BY <1>4 DEF vars
<1> QED BY <1>1, <1>2, <1>3, <1>4 DEF Next

\* The frames a step of the transmitter sends.
TxSends(f) ==
    \/ tpc' = "open" /\ f = TxSET
    \/ tpc' = "write" /\ f = TxI(tseq', written' + 1)
    \/ tpc' = "close" /\ f = TxDISC
    \/ tpc = "close" /\ tpc' = "ok" /\ f = TxUA
    \/ tpc' \in {"write", "close"} /\ f.c = "RR" /\ f.damage = "none"

\* Where the frames towards the receiver are after a step, k of them gone.
TrMoved(k) ==
    \A i \in 1..Len(tr') :
        \/ i + k \in 1..Len(tr) /\ tr'[i] = tr[i + k]
        \/ /\ i + k \in 1..Len(tr) /\ tr[i + k].c \in {"I", "REJ"}
           /\ tr'[i].damage # "none" /\ ~Intact(tr'[i]) /\ tr'[i].c \in {"I", "SET"}
        \/ i = Len(tr) + 1 /\ k = 0 /\ TxSends(tr'[i])

LEMMA TrKept ==
    ASSUME TypeInv, tr' = tr
    PROVE  TrMoved(0)
BY DEF TrMoved, TypeInv, TypeOK

LEMMA TrTaken ==
    ASSUME TypeInv, tr # <<>>, tr' = Tail(tr)
    PROVE  TrMoved(1)
BY TailOfChannel DEF TrMoved, TypeInv, TypeOK

LEMMA TrSent ==
    ASSUME TypeInv, NEW f \in Frames, TxSends(f), tr' = Append(tr, f)
    PROVE  TrMoved(0)
<1>1. tr \in Seq(Frames)
    BY DEF TypeInv, TypeOK
<1> HIDE DEF TxSends
<1> QED BY <1>1, AppendToChannel DEF TrMoved

LEMMA TrDamaged ==
    ASSUME TypeInv, DamageTr
    PROVE  TrMoved(0)
<1>1. PICK g \in Frames : /\ g.damage # "none" /\ g.c \in {"I", "SET"}
                          /\ tr # <<>> /\ Head(tr).c \in {"I", "REJ"}
                          /\ tr' = [tr EXCEPT ![1] = g]
    BY DamageTrTyped
<1>2. tr \in Seq(Frames) /\ tr # <<>> /\ tr[1].c \in {"I", "REJ"}
    BY <1>1, TailOfChannel DEF TypeInv, TypeOK
<1> QED BY <1>1, <1>2 DEF TrMoved, Intact

\* An attempt that is made sends the frame of the call it belongs to.
LEMMA RetrySends ==
    ASSUME TypeInv, TxWaits, TxRetry, UNCHANGED <<tseq, written>>
    PROVE  \/ tr' = tr
           \/ TxFrame \in Frames /\ TxSends(TxFrame) /\ tr' = Append(tr, TxFrame)
<1>1. TxFrame \in Frames
    <2>1. CASE tpc = "write"
        <3>1. written + 1 \in 1..N /\ tseq \in {0, 1}
            BY <2>1, LinkLayerAssumption DEF TypeInv, TypeOK
        <3> QED BY <2>1, <3>1, FramesSent DEF TxFrame
    <2> QED BY <2>1, FramesSent DEF TxFrame, TxWaits
<1> QED BY <1>1 DEF TxRetry, TxAttempt, TxFrame, TxSends, TxWaits

\* What one step does to the channel towards the receiver.
TrStep ==
    \/ tr' = tr
    \/ tr' = <<>>
    \/ tr # <<>> /\ tr' = Tail(tr)
    \/ \E f \in Frames : TxSends(f) /\ tr' = Append(tr, f)
    \/ DamageTr

LEMMA TrSteps ==
    ASSUME TypeInv, [Next]_vars
    PROVE  TrStep
<1> USE DEF TrStep
<1>1. CASE TxNext
    <2>1. CASE UNCHANGED tr
        BY <2>1
    <2>2. CASE \E f \in Frames : TxSends(f) /\ tr' = Append(tr, f)
        BY <2>2
    <2>3. CASE TxOpen
        BY <2>1, <2>2, <2>3, FramesSent DEF TxOpen, TxAttempt, TxSends
    <2>4. CASE TxCallWrite
        <3>1. TxI(Flip(tseq), written + 1) \in Frames
            BY <2>4, FramesSent, FlipExchanges, LinkLayerAssumption
            DEF TxCallWrite, TypeInv, TypeOK
        <3> QED BY <2>1, <2>2, <2>4, <3>1 DEF TxCallWrite, TxAttempt, TxSends
    <2>5. CASE TxCallClose
        BY <2>1, <2>2, <2>5, FramesSent DEF TxCallClose, TxAttempt, TxSends
    <2>6. CASE TxDisc
        BY <2>2, <2>6, FramesSent DEF TxDisc, TxSends
    <2>7. CASE TxRefuse \/ TxTimeout
        BY <2>1, <2>2, <2>7, RetrySends DEF TxRefuse, TxTimeout, TxReceives
    <2>8. CASE TxResendRR
        <3>1. /\ TxRR(Flip(tseq)) \in Frames /\ TxRR(Flip(tseq)).c = "RR"
              /\ TxRR(Flip(tseq)).damage = "none"
            BY AnswerSent, FlipExchanges DEF TypeInv, TypeOK, TxRR, Frame
        <3>2. tpc' \in {"write", "close"} /\ tr' = Append(tr, TxRR(Flip(tseq)))
            BY <2>8 DEF TxResendRR, TxReceives, TxWaits, TxOutcome, UOutcome, txVars
        <3> QED BY <2>2, <3>1, <3>2 DEF TxSends
    <2> QED BY <1>1, <2>1, <2>3, <2>4, <2>5, <2>6, <2>7, <2>8
        DEF TxNext, TxOpened, TxAcked, TxQuit, TxSkip, TxAlarmMissed
<1>2. CASE RxNext
    BY <1>2 DEF RxNext, RxOpen, RxOpened, RxCallRead, RxDeliver, RxDamaged,
        RxSet, RxStopped, RxResendRR, RxSkip, RxTimeout, RxAlarmMissed,
        RxCallClose, RxQuit, RxDisc, RxClosed, RxDiscAgain, RxGets
<1>3. CASE LineNext
    BY <1>3 DEF LineNext, LoseTr, LoseRt, DamageRt
<1> QED BY <1>1, <1>2, <1>3 DEF Next, vars

\* Frames reach the receiver in the order in which the transmitter sent them.
LEMMA LineToReceiver ==
    ASSUME TypeInv, [Next]_vars
    PROVE  TrMoved(0) \/ TrMoved(1)
<1>1. tr' = <<>> => TrMoved(0)
    BY DEF TrMoved
<1> QED BY <1>1, TrSteps, TrKept, TrTaken, TrSent, TrDamaged DEF TrStep

\* Nothing is sent by a transmitter that has ended, or not begun.
LEMMA NothingSent ==
    ASSUME TypeInv, [Next]_vars, tr = <<>>,
           tpc' \in {"idle", "fail"} \/ tpc = "ok"
    PROVE  tr' = <<>>
<1>1. TrStep /\ TxMove
    BY TrSteps, TxMoves
<1>2. \A f : ~TxSends(f)
    BY <1>1 DEF TxSends, TxMove, AckTaken
<1>3. ~DamageTr
    BY DEF DamageTr
<1> QED BY <1>1, <1>2, <1>3 DEF TrStep

\* The frames a step of the receiver sends, as far as LinkInv looks at them: an
\* RR answers an I-frame that is not expected (or PacketTaken), REJ one that is,
\* nothing else is sent before the UA, and DISC only answers a DISC.
RxSends(f) ==
    /\ f.a = "RECV" <=> f.c = "DISC"
    /\ \/ f.c = "RR" /\ tr # <<>> /\ Head(tr).c = "I" /\ f.n = Flip(rseq)
          /\ rpc' = rpc /\ rpc \in {"open", "read", "close"}
       \/ /\ f.c \in {"UA", "REJ", "DISC"} /\ rpc' \notin {"idle", "open"}
          /\ f.c = "UA" => rpc = "open"
          /\ f.c = "REJ" => rpc = "read"
          /\ f.c = "DISC" => /\ <<rpc, rpc'>> \in {<<"close", "ua">>, <<"ua", "lost">>}
                             /\ tr # <<>> /\ Head(tr).c = "DISC"

\* The frame g, which noise has made of f.
Spoilt(f, g) ==
    /\ f.damage = "none" /\ g.damage # "none" /\ g.a = f.a
    /\ \/ f.c = "I" /\ g.c \in {"I", "SET"}
       \/ f.c = "REJ" /\ g.c = "I"

RtMoved(k) ==
    \A i \in 1..Len(rt') :
        \/ i + k \in 1..Len(rt) /\ rt'[i] = rt[i + k]
        \/ i + k \in 1..Len(rt) /\ Spoilt(rt[i + k], rt'[i])
        \/ i = Len(rt) + 1 /\ k = 0 /\ RxSends(rt'[i])

LEMMA RtKept ==
    ASSUME TypeInv, rt' = rt
    PROVE  RtMoved(0)
BY DEF RtMoved, TypeInv, TypeOK

LEMMA RtTaken ==
    ASSUME TypeInv, rt # <<>>, rt' = Tail(rt)
    PROVE  RtMoved(1)
BY TailOfChannel DEF RtMoved, TypeInv, TypeOK

LEMMA RtDamaged ==
    ASSUME TypeInv, DamageRt
    PROVE  RtMoved(0)
<1>1. PICK g \in Frames : /\ rt # <<>> /\ Spoilt(Head(rt), g)
                          /\ rt' = [rt EXCEPT ![1] = g]
    BY DamageRtTyped DEF Spoilt
<1>2. rt \in Seq(Frames) /\ Head(rt) = rt[1]
    BY <1>1, TailOfChannel DEF TypeInv, TypeOK
<1> QED BY <1>1, <1>2 DEF RtMoved

LEMMA RtSent ==
    ASSUME TypeInv, NEW f \in Frames, RxSends(f), rt' = Append(rt, f)
    PROVE  RtMoved(0)
<1>1. rt \in Seq(Frames)
    BY DEF TypeInv, TypeOK
<1> HIDE DEF RxSends
<1> QED BY <1>1, AppendToChannel DEF RtMoved

\* Frames reach the transmitter in the order in which the receiver sent them.
LEMMA LineToTransmitter ==
    ASSUME TypeInv, [Next]_vars
    PROVE  PacketTaken \/ RtMoved(0) \/ RtMoved(1)
<1>1. CASE RxNext
    <2>1. CASE UNCHANGED rt
        BY <2>1, RtKept
    <2>2. CASE \E f \in Frames : RxSends(f) /\ rt' = Append(rt, f)
        BY <2>2, RtSent
    <2>3. CASE RxOpened
        BY <2>1, <2>2, <2>3, FramesSent
        DEF RxOpened, RxSend, RxSends, RxReturn, RxUA, Frame
    <2>4. CASE RxDeliver
        BY <2>4, DataIntact
        DEF RxDeliver, RxGets, RxOutcome, RxSend, RxReturn, PacketTaken, txVars
    <2>5. CASE RxDamaged \/ RxStopped
        <3>1. /\ RxREJ(rseq) \in Frames /\ RxREJ(rseq).c = "REJ"
              /\ RxREJ(rseq).a = "SEND"
            BY FramesSent DEF TypeInv, TypeOK, RxREJ, Frame
        <3>2. rpc' \notin {"idle", "open"} /\ rpc = "read"
            BY <2>5 DEF RxDamaged, RxStopped, RxRetry, RxAttempt
        <3> QED BY <2>1, <2>2, <2>5, <3>1, <3>2
            DEF RxDamaged, RxStopped, RxReject, RxSend, RxSends
    <2>6. CASE RxResendRR
        <3>1. /\ RxRR(Flip(rseq)) \in Frames /\ RxRR(Flip(rseq)).c = "RR"
              /\ RxRR(Flip(rseq)).n = Flip(rseq) /\ RxRR(Flip(rseq)).a = "SEND"
            BY FramesSent, FlipExchanges DEF TypeInv, TypeOK, RxRR, Frame
        <3>2. /\ Head(tr).c = "I" /\ tr # <<>> /\ rpc' = rpc
              /\ rpc \in {"open", "read", "close"}
            BY <2>6 DEF RxResendRR, RxGets, RxWaits, RxTimed, RxOutcome,
                SOutcome, IOutcome, UOutcome, rxVars
        <3> QED BY <2>2, <2>6, <3>1, <3>2 DEF RxResendRR, RxSend, RxSends
    <2>7. CASE RxDisc \/ RxDiscAgain
        <3>1. RxDISC \in Frames /\ RxDISC.c = "DISC" /\ RxDISC.a = "RECV"
            BY FramesSent DEF RxDISC, Frame
        <3>2. \/ UNCHANGED rt
              \/ /\ <<rpc, rpc'>> \in {<<"close", "ua">>, <<"ua", "lost">>}
                 /\ tr # <<>> /\ Head(tr).c = "DISC" /\ rt' = Append(rt, RxDISC)
            BY <2>7 DEF RxDisc, RxDiscAgain, RxSend, RxReturn, RxGets, RxWaits,
                RxTimed, RxOutcome, SOutcome, IOutcome, UOutcome
        <3> QED BY <2>1, <2>2, <3>1, <3>2 DEF RxSends
    <2> QED BY <1>1, <2>1, <2>3, <2>4, <2>5, <2>6, <2>7
        DEF RxNext, RxOpen, RxCallRead, RxSet, RxSkip, RxTimeout, RxAlarmMissed,
            RxCallClose, RxQuit, RxClosed
<1>2. CASE TxNext
    <2>1. \/ UNCHANGED rt
          \/ rt' = <<>>
          \/ rt # <<>> /\ rt' = Tail(rt)
        BY <1>2 DEF TxNext, TxOpen, TxOpened, TxCallWrite, TxAcked, TxCallClose,
            TxQuit, TxDisc, TxRefuse, TxSkip, TxResendRR, TxTimeout, TxAlarmMissed, TxReceives
    <2>2. rt' = <<>> => RtMoved(0)
        BY DEF RtMoved
    <2> QED BY <2>1, <2>2, RtKept, RtTaken
<1>3. CASE LineNext
    BY <1>3, RtKept, RtTaken, RtDamaged DEF LineNext, LoseTr, LoseRt, DamageTr
<1>4. CASE UNCHANGED vars
    BY <1>4, RtKept DEF vars
<1> QED BY <1>1, <1>2, <1>3, <1>4 DEF Next

-----------------------------------------------------------------------------
(* The inductive invariant, part by part *)

LEMMA LinkInit == Init => LinkInv
<1>1. Init => SeqInv /\ OpenInv /\ CloseInv
    BY LinkLayerAssumption DEF Init, SeqInv, OpenInv, CloseInv, Count, Bit
<1>2. Init => DataInv /\ AckInv /\ AnswerInv /\ DeliveredInOrder
    BY LinkLayerAssumption DEF Init, DataInv, AckInv, AnswerInv, DeliveredInOrder, Count
<1> QED BY TypeInit, <1>1, <1>2 DEF LinkInv

\* The counters the invariant compares are numbers.
LEMMA CountsTyped ==
    ASSUME TypeInv
    PROVE  Count \in Nat /\ written \in Nat /\ N \in Nat
BY LinkLayerAssumption DEF TypeInv, TypeOK, Count

LEMMA OpenStep ==
    ASSUME LinkInv, [Next]_vars
    PROVE  OpenInv'
<1> USE DEF LinkInv
<1>1. TxMove /\ RxMove
    BY TxMoves, RxMoves
<1>2. tr \in Seq(Frames) /\ rt \in Seq(Frames)
    BY DEF TypeInv, TypeOK
<1>3. TxSET.c = "SET" /\ ~Intact(TxSET)
    BY DEF TxSET, Frame, Intact
<1>4. ASSUME rpc' \in {"idle", "open"}
      PROVE  /\ tpc' \in {"idle", "open", "fail"}
             /\ rt' = <<>> /\ delivered' = <<>>
             /\ \A i \in 1..Len(tr') : tr'[i] = TxSET
    <2>1. rpc \in {"idle", "open"} /\ delivered' = delivered /\ ~PacketTaken
        BY <1>1, <1>4 DEF RxMove, PacketTaken
    <2>2. /\ tpc \in {"idle", "open", "fail"} /\ rt = <<>> /\ delivered = <<>>
          /\ \A i \in 1..Len(tr) : tr[i] = TxSET
        BY <2>1 DEF OpenInv
    <2>3. tpc' \in {"idle", "open", "fail"}
        BY <1>1, <2>2 DEF TxMove, AckTaken
    <2>4. \A i \in 1..Len(tr') : tr'[i] = TxSET
        BY <1>3, <2>2, <2>3, LineToReceiver DEF TrMoved, TxSends
    <2>5. rt' = <<>>
        <3>1. RtMoved(0) \/ RtMoved(1)
            BY <2>1, LineToTransmitter
        <3>2. \A i \in 1..Len(rt') : FALSE
            <4>1. Len(rt) = 0 /\ (tr # <<>> => Head(tr) = TxSET)
                BY <1>2, <2>2, TailOfChannel
            <4> QED BY <1>3, <1>4, <3>1, <4>1 DEF RtMoved, RxSends
        <3>3. rt' \in Seq(Frames)
            BY TypeTx, TypeRx, TypeLine DEF Next, vars, TypeInv, TypeOK
        <3> QED BY <3>2, <3>3
    <2> QED BY <2>1, <2>2, <2>3, <2>4, <2>5
<1>5. ASSUME tpc' \in {"idle", "open"}
      PROVE  /\ written' = 0 /\ delivered' = <<>>
             /\ \A i \in 1..Len(tr') : tr'[i] = TxSET
    <2>1. tpc \in {"idle", "open"} /\ written' = written
        BY <1>1, <1>5 DEF TxMove, AckTaken
    <2>2. /\ written = 0 /\ delivered = <<>>
          /\ \A i \in 1..Len(tr) : tr[i] = TxSET
        BY <2>1 DEF OpenInv
    <2>3. delivered' = delivered
        <3>1. tr # <<>> => Head(tr) = TxSET
            BY <1>2, <2>2, TailOfChannel
        <3> QED BY <1>1, <1>3, <3>1 DEF RxMove, PacketTaken
    <2>4. \A i \in 1..Len(tr') : tr'[i] = TxSET
        BY <1>3, <1>5, <2>2, LineToReceiver DEF TrMoved, TxSends
    <2> QED BY <2>1, <2>2, <2>3, <2>4
<1> QED BY <1>4, <1>5 DEF OpenInv

LEMMA SeqStep ==
    ASSUME LinkInv, [Next]_vars
    PROVE  SeqInv'
<1> USE DEF LinkInv
<1>1. TxMove /\ RxMove
    BY TxMoves, RxMoves
<1>2. Count \in Nat /\ written \in Nat /\ tseq \in {0, 1} /\ rseq \in {0, 1}
    BY CountsTyped DEF TypeInv, TypeOK
<1>3. \A k \in Nat : Flip(Bit(k)) = Bit(k + 1) /\ Bit(k + 2) = Bit(k)
    BY BitAlternates
<1>4. Bit(0) = 1 /\ Bit(0 + 1) = 0
    BY DEF Bit
<1>5. /\ tpc' = "write" => tseq' = Bit(written' + 1)
      /\ tpc' \in {"open", "ready"} => tseq' = Bit(written')
    BY <1>1, <1>2, <1>3, <1>4 DEF TxMove, AckTaken, SeqInv, OpenInv
<1>6. CASE PacketTaken
    <2>1. Count' = Count + 1
        BY <1>6 DEF PacketTaken, Count, TypeInv, TypeOK
    <2>2. Bit(Count' + 1) = Bit(Count)
        BY <1>2, <1>3, <2>1
    <2> QED BY <1>5, <1>6, <2>2 DEF PacketTaken, SeqInv
<1>7. CASE ~PacketTaken
    <2>1. delivered' = delivered /\ Count' = Count
        BY <1>1, <1>7 DEF RxMove, Count
    <2>2. rpc = "idle" => Count = 0
        BY DEF OpenInv, Count
    <2>3. rpc' = "read" => rseq' = Bit(Count) /\ Count < N
        BY <1>1, <1>2, <1>3, <1>7 DEF RxMove, SeqInv
    <2>4. rpc' \in {"open", "ready"} => rseq' = Bit(Count + 1)
        BY <1>1, <1>2, <1>4, <1>7, <2>2 DEF RxMove, SeqInv
    <2>5. rpc' \in {"close", "ua"} => Count = N
        BY <1>1, <1>7 DEF RxMove, SeqInv
    <2> QED BY <1>5, <2>1, <2>3, <2>4, <2>5 DEF SeqInv
<1> QED BY <1>6, <1>7

LEMMA CloseStep ==
    ASSUME LinkInv, [Next]_vars
    PROVE  CloseInv'
<1> USE DEF LinkInv
<1>1. TxMove /\ RxMove
    BY TxMoves, RxMoves
<1>2. /\ tpc \in {"close", "ok", "fail"} =>
            tpc' \in {"close", "ok", "fail"} /\ written' = written
      /\ tpc = "ok" => tpc' = "ok"
      /\ rpc \in {"ua", "ok", "lost"} => rpc' \in {"ua", "ok", "lost"}
    BY <1>1 DEF TxMove, AckTaken, RxMove, PacketTaken
<1>3. tpc' \in {"close", "ok"} => written' = N
    BY <1>1 DEF TxMove, AckTaken, CloseInv
<1>4. \A i \in 1..Len(tr') :
          /\ tr'[i].c = "DISC" => tpc' \in {"close", "ok", "fail"} /\ written' = N
          /\ tr'[i].c = "UA" => tpc' = "ok"
    <2>1. TxSET.c = "SET" /\ TxDISC.c = "DISC" /\ TxUA.c = "UA"
        BY DEF TxSET, TxDISC, TxUA, Frame
    <2>2. \A n, d : TxI(n, d).c = "I"
        BY DEF TxI, Frame
    <2> QED BY <1>2, <1>3, <2>1, <2>2, LineToReceiver DEF TrMoved, TxSends, CloseInv
<1>5. \A i \in 1..Len(rt') : rt'[i].c = "DISC" => rpc' \in {"ua", "ok", "lost"}
    <2>1. CASE PacketTaken
        <3>1. RxRR(rseq).c = "RR" /\ rt \in Seq(Frames) /\ rt' = Append(rt, RxRR(rseq))
            BY <2>1 DEF PacketTaken, RxRR, Frame, TypeInv, TypeOK
        <3> QED BY <1>2, <3>1 DEF CloseInv
    <2>2. CASE RtMoved(0) \/ RtMoved(1)
        BY <1>2, <2>2 DEF RtMoved, RxSends, Spoilt, CloseInv
    <2> QED BY <2>1, <2>2, LineToTransmitter
<1>6. /\ tr # <<>> => Head(tr) = tr[1] /\ 1 \in 1..Len(tr)
      /\ rt # <<>> => Head(rt) = rt[1] /\ 1 \in 1..Len(rt)
    BY TailOfChannel DEF TypeInv, TypeOK
<1>7. /\ rpc' \in {"ua", "lost"} => tpc' \in {"close", "ok", "fail"} /\ written' = N
      /\ rpc' = "ok" => tpc' = "ok"
    BY <1>1, <1>2, <1>6 DEF RxMove, PacketTaken, CloseInv
<1>8. tpc' = "ok" => rpc' \in {"ua", "ok", "lost"}
    BY <1>1, <1>2, <1>6 DEF TxMove, AckTaken, CloseInv
<1> QED BY <1>3, <1>4, <1>5, <1>7, <1>8 DEF CloseInv

\* The transmitter accepts an RR for the packet it is writing only if that
\* packet has been delivered.
LEMMA AckIsTrue ==
    ASSUME LinkInv, tpc = "write", NEW i \in 1..Len(rt),
           rt[i].c = "RR", rt[i].n = Flip(tseq)
    PROVE  Count = written + 1
<1> USE DEF LinkInv
<1>1. Count \in Nat /\ written \in Nat /\ tseq \in {0, 1} /\ written < N
    BY CountsTyped DEF TypeInv, TypeOK
<1>2. SUFFICES ASSUME Count = written PROVE FALSE
    BY <1>1 DEF DataInv
<1>3. rt[i].n = Bit(written + 1) /\ tseq = Bit(written + 1)
    BY <1>1, <1>2 DEF AckInv, SeqInv
<1> QED BY <1>1, <1>3, FlipExchanges

LEMMA AckTakenIsTrue ==
    ASSUME LinkInv, AckTaken
    PROVE  Count = written + 1
<1>1. Head(rt) = rt[1] /\ 1 \in 1..Len(rt)
    BY TailOfChannel DEF AckTaken, LinkInv, TypeInv, TypeOK
<1> QED BY <1>1, AckIsTrue DEF AckTaken

\* The packet the receiver takes is the one being written, and the next one.
LEMMA PacketTakenIsNext ==
    ASSUME LinkInv, PacketTaken
    PROVE  /\ Head(tr).d = Count + 1 /\ Count = written
           /\ Count' = Count + 1 /\ rseq = Bit(Count)
<1> USE DEF LinkInv
<1>1. Head(tr) = tr[1] /\ 1 \in 1..Len(tr)
    BY TailOfChannel DEF PacketTaken, TypeInv, TypeOK
<1>2. /\ Count <= tr[1].d /\ tr[1].d <= written + 1 /\ written <= Count
      /\ tr[1].n = Bit(tr[1].d) /\ tr[1].d \in Nat
    BY <1>1, LinkLayerAssumption DEF PacketTaken, DataInv, TypeInv
<1>3. rseq = Bit(Count) /\ Count \in Nat /\ written \in Nat
    BY CountsTyped DEF PacketTaken, SeqInv
<1>4. tr[1].n # Bit(Count)
    BY <1>1, <1>3, BitAlternates DEF PacketTaken
<1>5. Count' = Count + 1
    BY DEF PacketTaken, Count, TypeInv, TypeOK
<1> QED BY <1>1, <1>2, <1>3, <1>4, <1>5

LEMMA DataStep ==
    ASSUME LinkInv, [Next]_vars
    PROVE  DataInv' /\ DeliveredInOrder'
<1> USE DEF LinkInv
<1>1. TxMove /\ RxMove /\ SeqInv'
    BY TxMoves, RxMoves, SeqStep
<1>2. Count \in Nat /\ written \in Nat /\ tr \in Seq(Frames) /\ delivered \in Seq(1..N)
    BY CountsTyped DEF TypeInv, TypeOK
<1>3. CASE PacketTaken
    <2>1. /\ Head(tr).d = Count + 1 /\ Count = written
          /\ Count' = Count + 1 /\ written' = written
        BY <1>3, PacketTakenIsNext DEF PacketTaken
    <2>2. /\ Head(tr) = tr[1] /\ 1 \in 1..Len(tr) /\ Intact(tr[1])
          /\ Len(tr') = Len(tr) - 1 /\ Len(tr) \in Nat
          /\ \A i \in 1..Len(tr') : i + 1 \in 1..Len(tr) /\ tr'[i] = tr[i + 1]
        BY <1>2, <1>3, TailOfChannel DEF PacketTaken
    <2>3. ASSUME NEW i \in 1..Len(tr'), Intact(tr'[i])
          PROVE  /\ Count' <= tr'[i].d /\ tr'[i].d <= written' + 1
                 /\ tr'[i].n = Bit(tr'[i].d)
        <3>1. i + 1 \in 1..Len(tr) /\ tr'[i] = tr[i + 1] /\ 1 < i + 1
            BY <2>2
        <3>2. Intact(tr[i + 1]) /\ Intact(tr[1]) /\ tr[1].d = Count'
            BY <2>1, <2>2, <2>3, <3>1
        <3>3. tr[1].d <= tr[i + 1].d
            BY <2>2, <3>1, <3>2 DEF DataInv
        <3>4. tr[i + 1].d <= written + 1 /\ tr[i + 1].n = Bit(tr[i + 1].d)
            BY <3>1, <3>2 DEF DataInv
        <3> QED BY <2>1, <3>1, <3>2, <3>3, <3>4
    <2>4. ASSUME NEW i \in 1..Len(tr'), NEW j \in 1..Len(tr'),
                 i < j, Intact(tr'[i]), Intact(tr'[j])
          PROVE  tr'[i].d <= tr'[j].d
        <3>1. /\ i + 1 \in 1..Len(tr) /\ tr'[i] = tr[i + 1]
              /\ j + 1 \in 1..Len(tr) /\ tr'[j] = tr[j + 1] /\ i + 1 < j + 1
            BY <2>2, <2>4
        <3> QED BY <2>4, <3>1 DEF DataInv
    <2>5. DeliveredInOrder'
        <3>1. /\ delivered' = Append(delivered, Count + 1)
              /\ \A i \in 1..Len(delivered) : delivered[i] = i
            BY <1>3, <2>1 DEF PacketTaken, DeliveredInOrder
        <3> QED BY <1>2, <3>1 DEF DeliveredInOrder, Count
    <2> QED BY <1>2, <2>1, <2>3, <2>4, <2>5 DEF DataInv
<1>4. CASE ~PacketTaken
    <2>1. delivered' = delivered /\ Count' = Count
        BY <1>1, <1>4 DEF RxMove, Count
    <2>2. /\ written' \in Nat /\ written <= written'
          /\ written' <= Count /\ Count <= written' + 1
        BY <1>1, <1>2, AckTakenIsTrue DEF TxMove, AckTaken, DataInv
    <2>3. ASSUME NEW i \in 1..Len(tr), Intact(tr[i])
          PROVE  tr[i].d \in Nat /\ tr[i].d <= written' + 1
        <3>1. tr[i].d \in Nat /\ tr[i].d <= written + 1
            BY <2>3, LinkLayerAssumption DEF DataInv, TypeInv
        <3> QED BY <1>2, <2>2, <3>1
    <2>4. \A f : TxSends(f) /\ Intact(f) => f.d = written' + 1 /\ f.n = Bit(written' + 1)
        BY <1>1, FramesAttempted DEF TxSends, SeqInv, Intact
    <2>5. ASSUME NEW i \in 1..Len(tr'), Intact(tr'[i])
          PROVE  /\ Count <= tr'[i].d /\ tr'[i].d <= written' + 1
                 /\ tr'[i].n = Bit(tr'[i].d)
        <3>1. PICK k \in {0, 1} : TrMoved(k)
            BY LineToReceiver
        <3>2. CASE i + k \in 1..Len(tr) /\ tr'[i] = tr[i + k]
            BY <2>3, <2>5, <3>2 DEF DataInv
        <3>3. CASE TxSends(tr'[i])
            <4>1. tr'[i].d = written' + 1 /\ tr'[i].n = Bit(written' + 1)
                BY <2>4, <2>5, <3>3
            <4>2. Count <= tr'[i].d /\ tr'[i].d <= written' + 1
                <5>1. PICK w \in Nat : w = written'
                    BY <2>2
                <5>2. w + 1 <= w + 1
                    OBVIOUS
                <5> QED BY <2>2, <4>1, <5>1, <5>2, Zenon
            <4>3. tr'[i].n = Bit(tr'[i].d)
                BY <4>1
            <4> QED BY <4>2, <4>3
        <3> QED BY <2>5, <3>1, <3>2, <3>3 DEF TrMoved
    <2>6. ASSUME NEW i \in 1..Len(tr'), NEW j \in 1..Len(tr'),
                 i < j, Intact(tr'[i]), Intact(tr'[j])
          PROVE  tr'[i].d <= tr'[j].d
        <3>1. PICK k \in {0, 1} : TrMoved(k)
            BY LineToReceiver
        <3>2. i + k \in 1..Len(tr) /\ tr'[i] = tr[i + k]
            BY <1>2, <2>6, <3>1 DEF TrMoved
        <3>3. CASE j + k \in 1..Len(tr) /\ tr'[j] = tr[j + k]
            BY <2>6, <3>2, <3>3 DEF DataInv
        <3>4. CASE TxSends(tr'[j])
            BY <2>3, <2>4, <2>6, <3>2, <3>4
        <3> QED BY <2>6, <3>1, <3>3, <3>4 DEF TrMoved
    <2> QED BY <1>2, <2>1, <2>2, <2>5, <2>6 DEF DataInv, DeliveredInOrder
<1> QED BY <1>3, <1>4

LEMMA AckStep ==
    ASSUME LinkInv, [Next]_vars
    PROVE  AckInv'
<1> USE DEF LinkInv
<1>1. TxMove /\ RxMove
    BY TxMoves, RxMoves
<1>2. /\ Count \in Nat /\ written \in Nat /\ N \in Nat
      /\ rt \in Seq(Frames) /\ tr \in Seq(Frames)
    BY CountsTyped DEF TypeInv, TypeOK
<1>3. CASE PacketTaken
    <2>1. /\ Count = written /\ Count' = Count + 1 /\ rseq = Bit(Count)
          /\ written' = written /\ rt' = Append(rt, RxRR(rseq))
        BY <1>3, PacketTakenIsNext DEF PacketTaken
    <2>2. Bit(Count + 1) # Bit(Count) /\ Bit(Count' + 1) = Bit(Count)
        BY <1>2, <2>1, BitAlternates
    <2>3. ASSUME Count' < N,
                 NEW i \in 1..Len(rt'), NEW j \in 1..Len(rt'), i < j,
                 rt'[i].c = "RR", rt'[i].n = Bit(Count' + 1)
          PROVE  FALSE
        <3>1. i \in 1..Len(rt) /\ rt'[i] = rt[i]
            BY <1>2, <2>1, <2>3
        <3>2. rt[i].n = Bit(Count + 1)
            BY <1>2, <2>1, <2>3, <3>1 DEF AckInv
        <3> QED BY <2>2, <2>3, <3>1, <3>2
    <2> QED BY <1>2, <2>1, <2>3 DEF AckInv
<1>4. CASE AckTaken
    <2>1. /\ Count = written + 1 /\ Count' = Count /\ written' = written + 1
          /\ rt # <<>> /\ rt' = Tail(rt) /\ Head(rt).c = "RR"
          /\ Head(rt).n = Flip(tseq) /\ tseq = Bit(written + 1)
        BY <1>4, AckTakenIsTrue DEF AckTaken, Count, SeqInv
    <2>2. rt[1].n = Bit(Count + 1) /\ rt[1].c = "RR"
        BY <1>2, <2>1, BitAlternates, TailOfChannel
    <2>3. ASSUME Count < N, NEW i \in 1..Len(rt'), rt'[i].c = "RR"
          PROVE  rt'[i].n = Bit(Count + 1)
        <3>1. /\ i + 1 \in 1..Len(rt) /\ 1 \in 1..Len(rt) /\ 1 < i + 1
              /\ rt'[i] = rt[i + 1]
            BY <1>2, <2>1, <2>3, TailOfChannel
        <3> QED BY <2>1, <2>2, <2>3, <3>1 DEF AckInv
    <2> QED BY <1>2, <2>1, <2>3 DEF AckInv
<1>5. CASE ~PacketTaken /\ ~AckTaken
    <2>1. delivered' = delivered /\ Count' = Count /\ written' = written
        BY <1>1, <1>5 DEF RxMove, TxMove, Count
    <2>2. ASSUME NEW f, RxSends(f), f.c = "RR", Count < N
          PROVE  f.n = Bit(Count + 1)
        <3>1. tr # <<>> /\ Head(tr).c = "I" /\ f.n = Flip(rseq) /\ rpc \in {"open", "read"}
            BY <1>2, <2>2 DEF RxSends, SeqInv
        <3>2. rpc # "open"
            <4>1. Head(tr) = tr[1] /\ 1 \in 1..Len(tr)
                BY <1>2, <3>1, TailOfChannel
            <4> QED BY <3>1, <4>1 DEF OpenInv, TxSET, Frame
        <3> QED BY <1>2, <3>1, <3>2, BitAlternates DEF SeqInv
    <2>3. PICK k \in {0, 1} : RtMoved(k)
        BY <1>5, LineToTransmitter
    <2>4. ASSUME Count = written, Count < N, NEW i \in 1..Len(rt'), rt'[i].c = "RR"
          PROVE  rt'[i].n = Bit(Count + 1)
        BY <2>2, <2>3, <2>4 DEF RtMoved, Spoilt, AckInv
    <2>5. ASSUME Count = written + 1, Count < N,
                 NEW i \in 1..Len(rt'), NEW j \in 1..Len(rt'), i < j,
                 rt'[i].c = "RR", rt'[j].c = "RR", rt'[i].n = Bit(Count + 1)
          PROVE  rt'[j].n = Bit(Count + 1)
        <3>1. i + k \in 1..Len(rt) /\ rt'[i] = rt[i + k]
            <4>1. \/ j + k \in 1..Len(rt)
                  \/ j = Len(rt) + 1 /\ k = 0
                BY <2>3, <2>5 DEF RtMoved
            <4>2. Len(rt) \in Nat /\ i \in Nat /\ j \in Nat /\ 1 <= i
                BY <1>2, <2>5
            <4>3. i + k \in 1..Len(rt)
                BY <2>3, <2>5, <4>1, <4>2
            <4>4. i # Len(rt) + 1 \/ k # 0
                BY <4>2, <4>3
            <4>5. rt'[i] = rt[i + k]
                BY <2>3, <2>5, <4>4 DEF RtMoved, Spoilt
            <4> QED BY <4>3, <4>5
        <3>2. CASE j + k \in 1..Len(rt) /\ rt'[j] = rt[j + k]
            BY <2>5, <3>1, <3>2 DEF AckInv
        <3>3. CASE RxSends(rt'[j])
            BY <2>2, <2>5, <3>3
        <3> QED BY <2>3, <2>5, <3>2, <3>3 DEF RtMoved, Spoilt
    <2> QED BY <2>1, <2>4, <2>5 DEF AckInv
<1> QED BY <1>3, <1>4, <1>5

\* What ends the wait of llclose is sent before its packets are all delivered.
LEMMA NoneFinal ==
    ASSUME LinkInv, Count = N, NEW f, RxSends(f)
    PROVE  ~Final(f)
<1> USE DEF LinkInv
<1>1. N \in Nat /\ tr \in Seq(Frames)
    BY CountsTyped DEF TypeInv, TypeOK
<1>2. rpc # "read"
    BY <1>1 DEF SeqInv
<1>3. SUFFICES ASSUME f.c = "RR" PROVE f.n # Bit(N + 1)
    BY <1>2 DEF Final, RxSends
<1>4. tr # <<>> /\ Head(tr).c = "I" /\ f.n = Flip(rseq) /\ rpc \in {"open", "close"}
    BY <1>2, <1>3 DEF RxSends
<1>5. rpc # "open"
    <2>1. Head(tr) = tr[1] /\ 1 \in 1..Len(tr)
        BY <1>1, <1>4, TailOfChannel
    <2> QED BY <1>4, <2>1 DEF OpenInv, TxSET, Frame
<1>6. rseq = Bit(N + 1) /\ rseq \in {0, 1}
    BY <1>4, <1>5 DEF AnswerInv, TypeInv, TypeOK
<1> QED BY <1>4, <1>6, FlipExchanges

LEMMA AnswerStep ==
    ASSUME LinkInv, [Next]_vars
    PROVE  AnswerInv'
<1> USE DEF LinkInv
<1>1. TxMove /\ RxMove
    BY TxMoves, RxMoves
<1>2. /\ Count \in Nat /\ written \in Nat /\ N \in Nat
      /\ rt \in Seq(Frames) /\ tseq \in {0, 1}
    BY CountsTyped DEF TypeInv, TypeOK
<1>3. /\ tpc' = "close" => tseq' = Bit(N)
      /\ rpc' = "close" => rseq' = Bit(N + 1)
    BY <1>1 DEF TxMove, AckTaken, RxMove, PacketTaken, SeqInv, AnswerInv
<1>4. \A i \in 1..Len(rt') :
          /\ rt'[i].c = "DISC" <=> rt'[i].a = "RECV"
          /\ rt'[i].c # "SET" /\ ~Intact(rt'[i])
    <2>1. CASE PacketTaken
        <3>1. /\ RxRR(rseq).c = "RR" /\ RxRR(rseq).a = "SEND" /\ ~Intact(RxRR(rseq))
              /\ rt' = Append(rt, RxRR(rseq))
            BY <2>1 DEF PacketTaken, RxRR, Frame, Intact
        <3> HIDE DEF Intact
        <3> QED BY <1>2, <3>1 DEF AnswerInv
    <2>2. CASE RtMoved(0) \/ RtMoved(1)
        <3>1. \A f : RxSends(f) => f.c # "SET" /\ ~Intact(f) /\ (f.c = "DISC" <=> f.a = "RECV")
            BY DEF RxSends, Intact
        <3>2. \A i \in 1..Len(rt) : \A g : Spoilt(rt[i], g) =>
                  g.c # "SET" /\ ~Intact(g) /\ (g.c = "DISC" <=> g.a = "RECV")
            BY DEF Spoilt, Intact, AnswerInv
        <3> QED BY <2>2, <3>1, <3>2 DEF RtMoved, AnswerInv
    <2> QED BY <2>1, <2>2, LineToTransmitter
<1>5. ASSUME Count' = N
      PROVE  /\ \A i, j \in 1..Len(rt') :
                   i < j /\ rt'[i].c = "RR" /\ Final(rt'[i]) => ~Final(rt'[j])
             /\ written' = N => \A i \in 1..Len(rt') : ~Final(rt'[i])
    <2>1. CASE PacketTaken
        <3>1. /\ Count = written /\ N = Count + 1
              /\ written' = written /\ rt' = Append(rt, RxRR(rseq))
            BY <1>5, <2>1, PacketTakenIsNext DEF PacketTaken
        <3>2. Bit(Count + 1) # Bit(N + 1)
            BY <1>2, <3>1, BitAlternates
        <3>3. ASSUME NEW i \in 1..Len(rt'), NEW j \in 1..Len(rt'), i < j, rt'[i].c = "RR"
              PROVE  ~Final(rt'[i])
            <4>1. i \in 1..Len(rt) /\ rt'[i] = rt[i]
                BY <1>2, <3>1, <3>3
            <4>2. rt[i].n = Bit(Count + 1)
                BY <1>2, <3>1, <3>3, <4>1 DEF AckInv
            <4> QED BY <3>2, <4>1, <4>2 DEF Final
        <3> QED BY <1>2, <3>1, <3>3
    <2>2. CASE AckTaken
        <3>1. /\ Count = written + 1 /\ Count = N
              /\ rt # <<>> /\ rt' = Tail(rt) /\ Head(rt).c = "RR"
              /\ Head(rt).n = Flip(tseq) /\ tseq = Bit(N)
            BY <1>5, <2>2, AckTakenIsTrue DEF AckTaken, Count, SeqInv
        <3>2. rt[1].c = "RR" /\ Final(rt[1])
            BY <1>2, <3>1, BitAlternates, TailOfChannel DEF Final
        <3>3. ASSUME NEW i \in 1..Len(rt') PROVE ~Final(rt'[i])
            <4>1. /\ i + 1 \in 1..Len(rt) /\ 1 \in 1..Len(rt) /\ 1 < i + 1
                  /\ rt'[i] = rt[i + 1]
                BY <1>2, <3>1, <3>3, TailOfChannel
            <4> HIDE DEF Final
            <4> QED BY <3>1, <3>2, <4>1 DEF AnswerInv
        <3> QED BY <3>3
    <2>3. CASE ~PacketTaken /\ ~AckTaken
        <3>1. Count = N /\ written' = written
            BY <1>1, <1>5, <2>3 DEF RxMove, TxMove, Count
        <3>2. PICK k \in {0, 1} : RtMoved(k)
            BY <2>3, LineToTransmitter
        <3>3. \A f, g : Spoilt(f, g) => ~Final(g)
            BY DEF Spoilt, Final
        <3>4. \A i \in 1..Len(rt') :
                  Final(rt'[i]) => i + k \in 1..Len(rt) /\ rt'[i] = rt[i + k]
            <4> HIDE DEF Final
            <4> QED BY <3>1, <3>2, <3>3, NoneFinal DEF RtMoved
        <3>5. ASSUME NEW i \in 1..Len(rt'), NEW j \in 1..Len(rt'),
                     i < j, rt'[i].c = "RR", Final(rt'[i]), Final(rt'[j])
              PROVE  FALSE
            <4>1. /\ i + k \in 1..Len(rt) /\ rt'[i] = rt[i + k]
                  /\ j + k \in 1..Len(rt) /\ rt'[j] = rt[j + k] /\ i + k < j + k
                BY <1>2, <3>4, <3>5
            <4> HIDE DEF Final
            <4> QED BY <3>1, <3>5, <4>1 DEF AnswerInv
        <3>6. ASSUME written' = N, NEW i \in 1..Len(rt') PROVE ~Final(rt'[i])
            <4> HIDE DEF Final
            <4> QED BY <3>1, <3>4, <3>6 DEF AnswerInv
        <3> QED BY <3>5, <3>6
    <2> QED BY <2>1, <2>2, <2>3
<1> QED BY <1>3, <1>4, <1>5 DEF AnswerInv

-----------------------------------------------------------------------------
(* The theorems *)

LEMMA LinkInvStep ==
    ASSUME LinkInv, [Next]_vars
    PROVE  LinkInv'
<1>1. TypeInv'
    <2>1. CASE UNCHANGED vars
        BY <2>1 DEF vars, LinkInv, TypeInv, TypeOK
    <2> QED BY <2>1, TypeTx, TypeRx, TypeLine DEF Next, LinkInv
<1> QED BY <1>1, SeqStep, OpenStep, CloseStep, DataStep, AckStep, AnswerStep
        DEF LinkInv

\* The inductive invariant holds.
THEOREM LinkInvHolds == Spec => []LinkInv
<1>1. LinkInv /\ [Next]_vars => LinkInv'
    BY LinkInvStep
<1> QED BY LinkInit, <1>1, PTL DEF Spec

\* The receiving application gets packets 1, 2, 3, ... in order, once each and
\* undamaged, for any number of packets, attempts and faults.
THEOREM OrderHolds == Spec => []DeliveredInOrder
<1>1. LinkInv => DeliveredInOrder
    BY DEF LinkInv
<1> QED BY LinkInvHolds, <1>1, PTL

\* What llwrite reports as written has been delivered.
THEOREM AckedHolds == Spec => []AckedIsDelivered
<1>1. LinkInv => AckedIsDelivered
    BY DEF LinkInv, DataInv, AckedIsDelivered, Count
<1> QED BY LinkInvHolds, <1>1, PTL

\* No RR on the line can be mistaken for the acknowledgement of a packet that
\* has not been delivered.
THEOREM NoFalseAckHolds == Spec => []NoFalseAck
<1>1. LinkInv => NoFalseAck
    BY AckIsTrue DEF NoFalseAck, Count
<1> QED BY LinkInvHolds, <1>1, PTL

\* The receiver has no more packets than there are.
LEMMA CountBounded ==
    ASSUME LinkInv
    PROVE  Count \in Nat /\ Count <= N
<1>1. Count \in Nat /\ delivered \in Seq(1..N) /\ \A i \in 1..Count : delivered[i] = i
    BY CountsTyped DEF LinkInv, TypeInv, TypeOK, DeliveredInOrder, Count
<1>2. CASE Count = 0
    BY <1>1, <1>2, LinkLayerAssumption
<1>3. CASE Count # 0
    <2>1. Count \in 1..Count
        BY <1>1, <1>3
    <2>2. delivered[Count] \in 1..N
        BY <1>1, <2>1, ElementOfSeq DEF Count
    <2> QED BY <1>1, <2>1, <2>2, LinkLayerAssumption
<1> QED BY <1>2, <1>3

\* The two ends open, transfer and close in phases that agree.
THEOREM PhasesHold == Spec => []PhasesAgree
<1>1. ASSUME LinkInv PROVE PhasesAgree
    <2>1. Count <= N /\ Count \in Nat /\ written \in Nat /\ N \in Nat
        BY <1>1, CountBounded, CountsTyped DEF LinkInv
    <2>2. tpc \in {"close", "ok"} => Len(delivered) = N
        BY <1>1, <2>1 DEF LinkInv, CloseInv, DataInv, Count
    <2> QED BY <1>1, <2>2 DEF LinkInv, CloseInv, OpenInv, PhasesAgree
<1> QED BY LinkInvHolds, <1>1, PTL

\* The frame that ends a wait of the transmitter without being its answer.
LEMMA RefusedIsREJ ==
    ASSUME LinkInv, TxRefuse
    PROVE  /\ tpc = "write" /\ Head(rt).c = "REJ" /\ Head(rt).n = Flip(tseq)
<1> USE DEF LinkInv
<1> DEFINE f == Head(rt)
<1>1. /\ f = rt[1] /\ 1 \in 1..Len(rt) /\ f \in Frames
      /\ TxOutcome(f) = "stop" /\ ~TxAccepts(f) /\ tpc \in {"open", "write", "close"}
    BY TailOfChannel DEF TypeInv, TypeOK, TxRefuse, TxReceives, TxWaits
<1>2. f.c = "DISC" <=> f.a = "RECV"
    BY <1>1 DEF AnswerInv
<1>3. f.a \in {"SEND", "RECV"} /\ f.c # "SET"
    BY <1>1 DEF Frames, AnswerInv
<1> HIDE DEF f
<1>4. tpc # "open"
    BY <1>1, <1>2, <1>3 DEF TxOutcome, UOutcome, TxAccepts
<1>5. f.c \in {"RR", "REJ"} /\ f.n = Flip(tseq)
    <2>1. CASE f.c = "DISC"
        <3>1. tpc = "close"
            BY <1>1, <1>4, <2>1 DEF f, CloseInv
        <3> QED BY <1>1, <1>2, <2>1, <3>1 DEF TxAccepts
    <2>2. CASE f.c # "DISC"
        BY <1>1, <1>3, <1>4, <2>2 DEF TxOutcome, SOutcome
    <2> QED BY <2>1, <2>2
<1>6. tpc # "close"
    <2> SUFFICES ASSUME tpc = "close" PROVE FALSE
        OBVIOUS
    <2>1. written = N /\ Count = N /\ tseq = Bit(N) /\ N \in Nat
        BY CountBounded, CountsTyped DEF CloseInv, DataInv, AnswerInv
    <2>2. Final(f)
        BY <1>5, <2>1, BitAlternates DEF Final
    <2> HIDE DEF Final
    <2> QED BY <1>1, <2>1, <2>2 DEF AnswerInv
<1> QED BY <1>1, <1>2, <1>3, <1>4, <1>5, <1>6 DEF TxAccepts, f

\* No late or repeated acknowledgement costs the transmitter an attempt.
THEOREM OnlyRejectedHolds == Spec => OnlyRejected
<1>1. LinkInv /\ [Next]_vars
         => [TxRefuse => tpc = "write" /\ Head(rt).c = "REJ"]_vars
    BY RefusedIsREJ
<1> QED BY LinkInvHolds, <1>1, PTL DEF Spec, OnlyRejected

\* A step moves one end at most.
LEMMA OneEndMoves ==
    ASSUME [Next]_vars
    PROVE  UNCHANGED <<rpc, delivered>> \/ UNCHANGED <<tpc, written>>
<1> USE DEF txVars, rxVars
<1>1. CASE TxNext
    BY <1>1 DEF TxNext, TxOpen, TxOpened, TxCallWrite, TxAcked, TxCallClose,
        TxQuit, TxDisc, TxRefuse, TxSkip, TxResendRR, TxTimeout, TxAlarmMissed
<1>2. CASE RxNext
    BY <1>2 DEF RxNext, RxOpen, RxOpened, RxCallRead, RxDeliver, RxDamaged,
        RxSet, RxStopped, RxResendRR, RxSkip, RxTimeout, RxAlarmMissed,
        RxCallClose, RxQuit, RxDisc, RxClosed, RxDiscAgain
<1>3. CASE LineNext
    BY <1>3 DEF LineNext, LoseTr, LoseRt, DamageTr, DamageRt
<1> QED BY <1>1, <1>2, <1>3 DEF Next, vars

\* The link layer implements PacketTransfer: each step is one of its steps, or
\* changes nothing its users can see.
THEOREM TransferImplemented == Spec => ImplementsTransfer
<1>1. Init => Transfer!Init
    BY DEF Init, Transfer!Init, Ended
<1>2. ASSUME LinkInv, [Next]_vars
      PROVE  [Transfer!Next]_(Transfer!vars)
    <2> USE DEF Transfer!vars, Transfer!Next, Ended
    <2>1. CASE UNCHANGED <<rpc, delivered>>
        <3>1. TxMove
            BY <1>2, TxMoves DEF LinkInv
        <3>2. CASE AckTaken
            <4>1. Len(delivered) = written + 1
                BY <1>2, <3>2, AckTakenIsTrue DEF Count
            <4> QED BY <2>1, <3>2, <4>1 DEF AckTaken, Transfer!Acknowledge
        <3>3. CASE tpc = "close" /\ tpc' = "ok" /\ written' = written
            <4>1. rpc' \in {"ua", "ok", "lost"} /\ (rpc = "ok" => tpc = "ok")
                BY <1>2, <3>3, CloseStep DEF LinkInv, CloseInv
            <4> QED BY <2>1, <3>3, <4>1 DEF Transfer!WriterDone
        <3>4. CASE tpc \notin {"ok", "fail"} /\ tpc' = "fail" /\ written' = written
            <4>1. tpc # "lost" /\ tpc # "ua"
                BY <1>2 DEF LinkInv, TypeInv, TypeOK
            <4> QED BY <2>1, <3>4, <4>1 DEF Transfer!WriterFails
        <3>5. CASE tpc' = tpc /\ written' = written
            BY <2>1, <3>5
        <3> QED BY <2>1, <3>1, <3>2, <3>3, <3>4, <3>5 DEF TxMove
    <2>2. CASE UNCHANGED <<tpc, written>>
        <3>1. RxMove
            BY <1>2, RxMoves DEF LinkInv
        <3>2. CASE PacketTaken
            <4>1. /\ delivered' = Append(delivered, written + 1)
                  /\ Len(delivered) = written /\ written < N
                BY <1>2, <3>2, PacketTakenIsNext
                DEF PacketTaken, LinkInv, SeqInv, Count
            <4> QED BY <2>2, <3>2, <4>1 DEF PacketTaken, Transfer!Deliver
        <3>3. CASE rpc = "close" /\ rpc' = "ua" /\ delivered' = delivered
            <4>1. written' = N
                BY <1>2, <3>3, CloseStep DEF CloseInv
            <4>2. Len(delivered) = N
                BY <1>2, <3>3 DEF LinkInv, SeqInv, Count
            <4> QED BY <2>2, <3>3, <4>1, <4>2 DEF Transfer!ReaderCloses
        <3>4. CASE rpc = "ua" /\ rpc' \in {"ok", "lost"} /\ delivered' = delivered
            <4>1. rpc' = "ok" => tpc' = "ok"
                BY <1>2, CloseStep DEF CloseInv
            <4> QED BY <2>2, <3>4, <4>1 DEF Transfer!ReaderDone
        <3>5. CASE /\ rpc \notin {"ua", "ok", "lost", "fail"} /\ rpc' = "fail"
                   /\ delivered' = delivered
            BY <2>2, <3>5 DEF Transfer!ReaderFails
        <3>6. CASE rpc' = rpc /\ delivered' = delivered
            BY <2>2, <3>6
        <3> QED BY <2>2, <3>1, <3>2, <3>3, <3>4, <3>5, <3>6 DEF RxMove
    <2> QED BY <1>2, <2>1, <2>2, OneEndMoves
<1> QED BY LinkInvHolds, <1>1, <1>2, PTL DEF Spec, ImplementsTransfer, Transfer!Spec

=============================================================================

------------------------ MODULE LinkLayerTimed_proofs ------------------------
(***************************************************************************)
(* The transmitter's statistics, for every timeout, number of attempts and *)
(* number of faults: LinkLayerTimedInv!TimedInv is inductive and implies   *)
(* that the time is the timeouts, that the frames add up, and that what is *)
(* counted has happened.                                                   *)
(***************************************************************************)
EXTENDS LinkLayerTimedInv, LinkLayer_proofs, FiniteSetTheorems

-----------------------------------------------------------------------------
(* Counting the marked frames of a channel *)

BadAt(channel) == {i \in 1..Len(channel) : Bad(channel[i])}

Mark(f) == IF Bad(f) THEN 1 ELSE 0

LEMMA BadFinite ==
    ASSUME NEW S, NEW s \in Seq(S)
    PROVE  IsFiniteSet(BadAt(s)) /\ Marks(s) = Cardinality(BadAt(s)) /\ Marks(s) \in Nat
<1>1. Len(s) \in Nat
    OBVIOUS
<1>2. IsFiniteSet(1..Len(s))
    BY <1>1, FS_Interval
<1>3. BadAt(s) \in SUBSET (1..Len(s))
    BY DEF BadAt
<1>4. IsFiniteSet(BadAt(s))
    BY <1>2, <1>3, FS_Subset
<1>5. Marks(s) = Cardinality(BadAt(s))
    BY DEF Marks, BadAt
<1> QED BY <1>4, <1>5, FS_CardinalityType

LEMMA MarksNone == Marks(<<>>) = 0
<1>1. {i \in 1..Len(<<>>) : Bad(<<>>[i])} = {}
    OBVIOUS
<1> QED BY <1>1, FS_EmptySet DEF Marks

LEMMA MarksSent ==
    ASSUME NEW S, NEW s \in Seq(S), NEW f \in S
    PROVE  Marks(Append(s, f)) = Marks(s) + Mark(f)
<1> DEFINE t == Append(s, f)
<1>1. /\ t \in Seq(S) /\ Len(t) = Len(s) + 1 /\ Len(s) \in Nat
      /\ \A i \in 1..Len(s) : t[i] = s[i]
      /\ t[Len(s) + 1] = f
    BY AppendToChannel
<1> HIDE DEF t
<1>2. BadAt(t) = IF Bad(f) THEN BadAt(s) \cup {Len(s) + 1} ELSE BadAt(s)
    <2> HIDE DEF Bad
    <2> QED BY <1>1 DEF BadAt
<1>3. Len(s) + 1 \notin BadAt(s)
    BY <1>1 DEF BadAt
<1>4. /\ IsFiniteSet(BadAt(s)) /\ Marks(s) = Cardinality(BadAt(s)) /\ Marks(s) \in Nat
      /\ Marks(t) = Cardinality(BadAt(t))
    BY <1>1, BadFinite
<1>5. CASE Bad(f)
    <2>1. Cardinality(BadAt(t)) = Cardinality(BadAt(s)) + 1
        BY <1>2, <1>3, <1>4, <1>5, FS_AddElement
    <2> QED BY <1>4, <1>5, <2>1 DEF Mark, t
<1>6. CASE ~Bad(f)
    BY <1>2, <1>4, <1>6 DEF Mark, t
<1> QED BY <1>5, <1>6

LEMMA MarksTaken ==
    ASSUME NEW S, NEW s \in Seq(S), s # <<>>
    PROVE  Marks(Tail(s)) + Mark(Head(s)) <= Marks(s)
<1> DEFINE t == Tail(s)
<1>1. /\ t \in Seq(S) /\ Len(s) \in Nat \ {0} /\ Head(s) = s[1] /\ Len(t) = Len(s) - 1
      /\ \A i \in 1..Len(t) : i + 1 \in 1..Len(s) /\ t[i] = s[i + 1]
    BY TailOfChannel
<1> HIDE DEF t
<1> DEFINE later == BadAt(s) \ {1}
           shift == [i \in BadAt(t) |-> i + 1]
<1>2. shift \in Injection(BadAt(t), later)
    <2>1. \A i \in BadAt(t) : i \in Nat /\ i + 1 \in later
        <3> HIDE DEF Bad
        <3> QED BY <1>1 DEF BadAt
    <2>2. shift \in [BadAt(t) -> later]
        BY <2>1
    <2>3. \A i, j \in BadAt(t) : shift[i] = shift[j] => i = j
        BY <2>1
    <2> QED BY <2>2, <2>3 DEF Injection, IsInjective
<1>3. /\ IsFiniteSet(BadAt(s)) /\ Marks(s) = Cardinality(BadAt(s)) /\ Marks(s) \in Nat
      /\ Marks(t) = Cardinality(BadAt(t)) /\ Marks(t) \in Nat
    BY <1>1, BadFinite
<1>4. IsFiniteSet(later) /\ Cardinality(later) = IF Bad(s[1]) THEN Marks(s) - 1 ELSE Marks(s)
    <2>1. 1 \in BadAt(s) <=> Bad(s[1])
        BY <1>1 DEF BadAt
    <2>2. /\ IsFiniteSet(later)
          /\ Cardinality(later) = IF 1 \in BadAt(s) THEN Cardinality(BadAt(s)) - 1
                                                   ELSE Cardinality(BadAt(s))
        BY <1>3, FS_RemoveElement
    <2> QED BY <1>3, <2>1, <2>2
<1>5. Marks(t) <= Cardinality(later)
    <2> HIDE DEF shift, later
    <2> QED BY <1>2, <1>3, <1>4, FS_Injection
<1> HIDE DEF later
<1>6. Marks(t) + Mark(s[1]) <= Marks(s)
    BY <1>3, <1>4, <1>5 DEF Mark
<1> QED BY <1>1, <1>6 DEF t

LEMMA MarksSpoilt ==
    ASSUME NEW S, NEW s \in Seq(S), s # <<>>, NEW g \in S, NEW t, t = [s EXCEPT ![1] = g]
    PROVE  Marks(t) <= Marks(s) + 1
<1>1. /\ t \in Seq(S) /\ Len(t) = Len(s) /\ Len(s) \in Nat
      /\ \A i \in 1..Len(s) : i # 1 => t[i] = s[i]
    OBVIOUS
<1>2. BadAt(t) \in SUBSET (BadAt(s) \cup {1})
    <2> HIDE DEF Bad
    <2> QED BY <1>1 DEF BadAt
<1>3. /\ IsFiniteSet(BadAt(s)) /\ Marks(s) = Cardinality(BadAt(s)) /\ Marks(s) \in Nat
      /\ Marks(t) = Cardinality(BadAt(t)) /\ Marks(t) \in Nat
    BY <1>1, BadFinite
<1>4. /\ IsFiniteSet(BadAt(s) \cup {1})
      /\ Cardinality(BadAt(s) \cup {1}) = IF 1 \in BadAt(s) THEN Marks(s) ELSE Marks(s) + 1
    BY <1>3, FS_AddElement
<1>5. Marks(t) <= Cardinality(BadAt(s) \cup {1})
    BY <1>2, <1>3, <1>4, FS_Subset
<1> QED BY <1>3, <1>4, <1>5

-----------------------------------------------------------------------------
(* Errors *)

\* The steps of LinkLayerTimed are steps of LinkLayer, or leave it alone.
LEMMA TimedIsNext ==
    ASSUME [TimedNext]_timedVars
    PROVE  [Next]_vars
<1>1. TxTimed => TxNext
    BY DEF TxTimed, TxNext
<1>2. RxTimedStep => RxNext
    BY DEF RxTimedStep, RxNext
<1>3. LineTimed => LineNext
    BY DEF LineTimed, LineNext
<1>4. Tick \/ UNCHANGED timedVars => UNCHANGED vars
    BY DEF Tick, timedVars
<1> QED BY <1>1, <1>2, <1>3, <1>4 DEF TimedNext, Progress, Next

\* What a step may do to a channel without adding a mark, and by adding one.
Cleaner(channel, next) ==
    \/ next = channel
    \/ next = <<>>
    \/ channel # <<>> /\ next = Tail(channel)
    \/ \E f \in Frames : ~Bad(f) /\ next = Append(channel, f)

LEMMA CleanerMarks ==
    ASSUME NEW s \in Seq(Frames), NEW t, Cleaner(s, t)
    PROVE  Marks(t) \in Nat /\ Marks(t) <= Marks(s)
<1>1. Marks(s) \in Nat
    BY BadFinite
<1>2. CASE t = s
    BY <1>1, <1>2
<1>3. CASE t = <<>>
    BY <1>1, <1>3, MarksNone
<1>4. CASE s # <<>> /\ t = Tail(s)
    <2>1. Marks(t) + Mark(Head(s)) <= Marks(s)
        BY <1>4, MarksTaken
    <2>2. t \in Seq(Frames)
        BY <1>4
    <2>3. Marks(t) \in Nat
        BY <2>2, BadFinite
    <2> QED BY <1>1, <2>1, <2>3 DEF Mark
<1>5. CASE \E f \in Frames : ~Bad(f) /\ t = Append(s, f)
    BY <1>1, <1>5, MarksSent DEF Mark
<1> QED BY <1>2, <1>3, <1>4, <1>5 DEF Cleaner

\* A step of the transmitter counts an error for a marked frame it has read.
TxErr ==
    /\ Cleaner(tr, tr') /\ UNCHANGED <<rauto, faults>>
    /\ \/ Cleaner(rt, rt') /\ errors' = errors
       \/ rt # <<>> /\ rt' = Tail(rt) /\ Bad(Head(rt)) /\ errors' = errors + 1

LEMMA TxErrs ==
    ASSUME LinkInv, TimedTypeOK, TxTimed
    PROVE  TxErr
<1>1. TypeInv /\ [Next]_vars /\ tr \in Seq(Frames) /\ errors \in Nat
    BY TimedIsNext DEF LinkInv, TypeInv, TypeOK, TimedNext, Progress, TimedTypeOK
<1>2. Cleaner(tr, tr')
    <2>1. ~DamageTr
        BY <1>1 DEF DamageTr, TxTimed, TxOpen, TxOpened, TxCallWrite, TxAcked, TxCallClose,
           TxDisc, TxSkip, TxRefuse, TxResendRR, TxTimeout, Fault, TimedTypeOK, TypeOK
    <2>2. \A f : TxSends(f) => ~Bad(f)
        BY DEF TxSends, Bad, TxSET, TxI, TxDISC, TxUA, Frame
    <2> QED BY <1>1, <2>1, <2>2, TrSteps DEF TrStep, Cleaner
<1>3. UNCHANGED <<rauto, faults>>
    BY DEF TxTimed, TxOpen, TxOpened, TxCallWrite, TxAcked, TxCallClose,
           TxDisc, TxSkip, TxRefuse, TxResendRR, TxTimeout, rxVars
<1>4. CASE TxRefuse /\ errors' = errors + Errors(Head(rt))
    <2>1. Errors(Head(rt)) = 1 /\ Bad(Head(rt))
        BY <1>4, RefusedIsREJ DEF Errors, Bad
    <2>2. rt # <<>> /\ rt' = Tail(rt)
        BY <1>4 DEF TxRefuse, TxReceives
    <2> QED BY <1>2, <1>3, <1>4, <2>1, <2>2 DEF TxErr
<1>5. CASE TxResendRR /\ errors' = errors + 1
    <2>1. rt # <<>> /\ rt' = Tail(rt) /\ Head(rt).c = "I"
        BY <1>5 DEF TxResendRR, TxReceives, TxOutcome, UOutcome, SOutcome
    <2>2. Head(rt) = rt[1] /\ 1 \in 1..Len(rt)
        BY <2>1, TailOfChannel DEF LinkInv, TypeInv, TypeOK
    <2>3. ~Intact(rt[1])
        BY <2>2 DEF LinkInv, AnswerInv
    <2>4. Bad(Head(rt))
        BY <2>1, <2>2, <2>3 DEF Intact, Bad
    <2> QED BY <1>2, <1>3, <1>5, <2>1, <2>4 DEF TxErr
<1>6. CASE /\ \/ TxOpen \/ TxOpened \/ TxCallWrite \/ TxAcked \/ TxCallClose
              \/ TxDisc \/ TxSkip \/ TxTimeout
           /\ errors' = errors
    <2>1. Cleaner(rt, rt')
        BY <1>6 DEF Cleaner, TxOpen, TxOpened, TxCallWrite, TxAcked, TxCallClose,
           TxDisc, TxSkip, TxTimeout, TxReceives
    <2> QED BY <1>2, <1>3, <1>6, <2>1 DEF TxErr
<1> QED BY <1>4, <1>5, <1>6 DEF TxTimed

\* A step of the receiver rejects for a marked frame it has read, or that has
\* stopped its automaton.
RxErr ==
    /\ UNCHANGED <<errors, faults>>
    /\ \/ Cleaner(tr, tr') /\ Cleaner(rt, rt') /\ rauto' \in {rauto, "run"}
       \/ /\ tr # <<>> /\ tr' = Tail(tr) /\ Bad(Head(tr)) /\ rt' = rt
          /\ rauto = "run" /\ rauto' = "STOP_UA"
       \/ /\ \E f \in Frames : rt' = Append(rt, f)
          /\ \/ tr # <<>> /\ tr' = Tail(tr) /\ Bad(Head(tr)) /\ rauto' = rauto
             \/ tr' = tr /\ rauto = "STOP_UA" /\ rauto' = "run"

LEMMA RxErrs ==
    ASSUME LinkInv, TimedTypeOK, SetInv, RxTimedStep
    PROVE  RxErr
<1>1. /\ tr \in Seq(Frames) /\ errors' = errors /\ faults' = faults
      /\ rseq \in {0, 1} /\ Flip(rseq) \in {0, 1}
    <2>1. rseq \in {0, 1}
        BY DEF LinkInv, TypeInv, TypeOK
    <2> QED BY <2>1, FlipExchanges
        DEF LinkInv, TypeInv, TypeOK, RxTimedStep, statVars, RxOpen, RxOpened, RxCallRead,
            RxDeliver, RxDamaged, RxSet, RxStopped, RxResendRR, RxSkip, RxCallClose,
            RxDisc, RxClosed, RxDiscAgain, RxTimeout
<1>2. tr # <<>> => Head(tr) = tr[1] /\ 1 \in 1..Len(tr)
    BY <1>1, TailOfChannel
<1>3. /\ RxUA \in Frames /\ RxDISC \in Frames /\ RxRR(rseq) \in Frames
      /\ RxRR(Flip(rseq)) \in Frames /\ RxREJ(rseq) \in Frames
      /\ ~Bad(RxUA) /\ ~Bad(RxDISC) /\ ~Bad(RxRR(rseq)) /\ ~Bad(RxRR(Flip(rseq)))
    BY <1>1, FramesSent DEF Bad, RxUA, RxDISC, RxRR, Frame
<1>4. CASE RxSet
    <2>1. /\ rpc = "read" /\ rauto = "run" /\ tr # <<>> /\ tr' = Tail(tr)
          /\ Head(tr).c = "SET" /\ rt' = rt /\ rauto' = "STOP_UA"
        BY <1>4 DEF RxSet, RxGets, RxOutcome, IOutcome
    <2>2. Bad(Head(tr))
        BY <1>2, <2>1 DEF SetInv, Bad
    <2> QED BY <1>1, <2>1, <2>2 DEF RxErr
<1>5. CASE RxDamaged
    <2>1. /\ tr # <<>> /\ tr' = Tail(tr) /\ Bad(Head(tr)) /\ rauto' = rauto
          /\ rt' = rt \/ rt' = Append(rt, RxREJ(rseq))
        BY <1>5 DEF RxDamaged, RxGets, RxOutcome, IOutcome, RxReject, RxSend, Bad
    <2> QED BY <1>1, <1>3, <2>1 DEF RxErr, Cleaner
<1>6. CASE RxStopped
    <2>1. /\ tr' = tr /\ rauto = "STOP_UA" /\ rauto' = "run"
          /\ rt' = rt \/ rt' = Append(rt, RxREJ(rseq))
        BY <1>6 DEF RxStopped, RxReject, RxSend
    <2> QED BY <1>1, <1>3, <2>1 DEF RxErr, Cleaner
<1>7. CASE \/ RxOpen \/ RxOpened \/ RxCallRead \/ RxDeliver \/ RxResendRR \/ RxSkip
           \/ RxCallClose \/ RxDisc \/ RxClosed \/ RxDiscAgain \/ RxTimeout
    <2>1. tr' = tr \/ tr' = <<>> \/ (tr # <<>> /\ tr' = Tail(tr))
        BY <1>7 DEF RxOpen, RxOpened, RxCallRead, RxDeliver, RxResendRR, RxSkip,
           RxCallClose, RxDisc, RxClosed, RxDiscAgain, RxTimeout, RxGets
    <2>2. \/ rt' = rt
          \/ rt' = Append(rt, RxUA) \/ rt' = Append(rt, RxDISC)
          \/ rt' = Append(rt, RxRR(rseq)) \/ rt' = Append(rt, RxRR(Flip(rseq)))
        BY <1>7 DEF RxOpen, RxOpened, RxCallRead, RxDeliver, RxResendRR, RxSkip,
           RxCallClose, RxDisc, RxClosed, RxDiscAgain, RxTimeout, RxSend
    <2>3. rauto' \in {rauto, "run"}
        BY <1>7 DEF RxOpen, RxOpened, RxCallRead, RxDeliver, RxResendRR, RxSkip,
           RxCallClose, RxDisc, RxClosed, RxDiscAgain, RxTimeout, rxVars
    <2>4. Cleaner(tr, tr') /\ Cleaner(rt, rt')
        BY <1>3, <2>1, <2>2 DEF Cleaner
    <2> QED BY <1>1, <2>3, <2>4 DEF RxErr
<1> QED BY <1>4, <1>5, <1>6, <1>7 DEF RxTimedStep

\* A step of the line marks one frame at most.
LineErr ==
    /\ faults' = faults + 1 /\ UNCHANGED <<errors, rauto>>
    /\ \/ rt' = rt /\ tr # <<>> /\ (tr' = Tail(tr) \/ \E g \in Frames : tr' = [tr EXCEPT ![1] = g])
       \/ tr' = tr /\ rt # <<>> /\ (rt' = Tail(rt) \/ \E g \in Frames : rt' = [rt EXCEPT ![1] = g])

LEMMA LineErrs ==
    ASSUME TypeInv, LineTimed
    PROVE  LineErr
<1>1. errors' = errors
    BY DEF LineTimed, statVars
<1>2. CASE LoseTr
    BY <1>1, <1>2 DEF LoseTr, Fault, rxVars, LineErr
<1>3. CASE LoseRt
    BY <1>1, <1>3 DEF LoseRt, Fault, rxVars, LineErr
<1>4. CASE DamageTr
    BY <1>1, <1>4, DamageTrTyped DEF DamageTr, Fault, rxVars, LineErr
<1>5. CASE DamageRt
    BY <1>1, <1>5, DamageRtTyped DEF DamageRt, Fault, rxVars, LineErr
<1> QED BY <1>2, <1>3, <1>4, <1>5 DEF LineTimed

LEMMA ErrorStep ==
    ASSUME LinkInv, TimedTypeOK, SetInv, ErrorInv, [TimedNext]_timedVars
    PROVE  ErrorInv'
<1>1. /\ TypeInv /\ tr \in Seq(Frames) /\ rt \in Seq(Frames)
      /\ errors \in Nat /\ faults \in Nat /\ rauto \in {"run", "STOP_UA"}
    BY DEF LinkInv, TypeInv, TypeOK, TimedTypeOK
<1>0. errors \in Nat /\ faults \in Nat
    BY <1>1
<1>2. /\ Marks(tr) \in Nat /\ Marks(rt) \in Nat
      /\ errors + Marks(tr) + Marks(rt) + Stopped <= faults
    BY <1>1, BadFinite DEF ErrorInv
<1>3. /\ Cleaner(tr, tr') => Marks(tr') \in Nat /\ Marks(tr') <= Marks(tr)
      /\ Cleaner(rt, rt') => Marks(rt') \in Nat /\ Marks(rt') <= Marks(rt)
    BY <1>1, CleanerMarks
<1>4. /\ tr # <<>> /\ tr' = Tail(tr) /\ Bad(Head(tr)) =>
            Marks(tr') \in Nat /\ Marks(tr') + 1 <= Marks(tr)
      /\ rt # <<>> /\ rt' = Tail(rt) /\ Bad(Head(rt)) =>
            Marks(rt') \in Nat /\ Marks(rt') + 1 <= Marks(rt)
    <2>1. ASSUME NEW s \in Seq(Frames), s # <<>>, Bad(Head(s))
          PROVE  Marks(Tail(s)) \in Nat /\ Marks(Tail(s)) + 1 <= Marks(s)
        <3>1. Marks(Tail(s)) + Mark(Head(s)) <= Marks(s)
            BY <2>1, MarksTaken
        <3>2. Tail(s) \in Seq(Frames)
            BY <2>1
        <3> QED BY <2>1, <3>1, <3>2, BadFinite DEF Mark
    <2> QED BY <1>1, <2>1
<1>5. /\ \A f \in Frames : rt' = Append(rt, f) =>
            Marks(rt') \in Nat /\ Marks(rt') <= Marks(rt) + 1
    <2>1. ASSUME NEW f \in Frames, rt' = Append(rt, f)
          PROVE  Marks(rt') \in Nat /\ Marks(rt') <= Marks(rt) + 1
        <3>1. Marks(rt') = Marks(rt) + Mark(f)
            BY <1>1, <2>1, MarksSent
        <3> QED BY <1>2, <3>1 DEF Mark
    <2> QED BY <2>1
<1> SUFFICES errors' + Marks(tr') + Marks(rt') + Stopped' <= faults'
    BY DEF ErrorInv, Marks
<1> HIDE DEF Marks, Cleaner, Bad
<1>6. Stopped \in {0, 1} /\ Stopped' \in {0, 1}
    BY DEF Stopped
<1>7. CASE TxTimed
    <2>1. TxErr
        BY <1>7, TxErrs
    <2>2. /\ Marks(tr') \in Nat /\ Marks(tr') <= Marks(tr)
          /\ Stopped' = Stopped /\ faults' = faults
        BY <1>3, <2>1 DEF TxErr, Stopped
    <2>3. \/ errors' = errors /\ Marks(rt') \in Nat /\ Marks(rt') <= Marks(rt)
          \/ errors' = errors + 1 /\ Marks(rt') \in Nat /\ Marks(rt') + 1 <= Marks(rt)
        BY <1>3, <1>4, <2>1 DEF TxErr
    <2>4. errors' + Marks(rt') <= errors + Marks(rt) /\ errors' \in Nat /\ Marks(rt') \in Nat
        BY <1>0, <1>2, <2>3
    <2>5. errors' + Marks(tr') + Marks(rt') <= errors + Marks(tr) + Marks(rt)
        BY <1>0, <1>2, <2>2, <2>4
    <2>6. errors' + Marks(tr') + Marks(rt') \in Nat /\ errors + Marks(tr) + Marks(rt) \in Nat
        BY <1>0, <1>2, <2>2, <2>4
    <2> QED BY <1>0, <1>2, <1>6, <2>2, <2>5, <2>6
<1>8. CASE RxTimedStep
    <2>1. RxErr
        BY <1>8, RxErrs
    <2>2. errors' = errors /\ faults' = faults
        BY <2>1 DEF RxErr
    <2>3. CASE Cleaner(tr, tr') /\ Cleaner(rt, rt') /\ rauto' \in {rauto, "run"}
        <3>1. Stopped' <= Stopped
            BY <1>1, <2>3 DEF Stopped
        <3>2. /\ Marks(tr') \in Nat /\ Marks(tr') <= Marks(tr)
              /\ Marks(rt') \in Nat /\ Marks(rt') <= Marks(rt)
            BY <1>3, <2>3
        <3> QED BY <1>0, <1>2, <1>6, <2>2, <3>1, <3>2
    <2>4. CASE /\ tr # <<>> /\ tr' = Tail(tr) /\ Bad(Head(tr)) /\ rt' = rt
               /\ rauto = "run" /\ rauto' = "STOP_UA"
        <3>1. Marks(tr') \in Nat /\ Marks(tr') + 1 <= Marks(tr) /\ Marks(rt') = Marks(rt)
            BY <1>4, <2>4
        <3> QED BY <1>0, <1>2, <1>6, <2>2, <3>1
    <2>5. CASE /\ \E f \in Frames : rt' = Append(rt, f)
               /\ tr # <<>> /\ tr' = Tail(tr) /\ Bad(Head(tr)) /\ rauto' = rauto
        <3>1. /\ Marks(tr') \in Nat /\ Marks(tr') + 1 <= Marks(tr)
              /\ Marks(rt') \in Nat /\ Marks(rt') <= Marks(rt) + 1 /\ Stopped' = Stopped
            BY <1>4, <1>5, <2>5 DEF Stopped
        <3> QED BY <1>0, <1>2, <1>6, <2>2, <3>1
    <2>6. CASE /\ \E f \in Frames : rt' = Append(rt, f)
               /\ tr' = tr /\ rauto = "STOP_UA" /\ rauto' = "run"
        <3>1. /\ Marks(rt') \in Nat /\ Marks(rt') <= Marks(rt) + 1
              /\ Marks(tr') = Marks(tr) /\ Stopped = 1 /\ Stopped' = 0
            BY <1>5, <2>6 DEF Stopped
        <3> QED BY <1>0, <1>2, <2>2, <3>1
    <2> QED BY <2>1, <2>3, <2>4, <2>5, <2>6 DEF RxErr
<1>9. CASE LineTimed
    <2>1. LineErr
        BY <1>1, <1>9, LineErrs
    <2>2. faults' = faults + 1 /\ errors' = errors /\ Stopped' = Stopped
        BY <2>1 DEF LineErr, Stopped
    <2>3. ASSUME NEW s \in Seq(Frames), s # <<>>, NEW t,
                 t = Tail(s) \/ \E g \in Frames : t = [s EXCEPT ![1] = g]
          PROVE  Marks(t) \in Nat /\ Marks(t) <= Marks(s) + 1
        <3>1. Marks(s) \in Nat
            BY BadFinite
        <3>2. CASE t = Tail(s)
            <4>1. Marks(t) \in Nat /\ Marks(t) <= Marks(s)
                BY <2>3, <3>2, CleanerMarks DEF Cleaner
            <4> QED BY <3>1, <4>1
        <3>3. CASE \E g \in Frames : t = [s EXCEPT ![1] = g]
            <4>1. Marks(t) <= Marks(s) + 1
                BY <2>3, <3>3, MarksSpoilt
            <4>2. t \in Seq(Frames)
                BY <2>3, <3>3
            <4> QED BY <4>1, <4>2, BadFinite
        <3> QED BY <2>3, <3>2, <3>3
    <2>4. \/ /\ rt' = rt /\ tr # <<>>
             /\ tr' = Tail(tr) \/ \E g \in Frames : tr' = [tr EXCEPT ![1] = g]
          \/ /\ tr' = tr /\ rt # <<>>
             /\ rt' = Tail(rt) \/ \E g \in Frames : rt' = [rt EXCEPT ![1] = g]
        BY <2>1 DEF LineErr
    <2>5. \/ Marks(rt') = Marks(rt) /\ Marks(tr') \in Nat /\ Marks(tr') <= Marks(tr) + 1
          \/ Marks(tr') = Marks(tr) /\ Marks(rt') \in Nat /\ Marks(rt') <= Marks(rt) + 1
        BY <1>1, <2>3, <2>4
    <2>6. /\ Marks(tr') \in Nat /\ Marks(rt') \in Nat
          /\ Marks(tr') + Marks(rt') <= Marks(tr) + Marks(rt) + 1
        BY <1>2, <2>5
    <2> QED BY <1>0, <1>2, <1>6, <2>2, <2>6
<1>10. CASE Tick \/ UNCHANGED timedVars
    <2>1. UNCHANGED <<errors, faults, tr, rt, rauto>>
        BY <1>10 DEF Tick, timedVars, vars
    <2> QED BY <1>2, <2>1 DEF Stopped
<1> QED BY <1>7, <1>8, <1>9, <1>10 DEF TimedNext, Progress

-----------------------------------------------------------------------------
(* A transmitter that nobody answers any more *)

\* A call returns successfully only for the answer it waits for.
LEMMA ReturnIsAnswered ==
    ASSUME TypeInv, [Next]_vars, TxWaits, ~Answered
    PROVE  tpc' = "fail" \/ UNCHANGED <<tpc, tseq, written>>
<1>1. TxMove
    BY TxMoves
<1>2. rt # <<>> => Head(rt) = rt[1] /\ 1 \in 1..Len(rt)
    BY TailOfChannel DEF TypeInv, TypeOK
<1>3. ~TxOpened /\ ~TxAcked /\ ~TxDisc
    BY <1>2 DEF TxOpened, TxAcked, TxDisc, TxReceives, Answered
<1>4. tpc' \in {tpc, "fail"}
    <2>1. TxNext => tpc' \in {tpc, "fail"}
        BY <1>3 DEF TxNext, TxOpen, TxCallWrite, TxCallClose, TxQuit, TxRefuse, TxSkip,
           TxResendRR, TxTimeout, TxAlarmMissed, TxRetry, TxAttempt, txVars, TxWaits
    <2>2. RxNext \/ LineNext => tpc' = tpc
        BY DEF RxNext, RxOpen, RxOpened, RxCallRead, RxDeliver, RxDamaged, RxSet, RxStopped,
           RxResendRR, RxSkip, RxTimeout, RxAlarmMissed, RxCallClose, RxQuit, RxDisc,
           RxClosed, RxDiscAgain, LineNext, LoseTr, LoseRt, DamageTr, DamageRt, txVars
    <2> QED BY <2>1, <2>2 DEF Next, vars
<1> QED BY <1>1, <1>4 DEF TxMove, AckTaken, TxWaits

\* What an answer sent now would have to be accepted.
LEMMA NoNewAnswer ==
    ASSUME LinkInv, NEW f, RxSends(f), TxWaits, TxAccepts(f)
    PROVE  /\ tpc = "open" => rpc = "open"
           /\ tpc = "write" => rpc # "fail" /\ Count # N
           /\ tpc = "close" => rpc \in {"close", "ua"}
<1> USE DEF LinkInv
<1>1. CASE tpc = "open"
    BY <1>1 DEF TxAccepts, RxSends
<1>2. CASE tpc = "close"
    BY <1>2 DEF TxAccepts, RxSends
<1>3. CASE tpc = "write"
    <2>1. /\ f.c = "RR" /\ f.n = Flip(tseq) /\ f.n = Flip(rseq)
          /\ rpc \in {"open", "read", "close"}
        BY <1>3 DEF TxAccepts, RxSends
    <2>2. /\ Count \in Nat /\ written \in Nat /\ N \in Nat /\ written < N
          /\ written <= Count /\ Count <= written + 1
          /\ tseq = Bit(written + 1) /\ Count <= N
        BY <1>3, CountsTyped, CountBounded, LinkLayerAssumption DEF TypeInv, DataInv, SeqInv
    <2>3. rpc # "open"
        BY <1>3 DEF OpenInv
    <2>4. ASSUME rpc = "close", Count = N PROVE FALSE
        <3>1. rseq = Bit(N + 1) /\ tseq = Bit(N)
            BY <2>2, <2>4 DEF AnswerInv
        <3>2. Flip(rseq) # Flip(tseq)
            BY <2>2, <3>1, BitAlternates
        <3> QED BY <2>1, <3>2
    <2>5. rpc = "read" => Count # N
        BY <2>2 DEF SeqInv
    <2> QED BY <1>3, <2>1, <2>2, <2>3, <2>4, <2>5
<1> QED BY <1>1, <1>2, <1>3 DEF TxWaits

LEMMA DoomedStays ==
    ASSUME LinkInv, Doomed, [Next]_vars
    PROVE  Doomed'
<1> USE DEF LinkInv
<1>1. TxMove /\ RxMove
    BY TxMoves, RxMoves
<1>2. CASE tpc = "fail"
    BY <1>1, <1>2 DEF TxMove, AckTaken, Doomed
<1>3. CASE tpc # "fail"
    <2>1. TxWaits /\ ~Answered
        BY <1>3 DEF Doomed, TxWaits
    <2>2. CASE tpc' = "fail"
        BY <2>2 DEF Doomed
    <2>3. CASE UNCHANGED <<tpc, tseq, written>>
        <3>1. \/ tpc = "open"  /\ rpc \notin {"idle", "open"}
              \/ tpc = "write" /\ (rpc = "fail" \/ Count = N)
              \/ tpc = "close" /\ rpc \in {"lost", "fail"}
            BY <1>3 DEF Doomed
        <3>2. PacketTaken => tpc = "open"
            <4>1. PacketTaken => rpc = "read" /\ Count # N
                BY CountsTyped, LinkLayerAssumption DEF PacketTaken, SeqInv
            <4> QED BY <3>1, <4>1
        <3>3. \/ tpc = "open"  /\ rpc' \notin {"idle", "open"}
              \/ tpc = "write" /\ (rpc' = "fail" \/ Count' = N)
              \/ tpc = "close" /\ rpc' \in {"lost", "fail"}
            <4>1. rpc \notin {"idle", "open"} => rpc' \notin {"idle", "open"}
                BY <1>1 DEF RxMove, PacketTaken
            <4>2. rpc = "fail" => rpc' = "fail"
                BY <1>1 DEF RxMove, PacketTaken
            <4>3. rpc = "lost" => rpc' = "lost"
                BY <1>1 DEF RxMove, PacketTaken
            <4>4. ~PacketTaken => Count' = Count
                BY <1>1 DEF RxMove, Count
            <4> QED BY <3>1, <3>2, <4>1, <4>2, <4>3, <4>4
        <3>4. \A f : (TxOutcome(f) = "stop" /\ TxAccepts(f))'
                        => TxOutcome(f) = "stop" /\ TxAccepts(f)
            BY <2>3 DEF TxOutcome, TxAccepts
        <3>5. \A f : TxAccepts(f) => f.c \in {"UA", "RR", "DISC"} /\ (tpc = "open" => f.c = "UA")
            BY DEF TxAccepts
        <3>6. \A f : RxSends(f) => ~TxAccepts(f)
            <4> SUFFICES ASSUME NEW f, RxSends(f), TxAccepts(f) PROVE FALSE
                OBVIOUS
            <4> HIDE DEF LinkInv
            <4>1. /\ tpc = "open" => rpc = "open"
                  /\ tpc = "write" => rpc # "fail" /\ Count # N
                  /\ tpc = "close" => rpc \in {"close", "ua"}
                BY <2>1, NoNewAnswer
            <4> QED BY <3>1, <4>1
        <3>7. ASSUME NEW i \in 1..Len(rt'), TxOutcome(rt'[i]) = "stop", TxAccepts(rt'[i])
              PROVE  FALSE
            <4>1. CASE PacketTaken
                <5>1. rt \in Seq(Frames) /\ rt' = Append(rt, RxRR(rseq)) /\ RxRR(rseq) \in Frames
                    BY <4>1, FramesSent DEF PacketTaken, TypeInv, TypeOK
                <5>2. RxRR(rseq).c = "RR"
                    BY DEF RxRR, Frame
                <5>3. (i \in 1..Len(rt) /\ rt'[i] = rt[i]) \/ rt'[i] = RxRR(rseq)
                    BY <5>1, AppendToChannel
                <5> QED BY <2>1, <3>2, <3>5, <3>7, <4>1, <5>2, <5>3 DEF Answered
            <4>2. CASE RtMoved(0) \/ RtMoved(1)
                <5>1. \/ \E j \in 1..Len(rt) : rt'[i] = rt[j]
                      \/ \E j \in 1..Len(rt) : Spoilt(rt[j], rt'[i])
                      \/ RxSends(rt'[i])
                    BY <4>2 DEF RtMoved
                <5>2. \A j \in 1..Len(rt) : ~Spoilt(rt[j], rt'[i])
                    BY <3>5, <3>7 DEF Spoilt
                <5> QED BY <2>1, <3>6, <3>7, <5>1, <5>2 DEF Answered
            <4> QED BY <4>1, <4>2, LineToTransmitter
        <3>8. ~Answered'
            BY <3>4, <3>7 DEF Answered
        <3> QED BY <2>3, <3>3, <3>8 DEF Doomed
    <2> QED BY <2>1, <2>2, <2>3, ReturnIsAnswered
<1> QED BY <1>2, <1>3

-----------------------------------------------------------------------------
(* What one step of the transmitter does about the answer it waits for *)

SameCall == UNCHANGED <<tpc, tseq, written>>

Calls ==
    /\ \/ tpc = "idle" /\ tpc' = "open" /\ rt' = <<>>
       \/ tpc = "ready" /\ tpc' \in {"write", "close"} /\ rt' = rt
    /\ tr' = Append(tr, TxFrame') /\ TxFrame' \in Frames /\ timeouts' = timeouts

Answers ==
    /\ TxWaits /\ rt # <<>> /\ tpc' \in {"ready", "ok"} /\ timeouts' = timeouts

Rejected ==
    /\ tpc = "write" /\ rt # <<>> /\ SameCall
    /\ tr' = Append(tr, TxFrame) /\ TxFrame \in Frames /\ timeouts' = timeouts

TimesOut ==
    /\ TxWaits /\ tleft = 0 /\ SameCall /\ rt' = rt
    /\ tr' = Append(tr, TxFrame) /\ TxFrame \in Frames /\ timeouts' = timeouts + 1

Ignores ==
    /\ TxWaits /\ rt # <<>> /\ SameCall
    /\ TxOutcome(Head(rt)) # "stop" /\ rt' = Tail(rt) /\ timeouts' = timeouts
    /\ tr' = tr \/ \E f \in Frames : f.c = "RR" /\ tr' = Append(tr, f)

TxActs ==
    /\ UNCHANGED <<rpc, delivered, faults, flushed>>
    /\ Calls \/ Answers \/ Rejected \/ TimesOut \/ Ignores \/ tpc' = "fail"

LEMMA TxAct ==
    ASSUME LinkInv, TxTimed
    PROVE  TxActs
<1>1. TypeInv /\ tseq \in {0, 1} /\ Flip(tseq) \in {0, 1}
    <2>1. TypeInv /\ tseq \in {0, 1}
        BY DEF LinkInv, TypeInv, TypeOK
    <2> QED BY <2>1, FlipExchanges
<1>2. UNCHANGED <<rpc, delivered, faults, flushed>>
    BY DEF TxTimed, TxOpen, TxOpened, TxCallWrite, TxAcked, TxCallClose, TxDisc, TxRefuse,
       TxSkip, TxResendRR, TxTimeout, rxVars
<1>3. ASSUME TxWaits, TxRetry, UNCHANGED <<tseq, written>>
      PROVE  \/ tpc' = "fail"
             \/ SameCall /\ tr' = Append(tr, TxFrame) /\ TxFrame \in Frames
    <2>1. CASE tpc = "write"
        <3>1. written + 1 \in 1..N
            BY <1>1, <2>1, LinkLayerAssumption DEF TypeInv, TypeOK
        <3>2. TxFrame \in Frames
            BY <1>1, <2>1, <3>1, FramesSent DEF TxFrame
        <3> QED BY <1>3, <3>2 DEF TxRetry, TxAttempt, SameCall
    <2>2. CASE tpc \in {"open", "close"}
        <3>1. TxFrame \in Frames
            BY <2>2, FramesSent DEF TxFrame
        <3> QED BY <1>3, <3>1 DEF TxRetry, TxAttempt, SameCall
    <2> QED BY <1>3, <2>1, <2>2 DEF TxWaits
<1>4. CASE TxOpen /\ UNCHANGED timeouts
    <2>1. tpc' = "open" => TxFrame' = TxSET
        BY DEF TxFrame
    <2> QED BY <1>2, <1>4, <2>1, FramesSent DEF TxOpen, TxAttempt, TxActs, Calls
<1>5. CASE TxCallWrite /\ UNCHANGED timeouts
    <2>1. /\ tpc = "ready" /\ rt' = rt /\ written' = written /\ tseq' = Flip(tseq)
          /\ tpc' = "fail" \/ (tpc' = "write" /\ tr' = Append(tr, TxI(Flip(tseq), written + 1)))
        BY <1>5 DEF TxCallWrite, TxAttempt
    <2>2. tpc' = "write" => TxFrame' = TxI(Flip(tseq), written + 1)
        BY <2>1 DEF TxFrame
    <2>3. written + 1 \in 1..N
        BY <1>1, <1>5, LinkLayerAssumption DEF TxCallWrite, TypeInv, TypeOK
    <2>4. TxI(Flip(tseq), written + 1) \in Frames
        BY <1>1, <2>3, FramesSent
    <2> QED BY <1>2, <1>5, <2>1, <2>2, <2>4 DEF TxActs, Calls
<1>6. CASE TxCallClose /\ UNCHANGED timeouts
    <2>1. tpc' = "close" => TxFrame' = TxDISC
        BY DEF TxFrame
    <2> QED BY <1>2, <1>6, <2>1, FramesSent DEF TxCallClose, TxAttempt, TxActs, Calls
<1>7. CASE (TxOpened \/ TxAcked \/ TxDisc) /\ UNCHANGED timeouts
    BY <1>2, <1>7 DEF TxOpened, TxAcked, TxDisc, TxReceives, TxWaits, TxActs, Answers
<1>8. CASE TxRefuse /\ UNCHANGED timeouts
    <2>1. tpc = "write"
        BY <1>8, RefusedIsREJ
    <2>2. TxWaits /\ TxRetry /\ UNCHANGED <<tseq, written>> /\ rt # <<>>
        BY <1>8 DEF TxRefuse, TxReceives
    <2> QED BY <1>2, <1>3, <1>8, <2>1, <2>2 DEF TxActs, Rejected
<1>9. CASE TxTimeout /\ tleft = 0 /\ timeouts' = timeouts + Timeouts
    <2>1. TxWaits /\ TxRetry /\ UNCHANGED <<tseq, written>> /\ rt' = rt
        BY <1>9 DEF TxTimeout
    <2> QED BY <1>2, <1>3, <1>9, <2>1 DEF TxActs, TimesOut, Timeouts
<1>10. CASE TxSkip /\ UNCHANGED timeouts
    BY <1>2, <1>10 DEF TxSkip, TxReceives, txVars, TxActs, Ignores, SameCall
<1>11. CASE TxResendRR /\ UNCHANGED timeouts
    <2>1. TxRR(Flip(tseq)) \in Frames /\ TxRR(Flip(tseq)).c = "RR"
        BY <1>1, AnswerSent
    <2>2. /\ TxWaits /\ rt # <<>> /\ SameCall /\ TxOutcome(Head(rt)) # "stop" /\ rt' = Tail(rt)
          /\ tr' = Append(tr, TxRR(Flip(tseq)))
        BY <1>11 DEF TxResendRR, TxReceives, txVars, SameCall
    <2> QED BY <1>2, <1>11, <2>1, <2>2 DEF TxActs, Ignores
<1> QED BY <1>4, <1>5, <1>6, <1>7, <1>8, <1>9, <1>10, <1>11 DEF TxTimed

-----------------------------------------------------------------------------
(* SET *)

\* A step that is not the transmitter's, nor the first of the receiver's.
LEMMA RxLeavesOpen ==
    ASSUME LinkInv, RxTimedStep, rpc \in {"idle", "open"}, rpc' \notin {"idle", "open"}
    PROVE  \/ tr' = <<>>
           \/ rpc' = "fail" /\ rt' = rt
           \/ rpc = "open" /\ tr # <<>> /\ tr' = Tail(tr)
<1>1. CASE RxOpen
    BY <1>1 DEF RxOpen
<1>2. CASE RxOpened \/ RxDiscAgain
    BY <1>2 DEF RxOpened, RxDiscAgain, RxGets, RxWaits, RxTimed
<1>3. CASE RxTimeout
    BY <1>3 DEF RxTimeout, RxRetry, RxAttempt
<1>4. CASE \/ RxCallRead \/ RxDeliver \/ RxDamaged \/ RxSet \/ RxStopped \/ RxResendRR
           \/ RxSkip \/ RxCallClose \/ RxDisc \/ RxClosed
    BY <1>4 DEF RxCallRead, RxDeliver, RxDamaged, RxSet, RxStopped, RxResendRR, RxSkip,
       RxCallClose, RxDisc, RxClosed, rxVars
<1> QED BY <1>1, <1>2, <1>3, <1>4 DEF RxTimedStep

\* Only the transmitter adds to the channel towards the receiver.
LEMMA NotSent ==
    ASSUME TypeInv, [TimedNext]_timedVars, ~TxTimed
    PROVE  /\ \/ tr' = tr \/ tr' = <<>>
              \/ tr # <<>> /\ tr' = Tail(tr)
              \/ tr # <<>> /\ DamageTr
           /\ Len(tr') <= Len(tr)
<1>1. \/ tr' = tr \/ tr' = <<>>
      \/ tr # <<>> /\ tr' = Tail(tr)
      \/ tr # <<>> /\ DamageTr
    BY DEF TimedNext, Progress, RxTimedStep, RxOpen, RxOpened, RxCallRead, RxDeliver,
       RxDamaged, RxSet, RxStopped, RxResendRR, RxSkip, RxCallClose, RxDisc, RxClosed,
       RxDiscAgain, RxTimeout, RxGets, LineTimed, LoseTr, LoseRt, DamageTr, DamageRt, Tick,
       timedVars, vars
<1>2. tr \in Seq(Frames)
    BY DEF TypeInv, TypeOK
<1> QED BY <1>1, <1>2 DEF DamageTr

LEMMA SetStep ==
    ASSUME LinkInv, TimedTypeOK, QuietInv, SetInv, ~Doomed', [TimedNext]_timedVars
    PROVE  SetInv'
<1> USE DEF LinkInv
<1>1. TxMove /\ RxMove /\ TypeInv /\ [Next]_vars /\ tr \in Seq(Frames)
    BY TimedIsNext, TxMoves, RxMoves DEF TypeInv, TypeOK
<1>2. tpc' # "fail"
    BY DEF Doomed
<1>3. ASSUME tpc' = "idle"
      PROVE  tr' = <<>> /\ rpc' \in {"idle", "open", "fail"}
    <2>1. tpc = "idle"
        BY <1>1, <1>3 DEF TxMove, AckTaken
    <2>2. tr = <<>> /\ rpc \in {"idle", "open", "fail"}
        BY <2>1 DEF SetInv
    <2> QED BY <1>1, <1>3, <2>2, NothingSent DEF RxMove, PacketTaken
<1>4. ASSUME rpc' = "open"
      PROVE  Len(tr') <= 1
    <2>1. CASE rpc # "open"
        BY <1>1, <1>4, <2>1 DEF RxMove, PacketTaken
    <2>2. CASE rpc = "open"
        <3>1. tpc \in {"idle", "open", "fail"} /\ rt = <<>> /\ Len(tr) <= 1 /\ Len(tr) \in Nat
            BY <1>1, <2>2 DEF OpenInv, SetInv
        <3>3. CASE TxTimed
            <4>1. Calls \/ TimesOut
                BY <1>2, <3>1, <3>3, TxAct DEF TxActs, Answers, Rejected, Ignores, TxWaits
            <4>2. tr = <<>>
                <5>1. CASE Calls
                    BY <3>1, <5>1 DEF Calls, SetInv
                <5>2. CASE TimesOut
                    <6>1. TxWaits /\ tleft < Timeout
                        BY <5>2, TimedAssumption DEF TimesOut
                    <6> QED BY <2>2, <6>1 DEF QuietInv, RxWaits, RxTimed
                <5> QED BY <4>1, <5>1, <5>2
            <4>3. \E f : tr' = Append(<<>>, f)
                BY <4>1, <4>2 DEF Calls, TimesOut
            <4> QED BY <4>3
        <3>4. CASE ~TxTimed
            BY <1>1, <3>1, <3>4, NotSent
        <3> QED BY <3>3, <3>4
    <2> QED BY <2>1, <2>2
<1>5. ASSUME rpc' \notin {"idle", "open"}, NEW i \in 1..Len(tr'), tr'[i].c = "SET"
      PROVE  tr'[i].damage # "none"
    <2>1. CASE rpc \in {"idle", "open"}
        <3>1. RxTimedStep
            <4>1. TxTimed \/ LineTimed \/ Tick \/ UNCHANGED timedVars => rpc' = rpc
                BY TxAct DEF TxActs, LineTimed, LoseTr, LoseRt, DamageTr, DamageRt, rxVars,
                   Tick, timedVars, vars
            <4> QED BY <1>5, <2>1, <4>1 DEF TimedNext, Progress
        <3>2. tpc' = tpc /\ tpc \in {"idle", "open"} /\ rt = <<>>
            <4>1. tpc' = tpc
                BY <1>5, <2>1, <1>1, OneEndMoves
            <4> QED BY <1>2, <2>1, <4>1 DEF OpenInv
        <3>3. CASE tpc = "idle"
            BY <1>3, <1>5, <3>2, <3>3
        <3>4. CASE tpc = "open"
            <4>1. ~(rpc' = "fail" /\ rt' = rt)
                <5>1. rt' = rt => ~Answered'
                    BY <3>2 DEF Answered
                <5> QED BY <3>2, <3>4, <5>1 DEF Doomed
            <4>2. tr' = <<>> \/ (rpc = "open" /\ tr # <<>> /\ tr' = Tail(tr))
                BY <1>5, <2>1, <3>1, <4>1, RxLeavesOpen
            <4>3. rpc = "open" => Len(tr) <= 1
                BY DEF SetInv
            <4>4. Len(tr') = 0
                BY <1>1, <4>2, <4>3
            <4> QED BY <1>5, <4>4
        <3> QED BY <3>2, <3>3, <3>4
    <2>2. CASE rpc \notin {"idle", "open"}
        <3>1. \/ \E j \in 1..Len(tr) : tr'[i] = tr[j]
              \/ tr'[i].damage # "none"
              \/ i = Len(tr) + 1 /\ TxSends(tr'[i])
            BY <1>1, LineToReceiver DEF TrMoved
        <3>2. CASE \E j \in 1..Len(tr) : tr'[i] = tr[j]
            BY <1>5, <2>2, <3>2 DEF SetInv
        <3>3. CASE i = Len(tr) + 1 /\ TxSends(tr'[i])
            <4>1. tpc' = "open" /\ i \in 1..Len(tr') /\ tr'[i] = TxSET
                BY <1>5, <3>3 DEF TxSends, TxI, TxDISC, TxUA, Frame
            <4>2. Len(tr') > Len(tr)
                BY <1>1, <3>3, <4>1
            <4>3. TxTimed
                BY <1>1, <4>2, NotSent
            <4>4. rt' = <<>>
                <5>1. Calls \/ TimesOut \/ Ignores
                    BY <1>2, <4>1, <4>3, TxAct DEF TxActs, Answers, Rejected, SameCall
                <5>2. CASE Calls
                    BY <4>1, <5>2 DEF Calls
                <5>3. CASE TimesOut
                    <6>1. TxWaits /\ tleft < Timeout /\ rt' = rt
                        BY <5>3, TimedAssumption DEF TimesOut
                    <6> QED BY <6>1 DEF QuietInv
                <5>4. CASE Ignores
                    BY <1>1, <1>5, <3>3, <4>2, <5>4, AppendToChannel DEF Ignores
                <5> QED BY <5>1, <5>2, <5>3, <5>4
            <4>5. ~Answered'
                BY <4>4 DEF Answered
            <4> QED BY <1>5, <4>1, <4>5 DEF Doomed
        <3> QED BY <3>1, <3>2, <3>3
    <2> QED BY <2>1, <2>2
<1> QED BY <1>3, <1>4, <1>5 DEF SetInv

-----------------------------------------------------------------------------
(* Timeouts *)

Ends(f) == TxOutcome(f) = "stop"

\* The frame waited for an answer to is not answered yet: what the receiver
\* answers to it ends the wait.
LEMMA FrameAnswered ==
    ASSUME LinkInv, SetInv, ~Doomed, TxWaits, rpc # "idle", RxTimedStep,
           tr # <<>>, Head(tr) = TxFrame, tr' = Tail(tr),
           \A i \in 1..Len(rt) : ~Ends(rt[i])
    PROVE  \E f \in Frames : rt' = Append(rt, f) /\ Ends(f)
<1> USE DEF LinkInv
<1>1. /\ Head(tr) = tr[1] /\ 1 \in 1..Len(tr) /\ tr \in Seq(Frames)
      /\ rseq \in {0, 1} /\ Flip(rseq) \in {0, 1} /\ Len(tr) # 0
    <2>1. tr \in Seq(Frames) /\ rseq \in {0, 1}
        BY DEF TypeInv, TypeOK
    <2> QED BY <2>1, TailOfChannel, FlipExchanges
<1>2. /\ Count \in Nat /\ written \in Nat /\ N \in Nat /\ Count <= N
      /\ written <= Count /\ Count <= written + 1
    BY CountsTyped, CountBounded, LinkLayerAssumption DEF DataInv
<1>3. ~Answered
    BY DEF Ends, Answered
<1>4. /\ tpc = "open" => rpc = "open"
      /\ tpc = "write" => rpc # "fail" /\ Count # N
      /\ tpc = "close" => rpc \notin {"lost", "fail"}
    BY <1>3 DEF Doomed
<1>5. \E outcome : RxGets(outcome)
    <2>1. tr' # tr /\ ~RxOpen
        BY <1>1 DEF RxOpen
    <2> QED BY <2>1 DEF RxTimedStep, RxOpened, RxCallRead, RxDeliver, RxDamaged, RxSet,
               RxStopped, RxResendRR, RxSkip, RxCallClose, RxDisc, RxClosed, RxDiscAgain,
               RxTimeout
<1>6. PICK outcome : RxGets(outcome)
    BY <1>5
<1>7. RxWaits /\ RxOutcome(TxFrame) = outcome
    BY <1>6 DEF RxGets
<1>8. CASE tpc = "open"
    <2>1. rpc = "open" /\ TxFrame = TxSET
        BY <1>4, <1>8 DEF TxFrame
    <2>2. RxOutcome(TxFrame) = "stop" /\ TxFrame.a = "SEND" /\ TxFrame.c = "SET"
        BY <2>1 DEF RxOutcome, SOutcome, TxSET, Frame
    <2>3. RxOpened
        BY <1>1, <2>1, <2>2 DEF RxTimedStep, RxOpen, RxCallRead, RxDeliver, RxDamaged, RxSet,
               RxStopped, RxResendRR, RxSkip, RxCallClose, RxDisc, RxClosed, RxDiscAgain,
               RxTimeout, RxGets
    <2>4. rt' = Append(rt, RxUA)
        BY <2>2, <2>3 DEF RxOpened, RxSend
    <2>5. Ends(RxUA)
        BY <1>8 DEF Ends, TxOutcome, UOutcome, RxUA, Frame
    <2> QED BY <2>4, <2>5, FramesSent
<1>9. CASE tpc = "write"
    <2>1. /\ TxFrame.a = "SEND" /\ TxFrame.c = "I" /\ TxFrame.n = tseq
          /\ TxFrame.damage = "none" /\ tseq = Bit(written + 1)
        BY <1>9 DEF TxFrame, TxI, Frame, SeqInv
    <2>2. rpc = "read" /\ rseq = Bit(Count)
        <3>1. rpc # "open"
            BY <1>9 DEF OpenInv
        <3> QED BY <1>4, <1>7, <1>9, <3>1 DEF RxWaits, RxTimed, SeqInv
    <2>3. CASE Count = written
        <3>1. rseq # tseq /\ TxFrame.n = Flip(rseq) /\ rseq = Flip(tseq)
            <4>1. rseq = Bit(written) /\ tseq = Bit(written + 1)
                BY <2>1, <2>2, <2>3
            <4>2. Bit(written) # Bit(written + 1) /\ Flip(Bit(written)) = Bit(written + 1)
                BY <1>2, BitAlternates
            <4>3. Flip(Bit(written + 1)) = Bit(written)
                BY <1>2, <4>2, BitAlternates, FlipExchanges
            <4> QED BY <2>1, <4>1, <4>2, <4>3
        <3>2. RxOutcome(TxFrame) = "data"
            <4>1. /\ TxFrame.a = "SEND" /\ TxFrame.c = "I" /\ TxFrame.damage = "none"
                  /\ TxFrame.n # rseq /\ TxFrame.n = Flip(rseq)
                BY <2>1, <3>1
            <4>2. RxOutcome(TxFrame) = IOutcome(rseq, TxFrame)
                BY <2>2 DEF RxOutcome
            <4> QED BY <4>1, <4>2 DEF IOutcome
        <3>3. RxDeliver
            BY <1>1, <2>2, <3>2 DEF RxTimedStep, RxOpen, RxOpened, RxCallRead, RxDamaged, RxSet,
               RxStopped, RxResendRR, RxSkip, RxCallClose, RxDisc, RxClosed, RxDiscAgain,
               RxTimeout, RxGets
        <3>4. rt' = Append(rt, RxRR(rseq))
            BY <3>3 DEF RxDeliver, RxSend
        <3>5. Ends(RxRR(rseq))
            BY <1>9, <3>1 DEF Ends, TxOutcome, SOutcome, RxRR, Frame
        <3> QED BY <1>1, <3>4, <3>5, FramesSent
    <2>4. CASE Count = written + 1
        <3>1. rseq = tseq
            BY <2>1, <2>2, <2>4
        <3>2. RxOutcome(TxFrame) = "resend"
            <4>1. /\ TxFrame.a = "SEND" /\ TxFrame.c = "I"
                  /\ TxFrame.n = rseq /\ TxFrame.n # Flip(rseq)
                BY <1>1, <2>1, <3>1, FlipExchanges
            <4>2. RxOutcome(TxFrame) = IOutcome(rseq, TxFrame)
                BY <2>2 DEF RxOutcome
            <4> QED BY <4>1, <4>2 DEF IOutcome
        <3>3. RxResendRR
            BY <1>1, <2>2, <3>2 DEF RxTimedStep, RxOpen, RxOpened, RxCallRead, RxDeliver,
               RxDamaged, RxSet, RxStopped, RxSkip, RxCallClose, RxDisc, RxClosed,
               RxDiscAgain, RxTimeout, RxGets
        <3>4. rt' = Append(rt, RxRR(Flip(rseq)))
            BY <3>3 DEF RxResendRR, RxSend
        <3>5. Ends(RxRR(Flip(rseq)))
            BY <1>9, <3>1 DEF Ends, TxOutcome, SOutcome, RxRR, Frame
        <3> QED BY <1>1, <3>4, <3>5, FramesSent
    <2> QED BY <1>2, <2>3, <2>4
<1>10. CASE tpc = "close"
    <2>1. TxFrame = TxDISC /\ TxFrame.a = "SEND" /\ TxFrame.c = "DISC" /\ TxFrame.damage = "none"
        BY <1>10 DEF TxFrame, TxDISC, Frame
    <2>2. rpc \in {"close", "ua"}
        <3>1. rpc # "open"
            BY <1>10 DEF OpenInv
        <3>2. rpc # "read"
            BY <1>2, <1>10 DEF CloseInv, SeqInv
        <3> QED BY <1>7, <3>1, <3>2 DEF RxWaits, RxTimed
    <2>3. Ends(RxDISC)
        BY <1>10 DEF Ends, TxOutcome, SOutcome, RxDISC, Frame
    <2>4. CASE rpc = "close"
        <3>1. RxOutcome(TxFrame) = "stop"
            BY <2>1, <2>4 DEF RxOutcome, SOutcome
        <3>2. RxDisc
            BY <1>1, <2>4, <3>1 DEF RxTimedStep, RxOpen, RxOpened, RxCallRead, RxDeliver,
               RxDamaged, RxSet, RxStopped, RxResendRR, RxSkip, RxCallClose, RxClosed,
               RxDiscAgain, RxTimeout, RxGets
        <3>3. rt' = Append(rt, RxDISC)
            BY <2>1, <3>2 DEF RxDisc, RxSend
        <3> QED BY <2>3, <3>3, FramesSent
    <2>5. CASE rpc = "ua"
        <3>1. RxOutcome(TxFrame) = "disc"
            BY <2>1, <2>5 DEF RxOutcome, UOutcome
        <3>2. RxDiscAgain
            BY <1>1, <2>5, <3>1 DEF RxTimedStep, RxOpen, RxOpened, RxCallRead, RxDeliver,
               RxDamaged, RxSet, RxStopped, RxResendRR, RxSkip, RxCallClose, RxDisc, RxClosed,
               RxTimeout, RxGets
        <3>3. rt' = Append(rt, RxDISC)
            BY <3>2 DEF RxDiscAgain, RxSend
        <3> QED BY <2>3, <3>3, FramesSent
    <2> QED BY <2>2, <2>4, <2>5
<1> QED BY <1>8, <1>9, <1>10 DEF TxWaits

\* What the receiver does never ends the hope of an answer, but dooms the
\* transmitter.
LEMMA RxKeepsAlive ==
    ASSUME LinkInv, SetInv, ~Doomed, TxWaits, rpc # "idle", RxTimedStep, Alive
    PROVE  Alive'
<1>1. /\ tr \in Seq(Frames) /\ rt \in Seq(Frames)
      /\ rseq \in {0, 1} /\ Flip(rseq) \in {0, 1}
    <2>1. tr \in Seq(Frames) /\ rt \in Seq(Frames) /\ rseq \in {0, 1}
        BY DEF LinkInv, TypeInv, TypeOK
    <2> QED BY <2>1, FlipExchanges
<1>2. UNCHANGED <<tpc, tseq, written>>
    BY DEF RxTimedStep, RxOpen, RxOpened, RxCallRead, RxDeliver, RxDamaged, RxSet, RxStopped,
       RxResendRR, RxSkip, RxCallClose, RxDisc, RxClosed, RxDiscAgain, RxTimeout, txVars
<1>3. TxFrame' = TxFrame
    BY <1>2 DEF TxFrame
<1>4. tr' = tr \/ (tr # <<>> /\ tr' = Tail(tr))
    BY DEF RxTimedStep, RxOpen, RxOpened, RxCallRead, RxDeliver, RxDamaged, RxSet, RxStopped,
       RxResendRR, RxSkip, RxCallClose, RxDisc, RxClosed, RxDiscAgain, RxTimeout, RxGets
<1>5. rt' = rt \/ \E f \in Frames : rt' = Append(rt, f)
    <2>1. \/ rt' = rt
          \/ rt' = Append(rt, RxUA) \/ rt' = Append(rt, RxDISC)
          \/ rt' = Append(rt, RxRR(rseq)) \/ rt' = Append(rt, RxRR(Flip(rseq)))
          \/ rt' = Append(rt, RxREJ(rseq))
        BY DEF RxTimedStep, RxOpen, RxOpened, RxCallRead, RxDeliver, RxDamaged, RxSet, RxStopped,
           RxResendRR, RxSkip, RxCallClose, RxDisc, RxClosed, RxDiscAgain, RxTimeout,
           RxReject, RxSend
    <2> QED BY <1>1, <2>1, FramesSent
<1>6. CASE \E i \in 1..Len(rt) : Ends(rt[i])
    <2>1. PICK i \in 1..Len(rt) : Ends(rt[i])
        BY <1>6
    <2>2. i \in 1..Len(rt') /\ rt'[i] = rt[i]
        BY <1>1, <1>5, AppendToChannel
    <2>3. TxOutcome(rt[i])' = "stop"
        BY <1>2, <2>1, <2>2 DEF Ends, TxOutcome
    <2> QED BY <2>2, <2>3 DEF Alive
<1>7. CASE \A i \in 1..Len(rt) : ~Ends(rt[i])
    <2>1. PICK i \in 1..Len(tr) : tr[i] = TxFrame
        BY <1>7 DEF Alive, Ends
    <2>2. CASE tr' = tr
        BY <1>3, <2>1, <2>2 DEF Alive
    <2>3. CASE tr # <<>> /\ tr' = Tail(tr) /\ i # 1
        <3>1. i - 1 \in 1..Len(tr') /\ tr'[i - 1] = tr[i]
            BY <1>1, <2>1, <2>3, TailOfChannel
        <3> QED BY <1>3, <2>1, <3>1 DEF Alive
    <2>4. CASE tr # <<>> /\ tr' = Tail(tr) /\ i = 1
        <3>1. Head(tr) = TxFrame
            BY <1>1, <2>1, <2>4, TailOfChannel
        <3>2. PICK f \in Frames : rt' = Append(rt, f) /\ Ends(f)
            BY <1>7, <2>4, <3>1, FrameAnswered
        <3>3. PICK j \in 1..Len(rt') : rt'[j] = f
            <4>1. Len(rt) + 1 \in 1..Len(rt') /\ rt'[Len(rt) + 1] = f
                BY <1>1, <3>2, AppendToChannel
            <4> QED BY <4>1
        <3>4. TxOutcome(rt[j])' = "stop"
            BY <1>2, <3>2, <3>3 DEF Ends, TxOutcome
        <3> QED BY <3>3, <3>4 DEF Alive
    <2> QED BY <1>4, <2>2, <2>3, <2>4
<1> QED BY <1>6, <1>7

\* A frame has just been sent.
LEMMA SentIsAlive ==
    ASSUME TypeInv, NEW f \in Frames, tr' = Append(tr, f), TxFrame' = f
    PROVE  Alive'
<1>1. tr \in Seq(Frames)
    BY DEF TypeInv, TypeOK
<1>2. Len(tr) + 1 \in 1..Len(tr') /\ tr'[Len(tr) + 1] = f
    BY <1>1, AppendToChannel
<1> QED BY <1>2 DEF Alive

LEMMA IgnoredKeepsAlive ==
    ASSUME TypeInv, Ignores, Alive
    PROVE  Alive'
<1>1. tr \in Seq(Frames) /\ rt \in Seq(Frames) /\ rt # <<>> /\ rt' = Tail(rt)
    BY DEF TypeInv, TypeOK, Ignores
<1>2. TxFrame' = TxFrame /\ UNCHANGED <<tpc, tseq>>
    BY DEF TxFrame, Ignores, SameCall
<1>3. CASE \E i \in 1..Len(tr) : tr[i] = TxFrame
    <2>1. PICK i \in 1..Len(tr) : tr[i] = TxFrame
        BY <1>3
    <2>2. tr' = tr \/ \E f \in Frames : tr' = Append(tr, f)
        BY DEF Ignores
    <2>3. i \in 1..Len(tr') /\ tr'[i] = tr[i]
        BY <1>1, <2>2, AppendToChannel
    <2> QED BY <1>2, <2>1, <2>3 DEF Alive
<1>4. CASE \E i \in 1..Len(rt) : Ends(rt[i])
    <2>1. PICK i \in 1..Len(rt) : Ends(rt[i])
        BY <1>4
    <2>2. i # 1
        BY <1>1, <2>1, TailOfChannel DEF Ignores, Ends
    <2>3. i - 1 \in 1..Len(rt') /\ rt'[i - 1] = rt[i]
        BY <1>1, <2>1, <2>2, TailOfChannel
    <2>4. TxOutcome(rt[i - 1])' = "stop"
        BY <1>2, <2>1, <2>3 DEF Ends, TxOutcome
    <2> QED BY <2>3, <2>4 DEF Alive
<1> QED BY <1>3, <1>4 DEF Alive, Ends

\* Time is up only after a fault, or for a SET that is flushed.
LEMMA TimeoutIsDue ==
    ASSUME LinkInv, QuietInv, TimeoutInv, ~Doomed, TimesOut
    PROVE  IF rpc = "idle" THEN timeouts < faults + Len(tr)
                           ELSE timeouts < faults + flushed
<1> USE DEF LinkInv
<1>1. TxWaits /\ tleft < Timeout
    BY TimedAssumption DEF TimesOut
<1>2. rt = <<>> /\ rpc # "ready" /\ (RxWaits => tr = <<>>)
    BY <1>1 DEF QuietInv
<1>3. CASE rpc = "idle"
    BY <1>1, <1>3 DEF TimeoutInv
<1>4. CASE rpc # "idle"
    <2>1. ~Answered
        BY <1>2 DEF Answered
    <2>2. RxWaits
        <3>1. rpc \in {"idle", "open", "ready", "read", "close", "ua", "ok", "lost", "fail"}
            BY DEF TypeInv, TypeOK
        <3>2. rpc # "ok"
            BY <1>1 DEF CloseInv, TxWaits
        <3>3. rpc = "lost" => tpc = "close"
            BY <1>1 DEF CloseInv, TxWaits
        <3>4. rpc \notin {"lost", "fail"}
            BY <1>1, <2>1, <3>3 DEF Doomed, TxWaits
        <3> QED BY <1>2, <1>4, <3>1, <3>2, <3>4 DEF RxWaits, RxTimed
    <2>3. ~Alive
        BY <1>2, <2>2 DEF Alive
    <2> QED BY <1>1, <1>4, <2>3 DEF TimeoutInv
<1> QED BY <1>3, <1>4

LEMMA TxTimeoutStep ==
    ASSUME LinkInv, TimedTypeOK, QuietInv, SetInv, TimeoutInv, ~Doomed, tpc' # "fail", TxTimed
    PROVE  TimeoutInv'
<1>1. /\ TypeInv /\ tr \in Seq(Frames) /\ Len(tr) \in Nat
      /\ timeouts \in Nat /\ faults \in Nat /\ flushed \in Nat
    BY DEF LinkInv, TypeInv, TypeOK, TimedTypeOK
<1>2. /\ UNCHANGED <<rpc, faults, flushed>>
      /\ Calls \/ Answers \/ Rejected \/ TimesOut \/ Ignores
    BY TxAct DEF TxActs
<1>3. Calls \/ Rejected \/ TimesOut => Alive'
    <2>1. Rejected \/ TimesOut => TxFrame' = TxFrame
        BY DEF Rejected, TimesOut, SameCall, TxFrame
    <2> QED BY <1>1, <2>1, SentIsAlive DEF Calls, Rejected, TimesOut
<1>4. Calls \/ Rejected \/ TimesOut => Len(tr') = Len(tr) + 1
    BY <1>1, AppendToChannel DEF Calls, Rejected, TimesOut
<1>5. TimesOut => IF rpc = "idle" THEN timeouts < faults + Len(tr)
                                  ELSE timeouts < faults + flushed
    BY TimeoutIsDue
<1>6. TimesOut => timeouts' = timeouts + 1
    BY DEF TimesOut
<1>7. ~TimesOut => timeouts' = timeouts
    BY <1>2 DEF Calls, Answers, Rejected, Ignores
<1>8. CASE rpc = "idle"
    <2>1. tpc \in {"idle", "open"} /\ rt = <<>>
        BY <1>8 DEF LinkInv, OpenInv, Doomed
    <2>2. Calls \/ TimesOut
        BY <1>2, <2>1 DEF Answers, Rejected, Ignores
    <2>3. timeouts <= faults + Len(tr)
        BY <1>8 DEF TimeoutInv
    <2>4. timeouts' < faults + Len(tr')
        BY <1>1, <1>4, <1>5, <1>6, <1>7, <1>8, <2>2, <2>3
    <2>5. timeouts' \in Nat /\ Len(tr') \in Nat
        BY <1>1, <1>4, <1>6, <1>7, <2>2
    <2>6. timeouts' <= faults + Len(tr')
        BY <1>1, <2>4, <2>5
    <2> QED BY <1>2, <1>8, <2>4, <2>6 DEF TimeoutInv
<1>9. CASE rpc # "idle"
    <2>1. timeouts <= faults + flushed
        BY <1>9 DEF TimeoutInv
    <2>2. timeouts' <= faults + flushed
        BY <1>1, <1>5, <1>6, <1>7, <1>9, <2>1
    <2>3. CASE Calls \/ Rejected \/ TimesOut
        BY <1>2, <1>3, <1>9, <2>2, <2>3 DEF TimeoutInv
    <2>4. CASE Answers
        <3>1. ~TxWaits'
            BY <2>4 DEF Answers, TxWaits
        <3> QED BY <1>2, <1>9, <2>2, <3>1 DEF TimeoutInv
    <2>5. CASE Ignores
        <3>1. TxWaits /\ timeouts' = timeouts
            BY <2>5 DEF Ignores
        <3>2. Alive => Alive'
            BY <1>1, <2>5, IgnoredKeepsAlive
        <3>3. ~Alive' => timeouts < faults + flushed
            BY <1>9, <3>1, <3>2 DEF TimeoutInv
        <3> QED BY <1>2, <1>9, <2>2, <3>1, <3>3 DEF TimeoutInv
    <2> QED BY <1>2, <2>3, <2>4, <2>5
<1> QED BY <1>8, <1>9

LEMMA RxTimeoutStep ==
    ASSUME LinkInv, TimedTypeOK, SetInv, TimeoutInv, ~Doomed, RxTimedStep
    PROVE  TimeoutInv'
<1>1. [Next]_vars /\ TypeInv
    BY TimedIsNext DEF TimedNext, Progress, LinkInv
<1>2. UNCHANGED <<tpc, timeouts, faults>> /\ rpc' # "idle"
    <2>1. UNCHANGED <<tpc, timeouts, faults>>
        BY DEF RxTimedStep, statVars, RxOpen, RxOpened, RxCallRead, RxDeliver, RxDamaged, RxSet,
           RxStopped, RxResendRR, RxSkip, RxCallClose, RxDisc, RxClosed, RxDiscAgain, RxTimeout,
           txVars
    <2>2. rpc = "idle" => RxOpen
        BY DEF RxTimedStep, RxOpen, RxOpened, RxCallRead, RxDeliver, RxDamaged, RxSet,
           RxStopped, RxResendRR, RxSkip, RxCallClose, RxDisc, RxClosed, RxDiscAgain, RxTimeout,
           RxGets, RxWaits, RxTimed
    <2>3. RxOpen => rpc' # "idle"
        BY DEF RxOpen, RxAttempt
    <2>4. rpc # "idle" => rpc' # "idle"
        BY <1>1, RxMoves DEF RxMove, PacketTaken
    <2> QED BY <2>1, <2>2, <2>3, <2>4
<1>3. TxWaits' <=> TxWaits
    BY <1>2 DEF TxWaits
<1>4. CASE rpc = "idle"
    <2>1. flushed' = Len(tr)
        BY <1>4 DEF RxTimedStep
    <2>2. /\ timeouts <= faults + Len(tr)
          /\ TxWaits => timeouts < faults + Len(tr)
        BY <1>4 DEF TimeoutInv
    <2> QED BY <1>2, <1>3, <2>1, <2>2 DEF TimeoutInv
<1>5. CASE rpc # "idle"
    <2>1. flushed' = flushed
        BY <1>5 DEF RxTimedStep
    <2>2. TxWaits /\ Alive => Alive'
        BY <1>5, RxKeepsAlive
    <2>3. /\ timeouts <= faults + flushed
          /\ TxWaits /\ ~Alive => timeouts < faults + flushed
        BY <1>5 DEF TimeoutInv
    <2> QED BY <1>2, <1>3, <2>1, <2>2, <2>3 DEF TimeoutInv
<1> QED BY <1>4, <1>5

LEMMA LineTimeoutStep ==
    ASSUME TypeInv, TimedTypeOK, TimeoutInv, LineTimed
    PROVE  TimeoutInv'
<1>1. /\ tr \in Seq(Frames) /\ Len(tr) \in Nat
      /\ timeouts \in Nat /\ faults \in Nat /\ flushed \in Nat
    BY DEF TypeInv, TypeOK, TimedTypeOK
<1>2. UNCHANGED <<tpc, rpc, timeouts, flushed>>
    BY DEF LineTimed, statVars, LoseTr, LoseRt, DamageTr, DamageRt, txVars, rxVars
<1>3. faults' = faults + 1
    BY LineErrs DEF LineErr
<1>4. Len(tr') \in Nat /\ Len(tr) <= Len(tr') + 1
    <2>1. tr' = tr \/ (tr # <<>> /\ tr' = Tail(tr)) \/ \E g \in Frames : tr' = [tr EXCEPT ![1] = g]
        BY LineErrs DEF LineErr
    <2> QED BY <1>1, <2>1
<1>5. CASE rpc = "idle"
    <2>1. timeouts <= faults + Len(tr)
        BY <1>5 DEF TimeoutInv
    <2>2. TxWaits => timeouts < faults + Len(tr)
        BY <1>5 DEF TimeoutInv
    <2>3. timeouts <= faults' + Len(tr')
        BY <1>1, <1>3, <1>4, <2>1
    <2>4. TxWaits => timeouts < faults' + Len(tr')
        BY <1>1, <1>3, <1>4, <2>2
    <2> QED BY <1>2, <1>5, <2>3, <2>4 DEF TimeoutInv, TxWaits
<1>6. CASE rpc # "idle"
    <2>1. timeouts <= faults + flushed
        BY <1>6 DEF TimeoutInv
    <2>2. timeouts <= faults' + flushed /\ timeouts < faults' + flushed
        BY <1>1, <1>3, <2>1
    <2> QED BY <1>2, <1>6, <2>2 DEF TimeoutInv
<1> QED BY <1>5, <1>6

LEMMA TimeoutStep ==
    ASSUME LinkInv, TimedTypeOK, QuietInv, SetInv, TimeoutInv, ~Doomed, tpc' # "fail",
           [TimedNext]_timedVars
    PROVE  TimeoutInv'
<1>1. Tick \/ UNCHANGED timedVars
         => UNCHANGED <<tpc, tseq, written, rpc, tr, rt, faults, timeouts, flushed>>
    BY DEF Tick, timedVars, vars
<1>2. CASE Tick \/ UNCHANGED timedVars
    <2>1. UNCHANGED <<tpc, tseq, written, rpc, tr, rt, faults, timeouts, flushed>>
        BY <1>1, <1>2
    <2>2. TxWaits' = TxWaits /\ Alive' = Alive
        BY <2>1 DEF TxWaits, Alive, TxFrame, TxOutcome
    <2> QED BY <2>1, <2>2 DEF TimeoutInv
<1> QED BY <1>2, TxTimeoutStep, RxTimeoutStep, LineTimeoutStep DEF TimedNext, Progress, LinkInv

-----------------------------------------------------------------------------
(* The parts together *)

LEMMA LossInit == TimedInit => LossInv
<1> SUFFICES ASSUME TimedInit PROVE ErrorInv /\ SetInv /\ TimeoutInv
    BY DEF LossInv, TimedInit, Init
<1>1. /\ tpc = "idle" /\ rpc = "idle" /\ rauto = "run" /\ tr = <<>> /\ rt = <<>>
      /\ faults = 0 /\ errors = 0 /\ timeouts = 0
    BY DEF TimedInit, Init
<1>2. ErrorInv
    <2>1. Marks(tr) = 0 /\ Marks(rt) = 0 /\ Stopped = 0
        BY <1>1, MarksNone DEF Stopped
    <2> QED BY <1>1, <2>1 DEF ErrorInv
<1>3. SetInv
    BY <1>1 DEF SetInv
<1>4. TimeoutInv
    <2>1. ~TxWaits /\ Len(tr) = 0
        BY <1>1 DEF TxWaits
    <2> QED BY <1>1, <2>1 DEF TimeoutInv
<1> QED BY <1>2, <1>3, <1>4

LEMMA LossStep ==
    ASSUME LinkInv, TimedTypeOK, QuietInv, LossInv, [TimedNext]_timedVars
    PROVE  LossInv'
<1>1. [Next]_vars /\ TypeInv /\ LinkInv' /\ TimedTypeOK
    BY TimedIsNext, LinkInvStep DEF LinkInv
<1>2. errors \in Nat /\ timeouts \in Nat /\ faults \in Nat /\ flushed \in Nat
    BY DEF TimedTypeOK, TypeOK
<1>3. CASE tpc = "ok"
    <2>1. tpc' = "ok" /\ rpc # "idle"
        <3>1. tpc' = "ok"
            BY <1>1, <1>3, TxMoves DEF TxMove, AckTaken
        <3> QED BY <1>3, <3>1 DEF LinkInv, CloseInv
    <2>2. errors <= faults /\ timeouts <= faults + flushed
        BY <1>3 DEF LossInv, CountsAreFaults
    <2>3. ~TxTimed
        BY <1>3 DEF TxTimed, TxOpen, TxOpened, TxCallWrite, TxAcked, TxCallClose, TxDisc,
           TxSkip, TxRefuse, TxResendRR, TxTimeout, TxReceives, TxWaits
    <2>4. /\ errors' = errors /\ timeouts' = timeouts /\ flushed' = flushed
          /\ faults' = faults \/ faults' = faults + 1
        <3>1. CASE RxTimedStep
            <4>1. UNCHANGED <<errors, timeouts, flushed>>
                BY <2>1, <3>1 DEF RxTimedStep, statVars
            <4>2. UNCHANGED faults
                BY <3>1 DEF RxTimedStep, RxOpen, RxOpened, RxCallRead, RxDeliver, RxDamaged, RxSet,
                   RxStopped, RxResendRR, RxSkip, RxCallClose, RxDisc, RxClosed, RxDiscAgain,
                   RxTimeout
            <4> QED BY <4>1, <4>2
        <3>2. CASE LineTimed
            BY <1>1, <3>2, LineErrs DEF LineErr, LineTimed, statVars
        <3>3. CASE Tick \/ UNCHANGED timedVars
            BY <3>3 DEF Tick, timedVars, vars
        <3> QED BY <2>3, <3>1, <3>2, <3>3 DEF TimedNext, Progress
    <2>5. errors' <= faults' /\ timeouts' <= faults' + flushed'
        <3>1. faults <= faults' /\ faults' \in Nat
            BY <1>2, <2>4
        <3>2. errors <= faults'
            BY <1>2, <2>2, <3>1
        <3>3. timeouts <= faults + 1 + flushed
            BY <1>2, <2>2
        <3>4. timeouts <= faults' + flushed
            BY <2>2, <2>4, <3>3
        <3> QED BY <2>4, <3>2, <3>4
    <2> QED BY <2>1, <2>5 DEF LossInv, CountsAreFaults
<1>4. CASE tpc # "ok" /\ Doomed
    <2>1. tpc' # "ok"
        <3>1. CASE tpc = "fail"
            BY <1>1, <3>1, TxMoves DEF TxMove, AckTaken
        <3>2. CASE tpc # "fail"
            <4>1. TxWaits /\ ~Answered
                BY <1>4, <3>2 DEF Doomed, TxWaits
            <4> QED BY <1>1, <1>4, <4>1, ReturnIsAnswered
        <3> QED BY <3>1, <3>2
    <2> QED BY <1>1, <1>4, <2>1, DoomedStays DEF LossInv
<1>5. CASE tpc # "ok" /\ ~Doomed /\ Doomed'
    <2>1. tpc' # "ok"
        BY <1>5 DEF Doomed
    <2> QED BY <1>5, <2>1 DEF LossInv
<1>6. CASE tpc # "ok" /\ ~Doomed /\ ~Doomed'
    <2>1. ErrorInv /\ SetInv /\ TimeoutInv
        BY <1>6 DEF LossInv
    <2>2. tpc' # "fail"
        BY <1>6 DEF Doomed
    <2>3. ErrorInv' /\ SetInv' /\ TimeoutInv'
        BY <1>6, <2>1, <2>2, ErrorStep, SetStep, TimeoutStep
    <2>4. CASE tpc' = "ok"
        <3>1. rpc' # "idle"
            BY <1>1, <2>4 DEF LinkInv, CloseInv
        <3>2. timeouts' <= faults' + flushed'
            BY <2>3, <3>1 DEF TimeoutInv
        <3>3. errors' <= faults'
            <4>1. tr' \in Seq(Frames) /\ rt' \in Seq(Frames) /\ faults' \in Nat
                BY <1>1 DEF LinkInv, TypeInv, TypeOK
            <4>2. Marks(tr)' \in Nat /\ Marks(rt)' \in Nat
                <5>1. \A t \in Seq(Frames) : Marks(t) \in Nat
                    BY BadFinite
                <5>2. Marks(tr') \in Nat /\ Marks(rt') \in Nat
                    BY <4>1, <5>1
                <5> QED BY <5>2 DEF Marks, Bad
            <4>3. Stopped' \in {0, 1}
                BY DEF Stopped
            <4>4. errors' \in Nat
                <5>1. errors' \in {errors, errors + 1}
                    BY TxErrs, RxErrs, LineErrs, <1>1, <2>1
                    DEF TxErr, RxErr, LineErr, TimedNext, Progress, Tick, timedVars
                <5> QED BY <1>2, <5>1
            <4>5. errors' + Marks(tr)' + Marks(rt)' + Stopped' <= faults'
                BY <2>3 DEF ErrorInv
            <4> QED BY <4>1, <4>2, <4>3, <4>4, <4>5
        <3> QED BY <2>4, <3>2, <3>3 DEF LossInv, CountsAreFaults
    <2> QED BY <2>3, <2>4 DEF LossInv
<1> QED BY <1>3, <1>4, <1>5, <1>6

-----------------------------------------------------------------------------
(* The time *)

\* The time in timers that have expired.
LEMMA Multiples ==
    ASSUME NEW t \in Nat
    PROVE  /\ t * Timeout \in Nat /\ 0 * Timeout = 0
           /\ (t + 1) * Timeout = t * Timeout + Timeout
BY TimedAssumption

-----------------------------------------------------------------------------
(* What one step of the transmitter does to its statistics *)

\* An attempt of the call pc, or none is left.
Attempted(pc) ==
    \/ tpc' = pc /\ ttimer' = "armed" /\ frames' = frames + 1
    \/ tpc' = "fail" /\ ttimer' = "off"

Begins ==
    /\ \/ tpc = "idle" /\ Attempted("open")
       \/ tpc = "ready" /\ Attempted("write")
       \/ tpc = "ready" /\ written = N /\ Attempted("close")
    /\ UNCHANGED <<written, errors, timeouts>>

Returns ==
    /\ rt # <<>> /\ ttimer' = "off"
    /\ \/ tpc = "open" /\ tpc' = "ready" /\ UNCHANGED <<written, frames>>
       \/ tpc = "write" /\ tpc' = "ready" /\ written' = written + 1 /\ UNCHANGED frames
       \/ tpc = "close" /\ tpc' = "ok" /\ frames' = frames + 1 /\ UNCHANGED written
    /\ UNCHANGED <<errors, timeouts>>

Retries ==
    /\ TxWaits /\ Attempted(tpc) /\ (tpc' = tpc => tatt' # tatt)
    /\ \/ rt # <<>> /\ errors' = errors + 1 /\ UNCHANGED timeouts
       \/ tleft = 0 /\ timeouts' = timeouts + 1 /\ UNCHANGED errors
    /\ UNCHANGED written

GoesOn ==
    /\ TxWaits /\ rt # <<>>
    /\ \/ UNCHANGED <<frames, errors>>
       \/ frames' = frames + 1 /\ errors' = errors + 1
    /\ UNCHANGED <<tpc, tatt, ttimer, written, timeouts>>

\* A step of the transmitter goes by the table: each frame it sends is one of
\* the frames needed, or is sent for an error or a timeout.
LEMMA TxCounts ==
    ASSUME LinkInv, TimedTypeOK, TxTimed
    PROVE  Begins \/ Returns \/ Retries \/ GoesOn
<1>1. /\ tr \in Seq(Frames) /\ frames \in Nat /\ frames' = frames + Len(tr') - Len(tr)
      /\ tatt \in Nat /\ Len(tr) \in Nat
    BY DEF TimedTypeOK, TypeOK, TxTimed, TxFrames
<1>2. /\ tr' = tr => frames' = frames
      /\ \A f : tr' = Append(tr, f) => frames' = frames + 1
    <2>1. \A f : Len(Append(tr, f)) = Len(tr) + 1
        BY <1>1
    <2> QED BY <1>1, <2>1
<1>3. \A k, pc, f : TxAttempt(k, pc, f) => Attempted(pc)
    BY <1>2 DEF TxAttempt, Attempted
<1>4. ASSUME TxWaits, TxRetry
      PROVE  Attempted(tpc) /\ (tpc' = tpc => tatt' # tatt)
    <2>1. Attempted(tpc)
        BY <1>3, <1>4 DEF TxRetry
    <2>2. tpc' = tpc => tatt' = tatt + 1
        BY <1>4 DEF TxRetry, TxAttempt, TxWaits
    <2> QED BY <1>1, <2>1, <2>2
<1>5. CASE /\ TxOpen \/ TxOpened \/ TxCallWrite \/ TxAcked \/ TxCallClose \/ TxDisc
           /\ UNCHANGED <<errors, timeouts>>
    <2>1. TxOpen => Begins
        BY <1>3, <1>5 DEF TxOpen, Begins
    <2>2. TxCallWrite => Begins
        BY <1>3, <1>5 DEF TxCallWrite, Begins
    <2>3. TxCallClose => Begins
        BY <1>3, <1>5 DEF TxCallClose, Begins
    <2>4. TxOpened \/ TxAcked \/ TxDisc => Returns
        BY <1>2, <1>5 DEF TxOpened, TxAcked, TxDisc, TxReceives, Returns
    <2> QED BY <1>5, <2>1, <2>2, <2>3, <2>4
<1>6. CASE TxSkip /\ UNCHANGED <<errors, timeouts>>
    BY <1>2, <1>6 DEF TxSkip, TxReceives, GoesOn, txVars
<1>7. CASE /\ TxRefuse
           /\ errors' = errors + Errors(Head(rt)) /\ UNCHANGED timeouts
    <2>1. errors' = errors + 1
        BY <1>7, RefusedIsREJ DEF Errors
    <2>2. TxReceives /\ TxRetry /\ UNCHANGED written
        BY <1>7 DEF TxRefuse
    <2>3. TxWaits /\ rt # <<>>
        BY <2>2 DEF TxReceives
    <2> QED BY <1>4, <1>7, <2>1, <2>2, <2>3 DEF Retries
<1>8. CASE /\ TxResendRR
           /\ errors' = errors + 1 /\ UNCHANGED timeouts
    BY <1>2, <1>8 DEF TxResendRR, TxReceives, GoesOn, txVars
<1>9. CASE /\ TxTimeout /\ tleft = 0
           /\ timeouts' = timeouts + Timeouts /\ UNCHANGED errors
    <2>1. TxWaits /\ TxRetry /\ UNCHANGED written
        BY <1>9 DEF TxTimeout
    <2> QED BY <1>4, <1>9, <2>1 DEF Retries, Timeouts
<1> QED BY <1>5, <1>6, <1>7, <1>8, <1>9 DEF TxTimed

\* A step of the receiver or of the line changes nothing of the transmitter's.
TxKept == UNCHANGED <<tpc, tatt, ttimer, written, tleft, elapsed, frames, errors, timeouts>>

LEMMA OthersKeep ==
    ASSUME RxTimedStep \/ LineTimed
    PROVE  TxKept
<1>1. RxTimedStep => UNCHANGED txVars /\ UNCHANGED <<tleft, elapsed, frames, errors, timeouts>>
    BY DEF RxTimedStep, RxOpen, RxOpened, RxCallRead, RxDeliver, RxDamaged, RxSet,
       RxStopped, RxResendRR, RxSkip, RxCallClose, RxDisc, RxClosed, RxDiscAgain,
       RxTimeout, statVars
<1>2. LineTimed => UNCHANGED txVars /\ UNCHANGED <<tleft, elapsed, frames, errors, timeouts>>
    BY DEF LineTimed, LoseTr, LoseRt, DamageTr, DamageRt, statVars
<1> QED BY <1>1, <1>2 DEF TxKept, txVars

-----------------------------------------------------------------------------
(* The inductive invariant, part by part *)

LEMMA TimedInitInv == TimedInit => TimedInv
<1> SUFFICES ASSUME TimedInit PROVE TimedInv
    OBVIOUS
<1>1. LinkInv
    BY LinkInit DEF TimedInit
<1>2. TimedTypeOK
    BY <1>1, TimedAssumption DEF TimedInit, TimedTypeOK, LinkInv, TypeInv
<1>3. ClockInv /\ QuietInv /\ CountInv
    BY Multiples DEF TimedInit, Init, TxWaits, ClockInv, QuietInv, CountInv, Needed
<1>4. LossInv
    BY LossInit
<1> QED BY <1>1, <1>2, <1>3, <1>4 DEF TimedInv

LEMMA TimedTypes ==
    ASSUME TimedTypeOK, LinkInv, [TimedNext]_timedVars
    PROVE  TimedTypeOK'
<1>1. TypeOK'
    BY TimedIsNext, LinkInvStep DEF LinkInv, TypeInv
<1>2. /\ tleft \in 0..Timeout /\ rleft \in 0..Timeout /\ waited \in 0..Skew
      /\ elapsed \in Nat /\ frames \in Nat /\ errors \in Nat /\ timeouts \in Nat
      /\ flushed \in Nat /\ cost \in Nat /\ vital \in {"spared", "hit"}
      /\ Timeout \in Nat /\ Skew \in Nat
    BY TimedAssumption DEF TimedTypeOK
<1>3. CASE TxTimed
    <2>1. /\ frames' \in Nat /\ errors' \in Nat /\ timeouts' \in Nat
        <3>2. Begins \/ Returns \/ Retries \/ GoesOn
            BY <1>3, TxCounts
        <3>3. errors' \in Nat /\ timeouts' \in Nat
            BY <1>2, <3>2 DEF Begins, Returns, Retries, GoesOn
        <3>4. frames' \in Nat
            <4>1. tr \in Seq(Frames) /\ Len(tr) \in Nat /\ frames' = frames + Len(tr') - Len(tr)
                BY <1>3 DEF TimedTypeOK, TypeOK, TxTimed, TxFrames
            <4>2. tr' = tr \/ \E f : tr' = Append(tr, f)
                BY <1>3 DEF TxTimed, TxOpen, TxOpened, TxCallWrite, TxAcked,
                   TxCallClose, TxDisc, TxSkip, TxRefuse, TxResendRR, TxTimeout,
                   TxRetry, TxAttempt
            <4>3. Len(tr') = Len(tr) \/ Len(tr') = Len(tr) + 1
                BY <4>1, <4>2
            <4> QED BY <1>2, <4>1, <4>3
        <3> QED BY <3>3, <3>4
    <2>2. tleft' \in 0..Timeout
        BY <1>2, <1>3 DEF TxTimed, TxTimer
    <2>3. UNCHANGED <<rleft, waited, elapsed, flushed, cost, vital>>
        BY <1>3 DEF TxTimed
    <2> QED BY <1>1, <1>2, <2>1, <2>2, <2>3 DEF TimedTypeOK
<1>4. CASE RxTimedStep
    <2>1. rleft' \in 0..Timeout
        BY <1>2, <1>4 DEF RxTimedStep, RxTimer
    <2>2. flushed' \in Nat
        BY <1>2, <1>4 DEF RxTimedStep, TimedTypeOK, TypeOK
    <2>3. UNCHANGED <<tleft, waited, statVars, cost, vital>>
        BY <1>4 DEF RxTimedStep
    <2> QED BY <1>1, <1>2, <2>1, <2>2, <2>3 DEF TimedTypeOK, statVars
<1>5. CASE LineTimed
    <2>1. cost' \in Nat /\ vital' \in {"spared", "hit"}
        BY <1>2, <1>5 DEF LineTimed
    <2>2. UNCHANGED <<tleft, rleft, waited, statVars, flushed>>
        BY <1>5 DEF LineTimed
    <2> QED BY <1>1, <1>2, <2>1, <2>2 DEF TimedTypeOK, statVars
<1>6. CASE Tick
    BY <1>1, <1>2, <1>6 DEF Tick, Minus, TimedTypeOK
<1>7. CASE UNCHANGED timedVars
    BY <1>1, <1>2, <1>7 DEF timedVars, TimedTypeOK
<1> QED BY <1>3, <1>4, <1>5, <1>6, <1>7 DEF TimedNext, Progress

\* What the timer of the transmitter does in one of its steps.
LEMMA TxTimes ==
    ASSUME LinkInv, TimedTypeOK, ClockInv, QuietInv, TxTimed
    PROVE  /\ ttimer' = "armed" <=> TxWaits'
           /\ TxWaits' => tleft' = Timeout
           /\ ~TxWaits' => tleft' = 0
           /\ UNCHANGED elapsed
<1>1. Begins \/ Returns \/ Retries \/ GoesOn
    BY TxCounts
<1>2. TxTimer /\ UNCHANGED elapsed
    BY DEF TxTimed
<1>3. tleft \in 0..Timeout /\ Timeout \in Nat
    BY TimedAssumption DEF TimedTypeOK
<1>4. CASE Begins
    BY <1>2, <1>4 DEF Begins, Attempted, TxTimer, TxWaits
<1>5. CASE Returns
    BY <1>2, <1>5 DEF Returns, TxTimer, TxWaits
<1>6. CASE Retries
    BY <1>2, <1>6 DEF Retries, Attempted, TxTimer, TxWaits
<1>7. CASE GoesOn
    <2>1. ttimer = "armed" /\ ~(tleft < Timeout)
        BY <1>7 DEF GoesOn, ClockInv, QuietInv
    <2>2. tleft = Timeout
        BY <1>3, <2>1
    <2> QED BY <1>2, <1>7, <2>1, <2>2 DEF GoesOn, TxTimer, TxWaits
<1> QED BY <1>1, <1>2, <1>4, <1>5, <1>6, <1>7

LEMMA ClockStep ==
    ASSUME LinkInv, TimedTypeOK, ClockInv, QuietInv, [TimedNext]_timedVars
    PROVE  ClockInv'
<1>1. /\ tleft \in 0..Timeout /\ elapsed \in Nat /\ timeouts \in Nat
      /\ Timeout \in Nat
    BY TimedAssumption DEF TimedTypeOK
<1>2. CASE TxTimed
    <2>1. /\ ttimer' = "armed" <=> TxWaits'
          /\ TxWaits' => tleft' = Timeout
          /\ ~TxWaits' => tleft' = 0
          /\ elapsed' = elapsed
        BY <1>2, TxTimes
    <2>2. elapsed' = timeouts' * Timeout
        <3>1. CASE /\ Retries /\ timeouts' = timeouts + 1 /\ tleft = 0
            <4>1. elapsed + 0 = timeouts * Timeout + Timeout
                BY <3>1 DEF Retries, ClockInv
            <4> QED BY <1>1, <2>1, <3>1, <4>1, Multiples
        <3>2. CASE TxWaits /\ rt # <<>> /\ timeouts' = timeouts
            <4>1. ~(tleft < Timeout) /\ elapsed + tleft = timeouts * Timeout + Timeout
                BY <3>2 DEF QuietInv, ClockInv
            <4>2. tleft = Timeout
                BY <1>1, <4>1
            <4> QED BY <1>1, <2>1, <3>2, <4>1, <4>2, Multiples
        <3>3. CASE ~TxWaits /\ timeouts' = timeouts
            BY <2>1, <3>3 DEF ClockInv
        <3> QED
            BY <1>2, TxCounts, <3>1, <3>2, <3>3 DEF Begins, Returns, Retries, GoesOn, TxWaits
    <2>3. timeouts' \in Nat
        BY <1>2, TimedTypes DEF TimedNext, Progress, TimedTypeOK
    <2> QED BY <1>1, <2>1, <2>2, <2>3, Multiples DEF ClockInv
<1>3. CASE RxTimedStep \/ LineTimed
    <2>1. UNCHANGED <<tpc, ttimer, tleft, elapsed, timeouts>>
        BY <1>3, OthersKeep DEF TxKept
    <2> QED BY <2>1 DEF ClockInv, TxWaits
<1>4. CASE Tick
    <2>1. UNCHANGED <<tpc, ttimer, timeouts>> /\ tleft' = Minus(tleft)
        BY <1>4 DEF Tick, vars
    <2>2. TxWaits => tleft > 0 /\ elapsed' = elapsed + 1
        BY <1>4 DEF Tick, Quiet
    <2>3. ~TxWaits => elapsed' = elapsed
        BY <1>4 DEF Tick
    <2>4. TxWaits => tleft' = tleft - 1
        BY <1>1, <2>1, <2>2 DEF Minus
    <2>5. TxWaits' = TxWaits
        BY <2>1 DEF TxWaits
    <2>6. TxWaits => elapsed' + tleft' = elapsed + tleft
        BY <1>1, <2>2, <2>4
    <2> QED BY <2>1, <2>3, <2>5, <2>6 DEF ClockInv, Minus
<1>5. CASE UNCHANGED timedVars
    BY <1>5 DEF timedVars, vars, ClockInv, TxWaits
<1> QED BY <1>2, <1>3, <1>4, <1>5 DEF TimedNext, Progress

LEMMA QuietStep ==
    ASSUME LinkInv, TimedTypeOK, ClockInv, QuietInv, [TimedNext]_timedVars
    PROVE  QuietInv'
<1>1. tleft \in 0..Timeout /\ Timeout \in Nat
    BY TimedAssumption DEF TimedTypeOK
<1>2. CASE TxTimed
    <2>1. TxWaits' => ~(tleft' < Timeout)
        BY <1>1, <1>2, TxTimes
    <2> QED BY <2>1 DEF QuietInv
<1>3. CASE RxTimedStep
    <2>1. UNCHANGED <<tpc, tleft>>
        BY <1>3, OthersKeep DEF TxKept
    <2> SUFFICES ASSUME TxWaits, tleft < Timeout
                 PROVE  rt' = <<>> /\ rpc' # "ready" /\ (RxWaits' => tr' = <<>>)
        BY <2>1 DEF QuietInv, TxWaits
    <2>2. rt = <<>> /\ rpc # "ready" /\ (RxWaits => tr = <<>>)
        BY DEF QuietInv
    <2>3. RxOpen \/ RxTimeout
        BY <1>3, <2>2 DEF RxTimedStep, RxOpened, RxCallRead, RxDeliver, RxDamaged,
           RxSet, RxStopped, RxResendRR, RxSkip, RxCallClose, RxDisc, RxClosed,
           RxDiscAgain, RxGets, RxWaits, RxTimed
    <2>4. CASE RxOpen
        BY <2>2, <2>4 DEF RxOpen, RxAttempt
    <2>5. CASE RxTimeout
        BY <2>2, <2>5 DEF RxTimeout, RxRetry, RxAttempt, RxWaits, RxTimed
    <2> QED BY <2>3, <2>4, <2>5
<1>4. CASE LineTimed
    <2>1. UNCHANGED <<tpc, tleft>>
        BY <1>4, OthersKeep DEF TxKept
    <2>2. UNCHANGED rpc
        BY <1>4 DEF LineTimed, LoseTr, LoseRt, DamageTr, DamageRt, rxVars
    <2>3. rt = <<>> => rt' = <<>>
        BY <1>4 DEF LineTimed, LoseTr, LoseRt, DamageTr, DamageRt
    <2>4. tr = <<>> => tr' = <<>>
        BY <1>4 DEF LineTimed, LoseTr, LoseRt, DamageTr, DamageRt
    <2> QED BY <2>1, <2>2, <2>3, <2>4 DEF QuietInv, TxWaits, RxWaits, RxTimed
<1>5. CASE Tick
    BY <1>5 DEF Tick, Quiet, vars, QuietInv, TxWaits, RxWaits, RxTimed
<1>6. CASE UNCHANGED timedVars
    BY <1>6 DEF timedVars, vars, QuietInv, TxWaits, RxWaits, RxTimed
<1> QED BY <1>2, <1>3, <1>4, <1>5, <1>6 DEF TimedNext, Progress

LEMMA CountStep ==
    ASSUME LinkInv, TimedTypeOK, CountInv, [TimedNext]_timedVars
    PROVE  CountInv'
<1>1. /\ frames \in Nat /\ errors \in Nat /\ timeouts \in Nat
      /\ written \in Nat /\ N \in Nat
      /\ tpc \in {"idle", "open", "ready", "write", "close", "ok", "fail"}
    BY LinkLayerAssumption DEF TimedTypeOK, TypeOK
<1>2. CASE TxTimed
    <2>1. CASE Begins
        <3>1. \/ tpc = "idle" /\ Attempted("open")
              \/ tpc = "ready" /\ Attempted("write")
              \/ tpc = "ready" /\ written = N /\ Attempted("close")
            BY <2>1 DEF Begins
        <3>2. UNCHANGED <<written, errors, timeouts>>
            BY <2>1 DEF Begins
        <3>3. frames = Needed + timeouts + errors
            BY <3>1 DEF CountInv
        <3>4. tpc = "idle" => Needed = 0
            BY DEF Needed
        <3>5. tpc = "ready" => Needed = written + 1
            BY DEF Needed
        <3>6. CASE tpc = "idle" /\ Attempted("open")
            <4>1. tpc' # "fail" => Needed' = 1 /\ frames' = frames + 1
                BY <3>6 DEF Attempted, Needed
            <4> QED BY <1>1, <3>2, <3>3, <3>4, <3>6, <4>1 DEF CountInv
        <3>7. CASE tpc = "ready" /\ Attempted("write")
            <4>1. tpc' # "fail" => Needed' = written + 2 /\ frames' = frames + 1
                BY <3>2, <3>7 DEF Attempted, Needed
            <4> QED BY <1>1, <3>2, <3>3, <3>5, <3>7, <4>1 DEF CountInv
        <3>8. CASE tpc = "ready" /\ written = N /\ Attempted("close")
            <4>1. tpc' # "fail" => Needed' = N + 2 /\ frames' = frames + 1
                BY <3>8 DEF Attempted, Needed
            <4> QED BY <1>1, <3>2, <3>3, <3>5, <3>8, <4>1 DEF CountInv
        <3> QED BY <3>1, <3>6, <3>7, <3>8
    <2>2. CASE Returns
        <3>1. UNCHANGED <<errors, timeouts>> /\ tpc # "fail"
            BY <2>2 DEF Returns
        <3>2. frames = Needed + timeouts + errors
            BY <3>1 DEF CountInv
        <3>3. CASE tpc = "open" /\ tpc' = "ready" /\ UNCHANGED <<written, frames>>
            <4>1. Needed = 1 /\ Needed' = written + 1 /\ written = 0
                BY <3>3 DEF Needed, LinkInv, OpenInv
            <4> QED BY <1>1, <3>1, <3>2, <3>3, <4>1 DEF CountInv
        <3>4. CASE tpc = "write" /\ tpc' = "ready" /\ written' = written + 1 /\ UNCHANGED frames
            <4>1. Needed = written + 2 /\ Needed' = written + 1 + 1
                BY <3>4 DEF Needed
            <4> QED BY <1>1, <3>1, <3>2, <3>4, <4>1 DEF CountInv
        <3>5. CASE tpc = "close" /\ tpc' = "ok" /\ frames' = frames + 1 /\ UNCHANGED written
            <4>1. Needed = N + 2 /\ Needed' = N + 3
                BY <3>5 DEF Needed
            <4> QED BY <1>1, <3>1, <3>2, <3>5, <4>1 DEF CountInv
        <3> QED BY <2>2, <3>3, <3>4, <3>5 DEF Returns
    <2>3. CASE Retries
        <3>1. Needed \in Nat
            BY <1>1, <2>3 DEF Needed, Retries, TxWaits
        <3>2. tpc' = tpc => Needed' = Needed
            BY <2>3 DEF Needed, Retries
        <3> QED BY <1>1, <2>3, <3>1, <3>2 DEF Retries, Attempted, CountInv, TxWaits
    <2>4. CASE GoesOn
        <3>1. Needed \in Nat /\ Needed' = Needed
            BY <1>1, <2>4 DEF Needed, GoesOn, TxWaits
        <3> QED BY <1>1, <2>4, <3>1 DEF GoesOn, CountInv, TxWaits
    <2> QED BY <1>2, TxCounts, <2>1, <2>2, <2>3, <2>4
<1>3. CASE RxTimedStep \/ LineTimed
    <2>1. UNCHANGED <<tpc, written, frames, errors, timeouts>>
        BY <1>3, OthersKeep DEF TxKept
    <2> QED BY <2>1 DEF CountInv, Needed
<1>4. CASE Tick \/ UNCHANGED timedVars
    <2>1. UNCHANGED <<tpc, written, frames, errors, timeouts>>
        BY <1>4 DEF Tick, timedVars, vars
    <2> QED BY <2>1 DEF CountInv, Needed
<1> QED BY <1>2, <1>3, <1>4 DEF TimedNext, Progress

-----------------------------------------------------------------------------
(* The theorems *)

\* Whatever the line does and whenever the ends start, the invariant behind the
\* statistics holds at every moment of a transfer.
THEOREM TimedInvHolds == TimedSpec => []TimedInv
<1>1. TimedInv /\ [TimedNext]_timedVars => TimedInv'
    <2> SUFFICES ASSUME TimedInv, [TimedNext]_timedVars PROVE TimedInv'
        OBVIOUS
    <2>1. LinkInv /\ TimedTypeOK /\ ClockInv /\ QuietInv /\ CountInv /\ LossInv
        BY DEF TimedInv
    <2>2. LinkInv'
        BY <2>1, TimedIsNext, LinkInvStep
    <2>3. TimedTypeOK' /\ ClockInv' /\ QuietInv' /\ CountInv'
        BY <2>1, TimedTypes, ClockStep, QuietStep, CountStep
    <2>4. LossInv'
        BY <2>1, LossStep
    <2> QED BY <2>2, <2>3, <2>4 DEF TimedInv
<1> QED BY TimedInitInv, <1>1, PTL DEF TimedSpec

\* Every variable has its type: no timer of either end is ever beyond the
\* timeout it was set to.
THEOREM TimedTypesHold == TimedSpec => []TimedTypeOK
<1>1. TimedInv => TimedTypeOK
    BY DEF TimedInv
<1> QED BY TimedInvHolds, <1>1, PTL

\* When a transfer has succeeded the time of the transmitter's calls is that of
\* its timeouts: no retransmission cuts a wait short or extends one.
THEOREM TimeHolds == TimedSpec => []TimeIsTimeouts
<1>1. TimedInv => TimeIsTimeouts
    BY DEF TimedInv, ClockInv, TxWaits, TimeIsTimeouts
<1> QED BY TimedInvHolds, <1>1, PTL

\* When a transfer has succeeded each frame sent is one of SET, the packets,
\* DISC and UA, or is counted as a timeout or an error.
THEOREM FramesHold == TimedSpec => []FramesAddUp
<1>1. TimedInv => FramesAddUp
    BY DEF TimedInv, CountInv, Needed, FramesAddUp
<1> QED BY TimedInvHolds, <1>1, PTL

\* When a transfer has succeeded no error has been counted without a damaged
\* frame, and no timeout without a lost, damaged or flushed one.
THEOREM CountsHold == TimedSpec => []CountsAreFaults
<1>1. TimedInv => CountsAreFaults
    BY DEF TimedInv, LossInv, CountsAreFaults
<1> QED BY TimedInvHolds, <1>1, PTL

=============================================================================

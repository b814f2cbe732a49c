--------------------------- MODULE Sessions_proofs ---------------------------
(***************************************************************************)
(* Sessions for every number of sessions, of processes that are killed, of *)
(* packets, attempts and faults: SessionsInv is inductive, and implies     *)
(* that no file mixes two sessions, that success means received, and that  *)
(* the drivers stay in step.                                               *)
(***************************************************************************)
EXTENDS SessionsInv, LinkLayer_proofs, FiniteSetTheorems

-----------------------------------------------------------------------------
(* The steps, as the proofs look at them *)

\* Nothing happens that the invariant speaks of.
Still == UNCHANGED <<vars, driven, tsess, rsess, quiet, ghostVars>>

\* A step of the calls or of the line, other than TxDiscAgain.
Calls == /\ [Next]_vars /\ Tracked /\ Attributed
         /\ UNCHANGED <<driven, tsess, rsess, quiet>>

CallsAgain == /\ TxDiscAgain /\ Tracked /\ Attributed
              /\ UNCHANGED <<driven, tsess, rsess, quiet>>

TxRenewed ==
    /\ TxFresh /\ TxEnded /\ UNCHANGED <<driven, rsess, ghostVars>>
    /\ driven = "drivers" => tpc = "ok" /\ quiet' = quiet
    /\ driven = "users" /\ quiet' = "kept" =>
          quiet = "kept" /\ (tr = <<>> \/ RxEnded \/ rpc = "idle")

RxRenewed ==
    /\ RxFresh /\ RxEnded /\ UNCHANGED <<driven, tsess, quiet, origin, received>>
    /\ driven = "drivers" => rpc = "ok"

TxDies ==
    /\ ~TxEnded /\ tpc' = "fail" /\ tatt' = 0 /\ ttimer' = "off"
    /\ UNCHANGED <<tseq, written, rxVars, tr, rt, faults,
                   driven, tsess, rsess, quiet, ghostVars>>

RxDies ==
    /\ ~RxEnded /\ rpc' = "fail" /\ ratt' = 0 /\ rtimer' = "off"
    /\ UNCHANGED <<rseq, rerrno, rauto, delivered, txVars, tr, rt, faults,
                   driven, tsess, rsess, quiet, ghostVars>>

LEMMA SessionsSteps ==
    ASSUME SessionsTypeOK, [SessionsNext]_sessionVars
    PROVE  \/ Still \/ Calls \/ CallsAgain \/ TxRenewed \/ RxRenewed \/ TxDies \/ RxDies
<1>1. CASE LinkStep
    BY <1>1 DEF LinkStep, Calls, CallsAgain, driverVars
<1>2. CASE TxDriver
    <2>1. CASE \E status \in Statuses(tpc) : status = 0 /\ TxFresh
        <3>1. tpc = "ok"
            BY <2>1 DEF Statuses
        <3> QED BY <1>2, <2>1, <3>1 DEF TxDriver, TxRenewed, TxFresh
    <2>2. CASE UNCHANGED <<vars, tsess>>
        BY <1>2, <2>2 DEF TxDriver, Still
    <2> QED BY <1>2, <2>1, <2>2 DEF TxDriver
<1>3. CASE RxDriver
    <2>1. CASE \E status \in Statuses(rpc) : status = 0 /\ RxFresh
        <3>1. rpc = "ok"
            BY <2>1 DEF Statuses
        <3> QED BY <1>3, <2>1, <3>1 DEF RxDriver, RxRenewed, RxFresh
    <2>2. CASE UNCHANGED <<vars, rsess, sources>>
        BY <1>3, <2>2 DEF RxDriver, Still, ghostVars
    <2> QED BY <1>3, <2>1, <2>2 DEF RxDriver
<1>4. CASE TxStartedAgain
    BY <1>4 DEF TxStartedAgain, TxRenewed, SessionsTypeOK
<1>5. CASE RxStartedAgain
    BY <1>5 DEF RxStartedAgain, RxRenewed
<1>6. CASE TxKilled
    BY <1>6 DEF TxKilled, TxDies
<1>7. CASE RxKilled
    BY <1>7 DEF RxKilled, RxDies
<1>8. CASE UNCHANGED sessionVars
    BY <1>8 DEF sessionVars, Still, ghostVars
<1> QED BY <1>1, <1>2, <1>3, <1>4, <1>5, <1>6, <1>7, <1>8 DEF SessionsNext

-----------------------------------------------------------------------------
(* Where frames come from *)

\* The sessions that sent the frames towards the receiver, k of them gone.
OrgMoved(k) ==
    \A i \in 1..Len(tr') :
        origin'[i] = IF i + k <= Len(tr) THEN origin[i + k] ELSE tsess

Tracks(k) ==
    /\ origin' \in Seq(1..tsess) /\ Len(origin') = Len(tr')
    /\ OrgMoved(k)

\* The origins of a channel of which k frames are taken, or to which k are added.
LEMMA TrackedTaken ==
    ASSUME SessionsTypeOK, Tracked, tr \in Seq(Frames), tr # <<>>, tr' = Tail(tr)
    PROVE  Tracks(1)
<1>1. Len(tr') = Len(tr) - 1 /\ Len(tr) \in Nat \ {0}
    BY TailOfChannel
<1>2. origin \in Seq(1..tsess) /\ Len(origin) = Len(tr)
    BY DEF SessionsTypeOK
<1>3. origin' = SubSeq(origin, 2, Len(origin))
    BY <1>1, <1>2 DEF Tracked
<1>4. /\ origin' \in Seq(1..tsess) /\ Len(origin') = Len(origin) - 1
      /\ \A i \in 1..Len(origin) - 1 : origin'[i] = origin[i + 1]
    <2>1. origin # <<>> /\ origin' = Tail(origin)
        BY <1>1, <1>2, <1>3, TailIsSubSeq
    <2> QED BY <1>1, <1>2, <2>1, TailOfChannel
<1> QED BY <1>1, <1>2, <1>4 DEF Tracks, OrgMoved

LEMMA TrackedFlushed ==
    ASSUME SessionsTypeOK, Tracked, tr \in Seq(Frames), tr' = <<>>
    PROVE  Tracks(0)
<1>1. origin \in Seq(1..tsess) /\ Len(origin) = Len(tr) /\ Len(tr) \in Nat /\ Len(tr') = 0
    BY DEF SessionsTypeOK
<1>2. CASE tr = <<>>
    BY <1>1, <1>2 DEF Tracked, Tracks, OrgMoved
<1>3. CASE tr # <<>>
    <2>1. Len(tr) # 0
        BY <1>3
    <2>2. origin' = SubSeq(origin, Len(tr) + 1, Len(tr))
        BY <1>1, <2>1 DEF Tracked
    <2>3. origin' \in Seq(1..tsess) /\ Len(origin') = 0
        BY <1>1, <2>2
    <2> QED BY <1>1, <2>3 DEF Tracks, OrgMoved
<1> QED BY <1>2, <1>3

LEMMA TrackedSent ==
    ASSUME SessionsTypeOK, Tracked, NEW more \in Nat, Len(tr) \in Nat,
           Len(tr') = Len(tr) + more
    PROVE  Tracks(0)
<1>1. origin \in Seq(1..tsess) /\ Len(origin) = Len(tr) /\ tsess \in 1..tsess
    BY DEF SessionsTypeOK
<1> DEFINE own == [i \in 1..more |-> tsess]
<1>2. own \in Seq(1..tsess) /\ Len(own) = more /\ \A i \in 1..more : own[i] = tsess
    BY <1>1
<1>3. origin' = origin \o own
    BY DEF Tracked
<1> HIDE DEF own
<1>4. /\ origin \o own \in Seq(1..tsess)
      /\ Len(origin \o own) = Len(origin) + Len(own)
      /\ \A i \in 1..Len(origin) + Len(own) :
            (origin \o own)[i] = IF i <= Len(origin) THEN origin[i] ELSE own[i - Len(origin)]
    BY <1>1, <1>2, ConcatProperties
<1>5. /\ origin' \in Seq(1..tsess) /\ Len(origin') = Len(tr) + more
      /\ \A i \in 1..Len(tr) + more :
            origin'[i] = IF i <= Len(tr) THEN origin[i] ELSE own[i - Len(tr)]
    BY <1>1, <1>2, <1>3, <1>4
<1>6. \A i \in 1..Len(tr) + more : ~(i <= Len(tr)) => i - Len(tr) \in 1..more
    OBVIOUS
<1>7. OrgMoved(0)
    BY <1>2, <1>5, <1>6 DEF OrgMoved
<1> QED BY <1>5, <1>7 DEF Tracks

\* Frames and their origins move together.
LEMMA LineTracked ==
    ASSUME TypeInv, SessionsTypeOK, [Next]_vars, Tracked
    PROVE  \E k \in {0, 1} : TrMoved(k) /\ Tracks(k)
<1>1. tr \in Seq(Frames) /\ Len(tr) \in Nat /\ TrStep
    BY TrSteps DEF TypeInv, TypeOK
<1>2. CASE tr' = tr
    <2>1. Len(tr') = Len(tr) + 0
        BY <1>1, <1>2
    <2>2. 0 \in Nat
        OBVIOUS
    <2> QED BY <1>1, <1>2, <2>1, <2>2, TrKept, TrackedSent
<1>3. CASE tr' = <<>>
    BY <1>1, <1>3, TrackedFlushed DEF TrMoved
<1>4. CASE tr # <<>> /\ tr' = Tail(tr)
    BY <1>1, <1>4, TrTaken, TrackedTaken
<1>5. CASE \E f \in Frames : TxSends(f) /\ tr' = Append(tr, f)
    <2>1. PICK f \in Frames : TxSends(f) /\ tr' = Append(tr, f)
        BY <1>5
    <2>2. Len(tr') = Len(tr) + 1
        BY <1>1, <2>1
    <2> QED BY <1>1, <2>1, <2>2, TrSent, TrackedSent
<1>6. CASE DamageTr
    <2>1. PICK g \in Frames : tr' = [tr EXCEPT ![1] = g]
        BY <1>6, DamageTrTyped
    <2>2. Len(tr') = Len(tr) + 0 /\ 0 \in Nat
        BY <1>1, <2>1
    <2> QED BY <1>1, <1>6, <2>2, TrDamaged, TrackedSent
<1> QED BY <1>1, <1>2, <1>3, <1>4, <1>5, <1>6 DEF TrStep

\* The transmitter's answer to a DISC, and the SET that may follow it.
LEMMA AnsweredAgain ==
    ASSUME TypeInv, SessionsTypeOK, TxDiscAgain, Tracked
    PROVE  /\ tr' \in Seq(Frames) /\ Tracks(0)
           /\ \A i \in 1..Len(tr') : \/ i <= Len(tr) /\ tr'[i] = tr[i]
                                     \/ tr'[i].c \in {"DISC", "SET"}
           /\ rt \in Seq(Frames) /\ rt # <<>> /\ rt' = Tail(rt) /\ Head(rt).c = "DISC"
           /\ tpc = "open" /\ tpc' \in {"open", "fail"} /\ tatt' \in Nat
           /\ ttimer' \in {"armed", "off"}
           /\ UNCHANGED <<tseq, written, rxVars, faults>>
<1>1. tr \in Seq(Frames) /\ Len(tr) \in Nat /\ rt \in Seq(Frames) /\ tatt \in Nat
    BY DEF TypeInv, TypeOK
<1>2. tpc = "open" /\ Head(rt).c = "DISC" /\ rt # <<>> /\ rt' = Tail(rt)
    BY DEF TxDiscAgain, TxReceives, TxWaits, TxOutcome, UOutcome, SOutcome
<1>3. /\ tpc' \in {"open", "fail"} /\ tatt' \in Nat /\ ttimer' \in {"armed", "off"}
      /\ UNCHANGED <<tseq, written, rxVars, faults>>
    BY <1>1, <1>2 DEF TxDiscAgain
<1>4. /\ TxFrame = TxSET /\ TxSET.c = "SET" /\ TxDISC.c = "DISC"
      /\ TxSET \in Frames /\ TxDISC \in Frames
    BY <1>2, FramesSent DEF TxFrame, TxSET, TxDISC, Frame
<1>5. CASE tr' = tr \o <<TxDISC, TxFrame>>
    <2>1. tr' = tr \o <<TxDISC, TxSET>>
        BY <1>4, <1>5
    <2>2. /\ tr' \in Seq(Frames) /\ Len(tr') = Len(tr) + 2
          /\ \A i \in 1..Len(tr) : tr'[i] = tr[i]
          /\ tr'[Len(tr) + 1] = TxDISC /\ tr'[Len(tr) + 2] = TxSET
        BY <1>1, <1>4, <2>1
    <2>3. Tracks(0)
        BY <1>1, <2>2, TrackedSent
    <2> QED BY <1>1, <1>2, <1>3, <1>4, <2>2, <2>3
<1>6. CASE tr' = Append(tr, TxDISC)
    <2>1. /\ tr' \in Seq(Frames) /\ Len(tr') = Len(tr) + 1
          /\ \A i \in 1..Len(tr) : tr'[i] = tr[i]
          /\ tr'[Len(tr) + 1] = TxDISC
        BY <1>1, <1>4, <1>6, AppendToChannel
    <2>2. Tracks(0)
        BY <1>1, <2>1, TrackedSent
    <2> QED BY <1>1, <1>2, <1>3, <1>4, <2>1, <2>2
<1> QED BY <1>5, <1>6 DEF TxDiscAgain

\* A packet that is delivered is of the session that sent the first frame.
Attribution ==
    /\ PacketTaken /\ Count' = Count + 1
    /\ 1 \in 1..Len(tr) /\ Head(tr) = tr[1] /\ 1 \in 1..Len(origin)
    /\ sources' = sources \union {origin[1]}
    /\ received \subseteq received' /\ received' \subseteq received \union sources'
    /\ \A s : sources' = {s} /\ Count' = N => s \in received'

LEMMA Attributes ==
    ASSUME TypeInv, SessionsTypeOK, [Next]_vars, Attributed
    PROVE  Attribution \/ UNCHANGED <<delivered, sources, received>>
<1>1. CASE PacketTaken
    <2>1. /\ tr \in Seq(Frames) /\ tr # <<>> /\ delivered \in Seq(1..N)
          /\ delivered' = Append(delivered, Head(tr).d) /\ Len(origin) = Len(tr)
        BY <1>1 DEF PacketTaken, TypeInv, TypeOK, SessionsTypeOK
    <2>2. Head(tr) = tr[1] /\ Len(tr) \in Nat \ {0}
        BY <2>1, TailOfChannel
    <2>3. Count' = Count + 1 /\ Count \in Nat
        BY <2>1 DEF Count
    <2>4. 1 \in 1..Len(tr) /\ 1 \in 1..Len(origin) /\ Head(origin) = origin[1]
        BY <2>1, <2>2 DEF SessionsTypeOK
    <2>5. /\ sources' = sources \union {origin[1]}
          /\ received' = IF Count' = N /\ Cardinality(sources') = 1
                         THEN received \union sources' ELSE received
        BY <2>3, <2>4 DEF Attributed, Count
    <2>6. \A s : sources' = {s} /\ Count' = N => s \in received'
        BY <2>5, FS_Singleton
    <2>7. received \subseteq received' /\ received' \subseteq received \union sources'
        BY <2>5
    <2> QED BY <1>1, <2>2, <2>3, <2>4, <2>5, <2>6, <2>7 DEF Attribution
<1>2. CASE ~PacketTaken
    <2>1. delivered' = delivered
        BY <1>2, RxMoves DEF RxMove
    <2>2. delivered \in Seq(1..N)
        BY DEF TypeInv, TypeOK
    <2>3. ~(Len(delivered') > Len(delivered))
        BY <2>1, <2>2
    <2> QED BY <2>1, <2>3 DEF Attributed
<1> QED BY <1>1, <1>2

-----------------------------------------------------------------------------
(* Types *)

LEMMA SessionsTypeInit == SessionsInit => SessionsTypeOK /\ TypeInv
<1>1. SessionsInit => TypeInv
    BY TypeInit DEF SessionsInit
<1> QED BY <1>1, SessionsAssumption DEF SessionsInit, SessionsTypeOK, TypeInv, Init

\* The links of all sessions together have the types of one.
LEMMA LinkTypes ==
    ASSUME TypeInv, SessionsTypeOK, [SessionsNext]_sessionVars
    PROVE  TypeInv'
<1>1. CASE Still
    BY <1>1 DEF Still, vars, TypeInv, TypeOK
<1>2. CASE Calls
    <2>1. CASE UNCHANGED vars
        BY <2>1 DEF vars, TypeInv, TypeOK
    <2> QED BY <1>2, <2>1, TypeTx, TypeRx, TypeLine DEF Calls, Next
<1>3. CASE CallsAgain
    <2>1. /\ tr' \in Seq(Frames)
          /\ \A i \in 1..Len(tr') : \/ i <= Len(tr) /\ tr'[i] = tr[i]
                                    \/ tr'[i].c \in {"DISC", "SET"}
          /\ rt \in Seq(Frames) /\ rt # <<>> /\ rt' = Tail(rt)
          /\ tpc' \in {"open", "fail"} /\ tatt' \in Nat /\ ttimer' \in {"armed", "off"}
          /\ UNCHANGED <<tseq, written, rxVars, faults>>
        BY <1>3, AnsweredAgain DEF CallsAgain
    <2>2. rt' \in Seq(Frames)
        BY <2>1, TailOfChannel
    <2>3. (\A i \in 1..Len(tr) : Intact(tr[i]) => tr[i].d \in 1..N)'
        <3>1. \A i \in 1..Len(tr) : Intact(tr[i]) => tr[i].d \in 1..N
            BY DEF TypeInv
        <3>2. Len(tr) \in Nat /\ \A f : f.c \in {"DISC", "SET"} => ~Intact(f)
            BY DEF TypeInv, TypeOK, Intact
        <3> HIDE DEF Intact
        <3> QED BY <2>1, <3>1, <3>2
    <2>4. TypeOK'
        BY <2>1, <2>2 DEF TypeInv, TypeOK, rxVars
    <2> QED BY <2>1, <2>3, <2>4 DEF TypeInv
<1>4. CASE TxRenewed
    BY <1>4, LinkLayerAssumption DEF TxRenewed, TxFresh, rxVars, TypeInv, TypeOK
<1>5. CASE RxRenewed
    BY <1>5 DEF RxRenewed, RxFresh, txVars, TypeInv, TypeOK
<1>6. CASE TxDies
    BY <1>6 DEF TxDies, rxVars, TypeInv, TypeOK
<1>7. CASE RxDies
    BY <1>7 DEF RxDies, txVars, TypeInv, TypeOK
<1> QED BY <1>1, <1>2, <1>3, <1>4, <1>5, <1>6, <1>7, SessionsSteps

\* What the sessions add to them.
LEMMA SessionsTypes ==
    ASSUME TypeInv, SessionsTypeOK, [SessionsNext]_sessionVars
    PROVE  SessionsTypeOK'
<1>1. TypeOK'
    BY LinkTypes DEF TypeInv
<1>2. /\ driven \in {"drivers", "users"}
      /\ tdriver \in {"waits", "done", "error"} /\ rdriver \in {"waits", "done", "error"}
      /\ tsess \in 1..Lines /\ rsess \in 1..Lines /\ kills \in 0..MaxKills
      /\ quiet \in {"kept", "broken"}
      /\ origin \in Seq(1..tsess) /\ Len(origin) = Len(tr)
      /\ sources \subseteq 1..tsess /\ received \subseteq 1..tsess
      /\ Lines \in Nat /\ MaxKills \in Nat
    BY SessionsAssumption DEF SessionsTypeOK
<1>3. /\ driven' \in {"drivers", "users"}
      /\ tdriver' \in {"waits", "done", "error"} /\ rdriver' \in {"waits", "done", "error"}
      /\ tsess' \in 1..Lines /\ rsess' \in 1..Lines /\ kills' \in 0..MaxKills
      /\ quiet' \in {"kept", "broken"}
      /\ tsess' \in {tsess, tsess + 1}
    <2>1. CASE LinkStep
        BY <1>2, <2>1 DEF LinkStep, driverVars
    <2>2. CASE TxDriver \/ TxStartedAgain \/ TxKilled
        BY <1>2, <2>2 DEF TxDriver, TxStartedAgain, TxKilled, TxFresh, Kill
    <2>3. CASE RxDriver \/ RxStartedAgain \/ RxKilled
        BY <1>2, <2>3 DEF RxDriver, RxStartedAgain, RxKilled, RxFresh, Kill
    <2>4. CASE UNCHANGED sessionVars
        BY <1>2, <2>4 DEF sessionVars
    <2> QED BY <2>1, <2>2, <2>3, <2>4 DEF SessionsNext
<1>4. /\ origin' \in Seq(1..tsess) /\ Len(origin') = Len(tr')
      /\ sources' \subseteq 1..tsess /\ received' \subseteq 1..tsess
    <2>1. CASE Calls
        <3>1. origin' \in Seq(1..tsess) /\ Len(origin') = Len(tr')
            BY <2>1, LineTracked DEF Calls, Tracks
        <3>2. sources' \subseteq 1..tsess /\ received' \subseteq 1..tsess
            <4>1. CASE Attribution
                <5>1. origin[1] \in 1..tsess
                    BY <1>2, <4>1, ElementOfSeq DEF Attribution
                <5> QED BY <1>2, <4>1, <5>1 DEF Attribution
            <4>2. CASE UNCHANGED <<sources, received>>
                BY <1>2, <4>2
            <4> QED BY <2>1, <4>1, <4>2, Attributes DEF Calls
        <3> QED BY <3>1, <3>2
    <2>2. CASE CallsAgain
        <3>1. origin' \in Seq(1..tsess) /\ Len(origin') = Len(tr') /\ UNCHANGED delivered
            BY <2>2, AnsweredAgain DEF CallsAgain, Tracks, rxVars
        <3>2. Len(delivered) \in Nat
            BY DEF TypeInv, TypeOK
        <3>3. UNCHANGED <<sources, received>>
            BY <2>2, <3>1, <3>2 DEF CallsAgain, Attributed
        <3> QED BY <1>2, <3>1, <3>3
    <2>3. CASE Still \/ TxRenewed \/ RxRenewed \/ TxDies \/ RxDies
        BY <1>2, <2>3
        DEF Still, vars, ghostVars, TxRenewed, TxFresh, RxRenewed, RxFresh, TxDies, RxDies
    <2> QED BY <2>1, <2>2, <2>3, SessionsSteps
<1>5. 1..tsess \subseteq 1..tsess'
    BY <1>2, <1>3
<1>6. origin' \in Seq(1..tsess')
    BY <1>4, <1>5, SeqMonotonic
<1> QED BY <1>1, <1>3, <1>4, <1>5, <1>6 DEF SessionsTypeOK

-----------------------------------------------------------------------------
(* The receiver's session *)

\* What leaves the receiver's session alone.
RxKept == UNCHANGED <<rpc, delivered, sources, received, rsess>>

LEMMA AgainKeeps ==
    ASSUME TypeInv, SessionsTypeOK, CallsAgain
    PROVE  RxKept
<1>1. UNCHANGED <<rpc, delivered>>
    BY AnsweredAgain DEF CallsAgain, rxVars
<1>2. Len(delivered) \in Nat
    BY DEF TypeInv, TypeOK
<1> QED BY <1>1, <1>2 DEF CallsAgain, Attributed, RxKept

LEMMA FileStep ==
    ASSUME TypeInv, SessionsTypeOK, FileInv, [SessionsNext]_sessionVars
    PROVE  FileInv'
<1>1. Count \in Nat /\ N \in Nat /\ N > 0
    BY CountsTyped, SessionsAssumption
<1>2. CASE RxKept
    BY <1>2 DEF RxKept, FileInv, Count
<1>3. CASE Still \/ TxRenewed \/ TxDies
    BY <1>2, <1>3 DEF Still, vars, ghostVars, TxRenewed, TxFresh, TxDies, rxVars, RxKept
<1>4. CASE Calls
    <2>1. RxMove
        BY <1>4, RxMoves DEF Calls
    <2>2. CASE Attribution
        <3>1. rpc' = "ready" /\ Count' = Count + 1 /\ sources' # {}
            BY <2>2 DEF Attribution, PacketTaken
        <3>2. Count' # 0
            BY <1>1, <3>1
        <3>3. Count' = N => \A s \in sources' : sources' = {s} => s \in received'
            BY <2>2 DEF Attribution
        <3> QED BY <3>1, <3>2, <3>3 DEF FileInv
    <2>3. CASE UNCHANGED <<delivered, sources, received>>
        <3>1. Count' = Count /\ ~PacketTaken
            <4>1. PacketTaken => Count' = Count + 1
                BY DEF PacketTaken, Count, TypeInv, TypeOK
            <4> QED BY <1>1, <2>3, <4>1 DEF Count
        <3>2. rpc' \in {"idle", "open"} => rpc \in {"idle", "open"}
            BY <2>1, <3>1 DEF RxMove
        <3>3. rpc' = "read" => Count < N
            BY <2>1, <3>1 DEF RxMove, FileInv
        <3>4. rpc' \in {"close", "ua"} => Count = N
            BY <2>1, <3>1 DEF RxMove, FileInv
        <3> QED BY <2>3, <3>1, <3>2, <3>3, <3>4 DEF FileInv
    <2> QED BY <1>4, <2>2, <2>3, Attributes DEF Calls
<1>5. CASE CallsAgain
    BY <1>2, <1>5, AgainKeeps
<1>6. CASE RxRenewed
    BY <1>1, <1>6 DEF RxRenewed, RxFresh, FileInv, Count
<1>7. CASE RxDies
    BY <1>7 DEF RxDies, ghostVars, FileInv, Count
<1> QED BY <1>3, <1>4, <1>5, <1>6, <1>7, SessionsSteps

\* A receiver whose file is complete and of one session has that session.
LEMMA FileReceived ==
    ASSUME TypeInv, FileInv, rpc \in {"close", "ua"}, NEW s, sources \subseteq {s}
    PROVE  sources = {s} /\ s \in received
<1>1. Count = N /\ Count # 0
    BY SessionsAssumption, CountsTyped DEF FileInv
<1> QED BY <1>1 DEF FileInv

-----------------------------------------------------------------------------
(* With users *)

LEMMA OwnKept ==
    ASSUME SessionsTypeOK, Own, NEW k \in Nat, Tracks(k), UNCHANGED tsess
    PROVE  Own'
<1>1. Len(origin) = Len(tr) /\ Len(origin') = Len(tr')
    BY DEF SessionsTypeOK, Tracks
<1>2. ASSUME NEW i \in 1..Len(tr') PROVE origin'[i] = tsess
    <2>1. origin'[i] = IF i + k <= Len(tr) THEN origin[i + k] ELSE tsess
        BY DEF Tracks, OrgMoved
    <2>2. CASE i + k <= Len(tr)
        <3>1. i + k \in 1..Len(origin)
            BY <1>1, <2>2 DEF SessionsTypeOK
        <3> QED BY <2>1, <2>2, <3>1 DEF Own
    <2>3. CASE ~(i + k <= Len(tr))
        BY <2>1, <2>3
    <2> QED BY <2>2, <2>3
<1> QED BY <1>1, <1>2 DEF Own

\* A transmitter that is not answered will not be.
LEMMA UnansweredKept ==
    ASSUME TypeInv, [Next]_vars, Unanswered, rpc \in {"ready", "read", "close", "ua"}
    PROVE  Unanswered'
<1>1. TxMove
    BY TxMoves
<1>2. tr # <<>> => Head(tr).c = "SET"
    BY TailOfChannel DEF Unanswered, TypeInv, TypeOK
<1>3. rt # <<>> => Head(rt) = rt[1] /\ 1 \in 1..Len(rt)
    BY TailOfChannel DEF TypeInv, TypeOK
<1>4. tpc' \in {"idle", "open", "fail"}
    BY <1>1, <1>3 DEF Unanswered, TxMove, AckTaken, Has
<1>5. ASSUME tpc' = "open"
      PROVE  \A i \in 1..Len(rt') : rt'[i].c \notin {"UA", "DISC"}
    <2>1. CASE rt' = <<>>
        BY <2>1
    <2>2. CASE rt' # <<>>
        <3>1. tpc = "open" /\ \A i \in 1..Len(rt) : rt[i].c \notin {"UA", "DISC"}
            BY <1>1, <1>4, <1>5, <2>2 DEF Unanswered, TxMove, AckTaken, Has
        <3>2. ~PacketTaken
            BY <1>2 DEF PacketTaken, Intact
        <3> QED BY <1>2, <3>1, <3>2, LineToTransmitter DEF RtMoved, RxSends, Spoilt
    <2> QED BY <2>1, <2>2
<1>6. \A i \in 1..Len(tr') : tr'[i].c = "SET"
    <2>1. TxSET.c = "SET"
        BY DEF TxSET, Frame
    <2> QED BY <1>4, <2>1, LineToReceiver DEF TrMoved, TxSends, Unanswered
<1> QED BY <1>4, <1>5, <1>6 DEF Unanswered, Has

\* What llopen flushes is what the receiver could take for its own.
LEMMA OwnStep ==
    ASSUME TypeInv, SessionsTypeOK, Calls,
           NEW past \in {{}, {"close", "ua"}},
           rpc \in {"open", "ready", "read"} \union past => Own
    PROVE  rpc' \in {"open", "ready", "read"} \union past => Own'
<1>1. RxMove /\ tsess' = tsess /\ [Next]_vars
    BY RxMoves DEF Calls
<1>2. CASE rpc = "idle" /\ rpc' = "open"
    <2>1. tr' = <<>>
        BY <1>1, <1>2 DEF RxMove, PacketTaken
    <2>2. Len(origin') = 0
        BY <2>1, LineTracked DEF Calls, Tracks
    <2> QED BY <2>2 DEF Own
<1>3. CASE rpc \in {"open", "ready", "read"} \union past
    BY <1>1, <1>3, LineTracked, OwnKept DEF Calls
<1>4. \/ rpc' \notin {"open", "ready", "read"} \union past
      \/ rpc = "idle" /\ rpc' = "open"
      \/ rpc \in {"open", "ready", "read"} \union past
    BY <1>1 DEF RxMove, PacketTaken
<1> QED BY <1>2, <1>3, <1>4

LEMMA UsersCalls ==
    ASSUME TypeInv, SessionsTypeOK, FileInv, UsersInv, Calls
    PROVE  UsersInv'
<1>1. RxMove /\ tsess' = tsess /\ [Next]_vars
    BY RxMoves DEF Calls
<1>2. rpc' \in {"open", "ready", "read", "close", "ua"} => Own'
    BY OwnStep DEF UsersInv
<1>3. CASE Attribution
    <2>1. rpc = "read" /\ rpc' = "ready" /\ Head(tr).c = "I"
        BY <1>3 DEF Attribution, PacketTaken, Intact
    <2>2. origin[1] = tsess
        BY <1>3, <2>1 DEF Attribution, UsersInv, Own
    <2>3. sources \subseteq {tsess}
        BY <1>3, <2>1 DEF UsersInv, Unanswered, Attribution
    <2>4. sources' = sources \union {origin[1]}
        BY <1>3 DEF Attribution
    <2>5. sources' = {tsess}
        BY <2>2, <2>3, <2>4
    <2>6. tsess \in 1..tsess
        BY DEF SessionsTypeOK
    <2> QED BY <1>1, <1>2, <2>5, <2>6 DEF UsersInv
<1>4. CASE UNCHANGED <<delivered, sources, received>>
    <2>1. ASSUME rpc' \in {"ready", "read", "close", "ua"}
          PROVE  sources' \subseteq {tsess'} \/ Unanswered'
        <3>1. rpc = "open" \/ rpc \in {"ready", "read", "close", "ua"}
            BY <1>1, <2>1 DEF RxMove, PacketTaken
        <3>2. CASE rpc = "open"
            BY <1>4, <3>2 DEF FileInv
        <3>3. CASE rpc \in {"ready", "read", "close", "ua"}
            BY <1>1, <1>4, <3>3, UnansweredKept DEF UsersInv
        <3> QED BY <3>1, <3>2, <3>3
    <2>2. sources' = {} \/ \E s \in 1..tsess' : sources' = {s}
        BY <1>1, <1>4 DEF UsersInv
    <2> QED BY <1>2, <2>1, <2>2 DEF UsersInv
<1> QED BY <1>3, <1>4, Attributes DEF Calls

LEMMA UsersStep ==
    ASSUME TypeInv, SessionsTypeOK, FileInv, UsersInv, [SessionsNext]_sessionVars,
           driven = "users", quiet' = "kept"
    PROVE  UsersInv'
<1>1. CASE Still
    BY <1>1 DEF Still, vars, ghostVars, UsersInv, Own, Unanswered, Has
<1>2. CASE CallsAgain
    <2>1. Has(rt, "DISC") /\ tpc = "open"
        <3>1. rt \in Seq(Frames) /\ rt # <<>> /\ Head(rt).c = "DISC" /\ tpc = "open"
            BY <1>2, AnsweredAgain DEF CallsAgain
        <3> QED BY <3>1, TailOfChannel DEF Has
    <2>2. ~Unanswered
        BY <2>1 DEF Unanswered
    <2>3. UNCHANGED <<rpc, sources>> /\ tsess' = tsess
        BY <1>2, AgainKeeps DEF RxKept, CallsAgain
    <2>4. Own => Own'
        BY <1>2, <2>3, AnsweredAgain, OwnKept DEF CallsAgain
    <2> QED BY <2>2, <2>3, <2>4 DEF UsersInv
<1>3. CASE TxRenewed
    <2>1. UNCHANGED <<rpc, sources, origin, tr>> /\ tpc' = "idle" /\ tsess' = tsess + 1
        BY <1>3 DEF TxRenewed, TxFresh, rxVars, ghostVars
    <2>2. rpc \in {"open", "ready", "read", "close", "ua"} => tr = <<>>
        BY <1>3 DEF TxRenewed, RxEnded
    <2>3. tr = <<>> => Own' /\ Unanswered'
        BY <2>1 DEF Own, Unanswered, SessionsTypeOK
    <2>4. sources' = {} \/ \E s \in 1..tsess' : sources' = {s}
        BY <2>1 DEF UsersInv, SessionsTypeOK
    <2> QED BY <2>1, <2>2, <2>3, <2>4 DEF UsersInv
<1>4. CASE RxRenewed
    BY <1>4 DEF RxRenewed, RxFresh, UsersInv
<1>5. CASE TxDies
    BY <1>5 DEF TxDies, rxVars, ghostVars, UsersInv, Own, Unanswered
<1>6. CASE RxDies
    BY <1>6 DEF RxDies, ghostVars, UsersInv
<1> QED BY <1>1, <1>2, <1>3, <1>4, <1>5, <1>6, UsersCalls, SessionsSteps

-----------------------------------------------------------------------------
(* With drivers *)

\* A receiver that takes only frames of its line has only packets of its line.
LEMMA SourcesStep ==
    ASSUME TypeInv, SessionsTypeOK, Calls, sources \subseteq {rsess},
           rpc = "read" => Own /\ tsess = rsess
    PROVE  sources' \subseteq {rsess'}
<1>1. rsess' = rsess
    BY DEF Calls
<1>2. CASE Attribution
    <2>1. origin[1] = rsess
        BY <1>2 DEF Attribution, PacketTaken, Own
    <2>2. sources' = sources \union {origin[1]}
        BY <1>2 DEF Attribution
    <2> QED BY <1>1, <2>1, <2>2
<1>3. CASE UNCHANGED sources
    BY <1>1, <1>3
<1> QED BY <1>2, <1>3, Attributes DEF Calls

LEMMA EndStep ==
    ASSUME LinkInv, EndInv, [Next]_vars
    PROVE  EndInv'
<1> USE DEF LinkInv
<1>1. TxMove /\ RxMove /\ TrStep /\ tr \in Seq(Frames) /\ Len(tr) \in Nat
    BY TxMoves, RxMoves, TrSteps DEF TypeInv, TypeOK
<1>2. SUFFICES ASSUME tpc' = "ok"
               PROVE  /\ \A i \in 1..Len(tr') : tr'[i].c = "UA" => i = Len(tr')
                      /\ rpc' = "ok" => tr' = <<>>
    BY DEF EndInv
<1>3. CASE tpc = "ok"
    <2>1. \A f : ~TxSends(f)
        BY <1>2, <1>3 DEF TxSends
    <2>2. /\ \A i \in 1..Len(tr) : tr[i].c = "UA" => i = Len(tr)
          /\ rpc = "ok" => tr = <<>>
        BY <1>3 DEF EndInv
    <2>3. \A i \in 1..Len(tr') : tr'[i].c = "UA" => i = Len(tr')
        <3>1. CASE tr' = tr \/ tr' = <<>>
            BY <2>2, <3>1
        <3>2. CASE tr # <<>> /\ tr' = Tail(tr)
            BY <1>1, <2>2, <3>2, TailOfChannel
        <3>3. CASE DamageTr
            <4>1. PICK g \in Frames : g.c \in {"I", "SET"} /\ tr' = [tr EXCEPT ![1] = g]
                BY <3>3, DamageTrTyped
            <4>2. /\ Len(tr') = Len(tr)
                  /\ \A i \in 1..Len(tr) : tr'[i] = tr[i] \/ tr'[i] = g
                BY <1>1, <4>1
            <4> QED BY <2>2, <4>1, <4>2
        <3> QED BY <1>1, <2>1, <3>1, <3>2, <3>3 DEF TrStep
    <2>4. rpc' = "ok" => tr' = <<>>
        <3>1. CASE rpc = "ok"
            BY <1>3, <2>2, <3>1, NothingSent
        <3>2. CASE rpc # "ok" /\ rpc' = "ok"
            <4>1. tr # <<>> /\ Head(tr).c = "UA" /\ tr' = Tail(tr)
                BY <1>1, <3>2 DEF RxMove, PacketTaken
            <4>2. /\ tr[1].c = "UA" /\ 1 \in 1..Len(tr)
                  /\ tr' \in Seq(Frames) /\ Len(tr') = Len(tr) - 1
                BY <1>1, <4>1, TailOfChannel
            <4>3. Len(tr) = 1
                BY <2>2, <4>2
            <4>4. Len(tr') = 1 - 1
                BY <4>2, <4>3
            <4> QED BY <4>2, <4>4
        <3> QED BY <3>1, <3>2
    <2> QED BY <2>3, <2>4
<1>4. CASE tpc # "ok"
    <2>1. tpc = "close"
        BY <1>1, <1>2, <1>4 DEF TxMove, AckTaken
    <2>2. \A i \in 1..Len(tr) : tr[i].c # "UA"
        BY <1>4 DEF CloseInv
    <2>3. rpc' # "ok"
        BY <1>2, <1>4, OneEndMoves DEF CloseInv
    <2>4. \A i \in 1..Len(tr') : tr'[i].c = "UA" => i = Len(tr')
        <3>1. CASE tr' = tr \/ tr' = <<>>
            BY <2>2, <3>1
        <3>2. CASE tr # <<>> /\ tr' = Tail(tr)
            BY <1>1, <2>2, <3>2, TailOfChannel
        <3>3. CASE DamageTr
            <4>1. PICK g \in Frames : g.c \in {"I", "SET"} /\ tr' = [tr EXCEPT ![1] = g]
                BY <3>3, DamageTrTyped
            <4>2. /\ Len(tr') = Len(tr)
                  /\ \A i \in 1..Len(tr) : tr'[i] = tr[i] \/ tr'[i] = g
                BY <1>1, <4>1
            <4> QED BY <2>2, <4>1, <4>2
        <3>4. CASE \E f \in Frames : tr' = Append(tr, f)
            BY <1>1, <2>2, <3>4, AppendToChannel
        <3> QED BY <1>1, <3>1, <3>2, <3>3, <3>4 DEF TrStep
    <2> QED BY <2>3, <2>4
<1> QED BY <1>3, <1>4

\* Where llopen has done no more than send SET, LinkInv holds.
Opening ==
    /\ tpc = "open" /\ tseq = 1 /\ written = 0
    /\ rpc \in {"idle", "open"} /\ (rpc = "open" => rseq = 0) /\ delivered = <<>>
    /\ rt = <<>> /\ \A i \in 1..Len(tr) : tr[i] = TxSET

LEMMA OpeningIsLink ==
    ASSUME TypeInv', Opening'
    PROVE  LinkInv' /\ EndInv'
<1> USE DEF Opening
<1>1. Count' = 0 /\ Bit(0) = 1 /\ Bit(0 + 1) = 0 /\ N \in Nat /\ N > 0
    BY SessionsAssumption, LinkLayerAssumption DEF Count, Bit
<1>2. TxSET.c = "SET" /\ ~Intact(TxSET)
    BY DEF TxSET, Frame, Intact
<1>3. SeqInv' /\ OpenInv' /\ CloseInv'
    BY <1>1, <1>2 DEF SeqInv, OpenInv, CloseInv
<1>4. DataInv' /\ AckInv' /\ AnswerInv' /\ DeliveredInOrder'
    <2>1. \A i \in 1..Len(tr') : ~Intact(tr'[i])
        BY <1>2
    <2> QED BY <1>1, <2>1 DEF DataInv, AckInv, AnswerInv, DeliveredInOrder
<1> QED BY <1>3, <1>4 DEF LinkInv, EndInv

\* Both ends at the same line: one more step of their transfer.
LEMMA AlignedCalls ==
    ASSUME TypeInv, SessionsTypeOK, FileInv, Aligned, Calls
    PROVE  Aligned' \/ TxDead' \/ RxDead'
<1>1. /\ tsess' = tsess /\ rsess' = rsess /\ tsess = rsess
      /\ [Next]_vars /\ TxMove /\ RxMove
    BY TxMoves, RxMoves DEF Calls, Aligned
<1>2. Own' /\ TypeInv'
    <2>1. Own'
        BY <1>1, LineTracked, OwnKept DEF Calls, Aligned
    <2>2. CASE UNCHANGED vars
        BY <2>1, <2>2 DEF vars, TypeInv, TypeOK
    <2> QED BY <1>1, <2>1, <2>2, TypeTx, TypeRx, TypeLine DEF Next
<1>3. CASE LinkInv /\ EndInv
    BY <1>1, <1>2, <1>3, LinkInvStep, EndStep DEF Aligned
<1>4. CASE Fresh
    <2>1. /\ tpc = "idle" /\ written = 0 /\ tr = <<>> /\ delivered = <<>>
          /\ rpc \in {"idle", "open"} /\ (rpc = "open" => rseq = 0)
        BY <1>4 DEF Fresh, FileInv
    <2>2. tpc' \in {"idle", "open", "fail"} /\ written' = 0
        BY <1>1, <2>1 DEF TxMove, AckTaken
    <2>3. /\ rpc' \in {"idle", "open", "fail"} /\ delivered' = <<>>
          /\ rpc' = "open" => rseq' = 0
        BY <1>1, <2>1 DEF RxMove, PacketTaken
    <2>4. CASE tpc' = "fail"
        BY <1>1, <1>2, <2>4 DEF TxDead
    <2>5. CASE rpc' = "fail"
        BY <1>1, <2>5 DEF RxDead
    <2>6. CASE tpc' = "idle" /\ rpc' # "fail"
        <3>1. tr' = <<>>
            BY <1>1, <2>1, <2>6, NothingSent
        <3> QED BY <1>1, <1>2, <2>2, <2>3, <2>6, <3>1 DEF Aligned, Fresh
    <2>7. CASE tpc' = "open" /\ rpc' # "fail"
        <3>1. tseq' = 1 /\ rt' = <<>>
            BY <1>1, <2>1, <2>7 DEF TxMove, AckTaken
        <3>2. \A i \in 1..Len(tr') : tr'[i] = TxSET
            BY <1>1, <2>1, <2>7, LineToReceiver DEF TrMoved, TxSends
        <3>3. Opening'
            BY <2>2, <2>3, <2>7, <3>1, <3>2 DEF Opening
        <3> QED BY <1>1, <1>2, <3>3, OpeningIsLink DEF Aligned
    <2> QED BY <2>2, <2>3, <2>4, <2>5, <2>6, <2>7
<1> QED BY <1>3, <1>4 DEF Aligned

\* Only SET has been sent after the frame with which a receiver ends.
LEMMA OnlySETStep ==
    ASSUME SessionsTypeOK, tpc' \in {"idle", "open"}, tpc = "open" => tpc' = "open",
           UNCHANGED tsess, NEW j \in {0, 1}, TrMoved(j), Tracks(j),
           NEW k \in Nat, OnlySET(k + j)
    PROVE  OnlySET(k)'
<1>1. TxSET.c = "SET"
    BY DEF TxSET, Frame
<1>2. Len(tr) \in Nat /\ Len(tr') \in Nat
    BY DEF SessionsTypeOK, Tracks
<1>3. ASSUME NEW i \in k + 1..Len(tr')
      PROVE  tpc' = "open" /\ tr'[i] = TxSET /\ origin'[i] = tsess
    <2>1. i \in 1..Len(tr') /\ i \in Nat /\ i >= k + 1
        BY <1>2, <1>3
    <2>2. CASE i + j \in 1..Len(tr)
        <3>1. i + j \in (k + j) + 1..Len(tr)
            BY <1>2, <2>1, <2>2
        <3>2. tpc = "open" /\ tr[i + j] = TxSET /\ origin[i + j] = tsess
            BY <3>1 DEF OnlySET
        <3>3. tr'[i] = tr[i + j]
            <4>1. ~(i = Len(tr) + 1 /\ j = 0)
                BY <1>2, <2>1, <2>2
            <4>2. tr[i + j].c \notin {"I", "REJ"}
                BY <1>1, <3>2
            <4> QED BY <2>1, <4>1, <4>2 DEF TrMoved
        <3>4. origin'[i] = origin[i + j]
            BY <2>1, <2>2 DEF Tracks, OrgMoved
        <3> QED BY <3>2, <3>3, <3>4
    <2>3. CASE i + j \notin 1..Len(tr)
        <3>1. TxSends(tr'[i])
            BY <2>1, <2>3 DEF TrMoved
        <3>2. tpc' = "open" /\ tr'[i] = TxSET
            BY <3>1 DEF TxSends
        <3>3. ~(i + j <= Len(tr))
            BY <1>2, <2>1, <2>3
        <3>4. origin'[i] = tsess
            BY <2>1, <3>3 DEF Tracks, OrgMoved
        <3> QED BY <3>2, <3>4
    <2> QED BY <2>2, <2>3
<1> QED BY <1>3 DEF OnlySET

\* The transmitter at the next line, which the receiver does not answer.
LEMMA TxAheadCalls ==
    ASSUME TypeInv, SessionsTypeOK, TxAhead, Calls
    PROVE  TxAhead' \/ TxDead' \/ RxDead'
<1>1. /\ tsess' = tsess /\ rsess' = rsess /\ [Next]_vars /\ TxMove /\ RxMove
    BY TxMoves, RxMoves DEF Calls
<1>2. /\ tsess = rsess + 1 /\ written = 0
      /\ tpc \in {"idle", "open"} /\ (tpc = "open" => tseq = 1 /\ rt = <<>>)
      /\ rpc \in {"ua", "ok"} /\ (rpc = "ok" => OnlySET(0))
      /\ \A k \in 1..Len(tr) : tr[k].c = "UA" => OnlySET(k)
    BY DEF TxAhead
<1>3. rpc' \in {"ua", "ok", "lost"}
    BY <1>1, <1>2 DEF RxMove, PacketTaken
<1>4. /\ tpc' \in {"idle", "open", "fail"} /\ written' = 0
      /\ tpc = "open" /\ tpc' # "fail" => tpc' = "open"
      /\ tpc' = "open" => tseq' = 1
    BY <1>1, <1>2 DEF TxMove, AckTaken
<1>5. tpc' = "open" => \A i \in 1..Len(rt') : rt'[i].c = "DISC" /\ rpc' = "lost"
    <2>1. CASE tpc = "idle" /\ tpc' = "open"
        BY <1>1, <2>1 DEF TxMove, AckTaken
    <2>2. CASE tpc = "open"
        BY <1>2, <2>2, LineToTransmitter, <1>1 DEF PacketTaken, RtMoved, RxSends
    <2> QED BY <1>2, <2>1, <2>2
<1>6. CASE tpc' = "fail"
    BY <1>1, <1>2, <1>3, <1>6 DEF TxDead
<1>7. CASE rpc' = "lost"
    BY <1>1, <1>2, <1>4, <1>5, <1>7 DEF RxDead, Has
<1>8. CASE tpc' # "fail" /\ rpc' # "lost"
    <2>1. tpc' = "open" => rt' = <<>>
        <3>1. rt' \in Seq(Frames)
            BY <1>1, TypeTx, TypeRx, TypeLine DEF Next, vars, TypeInv, TypeOK
        <3> QED BY <1>5, <1>8, <3>1
    <2>2. \A k \in 1..Len(tr') : tr'[k].c = "UA" => OnlySET(k)'
        <3>1. PICK j \in {0, 1} : TrMoved(j) /\ Tracks(j)
            BY LineTracked DEF Calls
        <3>2. ASSUME NEW k \in 1..Len(tr'), tr'[k].c = "UA"
              PROVE  OnlySET(k)'
            <4>1. k + j \in 1..Len(tr) /\ tr'[k] = tr[k + j]
                <5>1. ~TxSends(tr'[k])
                    BY <1>4, <3>2, <1>2 DEF TxSends, TxSET, Frame
                <5> QED BY <3>1, <3>2, <5>1 DEF TrMoved
            <4>2. OnlySET(k + j)
                BY <1>2, <3>2, <4>1
            <4> QED BY <1>1, <1>4, <1>8, <3>1, <4>2, OnlySETStep
        <3> QED BY <3>2
    <2>3. rpc' = "ok" => OnlySET(0)'
        <3>1. CASE rpc = "ok"
            <4>1. PICK j \in {0, 1} : TrMoved(j) /\ Tracks(j)
                BY LineTracked DEF Calls
            <4>2. OnlySET(0 + j)
                BY <1>2, <3>1 DEF OnlySET
            <4> QED BY <1>1, <1>4, <1>8, <4>1, <4>2, OnlySETStep
        <3>2. CASE rpc = "ua" /\ rpc' = "ok"
            <4>1. tr # <<>> /\ Head(tr).c = "UA" /\ tr' = Tail(tr) /\ tr \in Seq(Frames)
                BY <1>1, <3>2 DEF RxMove, PacketTaken, TypeInv, TypeOK
            <4>2. TrMoved(1) /\ Tracks(1)
                BY <4>1, TrTaken, TrackedTaken DEF Calls
            <4>3. 1 \in 1..Len(tr) /\ tr[1].c = "UA"
                BY <4>1, TailOfChannel
            <4>4. OnlySET(0 + 1)
                BY <1>2, <4>3
            <4> QED BY <1>1, <1>4, <1>8, <4>2, <4>4, OnlySETStep
        <3> QED BY <1>2, <3>1, <3>2
    <2> QED BY <1>1, <1>2, <1>3, <1>4, <1>8, <2>1, <2>2, <2>3 DEF TxAhead
<1> QED BY <1>6, <1>7, <1>8

\* The receiver at the next line, which the transmitter has not begun.
LEMMA RxAheadCalls ==
    ASSUME TypeInv, SessionsTypeOK, RxAhead, Calls
    PROVE  RxAhead' \/ RxDead'
<1>1. /\ tsess' = tsess /\ rsess' = rsess /\ [Next]_vars /\ TxMove /\ RxMove
    BY TxMoves, RxMoves DEF Calls
<1>2. /\ rsess = tsess + 1 /\ tpc = "ok" /\ tr = <<>>
      /\ rpc \in {"idle", "open"} /\ (rpc = "open" => rseq = 0)
    BY DEF RxAhead
<1>3. tpc' = "ok"
    BY <1>1, <1>2 DEF TxMove, AckTaken
<1>4. tr' = <<>>
    BY <1>1, <1>2, NothingSent
<1>5. rpc' \in {"idle", "open", "fail"} /\ (rpc' = "open" => rseq' = 0)
    BY <1>1, <1>2 DEF RxMove, PacketTaken
<1> QED BY <1>1, <1>2, <1>3, <1>4, <1>5 DEF RxAhead, RxDead

LEMMA TxDeadCalls ==
    ASSUME TypeInv, SessionsTypeOK, TxDead, Calls
    PROVE  TxDead'
<1>1. /\ tsess' = tsess /\ rsess' = rsess /\ [Next]_vars /\ TxMove /\ RxMove
    BY TxMoves, RxMoves DEF Calls
<1>2. tpc = "fail" /\ tpc' = "fail"
    BY <1>1 DEF TxDead, TxMove, AckTaken
<1>3. CASE tsess = rsess /\ (rpc \in {"open", "ready", "read"} => Own)
    <2>1. rpc' \in {"open", "ready", "read"} => Own'
        <3>1. {} \in {{}, {"close", "ua"}}
            OBVIOUS
        <3> QED BY <1>3, <3>1, OwnStep
    <2> QED BY <1>1, <1>2, <1>3, <2>1 DEF TxDead
<1>4. CASE /\ rsess = tsess + 1 /\ rpc \in {"idle", "open", "fail"}
           /\ rpc = "open" => tr = <<>>
    <2>1. rpc' \in {"idle", "open", "fail"}
        BY <1>1, <1>4 DEF RxMove, PacketTaken
    <2>2. rpc' = "open" => tr' = <<>>
        <3>1. CASE rpc = "idle" /\ rpc' = "open"
            BY <1>1, <3>1 DEF RxMove, PacketTaken
        <3>2. CASE rpc = "open"
            BY <1>1, <1>2, <1>4, <3>2, NothingSent
        <3>3. CASE rpc = "fail"
            BY <1>1, <3>3 DEF RxMove, PacketTaken
        <3> QED BY <1>4, <3>1, <3>2, <3>3
    <2> QED BY <1>1, <1>2, <1>4, <2>1, <2>2 DEF TxDead
<1>5. CASE tsess = rsess + 1 /\ rpc \in {"ua", "ok", "lost", "fail"}
    <2>1. rpc' \in {"ua", "ok", "lost", "fail"}
        BY <1>1, <1>5 DEF RxMove, PacketTaken
    <2> QED BY <1>1, <1>2, <1>5, <2>1 DEF TxDead
<1> QED BY <1>3, <1>4, <1>5 DEF TxDead

LEMMA RxDeadCalls ==
    ASSUME TypeInv, SessionsTypeOK, RxDead, Calls
    PROVE  RxDead'
<1>1. /\ tsess' = tsess /\ rsess' = rsess /\ [Next]_vars /\ TxMove /\ RxMove
    BY TxMoves, RxMoves DEF Calls
<1>2. rpc \in {"lost", "fail"} /\ rpc' = rpc
    BY <1>1 DEF RxDead, RxMove, PacketTaken
<1>3. CASE tsess = rsess \/ rsess = tsess + 1
    BY <1>1, <1>2, <1>3 DEF RxDead
<1>4. CASE /\ tsess = rsess + 1 /\ tpc \in {"idle", "open", "fail"}
           /\ tpc = "open" => ~Has(rt, "UA")
    <2>1. tpc = "open" => \A i \in 1..Len(rt) : rt[i].c # "UA"
        BY <1>4 DEF Has
    <2>2. rt # <<>> => Head(rt) = rt[1] /\ 1 \in 1..Len(rt)
        BY TailOfChannel DEF TypeInv, TypeOK
    <2>3. tpc' \in {"idle", "open", "fail"}
        BY <1>1, <1>4, <2>1, <2>2 DEF TxMove, AckTaken
    <2>4. ASSUME tpc' = "open"
          PROVE  \A i \in 1..Len(rt') : rt'[i].c # "UA"
        <3>1. CASE tpc = "open"
            <4>1. ~PacketTaken /\ rpc # "open"
                BY <1>2 DEF PacketTaken
            <4> QED BY <1>1, <2>1, <3>1, <4>1, LineToTransmitter
                    DEF RtMoved, RxSends, Spoilt
        <3>2. CASE tpc # "open"
            <4>1. rt' = <<>>
                BY <1>1, <1>4, <2>4, <3>2 DEF TxMove, AckTaken
            <4> QED BY <4>1
        <3> QED BY <3>1, <3>2
    <2> QED BY <1>1, <1>2, <1>4, <2>3, <2>4 DEF RxDead, Has
<1> QED BY <1>3, <1>4 DEF RxDead

LEMMA DriversCalls ==
    ASSUME TypeInv, SessionsTypeOK, FileInv, DriversInv, Calls
    PROVE  DriversInv'
<1>1. rpc = "read" => Own /\ tsess = rsess
    BY DEF DriversInv, Aligned, TxAhead, RxAhead, TxDead, RxDead
<1>2. sources' \subseteq {rsess'}
    BY <1>1, SourcesStep DEF DriversInv
<1>3. Aligned' \/ TxAhead' \/ RxAhead' \/ TxDead' \/ RxDead'
    BY AlignedCalls, TxAheadCalls, RxAheadCalls, TxDeadCalls, RxDeadCalls DEF DriversInv
<1> QED BY <1>2, <1>3 DEF DriversInv

\* Only a transmitter whose receiver has failed gets a DISC in llopen.
LEMMA DriversAgain ==
    ASSUME TypeInv, SessionsTypeOK, DriversInv, CallsAgain
    PROVE  DriversInv'
<1>1. /\ rt \in Seq(Frames) /\ rt # <<>> /\ rt' = Tail(rt) /\ Head(rt).c = "DISC"
      /\ tpc = "open" /\ tpc' \in {"open", "fail"}
    BY AnsweredAgain DEF CallsAgain
<1>2. UNCHANGED <<rpc, sources, tsess, rsess>>
    BY AgainKeeps DEF RxKept, CallsAgain
<1>3. /\ 1 \in 1..Len(rt) /\ rt[1].c = "DISC"
      /\ \A i \in 1..Len(rt') : i + 1 \in 1..Len(rt) /\ rt'[i] = rt[i + 1]
    BY <1>1, TailOfChannel
<1>4. RxDead
    <2>1. ~LinkInv
        BY <1>1, <1>3 DEF LinkInv, CloseInv
    <2> QED BY <1>1, <2>1 DEF DriversInv, Aligned, Fresh, TxAhead, RxAhead, TxDead
<1>5. RxDead'
    BY <1>1, <1>2, <1>3, <1>4 DEF RxDead, Has
<1> QED BY <1>2, <1>5 DEF DriversInv

LEMMA DriversTxRenewed ==
    ASSUME TypeInv, SessionsTypeOK, DriversInv, TxRenewed, driven = "drivers"
    PROVE  DriversInv'
<1>1. /\ tpc = "ok" /\ tpc' = "idle" /\ tsess' = tsess + 1 /\ written' = 0
      /\ UNCHANGED <<rpc, rseq, tr, rt, rsess, origin, sources>>
    BY DEF TxRenewed, TxFresh, rxVars, ghostVars
<1>2. /\ Len(origin) = Len(tr) /\ Len(tr) \in Nat
      /\ tsess \in Nat /\ rsess \in Nat
    BY SessionsAssumption DEF SessionsTypeOK, TypeInv, TypeOK
<1>3. CASE Aligned
    <2>1. /\ tsess = rsess /\ rpc \in {"ua", "ok", "lost"}
          /\ \A i \in 1..Len(tr) : tr[i].c = "UA" => i = Len(tr)
          /\ rpc = "ok" => tr = <<>>
        BY <1>1, <1>3 DEF Aligned, Fresh, LinkInv, CloseInv, EndInv
    <2>2. CASE rpc = "lost"
        BY <1>1, <2>1, <2>2 DEF RxDead, DriversInv
    <2>3. CASE rpc \in {"ua", "ok"}
        <3>1. rpc = "ok" => OnlySET(0)'
            BY <1>1, <2>1 DEF OnlySET
        <3>2. \A k \in 1..Len(tr') : tr'[k].c = "UA" => OnlySET(k)'
            BY <1>1, <1>2, <2>1 DEF OnlySET
        <3>3. TxAhead'
            BY <1>1, <2>1, <2>3, <3>1, <3>2 DEF TxAhead
        <3> QED BY <1>1, <3>3 DEF DriversInv
    <2> QED BY <2>1, <2>2, <2>3
<1>4. CASE RxAhead
    <2>1. Own' /\ Fresh' /\ tsess' = rsess'
        BY <1>1, <1>2, <1>4 DEF RxAhead, Own, Fresh
    <2> QED BY <1>1, <2>1 DEF DriversInv, Aligned
<1>5. CASE RxDead
    <2>1. /\ rpc \in {"lost", "fail"}
          /\ tsess = rsess \/ rsess = tsess + 1
        BY <1>1, <1>5 DEF RxDead
    <2>2. tsess' = rsess' + 1 \/ tsess' = rsess'
        BY <1>1, <1>2, <2>1
    <2> QED BY <1>1, <2>1, <2>2 DEF DriversInv, RxDead
<1> QED BY <1>1, <1>3, <1>4, <1>5 DEF DriversInv, TxAhead, TxDead

LEMMA DriversRxRenewed ==
    ASSUME TypeInv, TypeInv', SessionsTypeOK, DriversInv, RxRenewed, driven = "drivers"
    PROVE  DriversInv'
<1>1. /\ rpc = "ok" /\ rpc' = "idle" /\ rsess' = rsess + 1 /\ delivered' = <<>>
      /\ sources' = {} /\ UNCHANGED <<tpc, tseq, written, tr, rt, tsess, origin>>
    BY DEF RxRenewed, RxFresh, txVars
<1>2. /\ Len(origin) = Len(tr) /\ Len(tr) \in Nat
      /\ tsess \in Nat /\ rsess \in Nat
    BY SessionsAssumption DEF SessionsTypeOK, TypeInv, TypeOK
<1>3. CASE Aligned
    <2>1. tsess = rsess /\ tpc = "ok" /\ tr = <<>>
        BY <1>1, <1>3 DEF Aligned, Fresh, LinkInv, CloseInv, EndInv
    <2>2. RxAhead'
        BY <1>1, <2>1 DEF RxAhead
    <2> QED BY <1>1, <2>2 DEF DriversInv
<1>4. CASE TxAhead
    <2>1. /\ tsess = rsess + 1 /\ written = 0
          /\ tpc \in {"idle", "open"} /\ (tpc = "open" => tseq = 1 /\ rt = <<>>)
          /\ \A i \in 1..Len(tr) : tpc = "open" /\ tr[i] = TxSET /\ origin[i] = tsess
        BY <1>1, <1>4 DEF TxAhead, OnlySET
    <2>2. Own' /\ tsess' = rsess'
        BY <1>1, <1>2, <2>1 DEF Own
    <2>3. CASE tpc = "idle"
        <3>1. Len(tr) = 0
            <4>1. 1 \notin 1..Len(tr)
                BY <2>1, <2>3
            <4> QED BY <1>2, <4>1
        <3>2. tr = <<>>
            BY <3>1 DEF TypeInv, TypeOK
        <3>3. Fresh'
            BY <1>1, <2>1, <2>3, <3>2 DEF Fresh
        <3> QED BY <1>1, <2>2, <3>3 DEF DriversInv, Aligned
    <2>4. CASE tpc = "open"
        <3>1. Opening'
            BY <1>1, <2>1, <2>4 DEF Opening
        <3>2. LinkInv' /\ EndInv'
            BY <3>1, OpeningIsLink
        <3> QED BY <1>1, <2>2, <3>2 DEF DriversInv, Aligned
    <2> QED BY <2>1, <2>3, <2>4
<1>5. CASE TxDead
    <2>1. tpc = "fail" /\ (tsess = rsess \/ tsess = rsess + 1)
        BY <1>1, <1>5 DEF TxDead
    <2>2. rsess' = tsess' + 1 \/ tsess' = rsess'
        BY <1>1, <1>2, <2>1
    <2>3. TxDead'
        BY <1>1, <2>1, <2>2 DEF TxDead
    <2> QED BY <1>1, <2>3 DEF DriversInv
<1> QED BY <1>1, <1>3, <1>4, <1>5 DEF DriversInv, RxAhead, RxDead

LEMMA DriversDies ==
    ASSUME SessionsTypeOK, DriversInv, TxDies \/ RxDies
    PROVE  DriversInv'
<1>1. CASE TxDies
    <2>1. /\ tpc \notin {"ok", "fail"} /\ tpc' = "fail"
          /\ UNCHANGED <<rpc, tr, rt, tsess, rsess, origin, sources>>
        BY <1>1 DEF TxDies, TxEnded, rxVars, ghostVars
    <2>2. CASE Aligned
        BY <2>1, <2>2 DEF Aligned, TxDead, Own, DriversInv
    <2>3. CASE TxAhead
        BY <2>1, <2>3 DEF TxAhead, TxDead, DriversInv
    <2>4. CASE RxDead
        BY <2>1, <2>4 DEF RxDead, DriversInv
    <2> QED BY <2>1, <2>2, <2>3, <2>4 DEF DriversInv, RxAhead, TxDead
<1>2. CASE RxDies
    <2>1. /\ rpc \notin {"ok", "lost", "fail"} /\ rpc' = "fail"
          /\ UNCHANGED <<tpc, tr, rt, tsess, rsess, origin, sources>>
        BY <1>2 DEF RxDies, RxEnded, txVars, ghostVars
    <2>2. CASE Aligned \/ RxAhead
        BY <2>1, <2>2 DEF Aligned, RxAhead, RxDead, DriversInv
    <2>3. CASE TxAhead
        BY <2>1, <2>3 DEF TxAhead, RxDead, Has, DriversInv
    <2>4. CASE TxDead
        BY <2>1, <2>4 DEF TxDead, RxDead, DriversInv
    <2> QED BY <2>1, <2>2, <2>3, <2>4 DEF DriversInv, RxDead
<1> QED BY <1>1, <1>2

LEMMA DriversStep ==
    ASSUME TypeInv, SessionsTypeOK, FileInv, DriversInv, driven = "drivers",
           [SessionsNext]_sessionVars
    PROVE  DriversInv'
<1>1. CASE Still
    BY <1>1 DEF Still, vars, ghostVars, DriversInv, Aligned, Fresh, Own, EndInv,
        TxAhead, OnlySET, RxAhead, TxDead, RxDead, Has, LinkInv, TypeInv, TypeOK,
        SeqInv, OpenInv, CloseInv, DataInv, AckInv, AnswerInv, DeliveredInOrder,
        Count, Final
<1> QED BY <1>1, LinkTypes, SessionsSteps, DriversCalls, DriversAgain,
           DriversTxRenewed, DriversRxRenewed, DriversDies

-----------------------------------------------------------------------------
(* Success *)

Success == tpc = "ok" => tsess \in received

\* No session takes back what it has received.
LEMMA ReceivedGrows ==
    ASSUME TypeInv, SessionsTypeOK, Calls
    PROVE  received \subseteq received'
BY Attributes DEF Calls, Attribution

\* A receiver answers the DISC of the transmitter whose packets it has, or of
\* one that has ended.
LEMMA DiscAnswered ==
    ASSUME TypeInv, SessionsTypeOK, FileInv,
           driven \in {"users", "drivers"},
           driven = "users" => UsersInv, driven = "drivers" => DriversInv,
           rpc \in {"close", "ua"}, tr # <<>>, Head(tr).c = "DISC",
           tpc \in {"open", "ready", "write", "close"}
    PROVE  tsess \in received \/ (driven = "drivers" /\ tsess = rsess + 1)
<1>1. CASE driven = "users"
    <2>1. 1 \in 1..Len(tr) /\ tr[1].c = "DISC"
        BY TailOfChannel DEF TypeInv, TypeOK
    <2>2. ~Unanswered
        BY <2>1 DEF Unanswered
    <2>3. sources \subseteq {tsess}
        BY <1>1, <2>2 DEF UsersInv
    <2> QED BY <2>3, FileReceived
<1>2. CASE driven = "drivers"
    <2>1. tsess = rsess \/ tsess = rsess + 1
        BY <1>2 DEF DriversInv, Aligned, TxAhead, RxAhead, TxDead, RxDead
    <2>2. sources \subseteq {rsess}
        BY <1>2 DEF DriversInv
    <2>3. rsess \in received
        BY <2>2, FileReceived
    <2> QED BY <1>2, <2>1, <2>3
<1> QED BY <1>1, <1>2

LEMMA DiscCalls ==
    ASSUME TypeInv, SessionsTypeOK, FileInv,
           driven \in {"users", "drivers"},
           driven = "users" => UsersInv, driven = "drivers" => DriversInv,
           DiscInv, Success, Calls
    PROVE  DiscInv' /\ Success'
<1>1. /\ UNCHANGED <<driven, tsess, rsess>> /\ [Next]_vars /\ TxMove /\ RxMove
      /\ received \subseteq received'
    BY TxMoves, RxMoves, ReceivedGrows DEF Calls
<1>2. rt \in Seq(Frames) /\ Len(rt) \in Nat
    BY DEF TypeInv, TypeOK
<1> DEFINE Due == tsess \in received \/ (driven = "drivers" /\ tsess = rsess + 1)
<1>3. Due => Due'
    BY <1>1
<1>4. ASSUME tpc' \in {"open", "ready", "write", "close"}, Has(rt, "DISC")'
      PROVE  Due'
    <2>1. PICK i \in 1..Len(rt') : rt'[i].c = "DISC"
        BY <1>4 DEF Has
    <2>2. tpc \in {"open", "ready", "write", "close"}
        <3>1. tpc = "idle" => rt' = <<>> \/ tpc' = "idle"
            BY <1>1, <1>4 DEF TxMove, AckTaken
        <3>2. rt' # <<>>
            BY <2>1
        <3> QED BY <1>1, <1>4, <3>1, <3>2 DEF TxMove, AckTaken
    <2>3. CASE Has(rt, "DISC")
        BY <1>3, <2>2, <2>3 DEF DiscInv
    <2>4. CASE ~Has(rt, "DISC")
        <3>1. \A j \in 1..Len(rt) : rt[j].c # "DISC"
            BY <2>4 DEF Has
        <3>2. ~PacketTaken
            <4>1. SUFFICES ASSUME PacketTaken
                           PROVE  FALSE
                OBVIOUS
            <4>2. rt' = Append(rt, RxRR(rseq)) /\ RxRR(rseq).c = "RR"
                BY <4>1 DEF PacketTaken, RxRR, Frame
            <4>3. RxRR(rseq) \in Frames
                BY FramesSent DEF TypeInv, TypeOK
            <4> QED BY <1>2, <2>1, <3>1, <4>2, <4>3, AppendToChannel
        <3>3. RxSends(rt'[i])
            BY <1>1, <2>1, <3>1, <3>2, LineToTransmitter DEF RtMoved, Spoilt
        <3>4. rpc \in {"close", "ua"} /\ tr # <<>> /\ Head(tr).c = "DISC"
            BY <2>1, <3>3 DEF RxSends
        <3>5. Due
            BY <2>2, <3>4, DiscAnswered
        <3> QED BY <1>3, <3>5
    <2> QED BY <2>3, <2>4
<1>5. ASSUME tpc' = "ok"
      PROVE  tsess' \in received'
    <2>1. CASE tpc = "ok"
        BY <1>1, <2>1 DEF Success
    <2>2. CASE tpc # "ok"
        <3>1. tpc = "close" /\ rt # <<>> /\ Head(rt).c = "DISC"
            BY <1>1, <1>5, <2>2 DEF TxMove, AckTaken
        <3>2. Has(rt, "DISC")
            BY <1>2, <3>1, TailOfChannel DEF Has
        <3>3. Due
            BY <3>1, <3>2 DEF DiscInv
        <3>4. driven = "drivers" => tsess # rsess + 1
            <4>1. rsess \in Nat /\ tsess \in Nat
                BY SessionsAssumption DEF SessionsTypeOK
            <4> QED BY <3>1, <4>1
                    DEF DriversInv, Aligned, TxAhead, RxAhead, TxDead, RxDead
        <3> QED BY <1>1, <3>3, <3>4
    <2> QED BY <2>1, <2>2
<1> QED BY <1>4, <1>5 DEF DiscInv, Success

LEMMA DiscStep ==
    ASSUME TypeInv, SessionsTypeOK, FileInv,
           driven = "users" => UsersInv, driven = "drivers" => DriversInv,
           DiscInv, Success, [SessionsNext]_sessionVars
    PROVE  DiscInv' /\ Success'
<1>1. driven \in {"users", "drivers"}
    BY DEF SessionsTypeOK
<1>2. CASE Still \/ RxDies
    BY <1>2 DEF Still, RxDies, vars, txVars, ghostVars, DiscInv, Success, Has
<1>3. CASE CallsAgain
    <2>1. /\ rt \in Seq(Frames) /\ rt # <<>> /\ rt' = Tail(rt)
          /\ tpc = "open" /\ tpc' \in {"open", "fail"}
        BY <1>3, AnsweredAgain DEF CallsAgain
    <2>2. UNCHANGED <<driven, received, tsess, rsess>>
        BY <1>3, AgainKeeps DEF RxKept, CallsAgain
    <2>3. \A i \in 1..Len(rt') : i + 1 \in 1..Len(rt) /\ rt'[i] = rt[i + 1]
        BY <2>1, TailOfChannel
    <2>4. Has(rt, "DISC")' => Has(rt, "DISC")
        BY <2>3 DEF Has
    <2> QED BY <2>1, <2>2, <2>4 DEF DiscInv, Success
<1>4. CASE TxRenewed \/ TxDies
    BY <1>4 DEF TxRenewed, TxFresh, TxDies, DiscInv, Success
<1>5. CASE RxRenewed
    <2>1. UNCHANGED <<driven, received, tsess, tpc, rt>>
        BY <1>5 DEF RxRenewed, RxFresh, txVars
    <2>2. driven = "drivers" => rpc = "ok"
        BY <1>5 DEF RxRenewed
    <2>3. ASSUME driven = "drivers", tsess = rsess + 1,
                 tpc \in {"open", "ready", "write", "close"}
          PROVE  ~Has(rt, "DISC")
        <3>1. TxAhead
            <4>1. rsess \in Nat /\ tsess \in Nat
                BY SessionsAssumption DEF SessionsTypeOK
            <4> QED BY <2>2, <2>3, <4>1 DEF DriversInv, Aligned, RxAhead, TxDead, RxDead
        <3>2. rt = <<>>
            BY <2>3, <3>1 DEF TxAhead
        <3> QED BY <3>2 DEF Has
    <2> QED BY <2>1, <2>3 DEF DiscInv, Success, Has
<1> QED BY <1>1, <1>2, <1>3, <1>4, <1>5, DiscCalls, SessionsSteps

-----------------------------------------------------------------------------
(* The invariant *)

LEMMA SessionsInvInit == SessionsInit => SessionsInv
<1> SUFFICES ASSUME SessionsInit
             PROVE  SessionsInv
    OBVIOUS
<1>1. SessionsTypeOK /\ TypeInv
    BY SessionsTypeInit
<1>2. /\ tpc = "idle" /\ written = 0 /\ tr = <<>> /\ rt = <<>> /\ rpc = "idle"
      /\ delivered = <<>> /\ tsess = 1 /\ rsess = 1 /\ quiet = "kept"
      /\ origin = <<>> /\ sources = {} /\ received = {}
    BY DEF SessionsInit, Init
<1>3. FileInv /\ UsersInv
    BY <1>2, SessionsAssumption, LinkLayerAssumption
    DEF FileInv, UsersInv, Count
<1>4. DriversInv
    BY <1>2 DEF DriversInv, Aligned, Fresh, Own
<1>5. DiscInv
    BY <1>2 DEF DiscInv
<1> QED BY <1>1, <1>2, <1>3, <1>4, <1>5 DEF SessionsInv

LEMMA SessionsInvStep == SessionsInv /\ [SessionsNext]_sessionVars => SessionsInv'
<1> SUFFICES ASSUME SessionsInv, [SessionsNext]_sessionVars
             PROVE  SessionsInv'
    OBVIOUS
<1>1. /\ SessionsTypeOK /\ TypeInv /\ FileInv
      /\ driven = "users" /\ quiet = "kept" => UsersInv
      /\ driven = "drivers" => DriversInv /\ quiet = "kept"
      /\ quiet = "kept" => DiscInv /\ Success
    BY DEF SessionsInv, Success
<1>2. /\ driven' = driven /\ driven \in {"users", "drivers"}
      /\ quiet' = "kept" => quiet = "kept"
      /\ driven = "drivers" => quiet' = quiet
    <2>1. driven \in {"users", "drivers"}
        BY <1>1 DEF SessionsTypeOK
    <2> QED BY <1>1, <2>1, SessionsSteps
            DEF Still, ghostVars, Calls, CallsAgain, TxRenewed, RxRenewed, TxDies, RxDies
<1>3. SessionsTypeOK' /\ TypeInv' /\ FileInv'
    BY <1>1, SessionsTypes, LinkTypes, FileStep
<1>4. driven' = "users" /\ quiet' = "kept" => UsersInv'
    BY <1>1, <1>2, UsersStep
<1>5. driven' = "drivers" => DriversInv' /\ quiet' = "kept"
    BY <1>1, <1>2, DriversStep
<1>6. quiet' = "kept" => DiscInv' /\ Success'
    BY <1>1, <1>2, DiscStep
<1> QED BY <1>3, <1>4, <1>5, <1>6 DEF SessionsInv, Success

-----------------------------------------------------------------------------
(* The theorems *)

\* Whatever processes are killed and started again, the invariant holds.
THEOREM SessionsInvHolds == SessionsSpec => []SessionsInv
<1> QED BY SessionsInvInit, SessionsInvStep, PTL DEF SessionsSpec

\* Every variable of every session has its type.
THEOREM SessionsTypesHold == SessionsSpec => []SessionsTypeOK
<1>1. SessionsInv => SessionsTypeOK
    BY DEF SessionsInv
<1> QED BY <1>1, SessionsInvHolds, PTL

\* No file mixes the packets of two sessions of the transmitter, as long as no
\* transmitter is started on a line that a receiver has still to read.
THEOREM OneSourceHolds == SessionsSpec => []OneSource
<1>1. SessionsInv => OneSource
    <2>1. SUFFICES ASSUME SessionsInv, quiet = "kept"
                   PROVE  Cardinality(sources) <= 1
        BY DEF OneSource
    <2>2. sources = {} \/ \E s \in 1..Lines : sources = {s}
        <3>1. driven \in {"users", "drivers"} /\ Lines \in Nat
              /\ tsess \in 1..Lines /\ rsess \in 1..Lines
            BY <2>1, SessionsAssumption DEF SessionsInv, SessionsTypeOK
        <3>2. CASE driven = "users"
            BY <2>1, <3>1, <3>2 DEF SessionsInv, UsersInv
        <3>3. CASE driven = "drivers"
            BY <2>1, <3>1, <3>3 DEF SessionsInv, DriversInv
        <3> QED BY <3>1, <3>2, <3>3
    <2>3. CASE sources = {}
        BY <2>3, FS_EmptySet
    <2>4. CASE \E s \in 1..Lines : sources = {s}
        BY <2>4, FS_Singleton
    <2> QED BY <2>2, <2>3, <2>4
<1> QED BY <1>1, SessionsInvHolds, PTL

\* A transmitter that succeeds has had its whole file received by one session.
THEOREM SuccessIsReceivedHolds == SessionsSpec => []SuccessIsReceived
<1>1. SessionsInv => SuccessIsReceived
    BY DEF SessionsInv, SuccessIsReceived
<1> QED BY <1>1, SessionsInvHolds, PTL

\* With the measurement drivers neither end runs ahead of the other, and line k
\* is received from line k.
THEOREM InStepHolds == SessionsSpec => []InStep
<1>1. SessionsInv => InStep
    <2>1. SUFFICES ASSUME SessionsInv, driven = "drivers"
                   PROVE  /\ tsess <= rsess + 1 /\ rsess <= tsess + 1
                          /\ sources \subseteq {rsess}
        BY DEF InStep
    <2>2. /\ rsess \in Nat /\ tsess \in Nat /\ sources \subseteq {rsess}
          /\ Aligned \/ TxAhead \/ RxAhead \/ TxDead \/ RxDead
        BY <2>1, SessionsAssumption DEF SessionsInv, SessionsTypeOK, DriversInv
    <2>3. tsess = rsess \/ tsess = rsess + 1 \/ rsess = tsess + 1
        BY <2>2 DEF Aligned, TxAhead, RxAhead, TxDead, RxDead
    <2> QED BY <2>2, <2>3
<1> QED BY <1>1, SessionsInvHolds, PTL

=============================================================================

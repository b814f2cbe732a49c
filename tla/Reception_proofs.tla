-------------------------- MODULE Reception_proofs --------------------------
(***************************************************************************)
(* The reception automata on a noisy line, for every payload, any number   *)
(* of frames and any number of faults: every variable keeps its type, and  *)
(* noise costs the frames it hits and the next one at most.                *)
(***************************************************************************)
EXTENDS ReceptionInv, Framing_proofs

-----------------------------------------------------------------------------
(* Frames *)

LEMMA SendableFields ==
    ASSUME NEW f \in Sendable
    PROVE  /\ f.a \in {"SEND", "RECV"} /\ f.n \in {0, 1} /\ f.damage = "none"
           /\ f.c \in {"SET", "UA", "DISC", "I", "RR", "REJ"}
           /\ f.c = "I" => f.a = "SEND" /\ f.d \in 1..N
           /\ f = [a |-> f.a, c |-> f.c, n |-> f.n, d |-> f.d, damage |-> f.damage]
           /\ f.c # "I" => f.d = 0
BY DEF Sendable, FromTransmitter, FromReceiver, TxSET, TxDISC, TxUA, TxRR, TxI,
       RxUA, RxDISC, RxRR, RxREJ, Frame

LEMMA SendableIsFrame ==
    ASSUME ReceptionAssumption, NEW f \in Sendable
    PROVE  f \in Frames
<1>1. f.d \in 0..N
    BY SendableFields DEF ReceptionAssumption
<1> QED BY <1>1, SendableFields DEF Frames

\* The bytes of the header.
LEMMA HeaderBytes ==
    ASSUME NEW f \in Sendable
    PROVE  /\ Address(f) \in {A_SEND, A_RECV} /\ ControlByte(f) \in Byte
           /\ Address(f) \in Byte
           /\ Address(f) # FLAG /\ ControlByte(f) # FLAG
           /\ Xor(Address(f), ControlByte(f)) # FLAG
           /\ Xor(Address(f), ControlByte(f)) \in Byte
<1>1. Address(f) \in {A_SEND, A_RECV}
    BY DEF Address
<1>2. ControlByte(f) \in {C_SET, C_DISC, C_UA, C_I(0), C_I(1), RR(0), RR(1), REJ(0), REJ(1)}
    BY SendableFields DEF ControlByte, Control
<1>3. ControlByte(f) \in Byte /\ Address(f) \in Byte
    BY <1>1, <1>2, Codes
<1>4. Address(f) # FLAG /\ ControlByte(f) # FLAG
    BY <1>1, <1>2, Codes
<1>5. Xor(Address(f), ControlByte(f)) # FLAG
    <2>1. 5 \notin Address(f)
        BY <1>1 DEF A_SEND, A_RECV
    <2>2. 5 \notin ControlByte(f)
        BY <1>2 DEF C_SET, C_DISC, C_UA, C_I, RR, REJ
    <2>3. 5 \in FLAG /\ 5 \notin Xor(Address(f), ControlByte(f))
        BY <2>1, <2>2 DEF FLAG, Xor
    <2> QED BY <2>3
<1> QED BY <1>1, <1>3, <1>4, <1>5, XorIsByte

\* The stuffed data and BCC2.
LEMMA BodyBytes ==
    ASSUME ReceptionAssumption, NEW f \in Sendable
    PROVE  /\ Body(f) \in Seq(Byte)
           /\ \A i \in 1..Len(Body(f)) : Body(f)[i] # FLAG
           /\ f.c # "I" => Body(f) = <<>>
           /\ f.c = "I" => /\ Payloads[f.d] \in Seq(Byte) /\ Payloads[f.d] # <<>>
                           /\ Body(f) = Stuffed(Append(Payloads[f.d], BCC(Payloads[f.d])))
<1>1. CASE f.c # "I"
    BY <1>1 DEF Body
<1>2. CASE f.c = "I"
    <2>1. Payloads[f.d] \in Seq(Byte) /\ Payloads[f.d] # <<>>
        BY <1>2, SendableFields DEF ReceptionAssumption
    <2> DEFINE s == Append(Payloads[f.d], BCC(Payloads[f.d]))
    <2>2. s \in Seq(Byte) /\ {} \in Byte
        BY <2>1, BCCIsByte DEF Byte
    <2>3. Body(f) = Stuffed(s)
        BY <1>2, <2>1, BCCIsByte, StuffedParts DEF Body
    <2>4. Stuffed(s) \in Seq(Byte) /\ \A i \in 1..Len(Stuffed(s)) : Stuffed(s)[i] # FLAG
        BY <2>2, StuffedAppend, NoFlagIsStuffed
    <2> QED BY <1>2, <2>1, <2>3, <2>4
<1> QED BY <1>1, <1>2

\* All bytes of a frame.
LEMMA FrameBytes ==
    ASSUME ReceptionAssumption, NEW f \in Sendable
    PROVE  /\ Bytes(f) \in Seq(Byte)
           /\ Len(Bytes(f)) = Len(Body(f)) + 5
           /\ Bytes(f)[1] = FLAG /\ Bytes(f)[2] = Address(f)
           /\ Bytes(f)[3] = ControlByte(f)
           /\ Bytes(f)[4] = Xor(Address(f), ControlByte(f))
           /\ \A i \in 1..Len(Body(f)) : Bytes(f)[i + 4] = Body(f)[i]
           /\ Bytes(f)[Len(Bytes(f))] = FLAG
<1> DEFINE a == Address(f)
           c == ControlByte(f)
           h == <<FLAG, a, c, Xor(a, c)>>
           t == Body(f)
<1>1. /\ a \in Byte /\ c \in Byte /\ FLAG \in Byte /\ Xor(a, c) \in Byte /\ t \in Seq(Byte)
    BY HeaderBytes, BodyBytes, Codes
<1>2. Header(a, c) = h
    BY <1>1, BCCOfTwo DEF Header
<1>3. Bytes(f) = (h \o t) \o <<FLAG>>
    <2>1. CASE f.c = "I"
        <3>1. a = A_SEND /\ c = C_I(f.n)
            BY <2>1, SendableFields DEF Address, ControlByte
        <3>2. Bytes(f) = Header(a, c) \o Stuffed(Payloads[f.d])
                             \o Stuffed(<<BCC(Payloads[f.d])>>) \o <<FLAG>>
            BY <2>1, <3>1 DEF Bytes, Information
        <3>3. /\ Stuffed(Payloads[f.d]) \in Seq(Byte)
              /\ Stuffed(<<BCC(Payloads[f.d])>>) \in Seq(Byte)
            <4>1. Payloads[f.d] \in Seq(Byte) /\ <<BCC(Payloads[f.d])>> \in Seq(Byte)
                BY <2>1, BodyBytes, BCCIsByte
            <4> QED BY <1>1, <4>1, StuffedAppend
        <3>4. t = Stuffed(Payloads[f.d]) \o Stuffed(<<BCC(Payloads[f.d])>>)
            BY <2>1 DEF Body
        <3>5. h \in Seq(Byte)
            BY <1>1
        <3> HIDE DEF h, a, c, t
        <3>6. (h \o Stuffed(Payloads[f.d])) \o Stuffed(<<BCC(Payloads[f.d])>>) = h \o t
            BY <3>3, <3>4, <3>5, BytesAssociate, Zenon
        <3> QED BY <1>2, <3>2, <3>6
    <2>2. CASE f.c # "I"
        <3>1. c = Control(f) /\ t = <<>>
            BY <2>2 DEF ControlByte, Body
        <3>2. Bytes(f) = Header(a, c) \o <<FLAG>>
            BY <2>2, <3>1 DEF Bytes, Supervisory
        <3>3. h \in Seq(Byte)
            BY <1>1
        <3>4. h \o t = h
            <4> HIDE DEF h, t
            <4> QED BY <3>1, <3>3, ConcatEmptySeq
        <3> HIDE DEF h, a, c, t
        <3> QED BY <1>2, <3>2, <3>4
    <2> QED BY <2>1, <2>2
<1>4. h \in Seq(Byte) /\ Len(h) = 4 /\ h[1] = FLAG /\ h[2] = a /\ h[3] = c /\ h[4] = Xor(a, c)
    BY <1>1
<1>5. <<FLAG>> \in Seq(Byte) /\ Len(<<FLAG>>) = 1 /\ <<FLAG>>[1] = FLAG
    BY <1>1
<1> DEFINE l == <<FLAG>>
           u == h \o t
<1> HIDE DEF a, c, h, t, l
<1>6. /\ u \in Seq(Byte) /\ Len(u) = Len(t) + 4 /\ Len(t) \in Nat
      /\ u[1] = h[1] /\ u[2] = h[2] /\ u[3] = h[3] /\ u[4] = h[4]
      /\ \A i \in 1..Len(t) : u[i + 4] = t[i]
    <2>0. Len(t) \in Nat
        BY <1>1
    <2>1. /\ u \in Seq(Byte) /\ Len(u) = Len(h) + Len(t)
          /\ \A i \in 1..Len(h) + Len(t) : u[i] = IF i <= Len(h) THEN h[i] ELSE t[i - Len(h)]
        <3>1. h \in Seq(Byte) /\ t \in Seq(Byte)
            BY <1>1, <1>4
        <3>2. h \o t \in Seq(Byte) /\ Len(h \o t) = Len(h) + Len(t)
            BY <3>1, ConcatProperties
        <3>3. \A i \in 1..Len(h) + Len(t) :
                  (h \o t)[i] = IF i <= Len(h) THEN h[i] ELSE t[i - Len(h)]
            BY <3>1, ConcatProperties
        <3> QED BY <3>2, <3>3
    <2> HIDE DEF u
    <2>2. \A i \in 1..4 : u[i] = h[i]
        BY <1>4, <2>0, <2>1
    <2>3. ASSUME NEW i \in 1..Len(t) PROVE u[i + 4] = t[i]
        <3>1. i + 4 \in 1..Len(h) + Len(t) /\ ~(i + 4 <= Len(h)) /\ (i + 4) - Len(h) = i
            BY <1>4, <2>0
        <3> QED BY <2>1, <3>1
    <2> QED BY <1>4, <2>0, <2>1, <2>2, <2>3
<1> HIDE DEF u
<1>7. /\ u \o l \in Seq(Byte) /\ Len(u \o l) = Len(u) + 1
      /\ \A i \in 1..Len(u) : (u \o l)[i] = u[i]
      /\ (u \o l)[Len(u) + 1] = FLAG
    BY <1>5, <1>6, ConcatProperties DEF l
<1>8. Bytes(f) = u \o l
    BY <1>3 DEF u, l
<1>9. /\ \A i \in 1..4 : i \in 1..Len(u)
      /\ \A i \in 1..Len(t) : i + 4 \in 1..Len(u)
    BY <1>6
<1>10. /\ Bytes(f)[1] = u[1] /\ Bytes(f)[2] = u[2] /\ Bytes(f)[3] = u[3] /\ Bytes(f)[4] = u[4]
       /\ \A i \in 1..Len(t) : Bytes(f)[i + 4] = u[i + 4]
    BY <1>7, <1>8, <1>9
<1>11. Len(Bytes(f)) = Len(t) + 5 /\ Bytes(f)[Len(Bytes(f))] = FLAG
    BY <1>6, <1>7, <1>8
<1>12. Bytes(f) \in Seq(Byte)
    BY <1>7, <1>8
<1> QED BY <1>4, <1>6, <1>10, <1>11, <1>12 DEF a, c, t

\* The byte that is read next.
LEMMA NextByte ==
    ASSUME ReceptionAssumption, NEW f \in Sendable, NEW k \in 0..Len(Bytes(f)) - 1
    PROVE  LET b == Bytes(f)[k + 1]
               n == Len(Bytes(f))
           IN /\ b \in Byte /\ n \in Nat /\ n >= 5
              /\ b = FLAG <=> k = 0 \/ k = n - 1
              /\ k = 1 => b = Address(f)
              /\ k = 2 => b = ControlByte(f)
              /\ k = 3 => b = Xor(Address(f), ControlByte(f))
              /\ k > 3 /\ k < n - 1 => /\ k - 3 \in 1..Len(Body(f)) /\ b = Body(f)[k - 3]
                                       /\ f.c = "I"
<1> DEFINE n == Len(Bytes(f))
           l == Len(Body(f))
           b == Bytes(f)[k + 1]
<1>1. n = l + 5 /\ l \in Nat
    BY FrameBytes, BodyBytes
<1>2. k + 1 \in 1..n /\ k \in 0..n - 1
    BY <1>1
<1>3. b \in Byte
    BY <1>2, FrameBytes, ElementOfSeq
<1>4. CASE k = 0
    BY <1>1, <1>3, <1>4, FrameBytes
<1>5. CASE k = 1
    <2>1. b = Address(f)
        BY <1>5, FrameBytes
    <2> HIDE DEF b, n
    <2> QED BY <1>1, <1>3, <1>5, <2>1, HeaderBytes DEF b, n
<1>6. CASE k = 2
    <2>1. b = ControlByte(f)
        BY <1>6, FrameBytes
    <2> HIDE DEF b, n
    <2> QED BY <1>1, <1>3, <1>6, <2>1, HeaderBytes DEF b, n
<1>7. CASE k = 3
    <2>1. b = Xor(Address(f), ControlByte(f))
        BY <1>7, FrameBytes
    <2> HIDE DEF b, n
    <2> QED BY <1>1, <1>3, <1>7, <2>1, HeaderBytes DEF b, n
<1>8. CASE k = n - 1
    <2>1. b = FLAG
        <3>1. k + 1 = n
            BY <1>1, <1>8
        <3> QED BY <3>1, FrameBytes
    <2> HIDE DEF b, n
    <2> QED BY <1>1, <1>3, <1>8, <2>1 DEF b, n
<1>9. CASE k > 3 /\ k < n - 1
    <2>1. k - 3 \in 1..l /\ (k - 3) + 4 = k + 1
        BY <1>1, <1>2, <1>9
    <2>2. b = Body(f)[k - 3]
        BY <2>1, FrameBytes
    <2>3. b # FLAG
        BY <2>1, <2>2, BodyBytes
    <2>4. f.c = "I"
        <3>1. Body(f) = <<>> => l = 0
            OBVIOUS
        <3> QED BY <2>1, <3>1, BodyBytes
    <2> HIDE DEF b, n, l
    <2> QED BY <1>1, <1>2, <1>3, <1>9, <2>1, <2>2, <2>3, <2>4 DEF b, n, l
<1>10. k = 0 \/ k = 1 \/ k = 2 \/ k = 3 \/ k = n - 1 \/ (k > 3 /\ k < n - 1)
    BY <1>1, <1>2
<1> QED BY <1>4, <1>5, <1>6, <1>7, <1>8, <1>9, <1>10

-----------------------------------------------------------------------------
(* One byte, in any state *)

SStates == {"START", "FLAG_RCV", "A_RCV", "C_RCV", "BCC_OK", "C_I_RCV"}
UStates == {"START", "FLAG_RCV", "A_RCV", "C_RCV", "BCC_OK", "C_DISC_RCV"}
IStates == {"START", "A_RCV", "C_RCV", "DATA", "C_UNXP_RCV", "C_SET_RCV", "STOP_UA"}

IsAutomaton(x) ==
    /\ x = [state |-> x.state, a |-> x.a, c |-> x.c, data |-> x.data]
    /\ x.a \in Byte /\ x.c \in Byte /\ x.data \in Seq(Byte)

\* What the S and U automata keep.
LEMMA KeptIs ==
    ASSUME NEW x, IsAutomaton(x), NEW b, NEW next
    PROVE  LET y == Kept(x, b, next)
           IN /\ y.state = next
              /\ y.a = IF x.state = "FLAG_RCV" /\ next = "A_RCV" THEN b ELSE x.a
              /\ y.c = IF x.state = "A_RCV" /\ next \in {"C_RCV", "C_I_RCV", "C_DISC_RCV"}
                       THEN b ELSE x.c
              /\ y.data = x.data
              /\ y = [state |-> y.state, a |-> y.a, c |-> y.c, data |-> y.data]
BY DEF Kept

\* The control bytes the S automaton knows.
LEMMA SControlsAre ==
    ASSUME NEW q \in {0, 1}
    PROVE  /\ NextSeq(q) = Flip(q) /\ NextSeq(q) \in {0, 1} /\ NextSeq(q) # q
           /\ SControls(q) = {C_SET, C_DISC, RR(Flip(q)), REJ(Flip(q))}
           /\ SControls(q) \subseteq Byte /\ FLAG \notin SControls(q)
<1>1. NextSeq(q) = Flip(q) /\ NextSeq(q) \in {0, 1} /\ NextSeq(q) # q
    BY DEF NextSeq, Flip
<1>2. SControls(q) = {C_SET, C_DISC, RR(Flip(q)), REJ(Flip(q))}
    BY <1>1 DEF SControls
<1> QED BY <1>1, <1>2, Codes

LEMMA SNext ==
    ASSUME NEW q \in {0, 1}, NEW x, IsAutomaton(x), x.state \in SStates,
           x.state \in {"C_RCV", "BCC_OK"} => x.c \in SControls(q), NEW b \in Byte
    PROVE  LET y == SUpdate(q, x, b)
           IN /\ IsAutomaton(y) /\ y.data = x.data
              /\ y.state \in SStates \cup {"STOP", "STOP_RR"}
              /\ y.state \in {"C_RCV", "BCC_OK", "STOP"} => y.c \in SControls(q)
              /\ b # FLAG => y.state \notin {"STOP", "STOP_RR"}
              /\ b = FLAG => y.state \in {"FLAG_RCV", "STOP", "STOP_RR"}
<1> DEFINE y == SUpdate(q, x, b)
           g == SGoto(q, x, b)
<1>1. /\ y.state = g /\ y.data = x.data
      /\ y.a = IF x.state = "FLAG_RCV" /\ g = "A_RCV" THEN b ELSE x.a
      /\ y.c = IF x.state = "A_RCV" /\ g \in {"C_RCV", "C_I_RCV", "C_DISC_RCV"} THEN b ELSE x.c
      /\ y = [state |-> y.state, a |-> y.a, c |-> y.c, data |-> y.data]
    BY KeptIs DEF SUpdate
<1>2. /\ g \in SStates \cup {"STOP", "STOP_RR"}
      /\ g = "C_RCV" => x.state = "A_RCV" /\ b \in SControls(q)
      /\ g \in {"BCC_OK", "STOP"} => x.state \in {"C_RCV", "BCC_OK"}
      /\ b # FLAG => g \notin {"STOP", "STOP_RR"}
      /\ b = FLAG => g \in {"FLAG_RCV", "STOP", "STOP_RR"}
    <2>1. FLAG \notin {A_SEND, A_RECV} \cup SControls(q) \cup {C_I(0), C_I(1)}
        BY Codes, SControlsAre
    <2> QED BY <2>1 DEF SGoto, SStates
<1> HIDE DEF y, g
<1>3. IsAutomaton(y)
    BY <1>1 DEF IsAutomaton
<1>4. y.state \in {"C_RCV", "BCC_OK", "STOP"} => y.c \in SControls(q)
    BY <1>1, <1>2
<1> QED BY <1>1, <1>2, <1>3, <1>4 DEF y

LEMMA UNext ==
    ASSUME NEW x, IsAutomaton(x), x.state \in UStates,
           x.state \in {"C_RCV", "BCC_OK"} => x.c = C_UA, NEW b \in Byte
    PROVE  LET y == UUpdate(x, b)
           IN /\ IsAutomaton(y) /\ y.data = x.data
              /\ y.state \in UStates \cup {"STOP", "STOP_DISC"}
              /\ y.state \in {"C_RCV", "BCC_OK", "STOP"} => y.c = C_UA
              /\ b # FLAG => y.state \notin {"STOP", "STOP_DISC"}
              /\ b = FLAG => y.state \in {"FLAG_RCV", "STOP", "STOP_DISC"}
<1> DEFINE y == UUpdate(x, b)
           g == UGoto(x, b)
<1>1. /\ y.state = g /\ y.data = x.data
      /\ y.a = IF x.state = "FLAG_RCV" /\ g = "A_RCV" THEN b ELSE x.a
      /\ y.c = IF x.state = "A_RCV" /\ g \in {"C_RCV", "C_I_RCV", "C_DISC_RCV"} THEN b ELSE x.c
      /\ y = [state |-> y.state, a |-> y.a, c |-> y.c, data |-> y.data]
    BY KeptIs DEF UUpdate
<1>2. /\ g \in UStates \cup {"STOP", "STOP_DISC"}
      /\ g = "C_RCV" => x.state = "A_RCV" /\ b = C_UA
      /\ g \in {"BCC_OK", "STOP"} => x.state \in {"C_RCV", "BCC_OK"}
      /\ b # FLAG => g \notin {"STOP", "STOP_DISC"}
      /\ b = FLAG => g \in {"FLAG_RCV", "STOP", "STOP_DISC"}
    <2>1. FLAG \notin {A_SEND, A_RECV, C_UA, C_DISC}
        BY Codes
    <2> QED BY <2>1 DEF UGoto, UStates
<1> HIDE DEF y, g
<1>3. IsAutomaton(y)
    BY <1>1 DEF IsAutomaton
<1>4. y.state \in {"C_RCV", "BCC_OK", "STOP"} => y.c = C_UA
    BY <1>1, <1>2
<1> QED BY <1>1, <1>2, <1>3, <1>4 DEF y

LEMMA INext ==
    ASSUME NEW q \in {0, 1}, NEW x, IsAutomaton(x), x.state \in IStates, NEW b \in Byte
    PROVE  LET y == IUpdate(q, x, b)
           IN /\ IsAutomaton(y) /\ y.a = x.a /\ y.c = x.c /\ y.state = IGoto(q, x, b)
              /\ y.data = IF x.state = "DATA" /\ b # FLAG THEN Append(x.data, b) ELSE x.data
              /\ y.state \in IStates \cup {"STOP", "STOP_RR"}
              /\ b # FLAG => /\ y.state \notin {"STOP", "STOP_RR", "STOP_UA"}
                             /\ x.state = "DATA" <=> y.state = "DATA" /\ x.state # "C_RCV"
              /\ b = FLAG => /\ y.state \in {"START", "STOP", "STOP_RR", "STOP_UA"}
                             /\ x.state = "DATA" <=> y.state = "STOP"
<1> DEFINE y == IUpdate(q, x, b)
           g == IGoto(q, x, b)
           data == IF x.state = "DATA" /\ b # FLAG THEN Append(x.data, b) ELSE x.data
<1>1. y = [state |-> g, a |-> x.a, c |-> x.c, data |-> data]
    <2>1. y = [x EXCEPT !.state = g, !.data = data]
        BY DEF IUpdate
    <2> HIDE DEF y, g, data
    <2> QED BY <2>1 DEF IsAutomaton
<1>2. data \in Seq(Byte)
    <2>1. x.data \in Seq(Byte) /\ Append(x.data, b) \in Seq(Byte)
        BY DEF IsAutomaton
    <2> QED BY <2>1
<1>3. IsAutomaton(y) /\ y.a = x.a /\ y.c = x.c /\ y.state = g /\ y.data = data
    <2> HIDE DEF y, g, data
    <2> QED BY <1>1, <1>2 DEF IsAutomaton
<1>4. /\ g \in IStates \cup {"STOP", "STOP_RR"}
      /\ b # FLAG => /\ g \notin {"STOP", "STOP_RR", "STOP_UA"}
                     /\ x.state = "DATA" <=> g = "DATA" /\ x.state # "C_RCV"
      /\ b = FLAG => /\ g \in {"START", "STOP", "STOP_RR", "STOP_UA"}
                     /\ x.state = "DATA" <=> g = "STOP"
    <2>1. FLAG \notin {A_SEND, C_SET, C_I(q), C_I(NextSeq(q))}
        BY Codes, SControlsAre
    <2>2. FLAG # Xor(A_SEND, C_I(NextSeq(q)))
        <3>1. 5 \notin C_I(NextSeq(q)) /\ 5 \notin A_SEND
            BY DEF C_I, A_SEND
        <3>2. 5 \in FLAG /\ 5 \notin Xor(A_SEND, C_I(NextSeq(q)))
            BY <3>1 DEF Xor, FLAG
        <3> QED BY <3>2
    <2> QED BY <2>1, <2>2 DEF IGoto, IStates
<1> HIDE DEF y, g
<1> QED BY <1>3, <1>4 DEF y, g

-----------------------------------------------------------------------------
(* What LinkFrames says of a frame, and its control byte *)

\* No two control codes are the same byte.
LEMMA DifferentCodes ==
    /\ C_SET # C_DISC /\ C_SET # C_UA /\ C_DISC # C_UA
    /\ C_I(0) # C_I(1) /\ RR(0) # RR(1) /\ REJ(0) # REJ(1)
    /\ \A n \in {0, 1} : /\ C_I(n) \notin {C_SET, C_DISC, C_UA}
                         /\ RR(n) \notin {C_SET, C_DISC, C_UA}
                         /\ REJ(n) \notin {C_SET, C_DISC, C_UA}
    /\ \A n, k \in {0, 1} : C_I(n) # RR(k) /\ C_I(n) # REJ(k) /\ RR(n) # REJ(k)
<1>1. 0 \in C_SET /\ 1 \in C_SET /\ 2 \notin C_SET /\ 3 \notin C_SET
    BY DEF C_SET
<1>2. 0 \in C_DISC /\ 1 \in C_DISC /\ 2 \notin C_DISC /\ 3 \in C_DISC
    BY DEF C_DISC
<1>3. 0 \in C_UA /\ 1 \in C_UA /\ 2 \in C_UA /\ 3 \notin C_UA
    BY DEF C_UA
<1>4. 6 \notin C_I(0) /\ 6 \in C_I(1) /\ 0 \notin C_I(0) /\ 0 \notin C_I(1)
    BY DEF C_I
<1>5. \A n \in {0, 1} : 0 \in RR(n) /\ 1 \notin RR(n) /\ 2 \in RR(n)
    BY DEF RR
<1>6. \A n \in {0, 1} : 0 \in REJ(n) /\ 1 \notin REJ(n) /\ 2 \notin REJ(n)
    BY DEF REJ
<1>7. 7 \notin RR(0) /\ 7 \in RR(1) /\ 7 \notin REJ(0) /\ 7 \in REJ(1)
    BY DEF RR, REJ
<1>8. C_SET # C_DISC /\ C_SET # C_UA /\ C_DISC # C_UA
    BY <1>1, <1>2, <1>3
<1>9. C_I(0) # C_I(1) /\ RR(0) # RR(1) /\ REJ(0) # REJ(1)
    BY <1>4, <1>7
<1>10. \A n \in {0, 1} : 0 \notin C_I(n)
    BY <1>4
<1>11. \A n \in {0, 1} : /\ C_I(n) \notin {C_SET, C_DISC, C_UA}
                         /\ RR(n) \notin {C_SET, C_DISC, C_UA}
                         /\ REJ(n) \notin {C_SET, C_DISC, C_UA}
    BY <1>1, <1>2, <1>3, <1>5, <1>6, <1>10
<1>12. \A n, k \in {0, 1} : C_I(n) # RR(k) /\ C_I(n) # REJ(k) /\ RR(n) # REJ(k)
    BY <1>5, <1>6, <1>10
<1> QED BY <1>8, <1>9, <1>11, <1>12

\* Code undoes Control, for what the S and the U automaton let pass.
LEMMA CodeIs ==
    ASSUME NEW f \in Sendable, f.c # "I"
    PROVE  /\ Code(Control(f)) = f.c /\ ControlByte(f) = Control(f)
           /\ Address(f) = A_SEND <=> f.a = "SEND"
<1>1. ControlByte(f) = Control(f)
    BY DEF ControlByte
<1>2. Address(f) = A_SEND <=> f.a = "SEND"
    BY Codes, SendableFields DEF Address
<1>3. Code(Control(f)) = f.c
    <2>1. CASE f.c = "SET"
        BY <2>1, DifferentCodes DEF Code, Control
    <2>2. CASE f.c = "DISC"
        BY <2>2, DifferentCodes DEF Code, Control
    <2>3. CASE f.c = "UA"
        BY <2>3, DifferentCodes DEF Code, Control
    <2>4. CASE f.c = "RR"
        <3>1. Control(f) = RR(f.n) /\ f.n \in {0, 1}
            BY <2>4, SendableFields DEF Control
        <3> QED BY <2>4, <3>1, DifferentCodes DEF Code
    <2>5. CASE f.c = "REJ"
        <3>1. Control(f) = REJ(f.n) /\ f.n \in {0, 1}
            BY <2>5, SendableFields DEF Control
        <3> QED BY <2>5, <3>1, DifferentCodes DEF Code
    <2> QED BY <2>1, <2>2, <2>3, <2>4, <2>5, SendableFields
<1> QED BY <1>1, <1>2, <1>3

LEMMA SVerdict ==
    ASSUME NEW q \in {0, 1}, NEW f \in Sendable
    PROVE  LET c == ControlByte(f)
               v == SOutcome(q, f)
           IN /\ v \in {"stop", "resend", "skip"}
              /\ v = "stop" => f.c # "I" /\ c \in SControls(q) \ {C_I(0), C_I(1)}
              /\ v = "resend" => f.c = "I" /\ c \in {C_I(0), C_I(1)} /\ c \notin SControls(q)
              /\ v = "skip" => f.c # "I" /\ c \notin SControls(q) \cup {C_I(0), C_I(1)}
<1>1. /\ SControls(q) = {C_SET, C_DISC, RR(Flip(q)), REJ(Flip(q))} /\ Flip(q) \in {0, 1}
      /\ f.n \in {0, 1} /\ f.damage = "none"
    BY SControlsAre, SendableFields
<1>2. CASE f.c \in {"SET", "DISC"}
    <2>1. ControlByte(f) \in {C_SET, C_DISC} /\ SOutcome(q, f) = "stop"
        BY <1>1, <1>2 DEF SOutcome, ControlByte, Control
    <2> QED BY <1>1, <1>2, <2>1, DifferentCodes
<1>3. CASE f.c = "UA"
    <2>1. ControlByte(f) = C_UA /\ SOutcome(q, f) = "skip"
        BY <1>3 DEF SOutcome, ControlByte, Control
    <2> QED BY <1>1, <1>3, <2>1, DifferentCodes
<1>4. CASE f.c = "I"
    <2>1. ControlByte(f) = C_I(f.n) /\ SOutcome(q, f) = "resend"
        BY <1>4 DEF SOutcome, ControlByte
    <2> QED BY <1>1, <1>4, <2>1, DifferentCodes
<1>5. CASE f.c = "RR"
    <2>1. /\ ControlByte(f) = RR(f.n)
          /\ SOutcome(q, f) = IF f.n = Flip(q) THEN "stop" ELSE "skip"
        BY <1>5 DEF SOutcome, ControlByte, Control
    <2>2. f.n # Flip(q) => RR(f.n) # RR(Flip(q))
        BY <1>1, DifferentCodes
    <2> QED BY <1>1, <1>5, <2>1, <2>2, DifferentCodes
<1>6. CASE f.c = "REJ"
    <2>1. /\ ControlByte(f) = REJ(f.n)
          /\ SOutcome(q, f) = IF f.n = Flip(q) THEN "stop" ELSE "skip"
        BY <1>6 DEF SOutcome, ControlByte, Control
    <2>2. f.n # Flip(q) => REJ(f.n) # REJ(Flip(q))
        BY <1>1, DifferentCodes
    <2> QED BY <1>1, <1>6, <2>1, <2>2, DifferentCodes
<1> QED BY <1>2, <1>3, <1>4, <1>5, <1>6, SendableFields

LEMMA UVerdict ==
    ASSUME NEW f \in Sendable, f.c \in {"UA", "DISC", "RR"}
    PROVE  LET c == ControlByte(f)
               v == UOutcome(f)
           IN /\ v \in {"stop", "disc", "skip"} /\ f.c # "I"
              /\ v = "stop" => c = C_UA
              /\ v = "disc" => c = C_DISC /\ c # C_UA
              /\ v = "skip" => c \notin {C_UA, C_DISC}
<1>1. f.n \in {0, 1}
    BY SendableFields
<1>2. CASE f.c \in {"UA", "DISC"}
    BY <1>2, DifferentCodes DEF UOutcome, ControlByte, Control
<1>3. CASE f.c = "RR"
    <2>1. ControlByte(f) = RR(f.n) /\ UOutcome(f) = "skip"
        BY <1>3 DEF UOutcome, ControlByte, Control
    <2> QED BY <1>1, <1>3, <2>1, DifferentCodes
<1> QED BY <1>2, <1>3

LEMMA IVerdict ==
    ASSUME NEW q \in {0, 1}, NEW f \in FromTransmitter, f.c \in {"SET", "I", "RR"}
    PROVE  LET a == Address(f)
               c == ControlByte(f)
               v == IOutcome(q, f)
           IN /\ v \in {"set", "data", "resend", "skip"}
              /\ v # "skip" => a = A_SEND
              /\ v = "set" => f.c = "SET" /\ c = C_SET /\ c \notin {C_I(0), C_I(1)}
              /\ v = "data" => f.c = "I" /\ c = C_I(NextSeq(q))
              /\ v = "resend" => f.c = "I" /\ c = C_I(q) /\ c # C_I(NextSeq(q))
              /\ v = "skip" => /\ f.c # "I" /\ a # A_SEND /\ c # A_SEND /\ Xor(a, c) # A_SEND
<1>0. f \in Sendable
    BY DEF Sendable
<1>1. /\ NextSeq(q) = Flip(q) /\ NextSeq(q) \in {0, 1} /\ NextSeq(q) # q
      /\ f.n \in {0, 1} /\ f.damage = "none" /\ f.n \in {q, Flip(q)}
    BY <1>0, SControlsAre, SendableFields DEF Flip
<1>2. CASE f.c = "SET"
    <2>1. f.a = "SEND"
        BY <1>2 DEF FromTransmitter, TxSET, TxDISC, TxUA, TxRR, TxI, Frame
    <2>2. Address(f) = A_SEND /\ ControlByte(f) = C_SET /\ IOutcome(q, f) = "set"
        BY <1>2, <2>1 DEF IOutcome, Address, ControlByte, Control
    <2> QED BY <1>2, <2>2, DifferentCodes
<1>3. CASE f.c = "I"
    <2>1. f.a = "SEND"
        BY <1>0, <1>3, SendableFields
    <2>2. /\ Address(f) = A_SEND /\ ControlByte(f) = C_I(f.n)
          /\ IOutcome(q, f) = IF f.n = q THEN "resend" ELSE "data"
        BY <1>1, <1>3, <2>1 DEF IOutcome, Address, ControlByte
    <2>3. f.n # NextSeq(q) => C_I(f.n) # C_I(NextSeq(q))
        BY <1>1, DifferentCodes
    <2> QED BY <1>1, <1>3, <2>2, <2>3
<1>4. CASE f.c = "RR"
    <2>1. f.a = "RECV"
        BY <1>4 DEF FromTransmitter, TxSET, TxDISC, TxUA, TxRR, TxI, Frame
    <2>2. Address(f) = A_RECV /\ ControlByte(f) = RR(f.n) /\ IOutcome(q, f) = "skip"
        BY <1>4, <2>1 DEF IOutcome, Address, ControlByte, Control
    <2>3. A_RECV # A_SEND
        BY Codes
    <2>4. 1 \in A_SEND /\ 0 \in A_SEND /\ 1 \notin RR(f.n) /\ 0 \in RR(f.n) /\ 0 \in A_RECV
        BY <1>1 DEF A_SEND, A_RECV, RR
    <2>5. RR(f.n) # A_SEND /\ Xor(A_RECV, RR(f.n)) # A_SEND
        BY <2>4 DEF Xor
    <2> QED BY <1>4, <2>2, <2>3, <2>5
<1> QED BY <1>2, <1>3, <1>4

-----------------------------------------------------------------------------
(* A whole frame, byte by byte *)

\* The automaton when it has read one byte more than k of f, and may have stopped.
After(f, k) == Update(Bytes(f)[k + 1])

\* In the frame the automaton does not stop, and keeps in step.
Middle(f, k) ==
    /\ After(f, k).state \notin Stops \cup {"STOP_UA"}
    /\ InFrame(f, k + 1)'

\* At its end the caller sees what LinkFrames says it does.
End(f, k) ==
    IF Verdict(f) = "skip"
    THEN After(f, k).state \notin Stops \cup {"STOP_UA"} /\ Seen(f) = <<>>
    ELSE /\ After(f, k).state \in Stops \cup {"STOP_UA"}
         /\ \A stale \in Byte : Seen(f) = <<Result(After(f, k), stale)>>

LEMMA InFrameIs ==
    ASSUME NEW f, NEW k \in Nat, InFrame(f, k)
    PROVE  /\ k = 0 => Resting
           /\ k = 1 => m.state = IF auto = "I" THEN "START" ELSE "FLAG_RCV"
           /\ k = 2 => IF auto = "I"
                       THEN m.state = IF Verdict(f) = "skip" THEN "START" ELSE "A_RCV"
                       ELSE m.state = "A_RCV" /\ m.a = Address(f)
           /\ k > 2 /\ Verdict(f) = "skip" => m.state = "START"
           /\ k > 2 /\ Verdict(f) = "stop" =>
                 /\ m.state = IF k = 3 THEN "C_RCV" ELSE "BCC_OK"
                 /\ m.a = Address(f) /\ m.c = Control(f)
           /\ k > 2 /\ Verdict(f) = "resend" =>
                 m.state = IF auto = "S" THEN "C_I_RCV" ELSE "C_UNXP_RCV"
           /\ k > 2 /\ Verdict(f) = "disc" => m.state = "C_DISC_RCV"
           /\ k > 2 /\ Verdict(f) = "set" => m.state = "C_SET_RCV"
           /\ k > 2 /\ Verdict(f) = "data" =>
                 IF k = 3 THEN m.state = "C_RCV"
                 ELSE m.state = "DATA" /\ m.data = SubSeq(Body(f), 1, k - 4)
<1>1. CASE k = 0
    BY <1>1 DEF InFrame
<1>2. CASE k = 1
    BY <1>2 DEF InFrame
<1>3. CASE k = 2
    BY <1>3 DEF InFrame
<1>4. CASE k > 2
    <2>1. k # 0 /\ k # 1 /\ k # 2
        BY <1>4
    <2> HIDE DEF Verdict
    <2>2. CASE Verdict(f) = "skip"
        BY <1>4, <2>1, <2>2 DEF InFrame
    <2>3. CASE Verdict(f) = "stop"
        BY <1>4, <2>1, <2>3 DEF InFrame
    <2>4. CASE Verdict(f) = "resend"
        BY <1>4, <2>1, <2>4 DEF InFrame
    <2>5. CASE Verdict(f) = "disc"
        BY <1>4, <2>1, <2>5 DEF InFrame
    <2>6. CASE Verdict(f) = "set"
        BY <1>4, <2>1, <2>6 DEF InFrame
    <2>7. CASE Verdict(f) = "data"
        BY <1>4, <2>1, <2>7 DEF InFrame
    <2>8. CASE Verdict(f) \notin {"skip", "stop", "resend", "disc", "set", "data"}
        BY <1>4, <2>1, <2>8
    <2> QED BY <2>2, <2>3, <2>4, <2>5, <2>6, <2>7, <2>8
<1> QED BY <1>1, <1>2, <1>3, <1>4

LEMMA SMiddle ==
    ASSUME ReceptionAssumption, seq \in {0, 1}, auto = "S", IsAutomaton(m),
           NEW CONSTANT f \in Sendable, NEW CONSTANT k \in 0..Len(Bytes(f)) - 2,
           InFrame(f, k), UNCHANGED <<auto, seq>>,
           After(f, k).state \notin Stops => m' = After(f, k)
    PROVE  Middle(f, k)
<1> DEFINE b == Bytes(f)[k + 1]
           y == After(f, k)
           v == Verdict(f)
           c == ControlByte(f)
           n == Len(Bytes(f))
<1>1. /\ b \in Byte /\ n \in Nat /\ n >= 5 /\ k \in Nat
      /\ b = FLAG <=> k = 0
      /\ k = 1 => b = Address(f)
      /\ k = 2 => b = c
      /\ k = 3 => b = Xor(Address(f), c)
      /\ k > 3 => f.c = "I"
    <2>1. n \in Nat /\ n >= 5
        BY FrameBytes, BodyBytes
    <2>2. k \in 0..n - 1 /\ k < n - 1 /\ k \in Nat
        BY <2>1
    <2> HIDE DEF n, b
    <2> QED BY <2>1, <2>2, NextByte DEF n, b
<1>2. /\ y.state = SGoto(seq, m, b)
      /\ y.a = IF m.state = "FLAG_RCV" /\ y.state = "A_RCV" THEN b ELSE m.a
      /\ y.c = IF m.state = "A_RCV" /\ y.state \in {"C_RCV", "C_I_RCV", "C_DISC_RCV"}
               THEN b ELSE m.c
    <2>1. y = Kept(m, b, SGoto(seq, m, b))
        BY DEF After, Update, SUpdate
    <2> HIDE DEF y, b
    <2> QED BY <2>1, KeptIs
<1>3. v = SOutcome(seq, f) /\ v' = v
    BY DEF Verdict
<1>4. /\ v \in {"stop", "resend", "skip"}
      /\ v = "stop" => /\ f.c # "I" /\ c = Control(f)
                       /\ c \in SControls(seq) \ {C_I(0), C_I(1)}
      /\ v = "resend" => f.c = "I" /\ c \in {C_I(0), C_I(1)} /\ c \notin SControls(seq)
      /\ v = "skip" => f.c # "I" /\ c \notin SControls(seq) \cup {C_I(0), C_I(1)}
    BY <1>3, SVerdict, CodeIs
<1>5. /\ Address(f) \in {A_SEND, A_RECV} /\ FLAG \notin {A_SEND, A_RECV}
    BY HeaderBytes, Codes
<1>6. k = 0 \/ k = 1 \/ k = 2 \/ k = 3 \/ k > 3
    BY <1>1
<1> HIDE DEF b, y, v, c, n
<1>7. CASE k = 0
    <2>1. m.state \in {"START", "FLAG_RCV"}
        BY <1>7, InFrameIs DEF Resting
    <2>2. y.state = "FLAG_RCV"
        BY <1>1, <1>2, <1>5, <1>7, <2>1 DEF SGoto
    <2>3. m' = y
        BY <2>2 DEF Stops, y
    <2>4. InFrame(f, 1)'
        BY <2>2, <2>3 DEF InFrame
    <2> QED BY <1>7, <2>2, <2>4 DEF Middle, Stops, y
<1>8. CASE k = 1
    <2>1. m.state = "FLAG_RCV"
        BY <1>8, InFrameIs
    <2>2. y.state = "A_RCV" /\ y.a = Address(f)
        BY <1>1, <1>2, <1>5, <1>8, <2>1 DEF SGoto
    <2>3. m' = y
        BY <2>2 DEF Stops, y
    <2>4. InFrame(f, 2)'
        BY <2>2, <2>3 DEF InFrame
    <2> QED BY <1>8, <2>2, <2>4 DEF Middle, Stops, y
<1>9. CASE k = 2
    <2>1. m.state = "A_RCV" /\ m.a = Address(f) /\ b = c /\ b # FLAG
        BY <1>1, <1>9, InFrameIs
    <2>2. /\ v = "stop" => y.state = "C_RCV" /\ y.a = Address(f) /\ y.c = Control(f)
          /\ v = "resend" => y.state = "C_I_RCV"
          /\ v = "skip" => y.state = "START"
        <3>1. CASE v = "stop"
            <4>1. SGoto(seq, m, b) = "C_RCV"
                BY <1>4, <2>1, <3>1 DEF SGoto
            <4> QED BY <1>2, <1>4, <2>1, <3>1, <4>1
        <3>2. CASE v = "resend"
            BY <1>2, <1>4, <2>1, <3>2 DEF SGoto
        <3>3. CASE v = "skip"
            BY <1>2, <1>4, <2>1, <3>3 DEF SGoto
        <3> QED BY <1>4, <3>1, <3>2, <3>3
    <2>3. y.state \notin Stops \cup {"STOP_UA"} /\ m' = y
        BY <1>4, <2>2 DEF Stops, y
    <2>4. InFrame(f, 3)'
        <3>1. CASE v = "stop"
            BY <1>3, <2>2, <2>3, <3>1 DEF InFrame, v
        <3>2. CASE v = "resend"
            BY <1>3, <2>2, <2>3, <3>2 DEF InFrame, v
        <3>3. CASE v = "skip"
            BY <1>3, <2>2, <2>3, <3>3 DEF InFrame, v
        <3> QED BY <1>4, <3>1, <3>2, <3>3
    <2> QED BY <1>9, <2>3, <2>4 DEF Middle, y
<1>10. CASE k = 3
    <2>1. b = Xor(Address(f), c) /\ b # FLAG
        BY <1>1, <1>10
    <2>2. /\ v = "stop" => m.state = "C_RCV" /\ m.a = Address(f) /\ m.c = Control(f)
          /\ v = "resend" => m.state = "C_I_RCV"
          /\ v = "skip" => m.state = "START"
        BY <1>10, InFrameIs DEF v
    <2>3. /\ v = "stop" => y.state = "BCC_OK" /\ y.a = Address(f) /\ y.c = Control(f)
          /\ v = "resend" => y.state = "C_I_RCV"
          /\ v = "skip" => y.state = "START"
        BY <1>2, <1>4, <2>1, <2>2 DEF SGoto
    <2>4. y.state \notin Stops \cup {"STOP_UA"} /\ m' = y
        BY <1>4, <2>3 DEF Stops, y
    <2>5. InFrame(f, 4)'
        <3>1. CASE v = "stop"
            BY <1>3, <2>3, <2>4, <3>1 DEF InFrame, v
        <3>2. CASE v = "resend"
            BY <1>3, <2>3, <2>4, <3>2 DEF InFrame, v
        <3>3. CASE v = "skip"
            BY <1>3, <2>3, <2>4, <3>3 DEF InFrame, v
        <3> QED BY <1>4, <3>1, <3>2, <3>3
    <2> QED BY <1>10, <2>4, <2>5 DEF Middle, y
<1>11. CASE k > 3
    <2>1. v = "resend" /\ b # FLAG /\ k > 2
        BY <1>1, <1>4, <1>11
    <2>2. m.state = "C_I_RCV"
        BY <2>1, <1>1, InFrameIs DEF v
    <2>3. y.state = "C_I_RCV"
        BY <1>2, <2>1, <2>2 DEF SGoto
    <2>4. y.state \notin Stops \cup {"STOP_UA"} /\ m' = y
        BY <2>3 DEF Stops, y
    <2>5. k + 1 > 2 /\ k + 1 # 0 /\ k + 1 # 1 /\ k + 1 # 2
        BY <1>1, <1>11
    <2>6. InFrame(f, k + 1)'
        BY <1>3, <2>1, <2>3, <2>4, <2>5 DEF InFrame, v
    <2> QED BY <2>4, <2>6 DEF Middle, y
<1> QED BY <1>6, <1>7, <1>8, <1>9, <1>10, <1>11

LEMMA SEnd ==
    ASSUME ReceptionAssumption, seq \in {0, 1}, auto = "S", IsAutomaton(m),
           NEW CONSTANT f \in Sendable, InFrame(f, Len(Bytes(f)) - 1)
    PROVE  End(f, Len(Bytes(f)) - 1)
<1> DEFINE n == Len(Bytes(f))
           k == n - 1
           b == Bytes(f)[k + 1]
           y == After(f, k)
           v == Verdict(f)
<1>1. b = FLAG /\ k \in Nat /\ k > 2 /\ k # 3
    <2>1. n \in Nat /\ n >= 5 /\ Bytes(f)[n] = FLAG
        BY FrameBytes, BodyBytes
    <2> HIDE DEF n
    <2> QED BY <2>1
<1>2. /\ y.state = SGoto(seq, m, b)
      /\ y.state = "STOP" => y.a = m.a /\ y.c = m.c
    <2>1. y = Kept(m, b, SGoto(seq, m, b))
        BY DEF After, Update, SUpdate
    <2> HIDE DEF y, b, k
    <2> QED BY <2>1, KeptIs
<1>3. v = SOutcome(seq, f)
    BY DEF Verdict
<1>4. v \in {"stop", "resend", "skip"} /\ (v = "stop" => f.c # "I")
    BY <1>3, SVerdict
<1> HIDE DEF b, y, v, k, n
<1>5. InFrame(f, k)
    BY DEF k, n
<1>6. CASE v = "skip"
    <2>1. m.state = "START"
        BY <1>1, <1>5, <1>6, InFrameIs DEF v
    <2>2. y.state = "FLAG_RCV"
        BY <1>1, <1>2, <2>1 DEF SGoto
    <2> QED BY <1>6, <2>2 DEF End, Seen, Stops, y, v, k, n
<1>7. CASE v = "resend"
    <2>1. m.state = "C_I_RCV"
        BY <1>1, <1>5, <1>7, InFrameIs DEF v
    <2>2. y.state = "STOP_RR"
        BY <1>1, <1>2, <2>1 DEF SGoto
    <2>3. \A stale : Result(y, stale) = Outcome("resend", "", "", <<>>)
        BY <2>2 DEF Result
    <2>4. Seen(f) = <<Outcome("resend", "", "", <<>>)>>
        BY <1>7 DEF Seen, v
    <2> QED BY <1>7, <2>2, <2>3, <2>4 DEF End, Stops, y, v, k, n
<1>8. CASE v = "stop"
    <2>1. m.state = "BCC_OK" /\ m.a = Address(f) /\ m.c = Control(f)
        BY <1>1, <1>5, <1>8, InFrameIs DEF v
    <2>2. y.state = "STOP" /\ y.a = Address(f) /\ y.c = Control(f)
        BY <1>1, <1>2, <2>1 DEF SGoto
    <2>3. Code(Control(f)) = f.c /\ f.a = IF Address(f) = A_SEND THEN "SEND" ELSE "RECV"
        BY <1>4, <1>8, CodeIs, SendableFields
    <2>4. \A stale : Result(y, stale) = Outcome("stop", f.a, f.c, <<>>)
        BY <2>2, <2>3 DEF Result
    <2>5. Seen(f) = <<Outcome("stop", f.a, f.c, <<>>)>>
        BY <1>8 DEF Seen, v
    <2> QED BY <1>8, <2>2, <2>4, <2>5 DEF End, Stops, y, v, k, n
<1> QED BY <1>4, <1>6, <1>7, <1>8 DEF k, n

LEMMA UMiddle ==
    ASSUME ReceptionAssumption, auto = "U", IsAutomaton(m),
           NEW CONSTANT f \in Sendable, f.c \in {"UA", "DISC", "RR"},
           NEW CONSTANT k \in 0..Len(Bytes(f)) - 2,
           InFrame(f, k), UNCHANGED <<auto, seq>>,
           After(f, k).state \notin Stops => m' = After(f, k)
    PROVE  Middle(f, k)
<1> DEFINE b == Bytes(f)[k + 1]
           y == After(f, k)
           v == Verdict(f)
           c == ControlByte(f)
           n == Len(Bytes(f))
<1>1. /\ b \in Byte /\ n \in Nat /\ n >= 5 /\ k \in Nat
      /\ b = FLAG <=> k = 0
      /\ k = 1 => b = Address(f)
      /\ k = 2 => b = c
      /\ k = 3 => b = Xor(Address(f), c)
      /\ k <= 3
    <2>1. n \in Nat /\ n >= 5
        BY FrameBytes, BodyBytes
    <2>2. k \in 0..n - 1 /\ k < n - 1 /\ k \in Nat
        BY <2>1
    <2>3. f.c # "I"
        OBVIOUS
    <2> HIDE DEF n, b
    <2>4. ~(k > 3)
        BY <2>1, <2>2, <2>3, NextByte DEF n
    <2> QED BY <2>1, <2>2, <2>4, NextByte DEF n, b
<1>2. /\ y.state = UGoto(m, b)
      /\ y.a = IF m.state = "FLAG_RCV" /\ y.state = "A_RCV" THEN b ELSE m.a
      /\ y.c = IF m.state = "A_RCV" /\ y.state \in {"C_RCV", "C_I_RCV", "C_DISC_RCV"}
               THEN b ELSE m.c
    <2>1. y = Kept(m, b, UGoto(m, b))
        BY DEF After, Update, UUpdate
    <2> HIDE DEF y, b
    <2> QED BY <2>1, KeptIs
<1>3. v = UOutcome(f) /\ v' = v
    BY DEF Verdict
<1>4. /\ v \in {"stop", "disc", "skip"}
      /\ v = "stop" => c = C_UA /\ c = Control(f)
      /\ v = "disc" => c = C_DISC /\ c # C_UA
      /\ v = "skip" => c \notin {C_UA, C_DISC}
    BY <1>3, UVerdict, CodeIs
<1>5. /\ Address(f) \in {A_SEND, A_RECV} /\ FLAG \notin {A_SEND, A_RECV}
    BY HeaderBytes, Codes
<1>6. k = 0 \/ k = 1 \/ k = 2 \/ k = 3
    BY <1>1
<1>0. C_UA # C_DISC
    BY DifferentCodes
<1> HIDE DEF b, y, v, c, n
<1>7. CASE k = 0
    <2>1. m.state \in {"START", "FLAG_RCV"}
        BY <1>7, InFrameIs DEF Resting
    <2>2. y.state = "FLAG_RCV"
        BY <1>1, <1>2, <1>5, <1>7, <2>1 DEF UGoto
    <2>3. m' = y
        BY <2>2 DEF Stops, y
    <2>4. InFrame(f, 1)'
        BY <2>2, <2>3 DEF InFrame
    <2> QED BY <1>7, <2>2, <2>4 DEF Middle, Stops, y
<1>8. CASE k = 1
    <2>1. m.state = "FLAG_RCV"
        BY <1>8, InFrameIs
    <2>2. y.state = "A_RCV" /\ y.a = Address(f)
        BY <1>1, <1>2, <1>5, <1>8, <2>1 DEF UGoto
    <2>3. m' = y
        BY <2>2 DEF Stops, y
    <2>4. InFrame(f, 2)'
        BY <2>2, <2>3 DEF InFrame
    <2> QED BY <1>8, <2>2, <2>4 DEF Middle, Stops, y
<1>9. CASE k = 2
    <2>1. m.state = "A_RCV" /\ m.a = Address(f) /\ b = c /\ b # FLAG
        BY <1>1, <1>9, InFrameIs
    <2>2. /\ v = "stop" => y.state = "C_RCV" /\ y.a = Address(f) /\ y.c = Control(f)
          /\ v = "disc" => y.state = "C_DISC_RCV"
          /\ v = "skip" => y.state = "START"
        <3>1. CASE v = "stop"
            <4>1. UGoto(m, b) = "C_RCV"
                BY <1>0, <1>4, <2>1, <3>1 DEF UGoto
            <4> QED BY <1>2, <1>4, <2>1, <3>1, <4>1
        <3>2. CASE v = "disc"
            BY <1>2, <1>4, <2>1, <3>2 DEF UGoto
        <3>3. CASE v = "skip"
            BY <1>2, <1>4, <2>1, <3>3 DEF UGoto
        <3> QED BY <1>4, <3>1, <3>2, <3>3
    <2>3. y.state \notin Stops \cup {"STOP_UA"} /\ m' = y
        BY <1>4, <2>2 DEF Stops, y
    <2>4. InFrame(f, 3)'
        <3>1. CASE v = "stop"
            BY <1>3, <2>2, <2>3, <3>1 DEF InFrame, v
        <3>2. CASE v = "disc"
            BY <1>3, <2>2, <2>3, <3>2 DEF InFrame, v
        <3>3. CASE v = "skip"
            BY <1>3, <2>2, <2>3, <3>3 DEF InFrame, v
        <3> QED BY <1>4, <3>1, <3>2, <3>3
    <2> QED BY <1>9, <2>3, <2>4 DEF Middle, y
<1>10. CASE k = 3
    <2>1. b = Xor(Address(f), c) /\ b # FLAG
        BY <1>1, <1>10
    <2>2. /\ v = "stop" => m.state = "C_RCV" /\ m.a = Address(f) /\ m.c = Control(f)
          /\ v = "disc" => m.state = "C_DISC_RCV"
          /\ v = "skip" => m.state = "START"
        BY <1>10, InFrameIs DEF v
    <2>3. /\ v = "stop" => y.state = "BCC_OK" /\ y.a = Address(f) /\ y.c = Control(f)
          /\ v = "disc" => y.state = "C_DISC_RCV"
          /\ v = "skip" => y.state = "START"
        BY <1>2, <1>4, <2>1, <2>2 DEF UGoto
    <2>4. y.state \notin Stops \cup {"STOP_UA"} /\ m' = y
        BY <1>4, <2>3 DEF Stops, y
    <2>5. InFrame(f, 4)'
        <3>1. CASE v = "stop"
            BY <1>3, <2>3, <2>4, <3>1 DEF InFrame, v
        <3>2. CASE v = "disc"
            BY <1>3, <2>3, <2>4, <3>2 DEF InFrame, v
        <3>3. CASE v = "skip"
            BY <1>3, <2>3, <2>4, <3>3 DEF InFrame, v
        <3> QED BY <1>4, <3>1, <3>2, <3>3
    <2> QED BY <1>10, <2>4, <2>5 DEF Middle, y
<1> QED BY <1>6, <1>7, <1>8, <1>9, <1>10

LEMMA UEnd ==
    ASSUME ReceptionAssumption, auto = "U", IsAutomaton(m),
           NEW CONSTANT f \in Sendable, f.c \in {"UA", "DISC", "RR"},
           InFrame(f, Len(Bytes(f)) - 1)
    PROVE  End(f, Len(Bytes(f)) - 1)
<1> DEFINE n == Len(Bytes(f))
           k == n - 1
           b == Bytes(f)[k + 1]
           y == After(f, k)
           v == Verdict(f)
<1>1. b = FLAG /\ k \in Nat /\ k > 2 /\ k # 3
    <2>1. n \in Nat /\ n >= 5 /\ Bytes(f)[n] = FLAG
        BY FrameBytes, BodyBytes
    <2> HIDE DEF n
    <2> QED BY <2>1
<1>2. /\ y.state = UGoto(m, b)
      /\ y.state = "STOP" => y.a = m.a /\ y.c = m.c
    <2>1. y = Kept(m, b, UGoto(m, b))
        BY DEF After, Update, UUpdate
    <2> HIDE DEF y, b, k
    <2> QED BY <2>1, KeptIs
<1>3. v = UOutcome(f)
    BY DEF Verdict
<1>4. v \in {"stop", "disc", "skip"}
    BY <1>3, UVerdict
<1> HIDE DEF b, y, v, k, n
<1>5. InFrame(f, k)
    BY DEF k, n
<1>6. CASE v = "skip"
    <2>1. m.state = "START"
        BY <1>1, <1>5, <1>6, InFrameIs DEF v
    <2>2. y.state = "FLAG_RCV"
        BY <1>1, <1>2, <2>1 DEF UGoto
    <2> QED BY <1>6, <2>2 DEF End, Seen, Stops, y, v, k, n
<1>7. CASE v = "disc"
    <2>1. m.state = "C_DISC_RCV"
        BY <1>1, <1>5, <1>7, InFrameIs DEF v
    <2>2. y.state = "STOP_DISC"
        BY <1>1, <1>2, <2>1 DEF UGoto
    <2>3. \A stale : Result(y, stale) = Outcome("disc", "", "", <<>>)
        BY <2>2 DEF Result
    <2>4. Seen(f) = <<Outcome("disc", "", "", <<>>)>>
        BY <1>7 DEF Seen, v
    <2> QED BY <1>7, <2>2, <2>3, <2>4 DEF End, Stops, y, v, k, n
<1>8. CASE v = "stop"
    <2>1. m.state = "BCC_OK" /\ m.a = Address(f) /\ m.c = Control(f)
        BY <1>1, <1>5, <1>8, InFrameIs DEF v
    <2>2. y.state = "STOP" /\ y.a = Address(f) /\ y.c = Control(f)
        BY <1>1, <1>2, <2>1 DEF UGoto
    <2>3. Code(Control(f)) = f.c /\ f.a = IF Address(f) = A_SEND THEN "SEND" ELSE "RECV"
        BY CodeIs, SendableFields
    <2>4. \A stale : Result(y, stale) = Outcome("stop", f.a, f.c, <<>>)
        BY <2>2, <2>3 DEF Result
    <2>5. Seen(f) = <<Outcome("stop", f.a, f.c, <<>>)>>
        BY <1>8 DEF Seen, v
    <2> QED BY <1>8, <2>2, <2>4, <2>5 DEF End, Stops, y, v, k, n
<1> QED BY <1>4, <1>6, <1>7, <1>8 DEF k, n

\* DATA grows by one byte.
LEMMA OneMore ==
    ASSUME NEW s \in Seq(Byte), NEW i \in 1..Len(s)
    PROVE  Append(SubSeq(s, 1, i - 1), s[i]) = SubSeq(s, 1, i)
<1>1. Len(s) \in Nat /\ s[i] \in Byte /\ 1 \in 1..Len(s) /\ i \in 1..Len(s)
    BY ElementOfSeq
<1>2. \A j \in 1..i - 1 : s[j] \in Byte
    BY <1>1, ElementOfSeq
<1>3. SubSeq(s, 1, i - 1) \in Seq(Byte)
    BY <1>1, <1>2, SubSeqProperties
<1>4. SubSeq(s, 1, i) = SubSeq(s, 1, i - 1) \o <<s[i]>>
    BY <1>1, SubSeqRecursiveSecond
<1> QED BY <1>1, <1>3, <1>4, AppendIsConcat

LEMMA IMiddle ==
    ASSUME ReceptionAssumption, seq \in {0, 1}, auto = "I", IsAutomaton(m),
           m.state \in IStates \ {"STOP_UA"}, m.data # <<>> => m.state = "DATA",
           NEW CONSTANT f \in FromTransmitter, f.c \in {"SET", "I", "RR"},
           NEW CONSTANT k \in 0..Len(Bytes(f)) - 2,
           InFrame(f, k), UNCHANGED <<auto, seq>>,
           After(f, k).state \notin Stops => m' = After(f, k)
    PROVE  Middle(f, k)
<1> DEFINE b == Bytes(f)[k + 1]
           y == After(f, k)
           v == Verdict(f)
           a == Address(f)
           c == ControlByte(f)
           n == Len(Bytes(f))
<1>s. f \in Sendable
    BY DEF Sendable
<1>1. /\ b \in Byte /\ n \in Nat /\ n >= 5 /\ k \in Nat
      /\ b = FLAG <=> k = 0
      /\ k = 1 => b = a
      /\ k = 2 => b = c
      /\ k = 3 => b = Xor(a, c)
      /\ k > 3 => f.c = "I" /\ k - 3 \in 1..Len(Body(f)) /\ b = Body(f)[k - 3]
    <2>1. n \in Nat /\ n >= 5
        BY <1>s, FrameBytes, BodyBytes
    <2>2. k \in 0..n - 1 /\ k < n - 1 /\ k \in Nat
        BY <2>1
    <2> HIDE DEF n, b
    <2>3. k > 3 => f.c = "I"
        BY <1>s, <2>1, <2>2, NextByte DEF n
    <2>4. k > 3 => k - 3 \in 1..Len(Body(f)) /\ b = Body(f)[k - 3]
        BY <1>s, <2>1, <2>2, NextByte DEF n, b
    <2>5. /\ b \in Byte /\ (b = FLAG <=> k = 0)
          /\ k = 1 => b = a
          /\ k = 2 => b = c
          /\ k = 3 => b = Xor(a, c)
        BY <1>s, <2>1, <2>2, NextByte DEF n, b
    <2> QED BY <2>1, <2>2, <2>3, <2>4, <2>5
<1>2. /\ y.state = IGoto(seq, m, b)
      /\ y.data = IF m.state = "DATA" /\ b # FLAG THEN Append(m.data, b) ELSE m.data
    <2>1. y = IUpdate(seq, m, b) /\ m.state \in IStates
        BY DEF After, Update
    <2> HIDE DEF y, b
    <2> QED BY <1>1, <2>1, INext
<1>3. v = IOutcome(seq, f) /\ v' = v
    BY DEF Verdict
<1>4. /\ v \in {"set", "data", "resend", "skip"}
      /\ v # "skip" => a = A_SEND
      /\ v = "set" => f.c = "SET" /\ c = C_SET /\ c \notin {C_I(0), C_I(1)}
      /\ v = "data" => f.c = "I" /\ c = C_I(NextSeq(seq))
      /\ v = "resend" => f.c = "I" /\ c = C_I(seq) /\ c # C_I(NextSeq(seq))
      /\ v = "skip" => /\ f.c # "I" /\ a # A_SEND /\ c # A_SEND /\ Xor(a, c) # A_SEND
    BY <1>3, IVerdict
<1>5. /\ FLAG # A_SEND /\ NextSeq(seq) \in {0, 1} /\ C_SET \notin {C_I(0), C_I(1)}
      /\ C_I(seq) # C_I(NextSeq(seq))
    BY Codes, SControlsAre, DifferentCodes
<1>6. k = 0 \/ k = 1 \/ k = 2 \/ k = 3 \/ k > 3
    <2>1. k \in Nat
        BY <1>1
    <2> QED BY <2>1
<1> HIDE DEF b, y, v, a, c, n
<1>7. CASE k = 0
    <2>1. m.state = "START"
        BY <1>7, InFrameIs DEF Resting
    <2>2. y.state = "START"
        BY <1>1, <1>2, <1>5, <1>7, <2>1 DEF IGoto
    <2>3. m' = y
        BY <2>2 DEF Stops, y
    <2>4. InFrame(f, 1)'
        BY <2>2, <2>3 DEF InFrame
    <2> QED BY <1>7, <2>2, <2>4 DEF Middle, Stops, y
<1>8. CASE k = 1
    <2>1. m.state = "START"
        BY <1>8, InFrameIs
    <2>2. y.state = IF v = "skip" THEN "START" ELSE "A_RCV"
        BY <1>1, <1>2, <1>4, <1>5, <1>8, <2>1 DEF IGoto
    <2>3. y.state \notin Stops \cup {"STOP_UA"} /\ m' = y
        BY <2>2 DEF Stops, y
    <2>4. InFrame(f, 2)'
        BY <1>3, <2>2, <2>3 DEF InFrame, v
    <2> QED BY <1>8, <2>3, <2>4 DEF Middle, y
<1>9. CASE k = 2
    <2>1. m.state = (IF v = "skip" THEN "START" ELSE "A_RCV") /\ b = c /\ b # FLAG
        BY <1>1, <1>9, InFrameIs DEF v
    <2>2. /\ v = "skip" => y.state = "START"
          /\ v = "data" => y.state = "C_RCV"
          /\ v = "resend" => y.state = "C_UNXP_RCV"
          /\ v = "set" => y.state = "C_SET_RCV"
        <3>1. CASE v = "skip"
            BY <1>2, <1>4, <2>1, <3>1 DEF IGoto
        <3>2. CASE v = "data"
            <4>1. IGoto(seq, m, b) = "C_RCV"
                BY <1>4, <1>5, <2>1, <3>2 DEF IGoto
            <4> QED BY <1>2, <3>2, <4>1
        <3>3. CASE v = "resend"
            <4>1. IGoto(seq, m, b) = "C_UNXP_RCV"
                BY <1>4, <1>5, <2>1, <3>3 DEF IGoto
            <4> QED BY <1>2, <3>3, <4>1
        <3>4. CASE v = "set"
            <4>1. IGoto(seq, m, b) = "C_SET_RCV"
                BY <1>4, <1>5, <2>1, <3>4 DEF IGoto
            <4> QED BY <1>2, <3>4, <4>1
        <3> QED BY <1>4, <3>1, <3>2, <3>3, <3>4
    <2>3. y.state \notin Stops \cup {"STOP_UA"} /\ m' = y
        BY <1>4, <2>2 DEF Stops, y
    <2>4. InFrame(f, 3)'
        <3>1. CASE v = "skip"
            BY <1>3, <2>2, <2>3, <3>1 DEF InFrame, v
        <3>2. CASE v = "data"
            BY <1>3, <2>2, <2>3, <3>2 DEF InFrame, v
        <3>3. CASE v = "resend"
            BY <1>3, <2>2, <2>3, <3>3 DEF InFrame, v
        <3>4. CASE v = "set"
            BY <1>3, <2>2, <2>3, <3>4 DEF InFrame, v
        <3> QED BY <1>4, <3>1, <3>2, <3>3, <3>4
    <2> QED BY <1>9, <2>3, <2>4 DEF Middle, y
<1>10. CASE k = 3
    <2>1. b = Xor(a, c) /\ b # FLAG
        BY <1>1, <1>10
    <2>2. /\ v = "skip" => m.state = "START"
          /\ v = "data" => m.state = "C_RCV"
          /\ v = "resend" => m.state = "C_UNXP_RCV"
          /\ v = "set" => m.state = "C_SET_RCV"
        BY <1>10, InFrameIs DEF v
    <2>3. /\ v = "skip" => y.state = "START"
          /\ v = "data" => y.state = "DATA" /\ y.data = <<>>
          /\ v = "resend" => y.state = "C_UNXP_RCV"
          /\ v = "set" => y.state = "C_SET_RCV"
        BY <1>2, <1>4, <2>1, <2>2 DEF IGoto
    <2>4. y.state \notin Stops \cup {"STOP_UA"} /\ m' = y
        BY <1>4, <2>3 DEF Stops, y
    <2>5. InFrame(f, 4)'
        <3>1. CASE v = "skip"
            BY <1>3, <2>3, <2>4, <3>1 DEF InFrame, v
        <3>2. CASE v = "data"
            <4> DEFINE j == 4
            <4>1. SubSeq(Body(f), 1, j - 4) = <<>> /\ j > 2 /\ j \notin {0, 1, 2, 3}
                BY SubSeqEmpty
            <4> HIDE DEF j
            <4>2. InFrame(f, j)'
                BY <1>3, <2>3, <2>4, <3>2, <4>1 DEF InFrame, v
            <4> QED BY <4>2 DEF j
        <3>3. CASE v = "resend"
            BY <1>3, <2>3, <2>4, <3>3 DEF InFrame, v
        <3>4. CASE v = "set"
            BY <1>3, <2>3, <2>4, <3>4 DEF InFrame, v
        <3> QED BY <1>4, <3>1, <3>2, <3>3, <3>4
    <2> QED BY <1>10, <2>4, <2>5 DEF Middle, y
<1>11. CASE k > 3
    <2>1. v \in {"data", "resend"} /\ b # FLAG /\ k > 2 /\ k # 3
        BY <1>1, <1>4, <1>11
    <2>2. /\ v = "data" => m.state = "DATA" /\ m.data = SubSeq(Body(f), 1, k - 4)
          /\ v = "resend" => m.state = "C_UNXP_RCV"
        BY <2>1, <1>1, InFrameIs DEF v
    <2>3. /\ v = "data" => y.state = "DATA" /\ y.data = Append(m.data, b)
          /\ v = "resend" => y.state = "C_UNXP_RCV"
        BY <1>2, <2>1, <2>2 DEF IGoto
    <2>4. y.state \notin Stops \cup {"STOP_UA"} /\ m' = y
        BY <2>1, <2>3 DEF Stops, y
    <2>5. k + 1 > 2 /\ k + 1 # 0 /\ k + 1 # 1 /\ k + 1 # 2 /\ k + 1 # 3
        BY <1>1, <1>11
    <2>6. v = "data" => y.data = SubSeq(Body(f), 1, (k + 1) - 4)
        <3>1. (k - 3) - 1 = k - 4 /\ (k + 1) - 4 = k - 3
            BY <1>1
        <3>2. Body(f) \in Seq(Byte) /\ k - 3 \in 1..Len(Body(f)) /\ b = Body(f)[k - 3]
            BY <1>s, <1>1, <1>11, BodyBytes
        <3>3. Append(SubSeq(Body(f), 1, (k - 3) - 1), Body(f)[k - 3]) = SubSeq(Body(f), 1, k - 3)
            BY <3>2, OneMore
        <3>4. Append(SubSeq(Body(f), 1, k - 4), b) = SubSeq(Body(f), 1, (k + 1) - 4)
            BY <3>1, <3>2, <3>3
        <3> QED BY <2>2, <2>3, <3>4
    <2>7. InFrame(f, k + 1)'
        <3>1. CASE v = "data"
            BY <1>3, <2>3, <2>4, <2>5, <2>6, <3>1 DEF InFrame, v
        <3>2. CASE v = "resend"
            BY <1>3, <2>3, <2>4, <2>5, <3>2 DEF InFrame, v
        <3> QED BY <2>1, <3>1, <3>2
    <2> QED BY <2>4, <2>7 DEF Middle, y
<1> QED BY <1>6, <1>7, <1>8, <1>9, <1>10, <1>11

LEMMA IEnd ==
    ASSUME ReceptionAssumption, seq \in {0, 1}, auto = "I", IsAutomaton(m),
           m.state \in IStates,
           NEW CONSTANT f \in FromTransmitter, f.c \in {"SET", "I", "RR"},
           InFrame(f, Len(Bytes(f)) - 1)
    PROVE  End(f, Len(Bytes(f)) - 1)
<1> DEFINE n == Len(Bytes(f))
           k == n - 1
           b == Bytes(f)[k + 1]
           y == After(f, k)
           v == Verdict(f)
<1>s. f \in Sendable
    BY DEF Sendable
<1>1. /\ b = FLAG /\ k \in Nat /\ k > 2 /\ k # 3 /\ k - 4 = Len(Body(f))
      /\ b \in Byte
    <2>1. n \in Nat /\ n >= 5 /\ Bytes(f)[n] = FLAG /\ n = Len(Body(f)) + 5
        BY <1>s, FrameBytes, BodyBytes
    <2>2. FLAG \in Byte /\ Len(Body(f)) \in Nat
        BY <1>s, Codes, BodyBytes
    <2> HIDE DEF n
    <2> QED BY <2>1, <2>2
<1>2. y.state = IGoto(seq, m, b) /\ y.data = m.data
    <2>1. y = IUpdate(seq, m, b)
        BY DEF After, Update
    <2> HIDE DEF y, b, k
    <2> QED BY <1>1, <2>1, INext
<1>3. v = IOutcome(seq, f)
    BY DEF Verdict
<1>4. v \in {"set", "data", "resend", "skip"} /\ (v = "data" => f.c = "I")
    BY <1>3, IVerdict
<1>0. FLAG # A_SEND
    BY Codes
<1> HIDE DEF b, y, v, k, n
<1>5. InFrame(f, k)
    BY DEF k, n
<1>6. CASE v = "skip"
    <2>1. m.state = "START"
        BY <1>1, <1>5, <1>6, InFrameIs DEF v
    <2>2. y.state = "START"
        BY <1>0, <1>1, <1>2, <2>1 DEF IGoto
    <2> QED BY <1>6, <2>2 DEF End, Seen, Stops, y, v, k, n
<1>7. CASE v = "resend"
    <2>1. m.state = "C_UNXP_RCV"
        BY <1>1, <1>5, <1>7, InFrameIs DEF v
    <2>2. y.state = "STOP_RR"
        BY <1>1, <1>2, <2>1 DEF IGoto
    <2>3. \A stale : Result(y, stale) = Outcome("resend", "", "", <<>>)
        BY <2>2 DEF Result
    <2>4. Seen(f) = <<Outcome("resend", "", "", <<>>)>>
        BY <1>7 DEF Seen, v
    <2> QED BY <1>7, <2>2, <2>3, <2>4 DEF End, Stops, y, v, k, n
<1>8. CASE v = "set"
    <2>1. m.state = "C_SET_RCV"
        BY <1>1, <1>5, <1>8, InFrameIs DEF v
    <2>2. y.state = "STOP_UA"
        BY <1>1, <1>2, <2>1 DEF IGoto
    <2>3. \A stale : Result(y, stale) = Outcome("set", "", "", <<>>)
        BY <2>2 DEF Result
    <2>4. Seen(f) = <<Outcome("set", "", "", <<>>)>>
        BY <1>8 DEF Seen, v
    <2> QED BY <1>8, <2>2, <2>3, <2>4 DEF End, Stops, y, v, k, n
<1>9. CASE v = "data"
    <2> DEFINE p == Payloads[f.d]
    <2>1. m.state = "DATA" /\ m.data = SubSeq(Body(f), 1, k - 4)
        BY <1>1, <1>5, <1>9, InFrameIs DEF v
    <2>2. Body(f) \in Seq(Byte) /\ p \in Seq(Byte) /\ p # <<>> /\ Body(f) = Stuffed(Append(p, BCC(p)))
        BY <1>s, <1>4, <1>9, BodyBytes
    <2>3. y.state = "STOP" /\ y.data = Stuffed(Append(p, BCC(p)))
        <3>1. m.data = Body(f)
            BY <1>1, <2>1, <2>2, SubSeqFull
        <3> QED BY <1>1, <1>2, <2>1, <2>2, <3>1 DEF IGoto
    <2>4. ASSUME NEW stale
          PROVE  Result(y, stale) = Outcome("data", "", "", p)
        <3>1. Append(p, BCC(p)) \in Seq(Byte)
            BY <2>2, BCCIsByte
        <3> HIDE DEF p
        <3>2. Destuffed(y.data, stale) = Append(p, BCC(p))
            BY <2>3, <3>1, DestuffingUndoesStuffing
        <3>3. Valid(Append(p, BCC(p))) /\ Payload(Append(p, BCC(p))) = p
            BY <2>2, IntactIsValid
        <3> QED BY <2>3, <3>2, <3>3 DEF Result
    <2>5. Seen(f) = <<Outcome("data", "", "", p)>>
        BY <1>9 DEF Seen, v
    <2> HIDE DEF p
    <2> QED BY <1>9, <2>3, <2>4, <2>5 DEF End, Stops, y, v, k, n
<1> QED BY <1>4, <1>6, <1>7, <1>8, <1>9 DEF k, n

-----------------------------------------------------------------------------
(* Any byte, in any state: what is left of step by noise *)

LEMMA OutcomeTyped ==
    ASSUME NEW o \in {"stop", "resend", "disc", "set", "data", "bad"},
           NEW a \in {"", "SEND", "RECV"}, NEW c \in {"", "SET", "DISC", "UA", "RR", "REJ"},
           NEW data \in Seq(Byte)
    PROVE  Outcome(o, a, c, data) \in Outcomes
BY DEF Outcome, Outcomes

\* The caller sees no control code that there is not.
LEMMA ResultTyped ==
    ASSUME auto \in {"S", "U", "I"}, seq \in {0, 1}, NEW y, IsAutomaton(y), NEW stale \in Byte,
           y.state \in Stops \cup {"STOP_UA"},
           auto = "S" /\ y.state = "STOP" => y.c \in SControls(seq),
           auto = "U" /\ y.state = "STOP" => y.c = C_UA
    PROVE  Result(y, stale) \in Outcomes
<1>0. <<>> \in Seq(Byte)
    OBVIOUS
<1>1. CASE y.state = "STOP_RR"
    BY <1>0, <1>1, OutcomeTyped DEF Result
<1>2. CASE y.state = "STOP_DISC"
    BY <1>0, <1>2, OutcomeTyped DEF Result
<1>3. CASE y.state = "STOP_UA"
    BY <1>0, <1>3, OutcomeTyped DEF Result
<1>4. CASE y.state = "STOP" /\ auto # "I"
    <2>1. Code(y.c) \in {"SET", "DISC", "UA", "RR", "REJ"}
        <3>1. y.c \in {C_SET, C_DISC, C_UA, RR(0), RR(1), REJ(0), REJ(1)}
            BY <1>4, SControlsAre DEF SControls
        <3> QED BY <3>1 DEF Code
    <2>2. Result(y, stale) =
              Outcome("stop", IF y.a = A_SEND THEN "SEND" ELSE "RECV", Code(y.c), <<>>)
        BY <1>4 DEF Result
    <2>3. \A a \in {"SEND", "RECV"} : Outcome("stop", a, Code(y.c), <<>>) \in Outcomes
        BY <1>0, <2>1, OutcomeTyped
    <2>4. (IF y.a = A_SEND THEN "SEND" ELSE "RECV") \in {"SEND", "RECV"}
        OBVIOUS
    <2> QED BY <2>2, <2>3, <2>4
<1>5. CASE y.state = "STOP" /\ auto = "I"
    <2> DEFINE data == Destuffed(y.data, stale)
    <2>1. data \in Seq(Byte)
        BY DestuffedTyped DEF IsAutomaton
    <2>2. Result(y, stale) = IF Valid(data) THEN Outcome("data", "", "", Payload(data))
                                            ELSE Outcome("bad", "", "", <<>>)
        BY <1>5 DEF Result
    <2> HIDE DEF data
    <2>3. Valid(data) => Payload(data) \in Seq(Byte)
        BY <2>1 DEF Valid, Payload, Front
    <2>4. /\ Outcome("bad", "", "", <<>>) \in Outcomes
          /\ Valid(data) => Outcome("data", "", "", Payload(data)) \in Outcomes
        BY <1>0, <2>3, OutcomeTyped
    <2> QED BY <2>2, <2>4
<1> QED BY <1>1, <1>2, <1>3, <1>4, <1>5 DEF Stops

LEMMA StartIsAutomaton ==
    IsAutomaton(Start) /\ Start.state = "START" /\ Start.data = <<>>
<1>1. {} \in Byte /\ <<>> \in Seq(Byte)
    BY DEF Byte
<1> QED BY <1>1 DEF Start, IsAutomaton

LEMMA AnyByte ==
    ASSUME auto \in {"S", "U", "I"}, seq \in {0, 1}, IsAutomaton(m), AutomatonInv,
           NEW CONSTANT b \in Byte, UNCHANGED <<auto, seq>>,
           m' = IF Update(b).state \in Stops THEN Start ELSE Update(b)
    PROVE  /\ IsAutomaton(m)' /\ AutomatonInv'
           /\ Update(b).state \in Stops \cup {"STOP_UA"} =>
                 \A stale \in Byte : Result(Update(b), stale) \in Outcomes
           /\ b # FLAG => Update(b).state \notin Stops \cup {"STOP_UA"}
           /\ b = FLAG => Resting'
<1> DEFINE y == Update(b)
<1>1. CASE auto = "S"
    <2>1. y = SUpdate(seq, m, b)
        BY <1>1 DEF Update
    <2>2. m.state \in SStates /\ (m.state \in {"C_RCV", "BCC_OK"} => m.c \in SControls(seq))
        BY <1>1 DEF AutomatonInv, SStates
    <2>3. /\ IsAutomaton(y) /\ y.data = m.data
          /\ y.state \in SStates \cup {"STOP", "STOP_RR"}
          /\ y.state \in {"C_RCV", "BCC_OK", "STOP"} => y.c \in SControls(seq)
          /\ b # FLAG => y.state \notin {"STOP", "STOP_RR"}
          /\ b = FLAG => y.state \in {"FLAG_RCV", "STOP", "STOP_RR"}
        BY <2>1, <2>2, SNext
    <2> HIDE DEF y
    <2>4. m.data = <<>>
        BY <2>2 DEF AutomatonInv, SStates
    <2>5. CASE y.state \in Stops
        <3>1. m' = Start
            BY <2>5 DEF y
        <3>2. IsAutomaton(m)' /\ AutomatonInv' /\ Resting'
            BY <1>1, <3>1, StartIsAutomaton DEF AutomatonInv, IsAutomaton, Resting
        <3>3. \A stale \in Byte : Result(y, stale) \in Outcomes
            BY <1>1, <2>3, <2>5, ResultTyped DEF Stops
        <3> QED BY <2>3, <2>5, <3>2, <3>3 DEF y, Stops, SStates
    <2>6. CASE y.state \notin Stops
        <3>1. m' = y /\ y.state \in SStates
            BY <2>3, <2>6 DEF y, Stops
        <3>2. y.state # "STOP_UA" /\ y.state # "DATA"
            BY <3>1 DEF SStates
        <3>3. IsAutomaton(m)' /\ AutomatonInv'
            BY <1>1, <2>3, <2>4, <3>1 DEF AutomatonInv, IsAutomaton, SStates
        <3>4. b = FLAG => Resting'
            BY <1>1, <2>3, <2>6, <3>1 DEF Resting, Stops
        <3> QED BY <2>6, <3>2, <3>3, <3>4 DEF y
    <2> QED BY <2>5, <2>6
<1>2. CASE auto = "U"
    <2>1. y = UUpdate(m, b)
        BY <1>2 DEF Update
    <2>2. m.state \in UStates /\ (m.state \in {"C_RCV", "BCC_OK"} => m.c = C_UA)
        BY <1>2 DEF AutomatonInv, UStates
    <2>3. /\ IsAutomaton(y) /\ y.data = m.data
          /\ y.state \in UStates \cup {"STOP", "STOP_DISC"}
          /\ y.state \in {"C_RCV", "BCC_OK", "STOP"} => y.c = C_UA
          /\ b # FLAG => y.state \notin {"STOP", "STOP_DISC"}
          /\ b = FLAG => y.state \in {"FLAG_RCV", "STOP", "STOP_DISC"}
        BY <2>1, <2>2, UNext
    <2> HIDE DEF y
    <2>4. m.data = <<>>
        BY <2>2 DEF AutomatonInv, UStates
    <2>5. CASE y.state \in Stops
        <3>1. m' = Start
            BY <2>5 DEF y
        <3>2. IsAutomaton(m)' /\ AutomatonInv' /\ Resting'
            BY <1>2, <3>1, StartIsAutomaton DEF AutomatonInv, IsAutomaton, Resting
        <3>3. \A stale \in Byte : Result(y, stale) \in Outcomes
            BY <1>2, <2>3, <2>5, ResultTyped DEF Stops
        <3> QED BY <2>3, <2>5, <3>2, <3>3 DEF y, Stops, UStates
    <2>6. CASE y.state \notin Stops
        <3>1. m' = y /\ y.state \in UStates
            BY <2>3, <2>6 DEF y, Stops
        <3>2. y.state # "STOP_UA" /\ y.state # "DATA"
            BY <3>1 DEF UStates
        <3>3. IsAutomaton(m)' /\ AutomatonInv'
            BY <1>2, <2>3, <2>4, <3>1 DEF AutomatonInv, IsAutomaton, UStates
        <3>4. b = FLAG => Resting'
            BY <1>2, <2>3, <2>6, <3>1 DEF Resting, Stops
        <3> QED BY <2>6, <3>2, <3>3, <3>4 DEF y
    <2> QED BY <2>5, <2>6
<1>3. CASE auto = "I"
    <2>1. y = IUpdate(seq, m, b)
        BY <1>3 DEF Update
    <2>2. m.state \in IStates /\ (m.data # <<>> => m.state = "DATA")
        BY <1>3 DEF AutomatonInv, IStates
    <2>3. /\ IsAutomaton(y)
          /\ y.data = IF m.state = "DATA" /\ b # FLAG THEN Append(m.data, b) ELSE m.data
          /\ y.state \in IStates \cup {"STOP", "STOP_RR"}
          /\ b # FLAG => /\ y.state \notin {"STOP", "STOP_RR", "STOP_UA"}
                         /\ m.state = "DATA" => y.state = "DATA"
          /\ b = FLAG => /\ y.state \in {"START", "STOP", "STOP_RR", "STOP_UA"}
                         /\ m.state = "DATA" => y.state = "STOP"
        BY <2>1, <2>2, INext
    <2> HIDE DEF y
    <2>5. CASE y.state \in Stops
        <3>1. m' = Start
            BY <2>5 DEF y
        <3>2. IsAutomaton(m)' /\ AutomatonInv' /\ Resting'
            BY <1>3, <3>1, StartIsAutomaton DEF AutomatonInv, IsAutomaton, Resting
        <3>3. \A stale \in Byte : Result(y, stale) \in Outcomes
            BY <1>3, <2>3, <2>5, ResultTyped DEF Stops
        <3> QED BY <2>3, <2>5, <3>2, <3>3 DEF y, Stops, IStates
    <2>6. CASE y.state \notin Stops
        <3>1. m' = y /\ y.state \in IStates
            BY <2>3, <2>6 DEF y, Stops
        <3>2. y.data # <<>> => y.state = "DATA"
            <4>1. CASE b = FLAG
                BY <2>2, <2>3, <2>6, <4>1 DEF Stops
            <4>2. CASE b # FLAG
                BY <2>2, <2>3, <4>2
            <4> QED BY <4>1, <4>2
        <3>3. IsAutomaton(m)' /\ AutomatonInv'
            <4>1. IsAutomaton(m)'
                BY <2>3, <3>1 DEF IsAutomaton
            <4>2. AutomatonInv'
                BY <1>3, <3>1, <3>2 DEF AutomatonInv, IStates
            <4> QED BY <4>1, <4>2
        <3>4. b = FLAG => Resting'
            BY <1>3, <2>3, <2>6, <3>1 DEF Resting, Stops
        <3>5. b # FLAG => y.state \notin Stops \cup {"STOP_UA"}
            BY <2>3, <2>6
        <3>6. y.state = "STOP_UA" => \A stale \in Byte : Result(y, stale) \in Outcomes
            BY <1>3, <2>3, ResultTyped
        <3> QED BY <2>6, <3>3, <3>4, <3>5, <3>6 DEF y
    <2> QED BY <2>5, <2>6
<1> QED BY <1>1, <1>2, <1>3

-----------------------------------------------------------------------------
(* What is seen of several frames *)

LEMMA SeenTyped ==
    ASSUME ReceptionAssumption, auto \in {"S", "U", "I"}, NEW f \in Sendable
    PROVE  Seen(f) \in Seq(Outcomes)
<1> DEFINE v == Verdict(f)
<1>0. /\ f.a \in {"SEND", "RECV"} /\ f.c \in {"SET", "UA", "DISC", "I", "RR", "REJ"}
      /\ f.damage = "none" /\ <<>> \in Seq(Byte)
    BY SendableFields
<1>1. /\ v \in {"stop", "resend", "disc", "set", "data", "skip"}
      /\ v = "data" => f.c = "I"
      /\ v = "stop" => f.c # "I"
    BY <1>0 DEF Verdict, SOutcome, UOutcome, IOutcome
<1> HIDE DEF v
<1>6. \A o \in Outcomes : <<o>> \in Seq(Outcomes)
    OBVIOUS
<1>2. CASE v = "skip"
    BY <1>2 DEF Seen, v
<1>3. CASE v = "stop"
    <2>1. Outcome(v, f.a, f.c, <<>>) \in Outcomes
        BY <1>0, <1>1, <1>3, OutcomeTyped
    <2> QED BY <1>3, <2>1 DEF Seen, v
<1>4. CASE v = "data"
    <2>1. Payloads[f.d] \in Seq(Byte)
        BY <1>1, <1>4, BodyBytes
    <2>2. Outcome(v, "", "", Payloads[f.d]) \in Outcomes
        BY <1>4, <2>1, OutcomeTyped
    <2>3. Seen(f) = <<Outcome(v, "", "", Payloads[f.d])>>
        BY <1>4 DEF Seen, v
    <2> QED BY <1>6, <2>2, <2>3
<1>5. CASE v \in {"resend", "disc", "set"}
    <2>1. Outcome(v, "", "", <<>>) \in Outcomes
        BY <1>0, <1>5, OutcomeTyped
    <2>2. Seen(f) = <<Outcome(v, "", "", <<>>)>>
        BY <1>5 DEF Seen, v
    <2> QED BY <1>6, <2>1, <2>2
<1> QED BY <1>1, <1>2, <1>3, <1>4, <1>5

LEMMA SeenOfAppend ==
    ASSUME ReceptionAssumption, auto \in {"S", "U", "I"},
           NEW fs \in Seq(Sendable), NEW f \in Sendable
    PROVE  SeenOf(Append(fs, f)) = SeenOf(fs) \o Seen(f)
<1> DEFINE seen(s) == [i \in DOMAIN s |-> Seen(s[i])]
           O == Seq(Outcomes)
<1>1. ASSUME NEW s \in Seq(Sendable) PROVE seen(s) \in Seq(O)
    <2>1. \A i \in 1..Len(s) : Seen(s[i]) \in O
        BY SeenTyped, ElementOfSeq
    <2>2. DOMAIN s = 1..Len(s) /\ Len(s) \in Nat
        OBVIOUS
    <2> HIDE DEF O
    <2> QED BY <2>1, <2>2
<1>2. seen(Append(fs, f)) = Append(seen(fs), Seen(f))
    <2>1. seen(fs) \in Seq(O) /\ Seen(f) \in O
        BY <1>1, SeenTyped
    <2>2. /\ Append(fs, f) \in Seq(Sendable) /\ Len(Append(fs, f)) = Len(fs) + 1
          /\ \A i \in 1..Len(fs) : Append(fs, f)[i] = fs[i]
          /\ Append(fs, f)[Len(fs) + 1] = f
          /\ Len(fs) \in Nat
        OBVIOUS
    <2>3. seen(Append(fs, f)) \in Seq(O)
        BY <1>1, <2>2
    <2>4. Len(seen(fs)) = Len(fs) /\ Len(seen(Append(fs, f))) = Len(fs) + 1
        BY <2>2
    <2>5. /\ \A i \in 1..Len(fs) : seen(fs)[i] = Seen(fs[i])
          /\ \A i \in 1..Len(fs) + 1 : seen(Append(fs, f))[i] = Seen(Append(fs, f)[i])
        BY <2>2
    <2> HIDE DEF seen, O
    <2>6. /\ Append(seen(fs), Seen(f)) \in Seq(O)
          /\ Len(Append(seen(fs), Seen(f))) = Len(fs) + 1
          /\ \A i \in 1..Len(fs) : Append(seen(fs), Seen(f))[i] = seen(fs)[i]
          /\ Append(seen(fs), Seen(f))[Len(fs) + 1] = Seen(f)
        BY <2>1, <2>4, AppendProperties
    <2>7. \A i \in 1..Len(fs) + 1 : seen(Append(fs, f))[i] = Append(seen(fs), Seen(f))[i]
        <3> SUFFICES ASSUME NEW i \in 1..Len(fs) + 1
                     PROVE  seen(Append(fs, f))[i] = Append(seen(fs), Seen(f))[i]
            OBVIOUS
        <3>0. seen(Append(fs, f))[i] = Seen(Append(fs, f)[i])
            BY <2>5
        <3>1. CASE i = Len(fs) + 1
            <4>1. Append(fs, f)[i] = f /\ Append(seen(fs), Seen(f))[i] = Seen(f)
                BY <2>2, <2>6, <3>1
            <4> QED BY <3>0, <4>1, Zenon
        <3>2. CASE i \in 1..Len(fs)
            <4>1. Append(fs, f)[i] = fs[i] /\ Append(seen(fs), Seen(f))[i] = Seen(fs[i])
                BY <2>2, <2>5, <2>6, <3>2
            <4> QED BY <3>0, <4>1, Zenon
        <3>3. i = Len(fs) + 1 \/ i \in 1..Len(fs)
            BY <2>2
        <3> QED BY <3>1, <3>2, <3>3, Zenon
    <2> QED BY <2>3, <2>4, <2>6, <2>7, SeqEqual
<1>3. seen(fs) \in Seq(Seq(Outcomes)) /\ Seen(f) \in Seq(Outcomes)
    BY <1>1, SeenTyped
<1>4. SeenOf(fs) = FlattenSeq(seen(fs)) /\ SeenOf(Append(fs, f)) = FlattenSeq(seen(Append(fs, f)))
    BY DEF SeenOf
<1> HIDE DEF seen
<1> QED BY <1>2, <1>3, <1>4, FlattenAppend

LEMMA NothingIsSeen == SeenOf(<<>>) = <<>>
<1>1. [i \in DOMAIN <<>> |-> Seen(<<>>[i])] = <<>>
    OBVIOUS
<1> QED BY <1>1 DEF SeenOf, FlattenSeq

LEMMA SameSeen ==
    ASSUME UNCHANGED <<auto, seq>>, NEW CONSTANT fs
    PROVE  SeenOf(fs)' = SeenOf(fs)
BY DEF SeenOf, Seen, Verdict

-----------------------------------------------------------------------------
(* What has been heard *)

LEMMA LastFrame ==
    ASSUME NEW w \in Seq(Sendable), w # <<>>
    PROVE  /\ Last(w) \in Sendable /\ Front(w) \in Seq(Sendable)
           /\ w = Append(Front(w), Last(w)) /\ Len(w) \in Nat \ {0}
           /\ Len(w) = 1 => Front(w) = <<>> /\ Tail(w) = <<>>
           /\ Len(w) # 1 => Front(w) # <<>>
<1>1. PICK s \in Seq(Sendable), f \in Sendable : w = Append(s, f)
    BY SequenceEmptyOrAppend
<1>2. /\ Len(w) = Len(s) + 1 /\ Len(s) \in Nat /\ w[Len(w)] = f /\ SubSeq(w, 1, Len(w) - 1) = s
      /\ Len(s) = 0 => s = <<>>
      /\ Len(s) # 0 => s # <<>>
    BY <1>1
<1>3. Front(w) = s /\ Last(w) = f
    BY <1>2 DEF Front, Last
<1>4. Len(w) = 1 => Tail(w) = <<>>
    BY <1>1, <1>2, HeadTailAppend
<1> QED BY <1>1, <1>2, <1>3, <1>4

\* One frame more has been seen.
LEMMA HeardMore ==
    ASSUME ReceptionAssumption, auto \in {"S", "U", "I"}, UNCHANGED <<auto, seq, faults>>,
           NEW CONSTANT w \in Seq(Sendable), w # <<>>,
           heard \in Seq(Outcomes), HeardAre(Front(w)), heard' = heard \o Seen(Last(w))
    PROVE  HeardAre(w)'
<1> DEFINE fs == Front(w)
           f == Last(w)
<1>1. fs \in Seq(Sendable) /\ f \in Sendable /\ w = Append(fs, f)
    BY LastFrame
<1>2. SeenOf(w)' = SeenOf(w) /\ SeenOf(Tail(w))' = SeenOf(Tail(w))
    BY SameSeen
<1>3. Seen(f) \in Seq(Outcomes)
    BY <1>1, SeenTyped
<1> HIDE DEF fs, f
<1>4. CASE heard = SeenOf(fs)
    <2>1. heard' = SeenOf(w)
        BY <1>1, <1>4, SeenOfAppend DEF f
    <2> QED BY <1>2, <2>1 DEF HeardAre
<1>5. CASE /\ faults > 0 /\ fs # <<>>
           /\ \E k \in 0..Len(heard) :
                 k <= 2 /\ SubSeq(heard, k + 1, Len(heard)) = SeenOf(Tail(fs))
    <2>1. PICK k \in 0..Len(heard) :
              k <= 2 /\ SubSeq(heard, k + 1, Len(heard)) = SeenOf(Tail(fs))
        BY <1>5
    <2> DEFINE x == Seen(f)
               h == heard \o x
               t == SubSeq(heard, k + 1, Len(heard))
    <2>2. /\ Len(heard) \in Nat /\ Len(x) \in Nat /\ h \in Seq(Outcomes)
          /\ Len(h) = Len(heard) + Len(x) /\ k \in 0..Len(h)
        <3>1. h \in Seq(Outcomes) /\ Len(h) = Len(heard) + Len(x)
            BY <1>3, ConcatProperties
        <3>2. Len(heard) \in Nat /\ Len(x) \in Nat
            BY <1>3
        <3> HIDE DEF h, x
        <3> QED BY <3>1, <3>2
    <2>3. \A i \in 1..Len(h) : h[i] = IF i <= Len(heard) THEN heard[i] ELSE x[i - Len(heard)]
        BY <1>3, <2>2, ConcatProperties
    <2>4. /\ t \in Seq(Outcomes) /\ Len(t) = Len(heard) - k
          /\ \A i \in 1..Len(t) : t[i] = heard[k + i]
        <3>1. \A i \in k + 1..Len(heard) : heard[i] \in Outcomes
            BY <2>2
        <3>2. k + 1 \in Int /\ Len(heard) \in Int
            BY <2>2
        <3>3. /\ t \in Seq(Outcomes)
              /\ Len(t) = IF k + 1 <= Len(heard) THEN Len(heard) - (k + 1) + 1 ELSE 0
            BY <3>1, <3>2, SubSeqProperties
        <3>4. \A i \in 1..Len(heard) - (k + 1) + 1 : t[i] = heard[(k + 1) + i - 1]
            BY <3>1, <3>2, SubSeqProperties
        <3> HIDE DEF t
        <3>5. Len(t) = Len(heard) - k
            BY <2>2, <3>3
        <3>6. \A i \in 1..Len(t) : (k + 1) + i - 1 = k + i /\ i \in 1..Len(heard) - (k + 1) + 1
            BY <2>2, <3>5
        <3>7. \A i \in 1..Len(t) : t[i] = heard[k + i]
            BY <3>4, <3>6
        <3> QED BY <3>3, <3>5, <3>7
    <2>5. SubSeq(h, k + 1, Len(h)) = t \o x
        <3> DEFINE l == SubSeq(h, k + 1, Len(h))
                   r == t \o x
        <3>1. \A i \in k + 1..Len(h) : h[i] \in Outcomes
            BY <2>2
        <3>2. k + 1 \in Int /\ Len(h) \in Int
            BY <2>2
        <3>3. /\ l \in Seq(Outcomes)
              /\ Len(l) = IF k + 1 <= Len(h) THEN Len(h) - (k + 1) + 1 ELSE 0
            BY <3>1, <3>2, SubSeqProperties
        <3>4. \A i \in 1..Len(h) - (k + 1) + 1 : l[i] = h[(k + 1) + i - 1]
            BY <3>1, <3>2, SubSeqProperties
        <3>5. r \in Seq(Outcomes) /\ Len(r) = Len(t) + Len(x)
            BY <1>3, <2>4, ConcatProperties
        <3>6. \A i \in 1..Len(t) + Len(x) : r[i] = IF i <= Len(t) THEN t[i] ELSE x[i - Len(t)]
            BY <1>3, <2>4, ConcatProperties
        <3> HIDE DEF l, r, t, h, x
        <3>0. /\ Len(heard) \in Nat /\ Len(x) \in Nat /\ k \in Nat /\ k <= Len(heard)
              /\ Len(h) = Len(heard) + Len(x) /\ Len(t) = Len(heard) - k
            BY <2>2, <2>4
        <3>7. Len(l) = Len(h) - k /\ Len(r) = Len(h) - k
            BY <3>0, <3>3, <3>5
        <3>8. ASSUME NEW i \in 1..Len(l) PROVE l[i] = r[i]
            <4>1. /\ i \in 1..Len(h) - (k + 1) + 1 /\ (k + 1) + i - 1 = k + i
                  /\ k + i \in 1..Len(h) /\ i \in 1..Len(t) + Len(x)
                BY <3>0, <3>7
            <4>2. l[i] = h[k + i]
                BY <3>4, <4>1
            <4>3. CASE i <= Len(t)
                <5>1. i \in 1..Len(t) /\ k + i <= Len(heard)
                    BY <3>0, <4>3
                <5> QED BY <2>3, <2>4, <3>6, <4>1, <4>2, <5>1
            <4>4. CASE ~(i <= Len(t))
                <5>1. ~(k + i <= Len(heard)) /\ (k + i) - Len(heard) = i - Len(t)
                    BY <3>0, <4>4
                <5> QED BY <2>3, <3>6, <4>1, <4>2, <4>4, <5>1
            <4> QED BY <4>3, <4>4
        <3>9. l = r
            BY <3>3, <3>5, <3>7, <3>8, SeqEqual
        <3> QED BY <3>9 DEF l, r
    <2>6. t \o x = SeenOf(Tail(w))
        <3>1. Tail(w) = Append(Tail(fs), f)
            BY <1>1, <1>5, HeadTailAppend
        <3>2. Tail(fs) \in Seq(Sendable)
            BY <1>1, <1>5, HeadTailProperties
        <3>3. SeenOf(Tail(w)) = SeenOf(Tail(fs)) \o Seen(f)
            BY <1>1, <3>1, <3>2, SeenOfAppend
        <3> QED BY <2>1, <3>3
    <2>7. heard' = h
        BY DEF f
    <2> HIDE DEF h, t, x
    <2>8. SubSeq(heard', k + 1, Len(heard')) = SeenOf(Tail(w))' /\ k \in 0..Len(heard')
        BY <1>2, <2>2, <2>5, <2>6, <2>7
    <2>9. faults' > 0 /\ w # <<>> /\ k <= 2
        BY <1>5, <2>1
    <2> QED BY <2>8, <2>9 DEF HeardAre
<1> QED BY <1>4, <1>5 DEF HeardAre, fs

\* The first frame after noise is over.
LEMMA HeardAnew ==
    ASSUME NEW CONSTANT w \in Seq(Sendable), Len(w) = 1, faults' > 0,
           heard' \in Seq(Outcomes), Len(heard') <= 2
    PROVE  HeardAre(w)'
<1> DEFINE h == heard'
           k == Len(h)
<1>1. w # <<>>
    BY EmptySeq
<1>2. Tail(w) = <<>>
    BY <1>1, LastFrame
<1>3. k \in Nat /\ k \in 0..Len(h) /\ k <= 2
    OBVIOUS
<1>4. SubSeq(h, k + 1, k) = <<>>
    BY <1>3, SubSeqEmpty
<1>5. SeenOf(<<>>)' = <<>>
    <2>1. [i \in DOMAIN <<>> |-> Seen(<<>>[i])'] = <<>>
        OBVIOUS
    <2> QED BY <2>1 DEF SeenOf, FlattenSeq
<1>6. SubSeq(h, k + 1, Len(h)) = SeenOf(Tail(w))'
    BY <1>2, <1>4, <1>5
<1> HIDE DEF k
<1> QED BY <1>1, <1>3, <1>6 DEF HeardAre

-----------------------------------------------------------------------------
(* The line *)

LEMMA WireIs ==
    ASSUME NEW s \in Seq(Byte), NEW k \in 0..Len(s), wire = SubSeq(s, k + 1, Len(s))
    PROVE  /\ wire = <<>> => k = Len(s)
           /\ k = Len(s) => wire = <<>>
           /\ wire # <<>> => Head(wire) = s[k + 1] /\ Tail(wire) = SubSeq(s, (k + 1) + 1, Len(s))
<1>1. Len(s) \in Nat /\ k \in Nat
    OBVIOUS
<1>2. CASE k = Len(s)
    BY <1>1, <1>2, SubSeqEmpty
<1>3. CASE k # Len(s)
    <2>1. k + 1 \in 1..Len(s) /\ Len(s) \in k + 1..Len(s)
        BY <1>1, <1>3
    <2>2. Head(wire) = s[k + 1] /\ Tail(wire) = SubSeq(s, (k + 1) + 1, Len(s))
        BY <2>1, HeadTailOfSubSeq
    <2>3. wire # <<>>
        <3>1. \A i \in k + 1..Len(s) : s[i] \in Byte
            BY <1>1
        <3>2. Len(wire) = IF k + 1 <= Len(s) THEN Len(s) - (k + 1) + 1 ELSE 0
            BY <1>1, <3>1, SubSeqProperties
        <3>3. Len(wire) # 0
            BY <1>1, <1>3, <3>2
        <3> QED BY <3>3, EmptySeq
    <2> QED BY <1>3, <2>2, <2>3
<1> QED BY <1>2, <1>3

\* LineInv, when the last frames whole on the line are w.
LineAt(w, k) ==
    LET f == Last(w)
        n == Len(Bytes(f))
    IN /\ k \in 0..n
       /\ wire = SubSeq(Bytes(f), k + 1, n)
       /\ k = n => Resting /\ HeardAre(w)
       /\ k # n =>
             \/ InFrame(f, k) /\ HeardAre(Front(w))
             \/ faults > 0 /\ Len(w) = 1 /\ Len(heard) <= IF k = 0 THEN 0 ELSE 1

LEMMA LineIs ==
    ASSUME LineInv, NEW CONSTANT w, w = whole
    PROVE  \E k : LineAt(w, k)
BY DEF LineInv, LineAt

LEMMA LineIsNext ==
    ASSUME NEW CONSTANT w, w = whole', NEW CONSTANT k, LineAt(w, k)'
    PROVE  LineInv'
BY DEF LineInv, LineAt

LEMMA SameCanMeet ==
    ASSUME UNCHANGED <<auto, seq>>, NEW CONSTANT f
    PROVE  CanMeet(f)' <=> CanMeet(f)
BY DEF CanMeet

-----------------------------------------------------------------------------
(* The steps *)

LEMMA InitIsInv ==
    ASSUME ReceptionAssumption, Init
    PROVE  ReceptionInv
<1>1. /\ auto \in {"S", "U", "I"} /\ seq \in {0, 1} /\ sent = <<>> /\ faults = 0
      /\ forged = "no" /\ wire = <<>> /\ m = Start /\ got = <<>> /\ whole = <<>> /\ heard = <<>>
    BY DEF Init
<1>2. IsAutomaton(m) /\ m.state = "START" /\ m.data = <<>>
    BY <1>1, StartIsAutomaton
<1>3. TypeOK
    <2>1. 0 \in 0..MaxFaults
        BY DEF ReceptionAssumption
    <2>2. /\ sent \in Seq(Frames) /\ wire \in Seq(Byte) /\ got \in Seq(Outcomes)
          /\ heard \in Seq(Outcomes) /\ whole \in Seq(Sendable)
        BY <1>1
    <2> QED BY <1>1, <1>2, <2>1, <2>2 DEF TypeOK, IsAutomaton
<1>4. AutomatonInv /\ Resting
    BY <1>1, <1>2 DEF AutomatonInv, Resting
<1>5. \A i \in 1..Len(whole) : CanMeet(whole[i])
    <2>1. Len(whole) = 0
        BY <1>1
    <2> QED BY <2>1
<1> QED BY <1>1, <1>3, <1>4, <1>5 DEF ReceptionInv

\* What a frame of any kind leaves of the types.
LEMMA SendTypes ==
    ASSUME ReceptionAssumption, TypeOK, AutomatonInv,
           UNCHANGED <<auto, seq, m, got>>, NEW f \in Sendable, sent' = Append(sent, f),
           wire' \in Seq(Byte), faults' \in 0..MaxFaults, forged' \in {"no", "yes"},
           heard' \in Seq(Outcomes), whole' \in Seq(Sendable)
    PROVE  TypeOK' /\ AutomatonInv'
<1>1. sent' \in Seq(Frames)
    <2>1. f \in Frames
        BY SendableIsFrame
    <2>2. sent \in Seq(Frames)
        BY DEF TypeOK
    <2> QED BY <2>1, <2>2
<1>2. AutomatonInv'
    BY DEF AutomatonInv
<1> QED BY <1>1, <1>2 DEF TypeOK

LEMMA SendStep ==
    ASSUME ReceptionAssumption, ReceptionInv, Send
    PROVE  ReceptionInv'
<1>1. PICK f \in Sendable :
          /\ CanMeet(f) /\ wire = <<>>
          /\ sent' = Append(sent, f) /\ whole' = Append(whole, f) /\ wire' = Bytes(f)
          /\ UNCHANGED <<auto, seq, faults, forged, m, got, heard>>
    BY DEF Send, CanSend
<1>2. TypeOK /\ AutomatonInv /\ \A i \in 1..Len(whole) : CanMeet(whole[i])
    BY DEF ReceptionInv
<1>3. PICK w \in Seq(Sendable) : w = whole
    BY <1>2 DEF TypeOK
<1> DEFINE v == Append(w, f)
           n == Len(Bytes(f))
<1>4. /\ v \in Seq(Sendable) /\ v # <<>> /\ Len(v) = Len(w) + 1 /\ Len(w) \in Nat
      /\ v[Len(v)] = f /\ SubSeq(v, 1, Len(v) - 1) = w
      /\ \A i \in 1..Len(w) : v[i] = w[i]
    OBVIOUS
<1>5. Last(v) = f /\ Front(v) = w
    <2> HIDE DEF v
    <2> QED BY <1>4 DEF Last, Front
<1>6. /\ Bytes(f) \in Seq(Byte) /\ n \in Nat /\ n >= 5 /\ SubSeq(Bytes(f), 1, n) = Bytes(f)
    <2>1. Bytes(f) \in Seq(Byte) /\ n \in Nat /\ n >= 5
        BY FrameBytes, BodyBytes
    <2> QED BY <2>1, SubSeqFull
<1> HIDE DEF n
<1>7. TypeOK' /\ AutomatonInv'
    <2>1. whole' \in Seq(Sendable) /\ wire' \in Seq(Byte)
        BY <1>1, <1>3, <1>4, <1>6
    <2>2. /\ faults' \in 0..MaxFaults /\ forged' \in {"no", "yes"} /\ heard' \in Seq(Outcomes)
        BY <1>1, <1>2 DEF TypeOK
    <2> QED BY <1>1, <1>2, <2>1, <2>2, SendTypes
<1> HIDE DEF v
<1>8. (\A i \in 1..Len(whole) : CanMeet(whole[i]))'
    <2>1. \A i \in 1..Len(v) : CanMeet(v[i])'
        <3> SUFFICES ASSUME NEW CONSTANT i \in 1..Len(v) PROVE CanMeet(v[i])'
            OBVIOUS
        <3>1. CanMeet(v[i])
            <4>1. CASE i = Len(v)
                BY <1>1, <1>4, <4>1
            <4>2. CASE i # Len(v)
                <5>1. i \in 1..Len(w)
                    BY <1>4, <4>2
                <5> QED BY <1>2, <1>3, <1>4, <5>1
            <4> QED BY <4>1, <4>2
        <3>2. UNCHANGED <<auto, seq>>
            BY <1>1
        <3> QED BY <3>1, <3>2, SameCanMeet
    <2>2. whole' = v
        BY <1>1, <1>3 DEF v
    <2> QED BY <2>1, <2>2
<1>9. LineAt(v, 0)'
    <2>1. /\ Resting' <=> Resting
          /\ HeardAre(w)' <=> HeardAre(w)
        <3>1. UNCHANGED <<auto, seq>>
            BY <1>1
        <3>2. SeenOf(w)' = SeenOf(w) /\ SeenOf(Tail(w))' = SeenOf(Tail(w))
            BY <3>1, SameSeen
        <3> QED BY <1>1, <3>2 DEF Resting, HeardAre
    <2>2. \/ Resting /\ HeardAre(w)
          \/ faults > 0 /\ w = <<>> /\ heard = <<>>
        <3>1. CASE w = <<>>
            <4>1. heard = <<>> /\ (faults = 0 => Resting)
                BY <1>3, <3>1 DEF ReceptionInv
            <4>2. heard = SeenOf(w)
                BY <3>1, <4>1, NothingIsSeen
            <4>3. HeardAre(w)
                BY <4>2 DEF HeardAre
            <4>4. faults = 0 \/ faults > 0
                BY <1>2 DEF TypeOK
            <4> QED BY <3>1, <4>1, <4>3, <4>4
        <3>2. CASE w # <<>>
            <4>1. LineInv
                BY <1>3, <3>2 DEF ReceptionInv
            <4>2. PICK k : LineAt(w, k)
                BY <1>3, <4>1, LineIs
            <4>3. Last(w) \in Sendable
                BY <3>2, LastFrame
            <4>4. /\ k \in 0..Len(Bytes(Last(w)))
                  /\ wire = SubSeq(Bytes(Last(w)), k + 1, Len(Bytes(Last(w))))
                  /\ k = Len(Bytes(Last(w))) => Resting /\ HeardAre(w)
                BY <4>2 DEF LineAt
            <4>5. k = Len(Bytes(Last(w)))
                BY <1>1, <4>3, <4>4, FrameBytes, WireIs
            <4> QED BY <4>4, <4>5
        <3> QED BY <3>1, <3>2
    <2>3. /\ 0 \in 0..n /\ 0 # n /\ wire' = SubSeq(Bytes(f), 0 + 1, n)
        BY <1>1, <1>6
    <2>4. CASE Resting /\ HeardAre(w)
        <3>1. InFrame(f, 0)'
            BY <2>1, <2>4 DEF InFrame
        <3> QED BY <1>5, <2>1, <2>3, <2>4, <3>1 DEF LineAt, n
    <2>5. CASE faults > 0 /\ w = <<>> /\ heard = <<>>
        <3>1. Len(v) = 1 /\ heard' = <<>> /\ faults' > 0
            BY <1>1, <1>4, <2>5
        <3>2. Len(heard') <= 0
            BY <3>1
        <3> QED BY <1>5, <2>3, <3>1, <3>2 DEF LineAt, n
    <2> QED BY <2>2, <2>4, <2>5
<1>10. whole' = v /\ v # <<>>
    BY <1>1, <1>3, <1>4 DEF v
<1>11. LineInv'
    BY <1>9, <1>10, LineIsNext
<1> QED BY <1>7, <1>8, <1>10, <1>11 DEF ReceptionInv

\* Noise: nothing is said of what comes next but its types.
LEMMA NoiseStep ==
    ASSUME ReceptionAssumption, ReceptionInv, SendNoisy \/ SendCut
    PROVE  ReceptionInv'
<1>1. TypeOK /\ AutomatonInv
    BY DEF ReceptionInv
<1>2. /\ whole' = <<>> /\ heard' = <<>> /\ faults' = faults + 1 /\ faults < MaxFaults
      /\ UNCHANGED <<auto, seq, m, got>>
    BY DEF SendNoisy, SendCut
<1>3. PICK f \in Sendable : sent' = Append(sent, f) /\ wire' \in Seq(Byte) /\ forged' \in {"no", "yes"}
    <2>1. CASE SendNoisy
        <3>1. PICK f \in Sendable :
                  /\ sent' = Append(sent, f)
                  /\ \E i \in 1..Len(Bytes(f)), bit \in 0..7 :
                        /\ wire' = [Bytes(f) EXCEPT ![i] = Flipped(@, bit)]
                        /\ forged' = IF wire'[i] = FLAG THEN "yes" ELSE forged
            BY <2>1 DEF SendNoisy
        <3>2. PICK i \in 1..Len(Bytes(f)), bit \in 0..7 :
                  /\ wire' = [Bytes(f) EXCEPT ![i] = Flipped(Bytes(f)[i], bit)]
                  /\ forged' = IF wire'[i] = FLAG THEN "yes" ELSE forged
            BY <3>1
        <3>3. Bytes(f) \in Seq(Byte)
            BY FrameBytes
        <3>4. Flipped(Bytes(f)[i], bit) \in Byte
            BY <3>3, FlippedIsByte, ElementOfSeq
        <3>5. wire' \in Seq(Byte)
            BY <3>2, <3>3, <3>4, ExceptSeq
        <3>6. forged' \in {"no", "yes"}
            BY <1>1, <3>2 DEF TypeOK
        <3> QED BY <3>1, <3>5, <3>6
    <2>2. CASE SendCut
        <3>1. PICK f \in Sendable :
                  /\ sent' = Append(sent, f)
                  /\ \E i \in 1..Len(Bytes(f)) - 1 : wire' = SubSeq(Bytes(f), 1, i)
                  /\ forged' = forged
            BY <2>2 DEF SendCut
        <3>2. PICK i \in 1..Len(Bytes(f)) - 1 : wire' = SubSeq(Bytes(f), 1, i)
            BY <3>1
        <3>3. Bytes(f) \in Seq(Byte) /\ Len(Bytes(f)) \in Nat
            BY FrameBytes, BodyBytes
        <3>4. \A j \in 1..i : Bytes(f)[j] \in Byte
            BY <3>3, ElementOfSeq
        <3>5. wire' \in Seq(Byte)
            BY <3>2, <3>3, <3>4, SubSeqProperties
        <3>6. forged' \in {"no", "yes"}
            BY <1>1, <3>1 DEF TypeOK
        <3> QED BY <3>1, <3>5, <3>6
    <2> QED BY <2>1, <2>2
<1>4. faults' \in 0..MaxFaults /\ faults' # 0
    BY <1>1, <1>2 DEF TypeOK, ReceptionAssumption
<1>5. heard' \in Seq(Outcomes) /\ whole' \in Seq(Sendable) /\ Len(whole') = 0
    BY <1>2
<1>6. TypeOK' /\ AutomatonInv'
    BY <1>1, <1>2, <1>3, <1>4, <1>5, SendTypes
<1>7. (\A i \in 1..Len(whole) : CanMeet(whole[i]))'
    BY <1>5
<1> QED BY <1>2, <1>4, <1>6, <1>7 DEF ReceptionInv

LEMMA WholeKept ==
    ASSUME UNCHANGED <<auto, seq, whole>>, whole \in Seq(Sendable),
           \A i \in 1..Len(whole) : CanMeet(whole[i])
    PROVE  (\A i \in 1..Len(whole) : CanMeet(whole[i]))'
<1>1. PICK w \in Seq(Sendable) : w = whole
    OBVIOUS
<1>2. \A i \in 1..Len(w) : CanMeet(w[i])'
    <2> SUFFICES ASSUME NEW CONSTANT i \in 1..Len(w) PROVE CanMeet(w[i])'
        OBVIOUS
    <2> QED BY <1>1, SameCanMeet
<1> QED BY <1>1, <1>2

\* In the frame and at its end, for the automaton in use.
LEMMA InTheMiddle ==
    ASSUME ReceptionAssumption, TypeOK, AutomatonInv, m.state # "STOP_UA",
           NEW CONSTANT f \in Sendable, CanMeet(f),
           NEW CONSTANT k \in 0..Len(Bytes(f)) - 2, InFrame(f, k), UNCHANGED <<auto, seq>>,
           After(f, k).state \notin Stops => m' = After(f, k)
    PROVE  Middle(f, k)
<1>1. auto \in {"S", "U", "I"} /\ seq \in {0, 1} /\ IsAutomaton(m)
    BY DEF TypeOK, IsAutomaton
<1>2. CASE auto = "S"
    BY <1>1, <1>2, SMiddle
<1>3. CASE auto = "U"
    <2>1. f.c \in {"UA", "DISC", "RR"}
        BY <1>3 DEF CanMeet
    <2> QED BY <1>1, <1>3, <2>1, UMiddle
<1>4. CASE auto = "I"
    <2>1. f \in FromTransmitter /\ f.c \in {"SET", "I", "RR"}
        BY <1>4 DEF CanMeet
    <2>2. m.state \in IStates \ {"STOP_UA"} /\ (m.data # <<>> => m.state = "DATA")
        BY <1>4 DEF AutomatonInv, IStates
    <2> QED BY <1>1, <1>4, <2>1, <2>2, IMiddle
<1> QED BY <1>1, <1>2, <1>3, <1>4

LEMMA AtTheEnd ==
    ASSUME ReceptionAssumption, TypeOK, AutomatonInv,
           NEW CONSTANT f \in Sendable, CanMeet(f), InFrame(f, Len(Bytes(f)) - 1)
    PROVE  End(f, Len(Bytes(f)) - 1)
<1>1. auto \in {"S", "U", "I"} /\ seq \in {0, 1} /\ IsAutomaton(m)
    BY DEF TypeOK, IsAutomaton
<1>2. CASE auto = "S"
    BY <1>1, <1>2, SEnd
<1>3. CASE auto = "U"
    <2>1. f.c \in {"UA", "DISC", "RR"}
        BY <1>3 DEF CanMeet
    <2> QED BY <1>1, <1>3, <2>1, UEnd
<1>4. CASE auto = "I"
    <2>1. f \in FromTransmitter /\ f.c \in {"SET", "I", "RR"}
        BY <1>4 DEF CanMeet
    <2>2. m.state \in IStates
        BY <1>4 DEF AutomatonInv, IStates
    <2> QED BY <1>1, <1>4, <2>1, <2>2, IEnd
<1> QED BY <1>1, <1>2, <1>3, <1>4

\* What a byte does, in step or not.
LEMMA ReadAny ==
    ASSUME ReceptionAssumption, TypeOK, AutomatonInv, Read
    PROVE  \E b \in Byte :
              /\ b = Head(wire) /\ wire' = Tail(wire)
              /\ m' = IF Update(b).state \in Stops THEN Start ELSE Update(b)
              /\ b # FLAG => Update(b).state \notin Stops \cup {"STOP_UA"}
              /\ b = FLAG => Resting'
              /\ TypeOK' /\ AutomatonInv'
              /\ whole = <<>> => heard' = heard
              /\ Update(b).state \notin Stops \cup {"STOP_UA"} => heard' = heard
              /\ Update(b).state \in Stops \cup {"STOP_UA"} /\ whole # <<>> =>
                    \E stale \in Byte : heard' = Append(heard, Result(Update(b), stale))
              /\ heard' = heard \/ \E o \in Outcomes : heard' = Append(heard, o)
<1>1. /\ auto \in {"S", "U", "I"} /\ seq \in {0, 1} /\ IsAutomaton(m)
      /\ wire \in Seq(Byte) /\ wire # <<>> /\ StaleBytes \subseteq Byte
      /\ got \in Seq(Outcomes) /\ heard \in Seq(Outcomes)
    BY DEF TypeOK, IsAutomaton, Read, ReceptionAssumption
<1>2. Head(wire) \in Byte /\ Tail(wire) \in Seq(Byte)
    BY <1>1, HeadTailProperties
<1>3. PICK b \in Byte : b = Head(wire)
    BY <1>2
<1> DEFINE y == Update(b)
           stops == y.state \in Stops \cup {"STOP_UA"}
<1>4. /\ wire' = Tail(wire) /\ UNCHANGED <<auto, seq, sent, faults, forged, whole>>
      /\ m' = IF y.state \in Stops THEN Start ELSE y
      /\ IF stops THEN \E stale \in StaleBytes : Tell(Result(y, stale))
                  ELSE UNCHANGED <<got, heard>>
    BY <1>3 DEF Read
<1>5. /\ IsAutomaton(m)' /\ AutomatonInv'
      /\ stops => \A stale \in Byte : Result(y, stale) \in Outcomes
      /\ b # FLAG => ~stops
      /\ b = FLAG => Resting'
    <2>1. m' = IF Update(b).state \in Stops THEN Start ELSE Update(b)
        BY <1>4
    <2>2. UNCHANGED <<auto, seq>>
        BY <1>4
    <2> QED BY <1>1, <2>1, <2>2, AnyByte
<1> HIDE DEF y, stops
<1>6. /\ whole = <<>> => heard' = heard
      /\ ~stops => heard' = heard
      /\ stops /\ whole # <<>> => \E stale \in Byte : heard' = Append(heard, Result(y, stale))
      /\ heard' = heard \/ \E o \in Outcomes : heard' = Append(heard, o)
      /\ got' = got \/ \E o \in Outcomes : got' = Append(got, o)
    <2>1. CASE stops
        <3>1. PICK stale \in StaleBytes : Tell(Result(y, stale))
            BY <1>4, <2>1
        <3>2. stale \in Byte /\ Result(y, stale) \in Outcomes
            BY <1>1, <1>5, <2>1
        <3>3. /\ got' = Append(got, Result(y, stale))
              /\ heard' = IF whole = <<>> THEN heard ELSE Append(heard, Result(y, stale))
            BY <3>1 DEF Tell
        <3> QED BY <2>1, <3>2, <3>3
    <2>2. CASE ~stops
        BY <1>4, <2>2
    <2> QED BY <2>1, <2>2
<1>7. TypeOK'
    <2>1. got' \in Seq(Outcomes) /\ heard' \in Seq(Outcomes)
        <3>1. \A s \in Seq(Outcomes) : \A o \in Outcomes : Append(s, o) \in Seq(Outcomes)
            BY AppendProperties
        <3> QED BY <1>1, <1>6, <3>1, Zenon
    <2>2. m.state' \in {"START", "FLAG_RCV", "A_RCV", "C_RCV", "BCC_OK", "DATA", "C_I_RCV",
                        "C_DISC_RCV", "C_UNXP_RCV", "C_SET_RCV", "STOP_UA"}
        BY <1>1, <1>4, <1>5 DEF AutomatonInv
    <2>3. wire' \in Seq(Byte)
        BY <1>2, <1>4
    <2> QED BY <1>4, <1>5, <2>1, <2>2, <2>3 DEF TypeOK, IsAutomaton
<1> QED BY <1>3, <1>4, <1>5, <1>6, <1>7 DEF y, stops

LEMMA ReadStep ==
    ASSUME ReceptionAssumption, ReceptionInv, Read
    PROVE  ReceptionInv'
<1>1. TypeOK /\ AutomatonInv /\ \A i \in 1..Len(whole) : CanMeet(whole[i])
    BY DEF ReceptionInv
<1>2. /\ wire # <<>> /\ m.state # "STOP_UA" /\ UNCHANGED <<auto, seq, faults, whole>>
    BY DEF Read
<1>3. PICK b \in Byte :
          /\ b = Head(wire) /\ wire' = Tail(wire)
          /\ m' = IF Update(b).state \in Stops THEN Start ELSE Update(b)
          /\ b # FLAG => Update(b).state \notin Stops \cup {"STOP_UA"}
          /\ b = FLAG => Resting'
          /\ TypeOK' /\ AutomatonInv'
          /\ whole = <<>> => heard' = heard
          /\ Update(b).state \notin Stops \cup {"STOP_UA"} => heard' = heard
          /\ Update(b).state \in Stops \cup {"STOP_UA"} /\ whole # <<>> =>
                \E stale \in Byte : heard' = Append(heard, Result(Update(b), stale))
          /\ heard' = heard \/ \E o \in Outcomes : heard' = Append(heard, o)
    BY <1>1, ReadAny
<1>4. auto \in {"S", "U", "I"} /\ seq \in {0, 1} /\ faults \in Nat /\ heard \in Seq(Outcomes)
    BY <1>1 DEF TypeOK
<1>5. (\A i \in 1..Len(whole) : CanMeet(whole[i]))'
    <2>1. whole \in Seq(Sendable)
        BY <1>1 DEF TypeOK
    <2> QED BY <1>1, <1>2, <2>1, WholeKept
<1>6. CASE whole = <<>>
    <2>1. heard = <<>> /\ (faults = 0 => wire = <<>>)
        BY <1>6 DEF ReceptionInv
    <2> QED BY <1>2, <1>3, <1>5, <1>6, <2>1 DEF ReceptionInv
<1>7. CASE whole # <<>>
    <2>1. PICK w \in Seq(Sendable) : w = whole
        BY <1>1 DEF TypeOK
    <2>2. w # <<>> /\ whole' = w
        BY <1>2, <1>7, <2>1
    <2>3. PICK f \in Sendable : f = Last(w)
        BY <2>2, LastFrame
    <2>4. CanMeet(f)
        <3>1. f = w[Len(w)] /\ Len(w) \in 1..Len(w)
            BY <2>2, <2>3, LastFrame DEF Last
        <3> QED BY <1>1, <2>1, <3>1
    <2>5. PICK k : LineAt(w, k)
        <3>1. LineInv
            BY <1>7 DEF ReceptionInv
        <3> QED BY <2>1, <3>1, LineIs
    <2> DEFINE n == Len(Bytes(f))
    <2>6. /\ k \in 0..n
          /\ wire = SubSeq(Bytes(f), k + 1, n)
          /\ k # n =>
                \/ InFrame(f, k) /\ HeardAre(Front(w))
                \/ faults > 0 /\ Len(w) = 1 /\ Len(heard) <= IF k = 0 THEN 0 ELSE 1
        BY <2>3, <2>5 DEF LineAt
    <2>7. Bytes(f) \in Seq(Byte) /\ n \in Nat /\ n >= 5
        <3>1. Bytes(f) \in Seq(Byte) /\ n = Len(Body(f)) + 5
            BY FrameBytes
        <3>2. Len(Body(f)) \in Nat
            BY BodyBytes
        <3> QED BY <3>1, <3>2
    <2>8. b = Bytes(f)[k + 1] /\ wire' = SubSeq(Bytes(f), (k + 1) + 1, n) /\ k # n
        BY <1>2, <1>3, <2>6, <2>7, WireIs
    <2>9. k \in 0..n - 1 /\ k + 1 \in 0..n /\ k \in Nat
        BY <2>6, <2>7, <2>8
    <2>10. b = FLAG <=> k = 0 \/ k = n - 1
        BY <2>8, <2>9, NextByte
    <2>11. After(f, k) = Update(b)
        BY <2>8 DEF After
    <2> HIDE DEF n
    <2>12. CASE k + 1 # n
        <3>1. \/ (InFrame(f, k + 1) /\ HeardAre(Front(w)))'
              \/ faults' > 0 /\ Len(w) = 1 /\ Len(heard') <= 1
            <4>1. CASE InFrame(f, k) /\ HeardAre(Front(w))
                <5>1. k \in 0..n - 2
                    BY <2>7, <2>9, <2>12
                <5>2. After(f, k).state \notin Stops => m' = After(f, k)
                    BY <1>3, <2>11
                <5>3. Middle(f, k)
                    BY <1>1, <1>2, <2>4, <4>1, <5>1, <5>2, InTheMiddle DEF n
                <5>4. InFrame(f, k + 1)' /\ heard' = heard
                    BY <1>3, <2>11, <5>3 DEF Middle
                <5>5. PICK v : v = Front(w)
                    OBVIOUS
                <5>6. HeardAre(v)'
                    <6>1. SeenOf(v)' = SeenOf(v) /\ SeenOf(Tail(v))' = SeenOf(Tail(v))
                        BY <1>2, SameSeen
                    <6>2. HeardAre(v)
                        BY <4>1, <5>5
                    <6> QED BY <1>2, <5>4, <6>1, <6>2 DEF HeardAre
                <5> QED BY <5>4, <5>5, <5>6
            <4>2. CASE faults > 0 /\ Len(w) = 1 /\ Len(heard) <= IF k = 0 THEN 0 ELSE 1
                <5>1. CASE k = 0
                    BY <1>2, <1>3, <1>4, <4>2, <5>1
                <5>2. CASE k # 0
                    <6>1. b # FLAG
                        BY <2>7, <2>9, <2>10, <2>12, <5>2
                    <6> QED BY <1>2, <1>3, <1>4, <4>2, <5>2, <6>1
                <5> QED BY <5>1, <5>2
            <4> QED BY <2>6, <2>8, <4>1, <4>2
        <3>2. k + 1 # 0
            BY <2>9
        <3>3. LineAt(w, k + 1)'
            BY <2>3, <2>8, <2>9, <2>12, <3>1, <3>2 DEF LineAt, n
        <3>4. LineInv'
            BY <2>2, <3>3, LineIsNext
        <3> QED BY <1>3, <1>5, <2>2, <3>4 DEF ReceptionInv
    <2>13. CASE k + 1 = n
        <3>1. k = n - 1 /\ b = FLAG /\ k # 0
            BY <2>7, <2>9, <2>10, <2>13
        <3>2. Resting'
            BY <1>3, <3>1
        <3>3. HeardAre(w)'
            <4>1. CASE InFrame(f, k) /\ HeardAre(Front(w))
                <5>1. End(f, k)
                    BY <1>1, <2>4, <3>1, <4>1, AtTheEnd DEF n
                <5>2. heard' = heard \o Seen(f)
                    <6>1. CASE Verdict(f) = "skip"
                        <7>1. heard' = heard /\ Seen(f) = <<>>
                            BY <1>3, <2>11, <5>1, <6>1 DEF End
                        <7> QED BY <1>4, <7>1, ConcatEmptySeq
                    <6>2. CASE Verdict(f) # "skip"
                        <7>1. /\ After(f, k).state \in Stops \cup {"STOP_UA"}
                              /\ \A stale \in Byte : Seen(f) = <<Result(After(f, k), stale)>>
                            BY <5>1, <6>2 DEF End
                        <7>2. PICK stale \in Byte : heard' = Append(heard, Result(After(f, k), stale))
                            BY <1>3, <2>11, <1>7, <7>1
                        <7> DEFINE o == Result(After(f, k), stale)
                        <7>3. Seen(f) = <<o>> /\ heard' = Append(heard, o) /\ Seen(f) \in Seq(Outcomes)
                            BY <1>4, <7>1, <7>2, SeenTyped
                        <7> HIDE DEF o
                        <7>4. o \in Outcomes
                            <8>1. Len(Seen(f)) = 1 /\ Seen(f)[1] = o
                                BY <7>3
                            <8> QED BY <7>3, <8>1, ElementOfSeq
                        <7> QED BY <1>4, <7>3, <7>4, AppendIsConcat
                    <6> QED BY <6>1, <6>2
                <5> QED BY <1>2, <1>4, <2>2, <2>3, <4>1, <5>2, HeardMore
            <4>2. CASE faults > 0 /\ Len(w) = 1 /\ Len(heard) <= IF k = 0 THEN 0 ELSE 1
                <5>1. heard' \in Seq(Outcomes) /\ faults' > 0
                    BY <1>2, <1>3, <4>2 DEF TypeOK
                <5>2. Len(heard) \in Nat /\ Len(heard) <= 1
                    BY <1>4, <3>1, <4>2
                <5>3. Len(heard') <= 2
                    <6>1. CASE heard' = heard
                        BY <5>2, <6>1
                    <6>2. CASE \E o \in Outcomes : heard' = Append(heard, o)
                        <7>1. PICK o \in Outcomes : heard' = Append(heard, o)
                            BY <6>2
                        <7>2. Len(heard') = Len(heard) + 1
                            BY <1>4, <7>1, AppendProperties
                        <7> QED BY <5>2, <7>2
                    <6> QED BY <1>3, <6>1, <6>2
                <5> QED BY <4>2, <5>1, <5>3, HeardAnew
            <4> QED BY <2>6, <2>8, <4>1, <4>2
        <3>4. LineAt(w, k + 1)'
            BY <2>3, <2>8, <2>9, <2>13, <3>2, <3>3 DEF LineAt, n
        <3>5. LineInv'
            BY <2>2, <3>4, LineIsNext
        <3> QED BY <1>3, <1>5, <2>2, <3>5 DEF ReceptionInv
    <2> QED BY <2>12, <2>13
<1> QED BY <1>6, <1>7

LEMMA ReadStoppedStep ==
    ASSUME ReceptionAssumption, ReceptionInv, ReadStopped
    PROVE  ReceptionInv'
<1>1. TypeOK /\ AutomatonInv /\ \A i \in 1..Len(whole) : CanMeet(whole[i])
    BY DEF ReceptionInv
<1>2. /\ wire # <<>> /\ m.state = "STOP_UA" /\ wire' = Tail(wire) /\ m' = Start
      /\ UNCHANGED <<auto, seq, sent, faults, forged, got, whole, heard>>
    BY DEF ReadStopped
<1>3. auto = "I" /\ seq \in {0, 1} /\ faults \in Nat /\ heard \in Seq(Outcomes) /\ wire \in Seq(Byte)
    BY <1>1, <1>2 DEF TypeOK, AutomatonInv
<1>4. IsAutomaton(m)' /\ AutomatonInv' /\ m'.state = "START" /\ Resting'
    BY <1>2, <1>3, StartIsAutomaton DEF AutomatonInv, IsAutomaton, Resting
<1>5. TypeOK'
    <2>1. wire' \in Seq(Byte)
        BY <1>2, <1>3, HeadTailProperties
    <2> QED BY <1>1, <1>2, <1>4, <2>1 DEF TypeOK, IsAutomaton
<1>6. (\A i \in 1..Len(whole) : CanMeet(whole[i]))'
    <2>1. whole \in Seq(Sendable)
        BY <1>1 DEF TypeOK
    <2> QED BY <1>1, <1>2, <2>1, WholeKept
<1>7. CASE whole = <<>>
    <2>1. heard = <<>> /\ (faults = 0 => wire = <<>>)
        BY <1>7 DEF ReceptionInv
    <2> QED BY <1>2, <1>4, <1>5, <1>6, <1>7, <2>1 DEF ReceptionInv
<1>8. CASE whole # <<>>
    <2>1. PICK w \in Seq(Sendable) : w = whole
        BY <1>1 DEF TypeOK
    <2>2. w # <<>> /\ whole' = w
        BY <1>2, <1>8, <2>1
    <2>3. PICK f \in Sendable : f = Last(w)
        BY <2>2, LastFrame
    <2>4. CanMeet(f)
        <3>1. f = w[Len(w)] /\ Len(w) \in 1..Len(w)
            BY <2>2, <2>3, LastFrame DEF Last
        <3> QED BY <1>1, <2>1, <3>1
    <2>5. PICK k : LineAt(w, k)
        <3>1. LineInv
            BY <1>8 DEF ReceptionInv
        <3> QED BY <2>1, <3>1, LineIs
    <2> DEFINE n == Len(Bytes(f))
    <2>6. /\ k \in 0..n
          /\ wire = SubSeq(Bytes(f), k + 1, n)
          /\ k # n =>
                \/ InFrame(f, k) /\ HeardAre(Front(w))
                \/ faults > 0 /\ Len(w) = 1 /\ Len(heard) <= IF k = 0 THEN 0 ELSE 1
        BY <2>3, <2>5 DEF LineAt
    <2>7. Bytes(f) \in Seq(Byte) /\ n \in Nat /\ n >= 5
        BY FrameBytes, BodyBytes
    <2>8. wire' = SubSeq(Bytes(f), (k + 1) + 1, n) /\ k # n
        BY <1>2, <2>6, <2>7, WireIs
    <2>9. k + 1 \in 0..n /\ k \in Nat
        BY <2>6, <2>7, <2>8
    <2> HIDE DEF n
    <2>10. CASE InFrame(f, k) /\ HeardAre(Front(w))
        \* The automaton is at the FLAG that begins f.
        <3>1. k = 0
            <4>1. Verdict(f) \in {"set", "data", "resend", "skip"}
                BY <1>3, <2>4, IVerdict DEF CanMeet, Verdict
            <4>2. k = 0 \/ k = 1 \/ k = 2 \/ k > 2
                BY <2>9
            <4>3. k # 1
                BY <1>2, <1>3, <2>9, <2>10, InFrameIs
            <4>4. k # 2
                BY <1>2, <1>3, <2>9, <2>10, InFrameIs
            <4>5. ~(k > 2)
                <5> SUFFICES ASSUME k > 2 PROVE FALSE
                    OBVIOUS
                <5>1. CASE Verdict(f) = "set"
                    BY <1>2, <2>9, <2>10, <5>1, InFrameIs
                <5>2. CASE Verdict(f) = "data"
                    BY <1>2, <2>9, <2>10, <5>2, InFrameIs
                <5>3. CASE Verdict(f) = "resend"
                    BY <1>2, <1>3, <2>9, <2>10, <5>3, InFrameIs
                <5>4. CASE Verdict(f) = "skip"
                    BY <1>2, <2>9, <2>10, <5>4, InFrameIs
                <5> QED BY <4>1, <5>1, <5>2, <5>3, <5>4
            <4> QED BY <4>2, <4>3, <4>4, <4>5
        <3>2. InFrame(f, 1)'
            BY <1>2, <1>3, <1>4 DEF InFrame
        <3>3. PICK v : v = Front(w)
            OBVIOUS
        <3>4. HeardAre(v)'
            <4>1. SeenOf(v)' = SeenOf(v) /\ SeenOf(Tail(v))' = SeenOf(Tail(v))
                BY <1>2, SameSeen
            <4>2. HeardAre(v)
                BY <2>10, <3>3
            <4> QED BY <1>2, <4>1, <4>2 DEF HeardAre
        <3>5. k + 1 = 1 /\ 1 # n /\ 1 \in 0..n
            BY <2>7, <2>9, <3>1
        <3>6. LineAt(w, 1)'
            BY <2>3, <2>8, <3>2, <3>3, <3>4, <3>5 DEF LineAt, n
        <3>7. LineInv'
            BY <2>2, <3>6, LineIsNext
        <3> QED BY <1>4, <1>5, <1>6, <2>2, <3>7 DEF ReceptionInv
    <2>11. CASE faults > 0 /\ Len(w) = 1 /\ Len(heard) <= IF k = 0 THEN 0 ELSE 1
        <3>1. faults' > 0 /\ heard' \in Seq(Outcomes) /\ Len(heard') <= 1 /\ Len(heard') <= 2
            BY <1>2, <1>3, <2>11
        <3>2. HeardAre(w)'
            BY <2>11, <3>1, HeardAnew
        <3>3. k + 1 # 0
            BY <2>9
        <3>4. LineAt(w, k + 1)'
            BY <1>4, <2>3, <2>8, <2>9, <2>11, <3>1, <3>2, <3>3 DEF LineAt, n
        <3>5. LineInv'
            BY <2>2, <3>4, LineIsNext
        <3> QED BY <1>4, <1>5, <1>6, <2>2, <3>5 DEF ReceptionInv
    <2> QED BY <2>6, <2>8, <2>10, <2>11
<1> QED BY <1>7, <1>8

LEMMA StutteringStep ==
    ASSUME ReceptionInv, UNCHANGED vars
    PROVE  ReceptionInv'
<1>1. UNCHANGED <<auto, seq, sent, faults, forged, wire, m, got, whole, heard>>
    BY DEF vars
<1>2. TypeOK' /\ AutomatonInv' /\ (Resting' <=> Resting)
    BY <1>1 DEF ReceptionInv, TypeOK, AutomatonInv, Resting
<1>3. PICK w \in Seq(Sendable) : w = whole
    BY DEF ReceptionInv, TypeOK
<1>4. (\A i \in 1..Len(whole) : CanMeet(whole[i]))'
    BY <1>1, <1>3, WholeKept DEF ReceptionInv
<1>5. whole # <<>> => LineInv'
    <2> SUFFICES ASSUME whole # <<>> PROVE LineInv'
        OBVIOUS
    <2>1. PICK k : LineAt(w, k)
        BY <1>3, LineIs DEF ReceptionInv
    <2>2. PICK v : v = Front(w)
        OBVIOUS
    <2>3. PICK f : f = Last(w)
        OBVIOUS
    <2>4. /\ HeardAre(w)' <=> HeardAre(w)
          /\ HeardAre(v)' <=> HeardAre(v)
        <3>1. /\ SeenOf(w)' = SeenOf(w) /\ SeenOf(Tail(w))' = SeenOf(Tail(w))
              /\ SeenOf(v)' = SeenOf(v) /\ SeenOf(Tail(v))' = SeenOf(Tail(v))
            BY <1>1, SameSeen
        <3> QED BY <1>1, <3>1 DEF HeardAre
    <2>5. InFrame(f, k)' <=> InFrame(f, k)
        BY <1>1 DEF InFrame, Resting, Verdict
    <2>6. LineAt(w, k)'
        BY <1>1, <1>2, <2>1, <2>2, <2>3, <2>4, <2>5 DEF LineAt
    <2> QED BY <1>1, <1>3, <2>6, LineIsNext
<1> QED BY <1>1, <1>2, <1>4, <1>5 DEF ReceptionInv

-----------------------------------------------------------------------------
(* Whole frames are seen, whatever the noise *)

\* The invariant of Reception: an automaton that noise has not reached is as far
\* in the frame on the line as the line is, and one that it has left in any state
\* at all comes to rest with the end of the next whole frame.
THEOREM ReceptionInvHolds ==
    ASSUME ReceptionAssumption
    PROVE  Spec => []ReceptionInv
<1>1. Init => ReceptionInv
    BY InitIsInv
<1>2. ReceptionInv /\ [Next]_vars => ReceptionInv'
    <2> SUFFICES ASSUME ReceptionInv, [Next]_vars PROVE ReceptionInv'
        OBVIOUS
    <2>1. CASE Send
        BY <2>1, SendStep
    <2>2. CASE SendNoisy \/ SendCut
        BY <2>2, NoiseStep
    <2>3. CASE Read
        BY <2>3, ReadStep
    <2>4. CASE ReadStopped
        BY <2>4, ReadStoppedStep
    <2>5. CASE UNCHANGED vars
        BY <2>5, StutteringStep
    <2> QED BY <2>1, <2>2, <2>3, <2>4, <2>5 DEF Next
<1> QED BY <1>1, <1>2, PTL DEF Spec

\* Every variable of Reception keeps its type: whatever the noise, no automaton is
\* asked to leave a state in which its loop should have ended, and no caller sees a
\* control code that there is not.
THEOREM ReceptionTypesHold ==
    ASSUME ReceptionAssumption
    PROVE  Spec => []TypeOK
<1>1. ReceptionInv => TypeOK
    BY DEF ReceptionInv
<1> QED BY <1>1, ReceptionInvHolds, PTL

\* What LinkLayer takes for granted of the bytes: frames that are sent whole, after
\* one another, are seen as SOutcome, UOutcome and IOutcome say, payloads and all;
\* and noise, however often it hits, costs no more than the frames it hits and the
\* next.
THEOREM WholeIsSeenHolds ==
    ASSUME ReceptionAssumption
    PROVE  Spec => []WholeIsSeen
<1>1. ASSUME ReceptionInv PROVE WholeIsSeen
    <2> SUFFICES ASSUME wire = <<>> PROVE HeardAre(whole)
        BY DEF WholeIsSeen
    <2>1. CASE whole = <<>>
        <3>1. heard = SeenOf(whole)
            BY <1>1, <2>1, NothingIsSeen DEF ReceptionInv
        <3> QED BY <3>1 DEF HeardAre
    <2>2. CASE whole # <<>>
        <3>1. PICK w \in Seq(Sendable) : w = whole
            BY <1>1 DEF ReceptionInv, TypeOK
        <3>2. LineInv
            BY <1>1, <2>2 DEF ReceptionInv
        <3>3. PICK k : LineAt(w, k)
            BY <3>1, <3>2, LineIs
        <3>4. Last(w) \in Sendable
            BY <2>2, <3>1, LastFrame
        <3>5. /\ k \in 0..Len(Bytes(Last(w)))
              /\ wire = SubSeq(Bytes(Last(w)), k + 1, Len(Bytes(Last(w))))
              /\ k = Len(Bytes(Last(w))) => HeardAre(w)
            BY <3>3 DEF LineAt
        <3>6. k = Len(Bytes(Last(w)))
            BY <3>4, <3>5, FrameBytes, WireIs
        <3> QED BY <3>1, <3>5, <3>6
    <2> QED BY <2>1, <2>2
<1>2. ReceptionInv => WholeIsSeen
    BY <1>1
<1> QED BY <1>2, ReceptionInvHolds, PTL

=============================================================================

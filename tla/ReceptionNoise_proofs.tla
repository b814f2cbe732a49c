----------------------- MODULE ReceptionNoise_proofs -----------------------
(***************************************************************************)
(* One fault on the line of the reception automata makes llread accept     *)
(* nothing but the payloads sent, and parts of them:                       *)
(* ReceptionInv!NoiseInv is inductive, for every payload, any number of    *)
(* frames before and after the fault, and any stale bytes.                 *)
(***************************************************************************)
EXTENDS Reception_proofs

-----------------------------------------------------------------------------
(* What may come, byte by byte *)

\* SubSeq, Behind and Tail of a sequence of bytes, byte by byte.
LEMMA PartIs ==
    ASSUME NEW s \in Seq(Byte), NEW i \in Nat \ {0}, NEW j \in Nat, j <= Len(s)
    PROVE  /\ SubSeq(s, i, j) \in Seq(Byte)
           /\ Len(SubSeq(s, i, j)) = IF i <= j THEN (j - i) + 1 ELSE 0
           /\ \A k \in 1..Len(SubSeq(s, i, j)) : SubSeq(s, i, j)[k] = s[(i + k) - 1]
<1>1. \A k \in i..j : s[k] \in Byte
    OBVIOUS
<1> QED BY <1>1, SubSeqProperties

LEMMA BehindIs ==
    ASSUME NEW w \in Seq(Byte), NEW k \in Nat
    PROVE  /\ Behind(w, k) \in Seq(Byte)
           /\ Len(Behind(w, k)) = IF k <= Len(w) THEN Len(w) - k ELSE 0
           /\ \A i \in 1..Len(Behind(w, k)) : Behind(w, k)[i] = w[k + i]
<1>1. Len(w) \in Nat
    OBVIOUS
<1> QED BY <1>1, PartIs DEF Behind

LEMMA TailIs ==
    ASSUME NEW w \in Seq(Byte), w # <<>>
    PROVE  /\ Tail(w) \in Seq(Byte) /\ Len(w) \in Nat \ {0} /\ Len(Tail(w)) = Len(w) - 1
           /\ \A i \in 1..Len(w) - 1 : Tail(w)[i] = w[i + 1]
           /\ Head(w) = w[1] /\ Head(w) \in Byte
<1>1. Len(w) \in Nat \ {0}
    BY EmptySeq
<1> QED BY <1>1, HeadTailProperties

\* What is behind the first byte and k more.
LEMMA BehindTail ==
    ASSUME NEW w \in Seq(Byte), w # <<>>, NEW k \in Nat
    PROVE  Behind(Tail(w), k) = Behind(w, k + 1)
<1>1. PICK t \in Seq(Byte), n \in Nat \ {0} :
          t = Tail(w) /\ n = Len(w) /\ Len(t) = n - 1 /\ \A i \in 1..n - 1 : t[i] = w[i + 1]
    BY TailIs
<1>2. PICK u \in Seq(Byte) : u = Behind(t, k)
    BY BehindIs
<1>3. PICK v \in Seq(Byte) : v = Behind(w, k + 1)
    BY BehindIs
<1>4. /\ Len(u) = IF k <= n - 1 THEN (n - 1) - k ELSE 0
      /\ \A i \in 1..Len(u) : u[i] = t[k + i]
    <2>1. Len(u) = IF k <= Len(t) THEN Len(t) - k ELSE 0
        BY <1>1, <1>2, BehindIs
    <2>2. \A i \in 1..Len(u) : u[i] = t[k + i]
        BY <1>1, <1>2, BehindIs, ZenonT(30)
    <2> QED BY <1>1, <2>1, <2>2
<1>5. /\ Len(v) = IF k + 1 <= n THEN n - (k + 1) ELSE 0
      /\ \A i \in 1..Len(v) : v[i] = w[(k + 1) + i]
    BY <1>1, <1>3, BehindIs
<1>6. Len(u) = Len(v)
    BY <1>4, <1>5
<1>7. ASSUME NEW i \in 1..Len(u) PROVE u[i] = v[i]
    <2>1. k + i \in 1..n - 1 /\ (k + i) + 1 = (k + 1) + i
        BY <1>4
    <2> QED BY <1>1, <1>4, <1>5, <1>6, <2>1
<1> QED BY <1>1, <1>2, <1>3, <1>6, <1>7, SeqEqual

\* With a FLAG, or the end of what there is, the data are complete.
LEMMA WithFlag ==
    ASSUME NEW D, NEW d \in Seq(Byte), NEW w \in Seq(Byte), AccountedWith(D, d, w),
           w # <<>> => w[1] = FLAG
    PROVE  d \in D
<1>1. 0 \in 0..Len(w) /\ (0 < Len(w) => w # <<>>)
    BY EmptySeq
<1>2. SubSeq(w, 1, 0) = <<>>
    BY SubSeqEmpty
<1>3. d \o SubSeq(w, 1, 0) \in D
    BY <1>1 DEF AccountedWith
<1> QED BY <1>2, <1>3, ConcatEmptySeq

\* The bytes in front of the first FLAG, or all of them.
LEMMA WithThose ==
    ASSUME NEW D, NEW d \in Seq(Byte), NEW w \in Seq(Byte), NEW j \in 0..Len(w),
           \A i \in 1..j : w[i] # FLAG, j < Len(w) => w[j + 1] = FLAG,
           d \o SubSeq(w, 1, j) \in D
    PROVE  AccountedWith(D, d, w)
<1> SUFFICES ASSUME NEW k \in 0..Len(w), \A i \in 1..k : w[i] # FLAG,
                    k < Len(w) => w[k + 1] = FLAG
             PROVE  k = j
    BY DEF AccountedWith
<1>1. Len(w) \in Nat
    OBVIOUS
<1>2. ~(k < j)
    BY <1>1
<1>3. ~(j < k)
    BY <1>1
<1> QED BY <1>1, <1>2, <1>3

\* One byte of the data further.
LEMMA WithOn ==
    ASSUME NEW D, NEW d \in Seq(Byte), NEW w \in Seq(Byte), w # <<>>, w[1] # FLAG,
           AccountedWith(D, d, w)
    PROVE  AccountedWith(D, Append(d, w[1]), Tail(w))
<1>1. PICK t \in Seq(Byte), n \in Nat \ {0}, b \in Byte :
          /\ t = Tail(w) /\ n = Len(w) /\ Len(t) = n - 1 /\ b = w[1]
          /\ \A i \in 1..n - 1 : t[i] = w[i + 1]
    BY TailIs
<1> SUFFICES ASSUME NEW k \in 0..n - 1, \A i \in 1..k : t[i] # FLAG,
                    k < n - 1 => t[k + 1] = FLAG
             PROVE  Append(d, b) \o SubSeq(t, 1, k) \in D
    BY <1>1 DEF AccountedWith
<1>2. k + 1 \in 0..n /\ \A i \in 1..k + 1 : w[i] # FLAG
    <2>1. ASSUME NEW i \in 1..k + 1 PROVE w[i] # FLAG
        <3>1. CASE i = 1
            BY <3>1
        <3>2. CASE i # 1
            <4>1. i - 1 \in 1..k /\ i - 1 \in 1..n - 1 /\ (i - 1) + 1 = i
                BY <3>2
            <4> QED BY <1>1, <4>1
        <3> QED BY <3>1, <3>2
    <2> QED BY <2>1
<1>3. k + 1 < n => w[(k + 1) + 1] = FLAG
    BY <1>1
<1>4. d \o SubSeq(w, 1, k + 1) \in D
    BY <1>1, <1>2, <1>3 DEF AccountedWith
<1> DEFINE u == SubSeq(t, 1, k)
           v == SubSeq(w, 1, k + 1)
<1>5. u \in Seq(Byte) /\ Len(u) = k /\ \A i \in 1..k : u[i] = t[i]
    BY <1>1
<1>6. v \in Seq(Byte) /\ Len(v) = k + 1 /\ \A i \in 1..k + 1 : v[i] = w[i]
    BY <1>1
<1> HIDE DEF u, v
<1>7. v = <<b>> \o u
    <2> DEFINE c == <<b>>
               r == c \o u
    <2>1. c \in Seq(Byte) /\ Len(c) = 1 /\ c[1] = b
        BY <1>1
    <2> HIDE DEF c
    <2>2. /\ r \in Seq(Byte) /\ Len(r) = k + 1
          /\ \A i \in 1..k + 1 : r[i] = IF i <= 1 THEN c[i] ELSE u[i - 1]
        <3>1. /\ r \in Seq(Byte) /\ Len(r) = Len(c) + Len(u)
              /\ \A i \in 1..Len(c) + Len(u) :
                    r[i] = IF i <= Len(c) THEN c[i] ELSE u[i - Len(c)]
            BY <1>5, <2>1, ConcatIs
        <3> HIDE DEF r
        <3> QED BY <1>5, <2>1, <3>1
    <2> HIDE DEF r
    <2>3. ASSUME NEW i \in 1..k + 1 PROVE v[i] = r[i]
        <3>1. CASE i = 1
            BY <1>1, <1>6, <2>1, <2>2, <3>1
        <3>2. CASE i # 1
            <4>1. i - 1 \in 1..k /\ i - 1 \in 1..n - 1 /\ (i - 1) + 1 = i /\ ~(i <= 1)
                BY <3>2
            <4>2. r[i] = u[i - 1]
                BY <2>2, <4>1
            <4>3. u[i - 1] = t[i - 1] /\ t[i - 1] = w[i]
                BY <1>1, <1>5, <4>1
            <4> QED BY <1>6, <4>2, <4>3
        <3> QED BY <3>1, <3>2
    <2>4. v = r
        BY <1>6, <2>2, <2>3, SeqEqual
    <2> QED BY <2>4 DEF r, c
<1>8. Append(d, b) = d \o <<b>> /\ <<b>> \in Seq(Byte)
    BY ParenthesesOfPlace
<1>9. (d \o <<b>>) \o u = d \o (<<b>> \o u)
    BY <1>8, BytesAssociate
<1> QED BY <1>4, <1>5, <1>7, <1>8, <1>9 DEF u, v

\* A byte on, the headers are one byte nearer.
LEMMA HeadersOn ==
    ASSUME NEW D, NEW h, NEW w \in Seq(Byte), w # <<>>, NEW p \in BOOLEAN, NEW r \in BOOLEAN,
           HeadersAccounted(D, h, w, p), p => r \/ w[1] = FLAG
    PROVE  HeadersAccounted(D, h, Tail(w), r)
<1>1. PICK t \in Seq(Byte), n \in Nat \ {0} :
          t = Tail(w) /\ n = Len(w) /\ Len(t) = n - 1 /\ \A i \in 1..n - 1 : t[i] = w[i + 1]
    BY TailIs
<1> SUFFICES ASSUME NEW k \in 3..n - 1, HeaderAt(h, t, k), r => \E i \in 1..k - 3 : t[i] = FLAG
             PROVE  AccountedWith(D, <<>>, Behind(t, k))
    BY <1>1 DEF HeadersAccounted
<1>2. k + 1 \in 3..n /\ k \in Nat
    OBVIOUS
<1>3. HeaderAt(h, w, k + 1)
    <2> SUFFICES ASSUME NEW i \in 1..3 PROVE w[((k + 1) - 3) + i] = h[i]
        BY DEF HeaderAt
    <2>1. (k - 3) + i \in 1..n - 1 /\ ((k - 3) + i) + 1 = ((k + 1) - 3) + i
        OBVIOUS
    <2>2. t[(k - 3) + i] = h[i]
        BY DEF HeaderAt
    <2> QED BY <1>1, <2>1, <2>2
<1>4. p => \E i \in 1..(k + 1) - 3 : w[i] = FLAG
    <2> SUFFICES ASSUME p PROVE \E i \in 1..(k + 1) - 3 : w[i] = FLAG
        OBVIOUS
    <2>1. CASE w[1] = FLAG
        <3>1. 1 \in 1..(k + 1) - 3
            OBVIOUS
        <3> QED BY <2>1, <3>1
    <2>2. CASE r
        <3>1. PICK i \in 1..k - 3 : t[i] = FLAG
            BY <2>2
        <3>2. i \in 1..n - 1 /\ i + 1 \in 1..(k + 1) - 3
            OBVIOUS
        <3> QED BY <1>1, <3>1, <3>2
    <2> QED BY <2>1, <2>2
<1>5. AccountedWith(D, <<>>, Behind(w, k + 1))
    BY <1>1, <1>2, <1>3, <1>4 DEF HeadersAccounted
<1> QED BY <1>1, <1>2, <1>5, BehindTail

\* A header has no FLAG in it.
LEMMA IHeaderIs ==
    ASSUME NEW n \in {0, 1}
    PROVE  /\ IHeader(n)[1] = A_SEND /\ IHeader(n)[2] = C_I(n)
           /\ IHeader(n)[3] = Xor(A_SEND, C_I(n))
           /\ \A i \in 1..3 : IHeader(n)[i] \in Byte /\ IHeader(n)[i] # FLAG /\ 2 \notin IHeader(n)[i]
<1> DEFINE h == IHeader(n)
<1>1. h[1] = A_SEND /\ h[2] = C_I(n) /\ h[3] = Xor(A_SEND, C_I(n))
    BY DEF IHeader
<1> HIDE DEF h
<1>2. h[1] \in Byte /\ h[2] \in Byte /\ h[3] \in Byte
    BY <1>1, Codes, XorIsByte
<1>3. 2 \notin h[1] /\ 2 \notin h[2] /\ 2 \notin h[3]
    BY <1>1, StuffingMarks
<1>4. 2 \in FLAG
    BY StuffingMarks
<1>5. ASSUME NEW i \in 1..3 PROVE h[i] \in Byte /\ h[i] # FLAG /\ 2 \notin h[i]
    <2>1. i = 1 \/ i = 2 \/ i = 3
        OBVIOUS
    <2> QED BY <1>2, <1>3, <1>4, <2>1
<1> QED BY <1>1, <1>5 DEF h

Passing == {"DATA", "C_UNXP_RCV", "C_SET_RCV"}

\* A byte on, the I automaton comes to no other data.
LEMMA ComesOn ==
    ASSUME NEW q \in {0, 1}, NEW h, h = IHeader(NextSeq(q)), NEW D, NEW x, IsAutomaton(x),
           x.state \in IStates \ {"STOP_UA"}, x.data # <<>> => x.state = "DATA",
           NEW w \in Seq(Byte), w # <<>>, DataComes(D, h, x, w),
           NEW y, y = IUpdate(q, x, Head(w)), NEW z, z = IF y.state \in Stops THEN Start ELSE y
    PROVE  /\ y.state = "STOP" => y.data \in D
           /\ DataComes(D, h, z, Tail(w))
<1>1. PICK b \in Byte : b = w[1] /\ b = Head(w)
    BY TailIs
<1>2. PICK t \in Seq(Byte) : t = Tail(w)
    BY TailIs
<1>3. PICK n \in Nat \ {0} :
          n = Len(w) /\ Len(t) = n - 1 /\ \A i \in 1..n - 1 : t[i] = w[i + 1]
    BY <1>2, TailIs
<1>4. /\ y.state = IGoto(q, x, b)
      /\ y.data = IF x.state = "DATA" /\ b # FLAG THEN Append(x.data, b) ELSE x.data
      /\ x.data \in Seq(Byte)
    BY <1>1, INext DEF IsAutomaton
<1>5. /\ h[1] = A_SEND /\ h[2] = C_I(NextSeq(q)) /\ h[3] = Xor(A_SEND, C_I(NextSeq(q)))
      /\ h[1] # FLAG /\ h[2] # FLAG /\ h[3] # FLAG
    BY IHeaderIs, SControlsAre
<1>6. /\ z.state = IF y.state \in Stops THEN "START" ELSE y.state
      /\ y.state \notin Stops => z.data = y.data
    BY StartIsAutomaton
<1>7. HeadersAccounted(D, h, w, x.state \in Passing)
    BY DEF DataComes, Passing
<1>8. C_SET # FLAG /\ \A k \in {0, 1} : C_I(k) # FLAG
    BY Codes
<1>9. /\ x.state = "START" => y.state = IF b = h[1] THEN "A_RCV" ELSE "START"
      /\ x.state = "A_RCV" => /\ y.state \in {"C_RCV", "C_UNXP_RCV", "C_SET_RCV", "START"}
                              /\ y.state = "C_RCV" => b = h[2]
      /\ x.state = "C_RCV" => y.state = IF b = h[3] THEN "DATA" ELSE "START"
      /\ x.state = "DATA" => y.state = IF b = FLAG THEN "STOP" ELSE "DATA"
      /\ x.state = "C_UNXP_RCV" => y.state = IF b = FLAG THEN "STOP_RR" ELSE "C_UNXP_RCV"
      /\ x.state = "C_SET_RCV" => y.state = IF b = FLAG THEN "STOP_UA" ELSE "C_SET_RCV"
    BY <1>4, <1>5 DEF IGoto
<1>10. x.state \in {"START", "A_RCV", "C_RCV", "DATA", "C_UNXP_RCV", "C_SET_RCV"}
    BY DEF IStates
<1>11. y.state = "STOP" => y.data \in D
    <2> SUFFICES ASSUME y.state = "STOP" PROVE y.data \in D
        OBVIOUS
    <2>1. x.state = "DATA" /\ b = FLAG
        BY <1>9, <1>10
    <2>2. AccountedWith(D, x.data, w) /\ y.data = x.data
        BY <1>4, <2>1 DEF DataComes
    <2> QED BY <1>1, <1>4, <2>1, <2>2, WithFlag
<1>12. HeadersAccounted(D, h, t, z.state \in Passing)
    <2>1. x.state \in Passing => z.state \in Passing \/ w[1] = FLAG
        BY <1>1, <1>6, <1>9 DEF Passing, Stops
    <2> DEFINE p == x.state \in Passing
               r == z.state \in Passing
    <2>2. p \in BOOLEAN /\ r \in BOOLEAN
        OBVIOUS
    <2>3. HeadersAccounted(D, h, w, p) /\ (p => r \/ w[1] = FLAG)
        BY <1>7, <2>1
    <2> HIDE DEF p, r
    <2>4. HeadersAccounted(D, h, Tail(w), r)
        BY <2>2, <2>3, HeadersOn
    <2> QED BY <1>2, <2>4 DEF r
<1>13. z.state = "DATA" => AccountedWith(D, z.data, t)
    <2> SUFFICES ASSUME z.state = "DATA" PROVE AccountedWith(D, z.data, t)
        OBVIOUS
    <2>1. y.state = "DATA" /\ z.data = y.data
        BY <1>6 DEF Stops
    <2>2. CASE x.state = "DATA"
        <3>1. b # FLAG /\ y.data = Append(x.data, b) /\ AccountedWith(D, x.data, w)
            BY <1>4, <1>9, <2>1, <2>2 DEF DataComes
        <3> QED BY <1>1, <1>2, <1>4, <2>1, <3>1, WithOn
    <2>3. CASE x.state # "DATA"
        <3>1. x.state = "C_RCV" /\ b = h[3] /\ y.data = <<>>
            BY <1>4, <1>9, <1>10, <2>1, <2>3
        <3>2. AccountedWith(D, <<>>, Behind(w, 1))
            BY <1>1, <1>3, <3>1 DEF DataComes
        <3>3. Behind(w, 1) = t
            BY <1>2, TailIsSubSeq DEF Behind
        <3> QED BY <2>1, <3>1, <3>2, <3>3
    <2> QED BY <2>2, <2>3
<1>14. z.state = "A_RCV" /\ Len(t) > 1 /\ t[1] = h[2] /\ t[2] = h[3] =>
          AccountedWith(D, <<>>, Behind(t, 2))
    <2> SUFFICES ASSUME z.state = "A_RCV", Len(t) > 1, t[1] = h[2], t[2] = h[3]
                 PROVE  AccountedWith(D, <<>>, Behind(t, 2))
        OBVIOUS
    <2>1. x.state = "START" /\ b = h[1]
        BY <1>6, <1>9, <1>10 DEF Stops
    <2>2. 3 \in 3..n /\ w[2] = h[2] /\ w[3] = h[3] /\ w[1] = h[1]
        <3>1. 1 \in 1..n - 1 /\ 2 \in 1..n - 1
            BY <1>3
        <3> QED BY <1>1, <1>3, <2>1, <3>1
    <2>3. HeaderAt(h, w, 3)
        <3> SUFFICES ASSUME NEW i \in 1..3 PROVE w[(3 - 3) + i] = h[i]
            BY DEF HeaderAt
        <3>1. i = 1 \/ i = 2 \/ i = 3
            OBVIOUS
        <3> QED BY <2>2, <3>1
    <2>4. AccountedWith(D, <<>>, Behind(w, 3))
        BY <1>3, <1>7, <2>1, <2>2, <2>3 DEF HeadersAccounted, Passing
    <2> QED BY <1>2, <2>4, BehindTail
<1>15. z.state = "C_RCV" /\ Len(t) > 0 /\ t[1] = h[3] => AccountedWith(D, <<>>, Behind(t, 1))
    <2> SUFFICES ASSUME z.state = "C_RCV", Len(t) > 0, t[1] = h[3]
                 PROVE  AccountedWith(D, <<>>, Behind(t, 1))
        OBVIOUS
    <2>1. x.state = "A_RCV" /\ b = h[2]
        BY <1>6, <1>9, <1>10 DEF Stops
    <2>2. n > 1 /\ w[2] = h[3] /\ w[1] = h[2]
        BY <1>1, <1>3, <2>1
    <2>3. AccountedWith(D, <<>>, Behind(w, 2))
        BY <1>3, <2>1, <2>2 DEF DataComes
    <2> QED BY <1>2, <2>3, BehindTail
<1> QED BY <1>2, <1>11, <1>12, <1>13, <1>14, <1>15 DEF DataComes, Passing

\* More frames, and more is accounted for.
LEMMA AccountedGrows ==
    ASSUME NEW F, NEW G, F \subseteq G, NEW h
    PROVE  Accounted(F, h) \subseteq Accounted(G, h)
BY DEF Accounted, Traced

\* What is accounted for stays so when more frames are sent.
LEMMA WithGrows ==
    ASSUME NEW C, NEW D, C \subseteq D, NEW d, NEW w, AccountedWith(C, d, w)
    PROVE  AccountedWith(D, d, w)
BY DEF AccountedWith

-----------------------------------------------------------------------------
(* The data of an I-frame, hit once, are accounted for *)

\* The data of the I-frame f are e: the payload p and its BCC2, q, stuffed.
Carries(f, p, q, e) ==
    /\ p = Payloads[f.d] /\ p # <<>> /\ q = Append(p, BCC(p)) /\ BCC(q) = {} /\ Front(q) = p
    /\ Len(q) = Len(p) + 1 /\ e = Body(f) /\ e = Stuffed(q)

\* An I-frame carries the payload p as e, which is q with bytes escaped.
LEMMA DataOf ==
    ASSUME ReceptionAssumption, NEW f \in Sendable, f.c = "I"
    PROVE  \E p \in Seq(Byte), q \in Seq(Byte), e \in Seq(Byte) : Carries(f, p, q, e)
<1>1. PICK p \in Seq(Byte) : p = Payloads[f.d] /\ p # <<>>
    BY BodyBytes
<1>2. PICK b \in Byte : b = BCC(p)
    BY BCCIsByte
<1>3. PICK q \in Seq(Byte) : q = Append(p, b) /\ Front(q) = p /\ Len(q) = Len(p) + 1
    <2>1. Append(p, b) \in Seq(Byte) /\ Len(Append(p, b)) = Len(p) + 1
        BY <1>1, <1>2, AppendProperties
    <2>2. Front(Append(p, b)) = p
        BY <1>1, <1>2, ParenthesesOfPlace
    <2> QED BY <2>1, <2>2
<1>4. BCC(q) = {}
    BY <1>1, <1>2, <1>3, BCCOfAppend, XorLaws
<1>5. Body(f) \in Seq(Byte) /\ Body(f) = Stuffed(q)
    BY <1>1, <1>2, <1>3, BodyBytes
<1> QED BY <1>1, <1>2, <1>3, <1>4, <1>5 DEF Carries

\* Data are accounted for when what passes the checksum is p or a part of it.
LEMMA IsAccounted ==
    ASSUME ReceptionAssumption, NEW F, NEW h, NEW f \in F, f.c = "I", NEW d \in Seq(Byte),
           \A stale \in Byte :
              Valid(Destuffed(d, stale)) =>
                 \/ Payload(Destuffed(d, stale)) = Payloads[f.d]
                 \/ PartOf(h, Payload(Destuffed(d, stale)), Payloads[f.d])
    PROVE  d \in Accounted(F, h)
<1>1. StaleBytes \subseteq Byte
    BY DEF ReceptionAssumption
<1>2. ASSUME NEW stale \in StaleBytes, Valid(Destuffed(d, stale))
      PROVE  Traced(F, h, TRUE, Payload(Destuffed(d, stale)))
    BY <1>1, <1>2 DEF Traced
<1> QED BY <1>2 DEF Accounted

\* The beginning of the data, the data, the data with a bit flipped, and the data
\* with the last FLAG hit.
LEMMA CutAccounted ==
    ASSUME ReceptionAssumption, NEW F, NEW h, NEW f \in Sendable, f \in F, f.c = "I",
           NEW k \in 0..Len(Body(f))
    PROVE  SubSeq(Body(f), 1, k) \in Accounted(F, h)
<1>1. PICK p \in Seq(Byte), q \in Seq(Byte), e \in Seq(Byte) : Carries(f, p, q, e)
    BY DataOf
<1>2. /\ p = Payloads[f.d] /\ Front(q) = p /\ Len(q) = Len(p) + 1 /\ e = Body(f)
      /\ e = Stuffed(q) /\ q = Append(p, BCC(p)) /\ BCC(p) \in Byte
    BY <1>1, BCCIsByte DEF Carries
<1>3. SubSeq(e, 1, k) \in Seq(Byte)
    BY <1>1, <1>2, PartIs
<1>4. ASSUME NEW stale \in Byte, Valid(Destuffed(SubSeq(e, 1, k), stale))
      PROVE  \/ Payload(Destuffed(SubSeq(e, 1, k), stale)) = p
             \/ PartOf(h, Payload(Destuffed(SubSeq(e, 1, k), stale)), p)
    <2>1. PICK s : s = Payload(Destuffed(SubSeq(e, 1, k), stale))
        OBVIOUS
    <2>2. PICK j \in 0..Len(q) - 1 : s = SubSeq(q, 1, j)
        <3>1. k \in 0..Len(Stuffed(q)) /\ SubSeq(e, 1, k) = SubSeq(Stuffed(q), 1, k)
            BY <1>2
        <3>2. Valid(Destuffed(SubSeq(Stuffed(q), 1, k), stale))
            BY <1>4, <3>1
        <3>3. \E j \in 0..Len(q) - 1 :
                  Payload(Destuffed(SubSeq(Stuffed(q), 1, k), stale)) = SubSeq(q, 1, j)
            BY <1>1, <3>1, <3>2, CutIsBeginning
        <3> QED BY <2>1, <3>1, <3>3
    <2>3. PICK n \in Nat : n = Len(p)
        BY <1>1
    <2>4. j \in 0..n
        BY <1>2, <2>2, <2>3
    <2>5. SubSeq(q, 1, n) = p
        BY <1>2, <2>3 DEF Front
    <2>6. CASE j = n
        BY <2>1, <2>2, <2>5, <2>6
    <2>7. CASE j # n
        <3>1. /\ s \in Seq(Byte) /\ Len(s) = j /\ \A i \in 1..j : s[i] = q[i]
            BY <1>1, <1>2, <2>2, <2>3, <2>4, PartIs
        <3> DEFINE r == SubSeq(p, 1, j)
        <3>2. r \in Seq(Byte) /\ Len(r) = j /\ \A i \in 1..j : r[i] = p[i]
            BY <1>1, <2>3, <2>4, PartIs
        <3>3. \A i \in 1..j : p[i] = q[i]
            BY <1>1, <1>2, <2>3, <2>4, AppendProperties
        <3> HIDE DEF r
        <3>8. \A i \in 1..Len(s) : s[i] = r[i]
            BY <3>1, <3>2, <3>3
        <3>9. s = r
            BY <3>1, <3>2, <3>8, SeqEqual
        <3>4. s = SubSeq(p, 1, j)
            BY <3>9 DEF r
        <3>5. SubSeq(s, 1, j) = s
            BY <3>1, SubSeqFull
        <3>6. IsPrefix(s, p)
            BY <2>3, <2>4, <3>1, <3>4, <3>5 DEF IsPrefix
        <3>7. s # p
            BY <2>3, <2>7, <3>1
        <3> QED BY <2>1, <3>6, <3>7 DEF PartOf, IsStrictPrefix
    <2> QED BY <2>6, <2>7
<1> QED BY <1>2, <1>3, <1>4, IsAccounted

LEMMA IntactAccounted ==
    ASSUME ReceptionAssumption, NEW F, NEW h, NEW f \in Sendable, f \in F, f.c = "I"
    PROVE  Body(f) \in Accounted(F, h)
<1>1. Body(f) \in Seq(Byte)
    BY BodyBytes
<1>2. SubSeq(Body(f), 1, Len(Body(f))) = Body(f) /\ Len(Body(f)) \in 0..Len(Body(f))
    BY <1>1, SubSeqFull
<1> QED BY <1>2, CutAccounted

LEMMA HitAccounted ==
    ASSUME ReceptionAssumption, NEW F, NEW h, NEW f \in Sendable, f \in F, f.c = "I",
           NEW w, Hit(w, Body(f))
    PROVE  w \in Accounted(F, h)
<1>1. PICK p \in Seq(Byte), q \in Seq(Byte), e \in Seq(Byte) : Carries(f, p, q, e)
    BY DataOf
<1>2. p = Payloads[f.d] /\ Front(q) = p /\ e = Body(f) /\ e = Stuffed(q) /\ BCC(q) = {}
    BY <1>1 DEF Carries
<1>3. w \in Seq(Byte)
    <2>1. PICK k \in 1..Len(e), bit \in 0..7 : w = [e EXCEPT ![k] = Flipped(e[k], bit)]
        BY <1>2 DEF Hit
    <2>2. e[k] \in Byte /\ Flipped(e[k], bit) \in Byte
        BY ElementOfSeq, FlippedIsByte
    <2> QED BY <2>1, <2>2, ExceptSeq
<1>4. Hit(w, Stuffed(q))
    BY <1>2
<1>5. ASSUME NEW stale \in Byte, Valid(Destuffed(w, stale))
      PROVE  Payload(Destuffed(w, stale)) = p
    BY <1>2, <1>4, <1>5, OneBitIsSeen
<1> QED BY <1>2, <1>3, <1>5, IsAccounted

LEMMA EndHitAccounted ==
    ASSUME ReceptionAssumption, NEW F, NEW h, NEW f \in Sendable, f \in F, f.c = "I",
           NEW bit \in 0..7
    PROVE  Append(Body(f), Flipped(FLAG, bit)) \in Accounted(F, h)
<1>1. PICK p \in Seq(Byte), q \in Seq(Byte), e \in Seq(Byte) : Carries(f, p, q, e)
    BY DataOf
<1>2. e = Body(f) /\ e = Stuffed(q) /\ BCC(q) = {}
    BY <1>1 DEF Carries
<1>3. Flipped(FLAG, bit) \in Byte
    BY Codes, FlippedIsByte
<1>4. Append(e, Flipped(FLAG, bit)) \in Seq(Byte)
    BY <1>1, <1>3, AppendProperties
<1>5. \A stale \in Byte : ~Valid(Destuffed(Append(e, Flipped(FLAG, bit)), stale))
    BY <1>1, <1>2, LastFlagIsSeen
<1> QED BY <1>2, <1>4, <1>5, IsAccounted

\* Behind byte k of e is t, stuffed, and what is accepted of it is a part of p.
BehindIsPart(h, p, e, k, t) ==
    SubSeq(e, k + 1, Len(e)) = Stuffed(t) /\ (Valid(t) => PartOf(h, Payload(t), p))

\* Behind a header in the data there is a part of the payload, if the checksum
\* lets it through.
LEMMA InnerIsPart ==
    ASSUME NEW f, NEW p \in Seq(Byte), NEW q \in Seq(Byte), NEW e \in Seq(Byte), Carries(f, p, q, e),
           NEW n \in {0, 1}, NEW h, h = IHeader(n), NEW k \in 3..Len(e),
           e[k - 2] = h[1], e[k - 1] = h[2], e[k] = h[3]
    PROVE  \E t \in Seq(Byte) : BehindIsPart(h, p, e, k, t)
<1>1. q = Append(p, BCC(p)) /\ e = Stuffed(q) /\ BCC(q) = {} /\ BCC(p) \in Byte
    BY BCCIsByte DEF Carries
<1>2. ThreePlain(Stuffed(q), k)
    BY <1>1, IHeaderIs DEF ThreePlain
<1>3. PICK u \in Seq(Byte), t \in Seq(Byte) : Around(q, Stuffed(q), k, u, t)
    BY <1>2, InnerHeader
<1>4. PICK b \in Byte, a \in Byte, c \in Byte, g \in Byte :
          b = BCC(p) /\ a = e[k - 2] /\ c = e[k - 1] /\ g = e[k]
    BY <1>1, <1>3 DEF Around
<1>5. HeaderIn(p, b, a, c, g, t) /\ SubSeq(e, k + 1, Len(e)) = Stuffed(t)
    <2>1. Append(p, b) = Append(Append(Append(u, a), c), g) \o t
        BY <1>1, <1>3, <1>4 DEF Around
    <2>2. SubSeq(e, k + 1, Len(e)) = Stuffed(t)
        BY <1>1, <1>3 DEF Around
    <2> QED BY <1>1, <1>4, <2>1, <2>2 DEF HeaderIn
<1>6. ASSUME Valid(t) PROVE PartOf(h, Payload(t), p)
    <2>1. EndOf(<<a, c, g>>, Payload(t), p)
        BY <1>5, <1>6, BehindHeader
    <2>2. <<a, c, g>> = h
        BY <1>4, IHeaderIs DEF IHeader
    <2> QED BY <2>1, <2>2 DEF EndOf, PartOf
<1> QED BY <1>5, <1>6 DEF BehindIsPart

LEMMA InnerAccounted ==
    ASSUME ReceptionAssumption, NEW F, NEW n \in {0, 1}, NEW h, h = IHeader(n),
           NEW f \in Sendable, f \in F, f.c = "I",
           NEW k \in 3..Len(Body(f)), HeaderAt(h, Body(f), k)
    PROVE  Behind(Body(f), k) \in Accounted(F, h)
<1>1. PICK p \in Seq(Byte), q \in Seq(Byte), e \in Seq(Byte) : Carries(f, p, q, e)
    BY DataOf
<1>2. /\ p = Payloads[f.d] /\ q = Append(p, BCC(p)) /\ e = Body(f) /\ e = Stuffed(q)
      /\ BCC(q) = {} /\ BCC(p) \in Byte
    BY <1>1, BCCIsByte DEF Carries
<1>3. e[k - 2] = h[1] /\ e[k - 1] = h[2] /\ e[k] = h[3]
    <2>1. \A i \in 1..3 : e[(k - 3) + i] = h[i]
        BY <1>2 DEF HeaderAt
    <2>2. (k - 3) + 1 = k - 2 /\ (k - 3) + 2 = k - 1 /\ (k - 3) + 3 = k
        OBVIOUS
    <2>3. e[(k - 3) + 1] = h[1] /\ e[(k - 3) + 2] = h[2] /\ e[(k - 3) + 3] = h[3]
        BY <2>1
    <2> QED BY <2>2, <2>3
<1>4. 2 \notin h[1] /\ 2 \notin h[2] /\ 2 \notin h[3]
    BY IHeaderIs
<1>5. PICK t \in Seq(Byte) :
          /\ SubSeq(e, k + 1, Len(e)) = Stuffed(t)
          /\ Valid(t) => PartOf(h, Payload(t), p)
    <2>1. k \in 3..Len(e)
        BY <1>2
    <2>2. PICK t \in Seq(Byte) : BehindIsPart(h, p, e, k, t)
        BY <1>1, <1>3, <2>1, InnerIsPart
    <2> QED BY <2>2 DEF BehindIsPart
<1>6. Behind(e, k) = Stuffed(t) /\ Stuffed(t) \in Seq(Byte)
    BY <1>5, StuffedTyped DEF Behind
<1>7. ASSUME NEW stale \in Byte, Valid(Destuffed(Stuffed(t), stale))
      PROVE  PartOf(h, Payload(Destuffed(Stuffed(t), stale)), p)
    <2>1. Destuffed(Stuffed(t), stale) = t
        BY <1>5, DestuffingUndoesStuffing
    <2> QED BY <1>5, <1>7, <2>1
<1> QED BY <1>2, <1>6, <1>7, IsAccounted

\* The address of a header may be the BCC1 of the frame, and the rest be in the data.
LEMMA OverlapAccounted ==
    ASSUME ReceptionAssumption, NEW F, NEW n \in {0, 1}, NEW h, h = IHeader(n),
           NEW f \in Sendable, f \in F, f.c = "I",
           Len(Body(f)) >= 2, Body(f)[1] = h[2], Body(f)[2] = h[3]
    PROVE  Behind(Body(f), 2) \in Accounted(F, h)
<1>1. PICK p \in Seq(Byte), q \in Seq(Byte), e \in Seq(Byte) : Carries(f, p, q, e)
    BY DataOf
<1>2. e = Body(f) /\ e = Stuffed(q) /\ BCC(q) = {}
    BY <1>1 DEF Carries
<1>3. 2 \notin e[1] /\ 2 \notin e[2]
    BY <1>2, IHeaderIs
<1>4. Xor(e[1], e[2]) # {}
    <2>1. e[1] = C_I(n) /\ e[2] = Xor(A_SEND, C_I(n))
        BY <1>2, IHeaderIs
    <2>2. 0 \in Xor(A_SEND, C_I(n)) /\ 0 \notin C_I(n)
        BY DEF Xor, A_SEND, C_I
    <2>3. 0 \in Xor(e[1], e[2])
        BY <2>1, <2>2 DEF Xor
    <2> QED BY <2>3
<1>5. \A stale \in Byte : ~Valid(Destuffed(SubSeq(e, 3, Len(e)), stale))
    BY <1>1, <1>2, <1>3, <1>4, BehindTwo
<1>6. Behind(e, 2) = SubSeq(e, 3, Len(e)) /\ Behind(e, 2) \in Seq(Byte)
    BY <1>1, BehindIs DEF Behind
<1> QED BY <1>2, <1>5, <1>6, IsAccounted

\* One byte, or none, is no payload.
LEMMA ShortIsRead ==
    ASSUME NEW d \in Seq(Byte), Len(d) <= 1, NEW stale \in Byte
    PROVE  Len(Destuffed(d, stale)) <= 1
<1>1. <<>> \in Seq(Byte) /\ ReadTo(<<>>, Plain(<<>>))
    BY ReadNothing DEF NothingRead, Plain
<1>2. CASE d = <<>>
    <2>1. Destuffed(d, stale) = <<>>
        BY <1>1, <1>2, ReadEnds
    <2> QED BY <2>1
<1>3. CASE d # <<>>
    <2>1. PICK n \in Nat : n = Len(d) /\ n # 0 /\ n <= 1
        BY <1>3, EmptySeq
    <2>2. Len(d) = 1 /\ d[1] \in Byte
        BY <2>1
    <2>3. PICK b \in Byte : d = <<b>>
        BY <2>2
    <2>4. <<>> \o <<b>> = <<b>> /\ <<b>> \in Seq(Byte)
        BY <2>3
    <2>5. CASE b = ESC
        <3>1. ReadTo(<<>> \o <<ESC>>, Escape(<<>>))
            BY <1>1, <2>3, ReadSteps
        <3>2. Destuffed(d, stale) = <<>> \o <<Flipped(stale, 5)>>
            BY <1>1, <2>3, <2>4, <2>5, <3>1, ReadEnds
        <3>3. Len(<<>> \o <<Flipped(stale, 5)>>) = 1
            <4> DEFINE x == Flipped(stale, 5)
            <4>1. x \in Byte
                BY FlippedIsByte
            <4> HIDE DEF x
            <4>2. <<x>> \in Seq(Byte) /\ Len(<<x>>) = 1
                BY <4>1
            <4> QED BY <4>2, ConcatEmptySeq DEF x
        <3> QED BY <3>2, <3>3
    <2>6. CASE b # ESC
        <3>1. ReadTo(<<>> \o <<b>>, Plain(<<>> \o <<b>>))
            BY <1>1, <2>3, <2>6, ReadSteps
        <3>2. Destuffed(d, stale) = <<b>>
            BY <2>3, <2>4, <3>1, ReadEnds
        <3> QED BY <3>2
    <2> QED BY <2>5, <2>6
<1> QED BY <1>2, <1>3

\* A byte or none has no checksum.
LEMMA ShortAccounted ==
    ASSUME ReceptionAssumption, NEW F, NEW h, NEW d \in Seq(Byte), Len(d) <= 1
    PROVE  d \in Accounted(F, h)
<1>1. ASSUME NEW stale \in StaleBytes PROVE ~Valid(Destuffed(d, stale))
    <2>1. stale \in Byte
        BY DEF ReceptionAssumption
    <2>2. Destuffed(d, stale) \in Seq(Byte) /\ Len(Destuffed(d, stale)) <= 1
        BY <2>1, DestuffedTyped, ShortIsRead
    <2> QED BY <2>2 DEF Valid
<1> QED BY <1>1 DEF Accounted

-----------------------------------------------------------------------------
(* What noise puts on the line is accounted for *)

\* d is what v has up to its first FLAG.
Until(v, d) ==
    /\ Len(d) <= Len(v) /\ \A i \in 1..Len(d) : d[i] # FLAG /\ v[i] = d[i]
    /\ Len(d) < Len(v) => v[Len(d) + 1] = FLAG

\* It is enough to account for the data up to the first FLAG.
LEMMA UpToFlag ==
    ASSUME NEW D, NEW v \in Seq(Byte), NEW d \in Seq(Byte), Until(v, d), d \in D
    PROVE  AccountedWith(D, <<>>, v)
<1>1. PICK n \in Nat : n = Len(d) /\ n <= Len(v)
    BY DEF Until
<1>2. \A i \in 1..n : d[i] # FLAG /\ v[i] = d[i]
    BY <1>1 DEF Until
<1>3. n \in 0..Len(v) /\ (n < Len(v) => v[n + 1] = FLAG)
    BY <1>1 DEF Until
<1>4. SubSeq(v, 1, n) = d
    <2> DEFINE u == SubSeq(v, 1, n)
    <2>1. u \in Seq(Byte) /\ Len(u) = n /\ \A i \in 1..n : u[i] = v[i]
        BY <1>1, PartIs
    <2> HIDE DEF u
    <2>2. \A i \in 1..Len(u) : u[i] = d[i]
        BY <1>2, <2>1
    <2>3. u = d
        BY <1>1, <2>1, <2>2, SeqEqual
    <2> QED BY <2>3 DEF u
<1>5. <<>> \o d = d /\ <<>> \in Seq(Byte)
    BY ConcatEmptySeq
<1>6. \A i \in 1..n : v[i] # FLAG
    BY <1>2
<1> QED BY <1>3, <1>4, <1>5, <1>6, WithThose

\* The data e, and a FLAG behind them, are bytes 5 and on of w, but for j of them.
EndsWith(w, e, j) ==
    /\ Len(w) = Len(e) + 5 /\ w[Len(e) + 5] = FLAG
    /\ \A i \in 1..Len(e) : e[i] # FLAG /\ (i > j => w[i + 4] = e[i])

\* Behind byte j + 4 of w are the data behind their byte j, and the FLAG.
LEMMA EndIsUntil ==
    ASSUME NEW e \in Seq(Byte), NEW w \in Seq(Byte), NEW j \in 0..Len(e), EndsWith(w, e, j)
    PROVE  Until(Behind(w, j + 4), Behind(e, j)) /\ Behind(e, j) \in Seq(Byte)
<1>1. PICK n \in Nat : n = Len(e)
    OBVIOUS
<1>2. /\ Len(w) = n + 5 /\ w[n + 5] = FLAG
      /\ \A i \in 1..n : e[i] # FLAG /\ (i > j => w[i + 4] = e[i])
    BY <1>1 DEF EndsWith
<1>3. j \in 0..n /\ j \in Nat /\ j + 4 \in Nat
    BY <1>1
<1> DEFINE v == Behind(w, j + 4)
           d == Behind(e, j)
<1>4. v \in Seq(Byte) /\ Len(v) = (n + 1) - j /\ \A i \in 1..(n + 1) - j : v[i] = w[(j + 4) + i]
    <2>1. Len(v) = IF j + 4 <= Len(w) THEN Len(w) - (j + 4) ELSE 0
        BY <1>3, BehindIs
    <2>2. v \in Seq(Byte) /\ \A i \in 1..Len(v) : v[i] = w[(j + 4) + i]
        BY <1>3, BehindIs
    <2> HIDE DEF v
    <2>3. Len(v) = (n + 1) - j
        BY <1>2, <1>3, <2>1
    <2> QED BY <2>2, <2>3
<1>5. d \in Seq(Byte) /\ Len(d) = n - j /\ \A i \in 1..n - j : d[i] = e[j + i]
    <2>1. Len(d) = IF j <= Len(e) THEN Len(e) - j ELSE 0
        BY <1>3, BehindIs
    <2>2. d \in Seq(Byte) /\ \A i \in 1..Len(d) : d[i] = e[j + i]
        BY <1>3, BehindIs
    <2> HIDE DEF d
    <2>3. Len(d) = n - j
        BY <1>1, <1>3, <2>1
    <2> QED BY <2>2, <2>3
<1> HIDE DEF v, d
<1>6. ASSUME NEW i \in 1..n - j PROVE d[i] # FLAG /\ v[i] = d[i]
    <2>1. j + i \in 1..n /\ j + i > j /\ (j + 4) + i = (j + i) + 4 /\ i \in 1..(n + 1) - j
        BY <1>3
    <2>2. d[i] = e[j + i] /\ v[i] = w[(j + i) + 4]
        BY <1>4, <1>5, <2>1
    <2> QED BY <1>2, <2>1, <2>2
<1>7. v[(n - j) + 1] = FLAG
    <2>1. (n - j) + 1 \in 1..(n + 1) - j /\ (j + 4) + ((n - j) + 1) = n + 5
        BY <1>3
    <2> QED BY <1>2, <1>4, <2>1
<1>8. Until(v, d)
    BY <1>3, <1>4, <1>5, <1>6, <1>7 DEF Until
<1> QED BY <1>5, <1>8 DEF v, d

\* Of a frame whole or hit in its header.
LEMMA FrameAccounted ==
    ASSUME ReceptionAssumption, NEW F, NEW n \in {0, 1}, NEW h, h = IHeader(n),
           NEW f \in Sendable, f \in F, f.c = "I",
           NEW w \in Seq(Byte), EndsWith(w, Body(f), 0), w[1] # A_SEND, w[3] # A_SEND
    PROVE  HeadersAccounted(Accounted(F, h), h, w, FALSE)
<1>1. PICK e \in Seq(Byte), l \in Nat : e = Body(f) /\ l = Len(e)
    <2>1. PICK e \in Seq(Byte) : e = Body(f)
        <3>1. Body(f) \in Seq(Byte)
            BY BodyBytes
        <3> QED BY <3>1
    <2>2. Len(e) \in Nat
        OBVIOUS
    <2> QED BY <2>1, <2>2
<1>2. /\ Len(w) = l + 5 /\ w[l + 5] = FLAG /\ EndsWith(w, e, 0)
      /\ \A i \in 1..l : i > 0 /\ w[i + 4] = e[i]
    BY <1>1 DEF EndsWith
<1>3. h[1] = A_SEND /\ h[1] # FLAG /\ h[2] # FLAG /\ h[3] # FLAG
    BY IHeaderIs
<1>4. PICK D : D = Accounted(F, h)
    OBVIOUS
<1> SUFFICES ASSUME NEW k \in 3..Len(w), HeaderAt(h, w, k)
             PROVE  AccountedWith(D, <<>>, Behind(w, k))
    BY <1>4 DEF HeadersAccounted
<1>5. k \in 3..l + 5 /\ k \in Nat
    BY <1>2
<1>6. w[k - 2] = h[1] /\ w[k - 1] = h[2] /\ w[k] = h[3]
    <2>1. (k - 3) + 1 = k - 2 /\ (k - 3) + 2 = k - 1 /\ (k - 3) + 3 = k
        BY <1>5
    <2>2. w[(k - 3) + 1] = h[1] /\ w[(k - 3) + 2] = h[2] /\ w[(k - 3) + 3] = h[3]
        BY DEF HeaderAt
    <2> QED BY <2>1, <2>2
<1>7. k # l + 5 /\ k # 3 /\ k # 5
    BY <1>2, <1>3, <1>6
<1>8. k - 4 \in 0..l /\ (k - 4) + 4 = k
    BY <1>5, <1>7
<1>9. Behind(e, k - 4) \in D
    <2>1. CASE k = 4
        <3>1. Behind(e, 0) = e
            BY <1>1, SubSeqFull DEF Behind
        <3>2. e \in D
            BY <1>1, <1>4, IntactAccounted
        <3> QED BY <2>1, <3>1, <3>2
    <2>2. CASE k = 6
        <3>1. l >= 2 /\ 1 \in 1..l /\ 2 \in 1..l
            BY <1>5, <1>7, <2>2
        <3>2. e[1] = w[5] /\ e[2] = w[6]
            BY <1>2, <3>1
        <3>3. e[1] = h[2] /\ e[2] = h[3]
            BY <1>6, <2>2, <3>2
        <3>4. Behind(e, 2) \in D
            BY <1>1, <1>4, <3>1, <3>3, OverlapAccounted
        <3> QED BY <2>2, <3>4
    <2>3. CASE k > 6
        <3>1. PICK j \in 3..l : j = k - 4
            BY <1>5, <1>7, <2>3
        <3>2. HeaderAt(h, e, j)
            <4> SUFFICES ASSUME NEW i \in 1..3 PROVE e[(j - 3) + i] = h[i]
                BY DEF HeaderAt
            <4>1. (j - 3) + i \in 1..l /\ ((j - 3) + i) + 4 = (k - 3) + i
                BY <1>5, <3>1
            <4>2. w[(k - 3) + i] = h[i]
                BY DEF HeaderAt
            <4> QED BY <1>2, <4>1, <4>2
        <3>3. Behind(e, j) \in D
            BY <1>1, <1>4, <3>1, <3>2, InnerAccounted
        <3> QED BY <3>1, <3>3
    <2>4. k = 4 \/ k = 6 \/ k > 6
        BY <1>5, <1>7
    <2> QED BY <2>1, <2>2, <2>3, <2>4
<1>10. Until(Behind(w, k), Behind(e, k - 4)) /\ Behind(e, k - 4) \in Seq(Byte)
    <2>1. PICK j \in 0..Len(e) : j = k - 4
        BY <1>1, <1>8
    <2>2. Until(Behind(w, j + 4), Behind(e, j)) /\ Behind(e, j) \in Seq(Byte)
        <3>1. EndsWith(w, e, j)
            BY <1>1, <1>2 DEF EndsWith
        <3> QED BY <3>1, EndIsUntil
    <2> QED BY <1>8, <2>1, <2>2
<1>11. Behind(w, k) \in Seq(Byte)
    BY <1>5, BehindIs
<1> QED BY <1>9, <1>10, <1>11, UpToFlag

\* Five bytes or less have nothing to be accepted.
LEMMA FewAccounted ==
    ASSUME ReceptionAssumption, NEW F, NEW n \in {0, 1}, NEW h, h = IHeader(n),
           NEW w \in Seq(Byte), Len(w) <= 5, w[1] # A_SEND
    PROVE  HeadersAccounted(Accounted(F, h), h, w, FALSE)
<1>1. PICK D : D = Accounted(F, h)
    OBVIOUS
<1>2. h[1] = A_SEND
    BY IHeaderIs
<1> SUFFICES ASSUME NEW k \in 3..Len(w), HeaderAt(h, w, k)
             PROVE  AccountedWith(D, <<>>, Behind(w, k))
    BY <1>1 DEF HeadersAccounted
<1>3. k \in Nat /\ k >= 3 /\ k <= Len(w) /\ Len(w) \in Nat
    OBVIOUS
<1>4. k >= 4
    <2>1. w[(k - 3) + 1] = h[1]
        BY DEF HeaderAt
    <2>2. k = 3 => (k - 3) + 1 = 1
        OBVIOUS
    <2>3. k # 3
        BY <1>2, <2>1, <2>2
    <2> QED BY <1>3, <2>3
<1>5. PICK v \in Seq(Byte) : v = Behind(w, k) /\ Len(v) <= 1
    <2>1. Behind(w, k) \in Seq(Byte)
        BY <1>3, BehindIs
    <2>2. Len(Behind(w, k)) = Len(w) - k
        BY <1>3, BehindIs
    <2>3. Len(w) - k <= 1
        BY <1>3, <1>4
    <2> QED BY <2>1, <2>2, <2>3
<1>6. AccountedWith(D, <<>>, v)
    <2> SUFFICES ASSUME NEW j \in 0..Len(v) PROVE <<>> \o SubSeq(v, 1, j) \in D
        BY DEF AccountedWith
    <2>1. /\ SubSeq(v, 1, j) \in Seq(Byte) /\ Len(SubSeq(v, 1, j)) <= 1
        <3>1. PICK i \in Nat : i = j /\ i <= Len(v) /\ i <= 1
            BY <1>5
        <3>2. SubSeq(v, 1, i) \in Seq(Byte) /\ Len(SubSeq(v, 1, i)) = i
            BY <3>1, PartIs
        <3> QED BY <3>1, <3>2
    <2>2. SubSeq(v, 1, j) \in D
        BY <1>1, <2>1, ShortAccounted
    <2>3. <<>> \o SubSeq(v, 1, j) = SubSeq(v, 1, j)
        BY <2>1, ConcatEmptySeq
    <2> QED BY <2>2, <2>3
<1> QED BY <1>5, <1>6

\* No header begins with a FLAG, a control byte, or what a hit makes of one.
LEMMA HitBits ==
    ASSUME NEW bit \in 0..7
    PROVE  /\ Flipped(FLAG, bit) # A_SEND /\ FLAG # A_SEND /\ Flipped(FLAG, bit) # FLAG
           /\ \A n \in {0, 1} : C_I(n) # A_SEND /\ Flipped(C_I(n), bit) # A_SEND
<1>1. 2 \in Flipped(FLAG, bit) \/ 3 \in Flipped(FLAG, bit)
    BY DEF Flipped, Xor, FLAG
<1>2. 2 \notin A_SEND /\ 3 \notin A_SEND /\ 2 \in FLAG /\ 0 \in A_SEND /\ 1 \in A_SEND
    BY DEF A_SEND, FLAG
<1>3. Flipped(FLAG, bit) # FLAG
    BY Codes, StuffingBits
<1>4. ASSUME NEW n \in {0, 1} PROVE C_I(n) # A_SEND /\ Flipped(C_I(n), bit) # A_SEND
    <2>1. 0 \notin C_I(n) /\ 1 \notin C_I(n)
        BY DEF C_I
    <2>2. 0 \notin Flipped(C_I(n), bit) \/ 1 \notin Flipped(C_I(n), bit)
        BY <2>1 DEF Flipped, Xor
    <2> QED BY <1>2, <2>1, <2>2
<1> QED BY <1>1, <1>2, <1>3, <1>4

LEMMA FrameEndsWith ==
    ASSUME ReceptionAssumption, NEW f \in Sendable
    PROVE  EndsWith(Bytes(f), Body(f), 0)
<1>1. Len(Bytes(f)) = Len(Body(f)) + 5 /\ Bytes(f)[Len(Bytes(f))] = FLAG
    BY FrameBytes
<1>2. \A i \in 1..Len(Body(f)) : Bytes(f)[i + 4] = Body(f)[i]
    BY FrameBytes
<1>3. \A i \in 1..Len(Body(f)) : Body(f)[i] # FLAG
    BY BodyBytes
<1> QED BY <1>1, <1>2, <1>3 DEF EndsWith

\* An automaton that is passing over bytes finds no more headers than another.
LEMMA NotPassing ==
    ASSUME NEW D, NEW h, NEW w, HeadersAccounted(D, h, w, FALSE), NEW p
    PROVE  HeadersAccounted(D, h, w, p)
BY DEF HeadersAccounted

\* The first byte of a frame, hit or not, is no address.
LEMMA WholeAccounted ==
    ASSUME ReceptionAssumption, NEW F, NEW n \in {0, 1}, NEW h, h = IHeader(n),
           NEW f \in Sendable, f \in F
    PROVE  HeadersAccounted(Accounted(F, h), h, Bytes(f), FALSE)
<1>1. /\ Bytes(f) \in Seq(Byte) /\ Bytes(f)[1] = FLAG /\ Bytes(f)[3] = ControlByte(f)
      /\ Len(Bytes(f)) = Len(Body(f)) + 5
    BY FrameBytes
<1>2. FLAG # A_SEND
    BY StuffingMarks
<1>3. CASE f.c = "I"
    <2>1. ControlByte(f) # A_SEND
        <3>1. f.n \in {0, 1} /\ ControlByte(f) = C_I(f.n)
            BY <1>3, SendableFields DEF ControlByte
        <3>2. 0 \notin C_I(f.n) /\ 0 \in A_SEND
            BY DEF C_I, A_SEND
        <3> QED BY <3>1, <3>2
    <2>2. EndsWith(Bytes(f), Body(f), 0)
        BY FrameEndsWith
    <2>3. Bytes(f)[1] # A_SEND /\ Bytes(f)[3] # A_SEND
        BY <1>1, <1>2, <2>1
    <2> QED BY <1>1, <1>3, <2>2, <2>3, FrameAccounted
<1>4. CASE f.c # "I"
    <2>1. Len(Bytes(f)) <= 5
        <3>1. Len(Body(f)) = 0
            BY <1>4, BodyBytes
        <3> QED BY <1>1, <3>1
    <2> QED BY <1>1, <1>2, <2>1, FewAccounted
<1> QED BY <1>3, <1>4

\* A whole frame comes: the FLAG in front of it is the end of what data there are.
LEMMA WholeComes ==
    ASSUME ReceptionAssumption, NEW F, NEW n \in {0, 1}, NEW h, h = IHeader(n),
           NEW f \in Sendable, f \in F, NEW x, IsAutomaton(x),
           x.state = "DATA" => x.data \in Accounted(F, h)
    PROVE  DataComes(Accounted(F, h), h, x, Bytes(f))
<1>1. PICK D : D = Accounted(F, h)
    OBVIOUS
<1>2. PICK w \in Seq(Byte) : w = Bytes(f) /\ w[1] = FLAG /\ Len(w) > 0
    <2>1. Bytes(f) \in Seq(Byte) /\ Bytes(f)[1] = FLAG /\ Len(Bytes(f)) = Len(Body(f)) + 5
        BY FrameBytes
    <2>2. Len(Body(f)) \in Nat
        BY BodyBytes
    <2> QED BY <2>1, <2>2
<1>3. h[2] # FLAG /\ h[3] # FLAG
    BY IHeaderIs
<1>4. HeadersAccounted(D, h, w, x.state \in {"DATA", "C_UNXP_RCV", "C_SET_RCV"})
    BY <1>1, <1>2, WholeAccounted, NotPassing
<1>5. x.state = "DATA" => AccountedWith(D, x.data, w)
    <2> SUFFICES ASSUME x.state = "DATA" PROVE AccountedWith(D, x.data, w)
        OBVIOUS
    <2>1. 0 \in 0..Len(w) /\ (0 < Len(w) => w[0 + 1] = FLAG) /\ \A i \in 1..0 : w[i] # FLAG
        BY <1>2
    <2>2. x.data \in Seq(Byte) /\ x.data \o SubSeq(w, 1, 0) = x.data
        BY SubSeqEmpty, ConcatEmptySeq DEF IsAutomaton
    <2> QED BY <1>1, <2>1, <2>2, WithThose
<1> QED BY <1>1, <1>2, <1>3, <1>4, <1>5 DEF DataComes

\* A supervisory frame is hit anywhere, or an I-frame in its header.
LEMMA HeaderHit ==
    ASSUME ReceptionAssumption, NEW F, NEW n \in {0, 1}, NEW h, h = IHeader(n),
           NEW f \in Sendable, f \in F, NEW i \in 1..Len(Bytes(f)), NEW bit \in 0..7,
           f.c = "I" => i <= 4,
           NEW w, w = [Bytes(f) EXCEPT ![i] = Flipped(Bytes(f)[i], bit)]
    PROVE  HeadersAccounted(Accounted(F, h), h, w, FALSE)
<1>1. PICK b \in Seq(Byte), l \in Nat :
          /\ b = Bytes(f) /\ l = Len(Body(f)) /\ Len(b) = l + 5
          /\ b[1] = FLAG /\ b[3] = ControlByte(f)
    <2>1. PICK b \in Seq(Byte) :
              /\ b = Bytes(f) /\ Len(b) = Len(Body(f)) + 5
              /\ b[1] = FLAG /\ b[3] = ControlByte(f)
        BY FrameBytes
    <2>2. PICK l \in Nat : l = Len(Body(f))
        <3>1. Body(f) \in Seq(Byte)
            BY BodyBytes
        <3>2. Len(Body(f)) \in Nat
            BY <3>1
        <3> QED BY <3>2
    <2> QED BY <2>1, <2>2
<1>2. i \in 1..l + 5 /\ w = [b EXCEPT ![i] = Flipped(b[i], bit)]
    BY <1>1
<1>3. /\ w \in Seq(Byte) /\ Len(w) = l + 5 /\ w[i] = Flipped(b[i], bit)
      /\ \A j \in 1..l + 5 : j # i => w[j] = b[j]
    <2>1. b[i] \in Byte /\ Flipped(b[i], bit) \in Byte
        BY <1>1, <1>2, ElementOfSeq, FlippedIsByte
    <2> QED BY <1>1, <1>2, <2>1, ExceptSeq
<1>4. w[1] # A_SEND
    <2>1. w[1] \in {FLAG, Flipped(FLAG, bit)}
        <3>1. 1 \in 1..l + 5
            BY <1>1
        <3> QED BY <1>1, <1>3, <3>1
    <2> QED BY <2>1, HitBits
<1>5. CASE f.c = "I"
    <2>1. i <= 4
        BY <1>5
    <2>2. w[3] # A_SEND
        <3>1. f.n \in {0, 1} /\ b[3] = C_I(f.n)
            BY <1>1, <1>5, SendableFields DEF ControlByte
        <3>2. w[3] \in {b[3], Flipped(b[3], bit)}
            <4>1. 3 \in 1..l + 5
                BY <1>1
            <4> QED BY <1>3, <4>1
        <3> QED BY <3>1, <3>2, HitBits
    <2>3. EndsWith(w, Body(f), 0)
        <3>1. EndsWith(b, Body(f), 0)
            BY <1>1, FrameEndsWith
        <3>2. /\ b[l + 5] = FLAG
              /\ \A j \in 1..l : Body(f)[j] # FLAG /\ (j > 0 => b[j + 4] = Body(f)[j])
            BY <1>1, <3>1 DEF EndsWith
        <3>3. \A j \in 1..l : j + 4 \in 1..l + 5 /\ j + 4 # i
            BY <1>2, <2>1
        <3>4. l + 5 \in 1..l + 5 /\ l + 5 # i
            BY <1>2, <2>1
        <3>5. w[l + 5] = FLAG /\ \A j \in 1..l : w[j + 4] = b[j + 4]
            BY <1>3, <3>2, <3>3, <3>4
        <3> QED BY <1>1, <1>3, <3>2, <3>5 DEF EndsWith
    <2> QED BY <1>3, <1>4, <1>5, <2>2, <2>3, FrameAccounted
<1>6. CASE f.c # "I"
    <2>1. l = 0
        BY <1>1, <1>6, BodyBytes
    <2>2. Len(w) = 5
        <3>1. l + 5 = 5
            BY <2>1
        <3> QED BY <1>3, <3>1
    <2>3. Len(w) <= 5
        <3>1. PICK j : j = Len(w)
            OBVIOUS
        <3>2. j <= 5
            BY <2>2, <3>1
        <3> QED BY <3>1, <3>2
    <2> QED BY <1>3, <1>4, <2>3, FewAccounted
<1> QED BY <1>5, <1>6

\* A supervisory frame is cut.
LEMMA HeaderCut ==
    ASSUME ReceptionAssumption, NEW F, NEW n \in {0, 1}, NEW h, h = IHeader(n),
           NEW f \in Sendable, f.c # "I", NEW i \in 1..Len(Bytes(f)) - 1
    PROVE  HeadersAccounted(Accounted(F, h), h, SubSeq(Bytes(f), 1, i), FALSE)
<1>1. PICK b \in Seq(Byte) : b = Bytes(f) /\ b[1] = FLAG /\ Len(b) = 5
    <2>1. Len(Body(f)) = 0
        BY BodyBytes
    <2>2. Bytes(f) \in Seq(Byte) /\ Bytes(f)[1] = FLAG /\ Len(Bytes(f)) = Len(Body(f)) + 5
        BY FrameBytes
    <2> QED BY <2>1, <2>2
<1>2. i \in 1..4 /\ i \in Nat
    BY <1>1
<1> DEFINE w == SubSeq(b, 1, i)
<1>3. w \in Seq(Byte) /\ Len(w) = i /\ \A j \in 1..i : w[j] = b[j]
    <2>1. 1 \in Nat \ {0} /\ i <= Len(b) /\ 1 <= i /\ (i - 1) + 1 = i
        BY <1>1, <1>2
    <2>2. /\ w \in Seq(Byte) /\ Len(w) = IF 1 <= i THEN (i - 1) + 1 ELSE 0
          /\ \A j \in 1..Len(w) : w[j] = b[(1 + j) - 1]
        BY <1>2, <2>1, PartIs
    <2> HIDE DEF w
    <2>3. \A j \in 1..i : (1 + j) - 1 = j
        BY <1>2
    <2> QED BY <2>1, <2>2, <2>3
<1> HIDE DEF w
<1>4. Len(w) <= 5 /\ w[1] # A_SEND
    <2>1. 1 \in 1..i
        BY <1>2
    <2>2. w[1] = FLAG
        BY <1>1, <1>3, <2>1
    <2> QED BY <1>2, <1>3, <2>2, StuffingMarks
<1>5. HeadersAccounted(Accounted(F, h), h, w, FALSE)
    BY <1>3, <1>4, FewAccounted
<1> QED BY <1>1, <1>5 DEF w

\* Behind j bytes, and k more.
LEMMA BehindBehind ==
    ASSUME NEW w \in Seq(Byte), NEW j \in Nat, NEW k \in Nat, j <= Len(w)
    PROVE  Behind(Behind(w, j), k) = Behind(w, j + k)
<1> DEFINE v == Behind(w, j)
           s == Behind(v, k)
           t == Behind(w, j + k)
<1>1. PICK n \in Nat : n = Len(w) /\ j <= n
    OBVIOUS
<1>2. v \in Seq(Byte) /\ Len(v) = n - j /\ \A i \in 1..Len(v) : v[i] = w[j + i]
    BY <1>1, BehindIs
<1> HIDE DEF v
<1>3. /\ s \in Seq(Byte) /\ Len(s) = IF k <= Len(v) THEN Len(v) - k ELSE 0
      /\ \A i \in 1..Len(s) : s[i] = v[k + i]
    BY <1>2, BehindIs
<1>4. j + k \in Nat
    OBVIOUS
<1>5. /\ t \in Seq(Byte) /\ Len(t) = IF j + k <= Len(w) THEN Len(w) - (j + k) ELSE 0
      /\ \A i \in 1..Len(t) : t[i] = w[(j + k) + i]
    BY <1>4, BehindIs
<1> HIDE DEF s, t
<1>6. Len(s) = Len(t)
    BY <1>1, <1>2, <1>3, <1>5
<1>7. ASSUME NEW i \in 1..Len(s) PROVE s[i] = t[i]
    <2>1. k + i \in 1..n - j /\ j + (k + i) = (j + k) + i
        BY <1>1, <1>2, <1>3
    <2> QED BY <1>2, <1>3, <1>5, <1>6, <2>1
<1>8. s = t
    BY <1>3, <1>5, <1>6, <1>7, SeqEqual
<1> QED BY <1>8 DEF s, t, v

\* Of the data e and the FLAG behind them, v has all but byte j.
AllBut(v, e, j) ==
    /\ Len(v) = Len(e) + 1
    /\ \A i \in 1..Len(e) : e[i] # FLAG /\ (i # j => v[i] = e[i])
    /\ j # Len(e) + 1 => v[Len(e) + 1] = FLAG

\* There is no header behind a FLAG when the only FLAG is the last byte.
LEMMA NoHeaders ==
    ASSUME NEW D, NEW h, NEW v \in Seq(Byte), \A i \in 1..Len(v) - 1 : v[i] # FLAG
    PROVE  HeadersAccounted(D, h, v, TRUE)
<1> SUFFICES ASSUME NEW k \in 3..Len(v), NEW i \in 1..k - 3, v[i] = FLAG
             PROVE  FALSE
    BY DEF HeadersAccounted
<1>1. i \in 1..Len(v) - 1
    <2>1. Len(v) \in Nat
        OBVIOUS
    <2> QED BY <2>1
<1> QED BY <1>1

\* The last FLAG is hit: the data run to the end of what there is.
LEMMA LastHit ==
    ASSUME ReceptionAssumption, NEW F, NEW h, NEW f \in Sendable, f \in F, f.c = "I",
           NEW v \in Seq(Byte), NEW bit \in 0..7, AllBut(v, Body(f), Len(Body(f)) + 1),
           v[Len(Body(f)) + 1] = Flipped(FLAG, bit)
    PROVE  /\ AccountedWith(Accounted(F, h), <<>>, v)
           /\ HeadersAccounted(Accounted(F, h), h, v, TRUE)
<1>1. PICK e \in Seq(Byte) : e = Body(f)
    <2>1. Body(f) \in Seq(Byte)
        BY BodyBytes
    <2> QED BY <2>1
<1>2. PICK l \in Nat : l = Len(e)
    OBVIOUS
<1>3. PICK x \in Byte : x = Flipped(FLAG, bit) /\ x # FLAG
    <2>1. Flipped(FLAG, bit) \in Byte
        BY Codes, FlippedIsByte
    <2>2. Flipped(FLAG, bit) # FLAG
        BY HitBits
    <2> QED BY <2>1, <2>2
<1>4. /\ Len(v) = l + 1 /\ v[l + 1] = x
      /\ \A i \in 1..l : e[i] # FLAG /\ (i # l + 1 => v[i] = e[i])
    BY <1>1, <1>2, <1>3 DEF AllBut
<1>5. \A i \in 1..l : v[i] = e[i] /\ v[i] # FLAG
    <2>1. \A i \in 1..l : i # l + 1
        OBVIOUS
    <2> QED BY <1>4, <2>1
<1> DEFINE d == Append(e, x)
<1>6. d \in Seq(Byte) /\ Len(d) = l + 1 /\ d[l + 1] = x /\ \A i \in 1..l : d[i] = e[i]
    BY <1>1, <1>2, <1>3
<1>7. d \in Accounted(F, h)
    BY <1>1, <1>3, EndHitAccounted
<1> HIDE DEF d
<1>8. Until(v, d)
    <2>1. ASSUME NEW i \in 1..l + 1 PROVE d[i] # FLAG /\ v[i] = d[i]
        <3>1. i \in 1..l \/ i = l + 1
            OBVIOUS
        <3> QED BY <1>3, <1>4, <1>5, <1>6, <3>1
    <2>2. Len(d) <= Len(v) /\ ~ (Len(d) < Len(v))
        BY <1>4, <1>6
    <2> QED BY <1>6, <2>1, <2>2 DEF Until
<1>9. AccountedWith(Accounted(F, h), <<>>, v)
    BY <1>6, <1>7, <1>8, UpToFlag
<1>10. \A i \in 1..Len(v) - 1 : v[i] # FLAG
    BY <1>4, <1>5
<1> QED BY <1>9, <1>10, NoHeaders

\* Byte j of the data is hit; it may have become a FLAG, with the data cut there and
\* the rest read as whatever the automaton finds in it.
LEMMA InnerHit ==
    ASSUME ReceptionAssumption, NEW F, NEW n \in {0, 1}, NEW h, h = IHeader(n),
           NEW f \in Sendable, f \in F, f.c = "I",
           NEW w \in Seq(Byte), NEW v, v = Behind(w, 4), NEW bit \in 0..7,
           NEW j \in 1..Len(Body(f)), AllBut(v, Body(f), j), EndsWith(w, Body(f), j),
           v[j] = Flipped(Body(f)[j], bit)
    PROVE  /\ AccountedWith(Accounted(F, h), <<>>, v)
           /\ HeadersAccounted(Accounted(F, h), h, v, TRUE)
<1>1. PICK e \in Seq(Byte) : e = Body(f)
    <2>1. Body(f) \in Seq(Byte)
        BY BodyBytes
    <2> QED BY <2>1
<1>2. PICK l \in Nat : l = Len(e) /\ j \in 1..l /\ j \in Nat
    BY <1>1
<1>3. PICK D : D = Accounted(F, h)
    OBVIOUS
<1>4. /\ Len(v) = l + 1 /\ (j # l + 1 => v[l + 1] = FLAG)
      /\ \A i \in 1..l : e[i] # FLAG /\ (i # j => v[i] = e[i])
    BY <1>1, <1>2 DEF AllBut
<1>5. v[l + 1] = FLAG
    <2>1. j # l + 1
        BY <1>2
    <2> QED BY <1>4, <2>1
<1>6. v \in Seq(Byte)
    BY BehindIs
<1>7. PICK x \in Byte : x = Flipped(e[j], bit) /\ v[j] = x
    <2>1. e[j] \in Byte
        BY <1>2, ElementOfSeq
    <2>2. Flipped(e[j], bit) \in Byte
        BY <2>1, FlippedIsByte
    <2> QED BY <1>1, <2>2
<1>8. CASE x # FLAG
    <2> DEFINE g == [e EXCEPT ![j] = x]
    <2>1. g \in Seq(Byte) /\ Len(g) = l /\ g[j] = x /\ \A i \in 1..l : i # j => g[i] = e[i]
        BY <1>2, <1>7, ExceptSeq
    <2>2. g \in D
        <3>1. Hit(g, e)
            BY <1>2, <1>7 DEF Hit
        <3> QED BY <1>1, <1>3, <3>1, HitAccounted
    <2> HIDE DEF g
    <2>3. \A i \in 1..l : g[i] # FLAG /\ v[i] = g[i]
        BY <1>4, <1>7, <1>8, <2>1
    <2>4. Until(v, g)
        <3>1. l <= l + 1
            OBVIOUS
        <3> QED BY <1>4, <1>5, <2>1, <2>3, <3>1 DEF Until
    <2>5. AccountedWith(D, <<>>, v)
        BY <1>6, <2>1, <2>2, <2>4, UpToFlag
    <2>6. \A i \in 1..Len(v) - 1 : v[i] # FLAG
        <3>1. (l + 1) - 1 = l
            OBVIOUS
        <3> QED BY <1>4, <2>3, <3>1
    <2>7. HeadersAccounted(D, h, v, TRUE)
        BY <1>6, <2>6, NoHeaders
    <2> QED BY <1>3, <2>5, <2>7
<1>9. CASE x = FLAG
    <2>1. AccountedWith(D, <<>>, v)
        <3>1. PICK i \in 0..l : i = j - 1 /\ i + 1 = j
            BY <1>2
        <3> DEFINE d == SubSeq(e, 1, i)
        <3>2. d \in Seq(Byte) /\ Len(d) = i /\ \A k \in 1..i : d[k] = e[k]
            <4>1. 1 \in Nat \ {0} /\ i \in Nat /\ i <= Len(e)
                BY <1>2, <3>1
            <4>2. /\ d \in Seq(Byte) /\ Len(d) = IF 1 <= i THEN (i - 1) + 1 ELSE 0
                  /\ \A k \in 1..Len(d) : d[k] = e[(1 + k) - 1]
                BY <4>1, PartIs
            <4> HIDE DEF d
            <4>3. Len(d) = i
                BY <4>1, <4>2
            <4>4. \A k \in 1..i : (1 + k) - 1 = k
                BY <4>1
            <4> QED BY <4>2, <4>3, <4>4
        <3>3. d \in D
            BY <1>1, <1>2, <1>3, CutAccounted
        <3> HIDE DEF d
        <3>4. Until(v, d)
            <4>1. i <= l + 1 /\ \A k \in 1..i : k \in 1..l /\ k # j
                BY <1>2, <3>1
            <4>2. \A k \in 1..i : d[k] # FLAG /\ v[k] = d[k]
                BY <1>4, <3>2, <4>1
            <4>3. v[i + 1] = FLAG
                BY <1>7, <1>9, <3>1
            <4> QED BY <1>4, <3>2, <4>1, <4>2, <4>3 DEF Until
        <3> QED BY <1>6, <3>2, <3>3, <3>4, UpToFlag
    <2>2. HeadersAccounted(D, h, v, TRUE)
        <3> SUFFICES ASSUME NEW k \in 3..Len(v), HeaderAt(h, v, k), NEW a \in 1..k - 3, v[a] = FLAG
                     PROVE  AccountedWith(D, <<>>, Behind(v, k))
            BY DEF HeadersAccounted
        <3>1. k \in 3..l + 1 /\ k \in Nat /\ a \in 1..l /\ a <= k - 3
            BY <1>4
        <3>2. a = j
            BY <1>4, <3>1
        <3>3. h[1] = v[(k - 3) + 1] /\ h[2] = v[(k - 3) + 2] /\ h[3] = v[(k - 3) + 3]
            BY DEF HeaderAt
        <3>4. k # l + 1
            <4>1. (k - 3) + 3 = k
                BY <3>1
            <4>2. h[3] # FLAG
                BY IHeaderIs, SMTT(30)
            <4> QED BY <1>5, <3>3, <4>1, <4>2
        <3>5. PICK kk \in 3..Len(e) : kk = k
            <4>1. k \in 3..l
                BY <3>1, <3>4
            <4> QED BY <1>2, <4>1
        <3>6. HeaderAt(h, e, kk)
            <4> SUFFICES ASSUME NEW i \in 1..3 PROVE e[(kk - 3) + i] = h[i]
                BY DEF HeaderAt
            <4>1. (k - 3) + i \in 1..l /\ (k - 3) + i # j
                BY <3>1, <3>2, <3>4
            <4>2. v[(k - 3) + i] = h[i]
                BY DEF HeaderAt
            <4> QED BY <1>4, <3>5, <4>1, <4>2
        <3>7. Behind(e, kk) \in D
            BY <1>1, <1>3, <3>6, InnerAccounted
        <3>8. Until(Behind(w, kk + 4), Behind(e, kk)) /\ Behind(e, kk) \in Seq(Byte)
            <4>1. EndsWith(w, e, kk)
                <5>1. \A i \in 1..l : i > kk => i > j
                    BY <3>1, <3>2, <3>5, <1>2
                <5>2. /\ Len(w) = l + 5 /\ w[l + 5] = FLAG
                      /\ \A i \in 1..l : e[i] # FLAG /\ (i > j => w[i + 4] = e[i])
                    BY <1>1, <1>2 DEF EndsWith
                <5> QED BY <1>2, <5>1, <5>2 DEF EndsWith
            <4>2. kk \in 0..Len(e)
                BY <3>5
            <4> QED BY <4>1, <4>2, EndIsUntil
        <3>9. Behind(v, kk) = Behind(w, kk + 4)
            <4>1. 4 <= Len(w) /\ 4 \in Nat
                <5>1. Len(w) = l + 5
                    BY <1>1, <1>2 DEF EndsWith
                <5> QED BY <5>1
            <4>2. kk \in Nat /\ 4 + kk = kk + 4
                BY <3>5, <3>1
            <4>3. Behind(v, kk) = Behind(w, 4 + kk)
                BY <4>1, <4>2, BehindBehind
            <4> QED BY <4>2, <4>3
        <3>10. Behind(v, k) \in Seq(Byte)
            BY <1>6, <3>1, BehindIs
        <3> QED BY <3>5, <3>7, <3>8, <3>9, <3>10, UpToFlag
    <2> QED BY <1>3, <2>1, <2>2
<1> QED BY <1>8, <1>9

\* An I-frame is hit behind its header.
LEMMA DataHit ==
    ASSUME ReceptionAssumption, NEW F, NEW n \in {0, 1}, NEW h, h = IHeader(n),
           NEW f \in Sendable, f \in F, f.c = "I", NEW i \in 5..Len(Bytes(f)), NEW bit \in 0..7,
           NEW w, w = [Bytes(f) EXCEPT ![i] = Flipped(Bytes(f)[i], bit)]
    PROVE  HeaderAhead(Accounted(F, h), h, f, 0, w)
<1>1. PICK b \in Seq(Byte), l \in Nat : b = Bytes(f) /\ l = Len(Body(f)) /\ Len(b) = l + 5
    <2>1. PICK b \in Seq(Byte) : b = Bytes(f) /\ Len(b) = Len(Body(f)) + 5
        BY FrameBytes
    <2>2. PICK l \in Nat : l = Len(Body(f))
        <3>1. Body(f) \in Seq(Byte)
            BY BodyBytes
        <3>2. Len(Body(f)) \in Nat
            BY <3>1
        <3> QED BY <3>2
    <2> QED BY <2>1, <2>2
<1>2. i \in 5..l + 5 /\ w = [b EXCEPT ![i] = Flipped(b[i], bit)]
    BY <1>1
<1>3. PICK j \in 1..l + 1 : j = i - 4 /\ j + 4 = i
    BY <1>2
<1>4. /\ w \in Seq(Byte) /\ Len(w) = l + 5 /\ w[i] = Flipped(b[i], bit)
      /\ \A k \in 1..l + 5 : k # i => w[k] = b[k]
    <2>1. i \in 1..l + 5
        BY <1>2
    <2>2. b[i] \in Byte
        BY <1>1, <2>1, ElementOfSeq
    <2>3. Flipped(b[i], bit) \in Byte
        BY <2>2, FlippedIsByte
    <2> QED BY <1>1, <1>2, <2>1, <2>3, ExceptSeq
<1> DEFINE v == Behind(w, 4)
<1>5. v \in Seq(Byte) /\ Len(v) = l + 1 /\ \A k \in 1..l + 1 : v[k] = w[k + 4]
    <2>1. /\ v \in Seq(Byte) /\ Len(v) = IF 4 <= Len(w) THEN Len(w) - 4 ELSE 0
          /\ \A k \in 1..Len(v) : v[k] = w[4 + k]
        BY <1>4, BehindIs, ZenonT(30)
    <2> HIDE DEF v
    <2>2. Len(v) = l + 1
        BY <1>4, <2>1
    <2>3. \A k \in 1..l + 1 : k + 4 = 4 + k
        OBVIOUS
    <2> QED BY <2>1, <2>2, <2>3
<1> HIDE DEF v
<1>6. /\ b[l + 5] = FLAG
      /\ \A k \in 1..l : Body(f)[k] # FLAG /\ b[k + 4] = Body(f)[k]
    <2>1. b[l + 5] = FLAG
        BY <1>1, FrameBytes
    <2>2. \A k \in 1..Len(Body(f)) : Body(f)[k] # FLAG /\ b[k + 4] = Body(f)[k]
        BY <1>1, FrameBytes, BodyBytes
    <2> QED BY <1>1, <2>1, <2>2
<1>7. AllBut(v, Body(f), j)
    <2>1. ASSUME NEW k \in 1..l, k # j PROVE v[k] = Body(f)[k]
        <3>1. k + 4 \in 1..l + 5 /\ k + 4 # i /\ k \in 1..l + 1
            BY <1>3, <2>1
        <3>2. w[k + 4] = b[k + 4]
            BY <1>4, <3>1
        <3>3. b[k + 4] = Body(f)[k]
            BY <1>6
        <3> QED BY <1>5, <3>1, <3>2, <3>3
    <2>2. j # l + 1 => v[l + 1] = FLAG
        <3>1. j # l + 1 => l + 5 # i
            BY <1>3
        <3>2. l + 5 \in 1..l + 5 /\ l + 1 \in 1..l + 1 /\ (l + 1) + 4 = l + 5
            OBVIOUS
        <3> QED BY <1>4, <1>5, <1>6, <3>1, <3>2
    <2> QED BY <1>1, <1>5, <1>6, <2>1, <2>2 DEF AllBut
<1>8. v[j] = Flipped(b[j + 4], bit)
    BY <1>3, <1>4, <1>5
<1>9. /\ AccountedWith(Accounted(F, h), <<>>, v)
      /\ HeadersAccounted(Accounted(F, h), h, v, TRUE)
    <2>1. CASE j = l + 1
        <3>1. j = Len(Body(f)) + 1 /\ j + 4 = l + 5
            BY <1>1, <2>1
        <3>2. v[j] = Flipped(FLAG, bit)
            BY <1>6, <1>8, <3>1
        <3>3. AllBut(v, Body(f), Len(Body(f)) + 1) /\ v[Len(Body(f)) + 1] = Flipped(FLAG, bit)
            BY <1>7, <3>1, <3>2
        <3> QED BY <1>5, <3>3, LastHit
    <2>2. CASE j # l + 1
        <3>1. j \in 1..l
            BY <2>2
        <3>2. j \in 1..Len(Body(f)) /\ v[j] = Flipped(Body(f)[j], bit)
            BY <1>1, <1>6, <1>8, <3>1
        <3>3. EndsWith(w, Body(f), j)
            <4>1. w[l + 5] = FLAG
                <5>1. l + 5 # i /\ l + 5 \in 1..l + 5
                    BY <1>3, <2>2
                <5> QED BY <1>4, <1>6, <5>1
            <4>2. ASSUME NEW k \in 1..l, k > j PROVE w[k + 4] = Body(f)[k]
                <5>1. k + 4 # i /\ k + 4 \in 1..l + 5
                    BY <1>3, <4>2
                <5>2. w[k + 4] = b[k + 4]
                    BY <1>4, <5>1
                <5> QED BY <1>6, <5>2
            <4> QED BY <1>1, <1>4, <1>6, <4>1, <4>2 DEF EndsWith
        <3>4. v = Behind(w, 4)
            BY DEF v
        <3> QED BY <1>4, <1>7, <3>2, <3>3, <3>4, InnerHit
    <2> QED BY <2>1, <2>2
<1>10. ASSUME NEW k \in 1..Len(w), k + 0 <= 4 PROVE w[k] = b[k + 0]
    <2>1. k + 0 = k /\ k \in 1..l + 5 /\ k # i
        BY <1>2, <1>4, <1>10
    <2> QED BY <1>4, <2>1
<1>11. 4 - 0 = 4
    OBVIOUS
<1> QED BY <1>1, <1>9, <1>10, <1>11 DEF HeaderAhead, v

\* An I-frame is cut.
LEMMA DataCut ==
    ASSUME ReceptionAssumption, NEW F, NEW h, NEW f \in Sendable, f \in F, f.c = "I",
           NEW i \in 1..Len(Bytes(f)) - 1, NEW w, w = SubSeq(Bytes(f), 1, i)
    PROVE  HeaderAhead(Accounted(F, h), h, f, 0, w)
<1>1. PICK b \in Seq(Byte), l \in Nat : b = Bytes(f) /\ l = Len(Body(f)) /\ Len(b) = l + 5
    <2>1. PICK b \in Seq(Byte) : b = Bytes(f) /\ Len(b) = Len(Body(f)) + 5
        BY FrameBytes
    <2>2. PICK l \in Nat : l = Len(Body(f))
        <3>1. Body(f) \in Seq(Byte)
            BY BodyBytes
        <3>2. Len(Body(f)) \in Nat
            BY <3>1
        <3> QED BY <3>2
    <2> QED BY <2>1, <2>2
<1>2. i \in 1..l + 4 /\ i \in Nat
    BY <1>1
<1>3. w \in Seq(Byte) /\ Len(w) = i /\ \A k \in 1..i : w[k] = b[k]
    <2>1. 1 \in Nat \ {0} /\ i <= Len(b) /\ 1 <= i /\ (i - 1) + 1 = i
        BY <1>1, <1>2
    <2>2. /\ w \in Seq(Byte) /\ Len(w) = IF 1 <= i THEN (i - 1) + 1 ELSE 0
          /\ \A k \in 1..Len(w) : w[k] = b[(1 + k) - 1]
        BY <1>1, <1>2, <2>1, PartIs
    <2>3. \A k \in 1..i : (1 + k) - 1 = k
        BY <1>2
    <2> QED BY <2>1, <2>2, <2>3
<1>4. PICK e \in Seq(Byte) : e = Body(f) /\ \A k \in 1..l : e[k] # FLAG /\ b[k + 4] = e[k]
    <2>1. Body(f) \in Seq(Byte)
        BY BodyBytes
    <2>2. \A k \in 1..Len(Body(f)) : Body(f)[k] # FLAG /\ b[k + 4] = Body(f)[k]
        BY <1>1, FrameBytes, BodyBytes
    <2> QED BY <1>1, <2>1, <2>2
<1>5. PICK j \in 0..l : j = (IF i <= 4 THEN 0 ELSE i - 4) /\ j \in Nat
    BY <1>2
<1> DEFINE v == Behind(w, 4)
           d == SubSeq(e, 1, j)
<1>6. v \in Seq(Byte) /\ Len(v) = j /\ \A k \in 1..j : v[k] = w[4 + k]
    <2>1. /\ v \in Seq(Byte) /\ Len(v) = IF 4 <= Len(w) THEN Len(w) - 4 ELSE 0
          /\ \A k \in 1..Len(v) : v[k] = w[4 + k]
        <3>1. 4 \in Nat
            OBVIOUS
        <3> QED BY <1>3, <3>1, BehindIs
    <2> HIDE DEF v
    <2>2. Len(v) = j
        BY <1>2, <1>3, <1>5, <2>1
    <2> QED BY <2>1, <2>2
<1>7. d \in Seq(Byte) /\ Len(d) = j /\ \A k \in 1..j : d[k] = e[k]
    <2>1. 1 \in Nat \ {0} /\ j <= Len(e)
        BY <1>1, <1>4, <1>5
    <2>2. /\ d \in Seq(Byte) /\ Len(d) = IF 1 <= j THEN (j - 1) + 1 ELSE 0
          /\ \A k \in 1..Len(d) : d[k] = e[(1 + k) - 1]
        BY <1>5, <2>1, PartIs
    <2> HIDE DEF d
    <2>3. Len(d) = j
        BY <1>5, <2>2
    <2>4. \A k \in 1..j : (1 + k) - 1 = k
        BY <1>5
    <2> QED BY <2>2, <2>3, <2>4
<1>8. d \in Accounted(F, h)
    BY <1>1, <1>4, <1>5, CutAccounted
<1> HIDE DEF v, d
<1>9. ASSUME NEW k \in 1..j PROVE d[k] # FLAG /\ v[k] = d[k]
    <2>1. k \in 1..l /\ 4 + k \in 1..i /\ 4 + k = k + 4
        BY <1>2, <1>5
    <2>2. v[k] = b[k + 4]
        <3>1. v[k] = w[4 + k]
            BY <1>6
        <3>2. w[4 + k] = b[4 + k]
            BY <1>3, <2>1
        <3> QED BY <2>1, <3>1, <3>2
    <2> QED BY <1>4, <1>7, <2>1, <2>2
<1>10. AccountedWith(Accounted(F, h), <<>>, v)
    <2>1. Until(v, d)
        BY <1>6, <1>7, <1>9 DEF Until
    <2> QED BY <1>6, <1>7, <1>8, <2>1, UpToFlag
<1>11. HeadersAccounted(Accounted(F, h), h, v, TRUE)
    <2>1. \A k \in 1..Len(v) - 1 : k \in 1..j
        BY <1>6
    <2>2. \A k \in 1..Len(v) - 1 : v[k] # FLAG
        BY <1>9, <2>1
    <2> QED BY <1>6, <2>2, NoHeaders
<1>12. \A k \in 1..Len(w) : w[k] = b[k + 0]
    <2>1. \A k \in 1..i : k + 0 = k
        BY <1>2
    <2> QED BY <1>3, <2>1
<1>13. 4 - 0 = 4
    OBVIOUS
<1> QED BY <1>1, <1>10, <1>11, <1>12, <1>13 DEF HeaderAhead, v

-----------------------------------------------------------------------------
(* The automaton and what is accounted for *)

\* Between two frames, with nothing but accounted headers to come.
LEMMA RestComes ==
    ASSUME NEW D, NEW h, NEW w, HeadersAccounted(D, h, w, FALSE),
           NEW x, x.state \in {"START", "STOP_UA"}
    PROVE  DataComes(D, h, x, w)
<1>1. /\ x.state # "DATA" /\ x.state # "A_RCV" /\ x.state # "C_RCV"
    OBVIOUS
<1>2. HeadersAccounted(D, h, w, x.state \in {"DATA", "C_UNXP_RCV", "C_SET_RCV"})
    BY NotPassing
<1> QED BY <1>1, <1>2 DEF DataComes

\* One byte of the header further.
LEMMA HeaderOn ==
    ASSUME NEW D, NEW h, NEW f, NEW k \in 0..2, NEW w \in Seq(Byte), w # <<>>,
           HeaderAhead(D, h, f, k, w)
    PROVE  HeaderAhead(D, h, f, k + 1, Tail(w))
<1>1. /\ Tail(w) \in Seq(Byte) /\ Len(w) \in Nat /\ Len(Tail(w)) = Len(w) - 1
      /\ \A i \in 1..Len(w) - 1 : Tail(w)[i] = w[i + 1]
    BY TailIs
<1>2. \A i \in 1..Len(w) : i + k <= 4 => w[i] = Bytes(f)[i + k]
    BY DEF HeaderAhead
<1>3. ASSUME NEW i \in 1..Len(Tail(w)), i + (k + 1) <= 4 PROVE Tail(w)[i] = Bytes(f)[i + (k + 1)]
    <2>1. i \in 1..Len(w) - 1 /\ i + 1 \in 1..Len(w) /\ (i + 1) + k = i + (k + 1)
        BY <1>1
    <2>2. w[i + 1] = Bytes(f)[(i + 1) + k]
        BY <1>2, <1>3, <2>1
    <2> QED BY <1>1, <2>1, <2>2
<1>4. Behind(Tail(w), 4 - (k + 1)) = Behind(w, 4 - k)
    <2>1. PICK j \in Nat : j = 4 - (k + 1) /\ j + 1 = 4 - k
        OBVIOUS
    <2>2. Behind(Tail(w), j) = Behind(w, j + 1)
        BY BehindTail
    <2> QED BY <2>1, <2>2
<1>5. /\ AccountedWith(D, <<>>, Behind(w, 4 - k))
      /\ HeadersAccounted(D, h, Behind(w, 4 - k), TRUE)
    BY DEF HeaderAhead
<1> QED BY <1>3, <1>4, <1>5 DEF HeaderAhead

\* The last byte of the header, and what comes are the data.
LEMMA HeaderEnds ==
    ASSUME NEW D, NEW h, NEW f, NEW w \in Seq(Byte), w # <<>>, HeaderAhead(D, h, f, 3, w),
           NEW x, x.state \in {"DATA", "C_UNXP_RCV"}, x.state = "DATA" => x.data = <<>>
    PROVE  DataComes(D, h, x, Tail(w))
<1>1. Behind(w, 4 - 3) = Tail(w)
    <2>1. 4 - 3 = 0 + 1 /\ 0 \in Nat
        OBVIOUS
    <2>2. Behind(Tail(w), 0) = Behind(w, 0 + 1)
        BY <2>1, BehindTail
    <2>3. Behind(Tail(w), 0) = Tail(w)
        <3>1. Tail(w) \in Seq(Byte)
            BY TailIs
        <3> QED BY <3>1, SubSeqFull DEF Behind
    <2> QED BY <2>1, <2>2, <2>3
<1>2. AccountedWith(D, <<>>, Tail(w)) /\ HeadersAccounted(D, h, Tail(w), TRUE)
    BY <1>1 DEF HeaderAhead
<1>3. (x.state \in {"DATA", "C_UNXP_RCV", "C_SET_RCV"}) = TRUE /\ x.state # "A_RCV" /\ x.state # "C_RCV"
    OBVIOUS
<1>4. x.state = "DATA" => AccountedWith(D, x.data, Tail(w))
    BY <1>2
<1>5. HeadersAccounted(D, h, Tail(w), x.state \in {"DATA", "C_UNXP_RCV", "C_SET_RCV"})
    BY <1>2, <1>3
<1> QED BY <1>3, <1>4, <1>5 DEF DataComes

\* No automaton leaves a STOP_UA with anything.
LEMMA StoppedComes ==
    ASSUME NEW D, NEW h, NEW x, x.state = "STOP_UA", NEW w \in Seq(Byte), w # <<>>,
           DataComes(D, h, x, w)
    PROVE  DataComes(D, h, Start, Tail(w))
<1>1. (x.state \in {"DATA", "C_UNXP_RCV", "C_SET_RCV"}) = FALSE
    OBVIOUS
<1>2. HeadersAccounted(D, h, w, FALSE)
    BY <1>1 DEF DataComes
<1>3. HeadersAccounted(D, h, Tail(w), FALSE)
    BY <1>2, HeadersOn
<1>4. PICK z : z = Start /\ z.state \in {"START", "STOP_UA"}
    BY StartIsAutomaton
<1>5. DataComes(D, h, z, Tail(w))
    <2>1. PICK v : v = Tail(w) /\ HeadersAccounted(D, h, v, FALSE)
        BY <1>3
    <2>2. z.state \in {"START", "STOP_UA"}
        BY <1>4
    <2>3. DataComes(D, h, z, v)
        <3>1. z.state # "DATA" /\ z.state # "A_RCV" /\ z.state # "C_RCV"
            BY <2>2
        <3>2. HeadersAccounted(D, h, v, z.state \in {"DATA", "C_UNXP_RCV", "C_SET_RCV"})
            BY <2>1, NotPassing
        <3> QED BY <3>1, <3>2 DEF DataComes
    <2> QED BY <2>1, <2>3
<1> QED BY <1>4, <1>5

-----------------------------------------------------------------------------
(* What has been accepted *)

\* What can be traced stays so when more frames are sent, or noise comes.
LEMMA TracedGrows ==
    ASSUME NEW F, NEW G, F \subseteq G, NEW h, NEW p, NEW r, p => r, NEW d, Traced(F, h, p, d)
    PROVE  Traced(G, h, r, d)
BY DEF Traced

\* A step in which the caller sees nothing new.
LEMMA NothingNew ==
    ASSUME NoiseOnlyCuts, UNCHANGED <<got, seq>>, faults \in Nat, faults' \in {faults, faults + 1},
           ToSet(sent) \subseteq ToSet(sent')
    PROVE  NoiseOnlyCuts'
<1>1. PICK h : h = IHeader(NextSeq(seq)) /\ h = IHeader(NextSeq(seq))'
    OBVIOUS
<1>2. PICK F, G : F = ToSet(sent) /\ G = ToSet(sent)' /\ F \subseteq G
    OBVIOUS
<1>3. PICK g : g = got /\ g = got'
    OBVIOUS
<1>4. PICK n \in Nat : n = faults
    OBVIOUS
<1>5. PICK j \in {n, n + 1} : j = faults'
    BY <1>4
<1>6. j <= 1 => n <= 1 /\ (n = 1 => j = 1)
    BY <1>4, <1>5
<1> SUFFICES ASSUME j <= 1, NEW CONSTANT i \in DOMAIN g, g[i].o = "data"
             PROVE  Traced(G, h, j = 1, g[i].data)
    BY <1>1, <1>2, <1>3, <1>5 DEF NoiseOnlyCuts
<1>7. Traced(F, h, n = 1, g[i].data)
    BY <1>1, <1>2, <1>3, <1>4, <1>6 DEF NoiseOnlyCuts
<1> QED BY <1>2, <1>6, <1>7, TracedGrows

\* A step in which it sees one thing more.
LEMMA OneMoreSeen ==
    ASSUME NoiseOnlyCuts, UNCHANGED <<seq, faults, sent>>, got \in Seq(Outcomes),
           NEW CONSTANT o, got' = Append(got, o),
           faults <= 1 /\ o.o = "data" => Traced(ToSet(sent), IHeader(NextSeq(seq)), faults = 1, o.data)
    PROVE  NoiseOnlyCuts'
<1>1. PICK h : h = IHeader(NextSeq(seq)) /\ h = IHeader(NextSeq(seq))'
    OBVIOUS
<1>2. PICK F : F = ToSet(sent) /\ F = ToSet(sent)'
    OBVIOUS
<1>3. PICK g \in Seq(Outcomes) : g = got /\ Append(g, o) = got'
    OBVIOUS
<1>4. PICK n : n = faults /\ n = faults'
    OBVIOUS
<1> DEFINE s == Append(g, o)
<1>5. /\ DOMAIN s = 1..Len(g) + 1 /\ DOMAIN g = 1..Len(g) /\ Len(g) \in Nat
      /\ s[Len(g) + 1] = o /\ \A i \in 1..Len(g) : s[i] = g[i]
    OBVIOUS
<1> HIDE DEF s
<1> SUFFICES ASSUME n <= 1, NEW CONSTANT i \in DOMAIN s, s[i].o = "data"
             PROVE  Traced(F, h, n = 1, s[i].data)
    BY <1>1, <1>2, <1>3, <1>4 DEF NoiseOnlyCuts, s
<1>6. CASE i = Len(g) + 1
    <2>1. s[i] = o
        BY <1>5, <1>6
    <2> QED BY <1>1, <1>2, <1>4, <2>1
<1>7. CASE i # Len(g) + 1
    <2>1. i \in DOMAIN g /\ s[i] = g[i]
        BY <1>5, <1>7
    <2> QED BY <1>1, <1>2, <1>3, <1>4, <2>1 DEF NoiseOnlyCuts
<1> QED BY <1>6, <1>7

\* The frame just sent is one of those sent, and the last.
LEMMA MoreSent ==
    ASSUME ReceptionAssumption, NEW s \in Seq(Frames), NEW f \in Sendable
    PROVE  /\ ToSet(s) \subseteq ToSet(Append(s, f)) /\ f \in ToSet(Append(s, f))
           /\ Append(s, f) # <<>> /\ Last(Append(s, f)) = f
<1>1. f \in Frames
    BY SendableIsFrame
<1> DEFINE t == Append(s, f)
<1>2. PICK n \in Nat : n = Len(s)
    OBVIOUS
<1>3. /\ Len(t) = n + 1 /\ t[n + 1] = f /\ \A i \in 1..n : t[i] = s[i]
      /\ DOMAIN t = 1..n + 1 /\ DOMAIN s = 1..n /\ t # <<>>
    BY <1>1, <1>2
<1> HIDE DEF t
<1>4. f \in ToSet(t)
    <2>1. n + 1 \in DOMAIN t
        BY <1>3
    <2> QED BY <1>3, <2>1 DEF ToSet
<1>5. ToSet(s) \subseteq ToSet(t)
    <2>1. \A i \in DOMAIN s : i \in DOMAIN t
        BY <1>3
    <2> QED BY <1>3, <2>1 DEF ToSet
<1>6. Last(t) = f
    BY <1>3 DEF Last
<1> QED BY <1>3, <1>4, <1>5, <1>6 DEF t

\* What llread gets of data is what the I automaton stops with.
LEMMA DataIsRead ==
    ASSUME NEW y, NEW stale, Result(y, stale).o = "data",
           y.state \in Stops \cup {"STOP_UA"}, auto \in {"S", "U", "I"}
    PROVE  /\ auto = "I" /\ y.state = "STOP" /\ Valid(Destuffed(y.data, stale))
           /\ Result(y, stale).data = Payload(Destuffed(y.data, stale))
<1>1. CASE y.state = "STOP_RR"
    BY <1>1 DEF Result, Outcome
<1>2. CASE y.state = "STOP_DISC"
    BY <1>2 DEF Result, Outcome
<1>3. CASE y.state = "STOP_UA"
    BY <1>3 DEF Result, Outcome
<1>4. CASE y.state = "STOP" /\ auto # "I"
    BY <1>4 DEF Result, Outcome
<1>5. CASE y.state = "STOP" /\ auto = "I"
    <2>1. PICK s : s = Destuffed(y.data, stale)
        OBVIOUS
    <2>2. Result(y, stale) = IF Valid(s) THEN Outcome("data", "", "", Payload(s))
                                         ELSE Outcome("bad", "", "", <<>>)
        BY <1>5, <2>1 DEF Result
    <2>3. /\ Outcome("bad", "", "", <<>>).o = "bad"
          /\ Outcome("data", "", "", Payload(s)).data = Payload(s)
        BY DEF Outcome
    <2>4. Valid(s)
        <3> SUFFICES ASSUME ~Valid(s) PROVE FALSE
            OBVIOUS
        <3>1. Result(y, stale).o = "bad"
            BY <2>2, <2>3
        <3> QED BY <3>1
    <2> QED BY <1>5, <2>1, <2>2, <2>3, <2>4
<1>6. y.state \in {"STOP", "STOP_RR", "STOP_DISC", "STOP_UA"}
    BY DEF Stops
<1> QED BY <1>1, <1>2, <1>3, <1>4, <1>5, <1>6

-----------------------------------------------------------------------------
(* The steps, and what is accounted for *)

\* Before any noise the automaton rests when the line is empty.
LEMMA QuietRests ==
    ASSUME ReceptionAssumption, ReceptionInv, wire = <<>>, faults = 0
    PROVE  Resting
<1>1. CASE whole = <<>>
    BY <1>1 DEF ReceptionInv
<1>2. CASE whole # <<>>
    <2>1. PICK w \in Seq(Sendable) : w = whole /\ w # <<>>
        BY <1>2 DEF ReceptionInv, TypeOK
    <2>2. LineInv
        BY <1>2 DEF ReceptionInv
    <2>3. PICK k : LineAt(w, k)
        BY <2>1, <2>2, LineIs
    <2>4. Last(w) \in Sendable
        BY <2>1, LastFrame
    <2>5. /\ k \in 0..Len(Bytes(Last(w)))
          /\ wire = SubSeq(Bytes(Last(w)), k + 1, Len(Bytes(Last(w))))
          /\ k = Len(Bytes(Last(w))) => Resting
        BY <2>3 DEF LineAt
    <2>6. k = Len(Bytes(Last(w)))
        BY <2>4, <2>5, FrameBytes, WireIs
    <2> QED BY <2>5, <2>6
<1> QED BY <1>1, <1>2

\* An I-frame is the one llread waits for, or the one before.
LEMMA IFrameVerdict ==
    ASSUME auto = "I", seq \in {0, 1}, NEW f, f.c = "I", CanMeet(f)
    PROVE  Verdict(f) \in {"data", "resend"}
<1>1. f \in FromTransmitter /\ f.c \in {"SET", "I", "RR"}
    BY DEF CanMeet
<1>2. PICK q \in {0, 1} : q = seq
    OBVIOUS
<1>3. PICK v : v = IOutcome(q, f)
    OBVIOUS
<1>4. /\ v \in {"set", "data", "resend", "skip"}
      /\ v = "set" => f.c = "SET"
      /\ v = "skip" => f.c # "I"
    BY <1>1, <1>3, IVerdict
<1>5. v \in {"data", "resend"}
    BY <1>4
<1> QED BY <1>2, <1>3, <1>5 DEF Verdict

\* In the header of an I-frame, and behind it.
LEMMA InHeader ==
    ASSUME auto = "I", seq \in {0, 1}, NEW f, f.c = "I", CanMeet(f), NEW k \in 0..4, InFrame(f, k)
    PROVE  /\ k = 0 => m.state \in {"START", "STOP_UA"}
           /\ k = 1 => m.state = "START"
           /\ k = 2 => m.state = "A_RCV"
           /\ k = 3 => m.state \in {"C_RCV", "C_UNXP_RCV"}
           /\ k = 4 => \/ m.state = "DATA" /\ m.data = <<>>
                       \/ m.state = "C_UNXP_RCV"
<1>2. Verdict(f) \in {"data", "resend"}
    BY IFrameVerdict
<1>3. Verdict(f) # "skip"
    BY <1>2
<1>4. CASE k = 0
    <2>1. Resting
        BY <1>4, InFrameIs
    <2> QED BY <1>4, <2>1 DEF Resting
<1>5. CASE k = 1
    BY <1>5, InFrameIs
<1>6. CASE k = 2
    BY <1>3, <1>6, InFrameIs
<1>7. CASE k = 3 /\ Verdict(f) = "data"
    BY <1>7, InFrameIs
<1>8. CASE k = 3 /\ Verdict(f) = "resend"
    BY <1>8, InFrameIs
<1>9. CASE k = 4 /\ Verdict(f) = "data"
    <2>1. m.state = "DATA" /\ m.data = SubSeq(Body(f), 1, 4 - 4)
        BY <1>9, InFrameIs
    <2>2. SubSeq(Body(f), 1, 4 - 4) = <<>>
        BY SubSeqEmpty
    <2> QED BY <1>9, <2>1, <2>2
<1>10. CASE k = 4 /\ Verdict(f) = "resend"
    BY <1>10, InFrameIs
<1>11. k \in {0, 1, 2, 3, 4}
    OBVIOUS
<1> QED BY <1>2, <1>4, <1>5, <1>6, <1>7, <1>8, <1>9, <1>10, <1>11

\* Nothing has been sent, and nothing accepted.
LEMMA InitIsNoiseInv ==
    ASSUME Init
    PROVE  NoiseInv
<1>1. got = <<>> /\ faults = 0 /\ sent = whole
    BY DEF Init
<1>2. NoiseOnlyCuts
    <2>1. DOMAIN got = {}
        BY <1>1
    <2> QED BY <2>1 DEF NoiseOnlyCuts
<1> QED BY <1>1, <1>2 DEF NoiseInv

\* The frame that is to come, and what has been accounted for before it.
LEMMA SendNoiseInv ==
    ASSUME ReceptionAssumption, ReceptionInv, NoiseInv, Send
    PROVE  NoiseInv'
<1>1. PICK f \in Sendable :
          /\ wire = <<>>
          /\ sent' = Append(sent, f) /\ whole' = Append(whole, f) /\ wire' = Bytes(f)
          /\ UNCHANGED <<auto, seq, faults, forged, m, got, heard>>
    BY DEF Send, CanSend
<1>2. /\ auto \in {"S", "U", "I"} /\ seq \in {0, 1} /\ faults \in Nat /\ IsAutomaton(m)
      /\ sent \in Seq(Frames)
    BY DEF ReceptionInv, TypeOK, IsAutomaton
<1>3. PICK q \in {0, 1} : q = seq /\ q = seq'
    BY <1>1, <1>2
<1>4. PICK h : h = IHeader(NextSeq(q))
    OBVIOUS
<1>5. PICK F, G : F = ToSet(sent) /\ G = ToSet(sent') /\ F \subseteq G /\ f \in G
    BY <1>1, <1>2, MoreSent
<1>6. NoiseOnlyCuts'
    <2>1. NoiseOnlyCuts
        BY DEF NoiseInv
    <2>2. ToSet(sent) \subseteq ToSet(sent') /\ faults' \in {faults, faults + 1}
        BY <1>1, <1>5
    <2> QED BY <1>1, <1>2, <2>1, <2>2, NothingNew
<1>7. faults' = 0 => sent' = whole'
    BY <1>1 DEF NoiseInv
<1>8. ASSUME auto = "I", faults = 1 PROVE DataComes(Accounted(G, h), h, m', wire')
    <2>1. PICK x : x = m /\ x = m' /\ IsAutomaton(x)
        BY <1>1, <1>2
    <2>2. x.state = "DATA" => x.data \in Accounted(G, h)
        <3> SUFFICES ASSUME x.state = "DATA" PROVE x.data \in Accounted(G, h)
            OBVIOUS
        <3> DEFINE D == Accounted(F, h)
        <3>1. HeaderComes(D, h) \/ DataComes(D, h, m, wire)
            BY <1>3, <1>4, <1>5, <1>8 DEF NoiseInv
        <3>2. D \subseteq Accounted(G, h)
            BY <1>5, AccountedGrows
        <3> HIDE DEF D
        <3>3. ~ HeaderComes(D, h)
            <4> SUFFICES ASSUME HeaderComes(D, h) PROVE FALSE
                OBVIOUS
            <4>1. PICK g : g.c = "I" /\ CanMeet(g) /\ \E k \in 0..3 : InFrame(g, k)
                BY DEF HeaderComes
            <4>2. PICK k \in 0..3 : InFrame(g, k)
                BY <4>1
            <4>3. k \in 0..4 /\ (k = 0 \/ k = 1 \/ k = 2 \/ k = 3)
                OBVIOUS
            <4>4. m.state \in {"START", "STOP_UA", "A_RCV", "C_RCV", "C_UNXP_RCV"}
                BY <1>2, <1>8, <4>1, <4>2, <4>3, InHeader
            <4> QED BY <2>1, <4>4
        <3>4. AccountedWith(D, x.data, <<>>)
            BY <1>1, <2>1, <3>1, <3>3 DEF DataComes
        <3>5. x.data \in Seq(Byte) /\ <<>> \in Seq(Byte)
            BY <2>1 DEF IsAutomaton
        <3>6. x.data \in D
            BY <3>4, <3>5, WithFlag
        <3> QED BY <3>2, <3>6
    <2>3. NextSeq(q) \in {0, 1}
        BY SControlsAre
    <2>4. DataComes(Accounted(G, h), h, x, Bytes(f))
        BY <1>4, <1>5, <2>1, <2>2, <2>3, WholeComes
    <2> QED BY <1>1, <2>1, <2>4
<1>9. sent' # <<>>
    BY <1>1, <1>2, MoreSent
<1> QED BY <1>1, <1>3, <1>4, <1>5, <1>6, <1>7, <1>8, <1>9 DEF NoiseInv

\* The first fault: all of the header comes, or nothing but headers that are
\* accounted for.
LEMMA FirstFault ==
    ASSUME ReceptionAssumption, seq \in {0, 1}, SendNoisy \/ SendCut
    PROVE  \E f \in Sendable :
              /\ CanMeet(f) /\ wire = <<>> /\ sent' = Append(sent, f)
              /\ \A F, h : f \in F /\ h = IHeader(NextSeq(seq)) =>
                    \/ f.c = "I" /\ HeaderAhead(Accounted(F, h), h, f, 0, wire')
                    \/ HeadersAccounted(Accounted(F, h), h, wire', FALSE)
<1>1. PICK n \in {0, 1} : n = NextSeq(seq)
    BY SControlsAre
<1>2. PICK h : h = IHeader(n)
    OBVIOUS
<1>3. CASE SendNoisy
    <2>1. PICK f \in Sendable :
              /\ CanMeet(f) /\ wire = <<>> /\ sent' = Append(sent, f)
              /\ \E i \in 1..Len(Bytes(f)), bit \in 0..7 :
                    wire' = [Bytes(f) EXCEPT ![i] = Flipped(@, bit)]
        BY <1>3 DEF SendNoisy, CanSend
    <2>2. PICK i \in 1..Len(Bytes(f)), bit \in 0..7 :
              wire' = [Bytes(f) EXCEPT ![i] = Flipped(Bytes(f)[i], bit)]
        BY <2>1
    <2>3. PICK w : w = wire'
        OBVIOUS
    <2>4. ASSUME NEW F, f \in F
          PROVE  \/ f.c = "I" /\ HeaderAhead(Accounted(F, h), h, f, 0, w)
                 \/ HeadersAccounted(Accounted(F, h), h, w, FALSE)
        <3>1. CASE f.c = "I" /\ ~ (i <= 4)
            <4>1. PICK l \in Nat : l = Len(Bytes(f))
                <5>1. Bytes(f) \in Seq(Byte)
                    BY FrameBytes
                <5>2. Len(Bytes(f)) \in Nat
                    BY <5>1
                <5> QED BY <5>2
            <4>2. i \in 5..l
                BY <3>1, <4>1
            <4> QED BY <1>2, <2>2, <2>3, <2>4, <3>1, <4>1, <4>2, DataHit
        <3>2. CASE f.c = "I" => i <= 4
            BY <1>2, <2>2, <2>3, <2>4, <3>2, HeaderHit
        <3> QED BY <3>1, <3>2
    <2> QED BY <1>1, <1>2, <2>1, <2>3, <2>4
<1>4. CASE SendCut
    <2>1. PICK f \in Sendable :
              /\ CanMeet(f) /\ wire = <<>> /\ sent' = Append(sent, f)
              /\ \E i \in 1..Len(Bytes(f)) - 1 : wire' = SubSeq(Bytes(f), 1, i)
        BY <1>4 DEF SendCut, CanSend
    <2>2. PICK i \in 1..Len(Bytes(f)) - 1 : wire' = SubSeq(Bytes(f), 1, i)
        BY <2>1
    <2>3. PICK w : w = wire' /\ w = SubSeq(Bytes(f), 1, i)
        BY <2>2
    <2>4. ASSUME NEW F, f \in F
          PROVE  \/ f.c = "I" /\ HeaderAhead(Accounted(F, h), h, f, 0, w)
                 \/ HeadersAccounted(Accounted(F, h), h, w, FALSE)
        <3>1. CASE f.c = "I"
            BY <2>3, <2>4, <3>1, DataCut
        <3>2. CASE f.c # "I"
            BY <1>2, <2>3, <2>4, <3>2, HeaderCut
        <3> QED BY <3>1, <3>2
    <2> QED BY <1>1, <1>2, <2>1, <2>3, <2>4
<1> QED BY <1>3, <1>4

\* The fault is the first, with the automaton at rest; or nothing is said any more.
LEMMA NoiseNoiseInv ==
    ASSUME ReceptionAssumption, ReceptionInv, NoiseInv, SendNoisy \/ SendCut
    PROVE  NoiseInv'
<1>1. /\ auto \in {"S", "U", "I"} /\ seq \in {0, 1} /\ faults \in Nat /\ sent \in Seq(Frames)
    BY DEF ReceptionInv, TypeOK
<1>2. faults' = faults + 1 /\ UNCHANGED <<auto, seq, m, got>>
    BY DEF SendNoisy, SendCut
<1>3. PICK q \in {0, 1} : q = seq /\ q = seq'
    BY <1>1, <1>2
<1>4. PICK h : h = IHeader(NextSeq(q))
    OBVIOUS
<1>5. PICK f \in Sendable :
          /\ CanMeet(f) /\ wire = <<>> /\ sent' = Append(sent, f)
          /\ \A F : f \in F =>
                \/ f.c = "I" /\ HeaderAhead(Accounted(F, h), h, f, 0, wire')
                \/ HeadersAccounted(Accounted(F, h), h, wire', FALSE)
    <2>1. PICK f \in Sendable :
              /\ CanMeet(f) /\ wire = <<>> /\ sent' = Append(sent, f)
              /\ \A F, hh : f \in F /\ hh = IHeader(NextSeq(seq)) =>
                    \/ f.c = "I" /\ HeaderAhead(Accounted(F, hh), hh, f, 0, wire')
                    \/ HeadersAccounted(Accounted(F, hh), hh, wire', FALSE)
        BY <1>1, FirstFault
    <2> QED BY <1>3, <1>4, <2>1
<1>6. PICK G : G = ToSet(sent') /\ ToSet(sent) \subseteq G /\ f \in G
    BY <1>1, <1>5, MoreSent
<1>7. sent' # <<>> /\ Last(sent') = f
    BY <1>1, <1>5, MoreSent
<1>8. NoiseOnlyCuts'
    <2>1. NoiseOnlyCuts
        BY DEF NoiseInv
    <2>2. ToSet(sent) \subseteq ToSet(sent') /\ faults' \in {faults, faults + 1}
        BY <1>2, <1>6
    <2> QED BY <1>1, <1>2, <2>1, <2>2, NothingNew
<1>9. faults' # 0
    BY <1>1, <1>2
<1> DEFINE D == Accounted(G, h)
<1>10. ASSUME auto = "I", faults' = 1 PROVE (HeaderComes(D, h) \/ DataComes(D, h, m, wire))'
    <2>1. faults = 0
        BY <1>1, <1>2, <1>10
    <2>2. Resting
        BY <1>5, <2>1, QuietRests
    <2>3. PICK w : w = wire'
        OBVIOUS
    <2>4. PICK C : C = D
        OBVIOUS
    <2>5. \/ f.c = "I" /\ HeaderAhead(C, h, f, 0, w)
          \/ HeadersAccounted(C, h, w, FALSE)
        BY <1>5, <1>6, <2>3, <2>4
    <2>6. CASE f.c = "I" /\ HeaderAhead(C, h, f, 0, w)
        <3>1. InFrame(f, 0)'
            <4>1. Resting'
                BY <1>2, <2>2 DEF Resting
            <4> QED BY <4>1 DEF InFrame
        <3>2. CanMeet(f)'
            BY <1>2, <1>5, SameCanMeet
        <3>3. 0 \in 0..3
            OBVIOUS
        <3>4. HeaderComes(C, h)'
            BY <1>7, <2>3, <2>6, <3>1, <3>2, <3>3 DEF HeaderComes
        <3> QED BY <2>4, <3>4
    <2>7. CASE HeadersAccounted(C, h, w, FALSE)
        <3>1. PICK x : x = m /\ x = m'
            BY <1>2
        <3>2. x.state \in {"START", "STOP_UA"}
            BY <1>10, <2>2, <3>1 DEF Resting
        <3>3. DataComes(C, h, x, w)
            <4>1. x.state # "DATA" /\ x.state # "A_RCV" /\ x.state # "C_RCV"
                BY <3>2
            <4>2. HeadersAccounted(C, h, w, x.state \in {"DATA", "C_UNXP_RCV", "C_SET_RCV"})
                BY <2>7, NotPassing
            <4> QED BY <4>1, <4>2 DEF DataComes
        <3> QED BY <2>3, <2>4, <3>1, <3>3
    <2> QED BY <2>5, <2>6, <2>7
<1> QED BY <1>2, <1>3, <1>4, <1>6, <1>7, <1>8, <1>9, <1>10 DEF NoiseInv

\* Before any noise, what llread accepts is the payload of the frame on the line.
LEMMA QuietData ==
    ASSUME ReceptionAssumption, ReceptionInv, NoiseInv, faults = 0, wire # <<>>,
           m.state # "STOP_UA", NEW CONSTANT b, b = Head(wire), NEW CONSTANT stale \in Byte,
           Update(b).state \in Stops \cup {"STOP_UA"}, Result(Update(b), stale).o = "data",
           NEW CONSTANT F, F = ToSet(sent), NEW CONSTANT h
    PROVE  Traced(F, h, FALSE, Result(Update(b), stale).data)
<1>1. /\ TypeOK /\ AutomatonInv /\ \A i \in 1..Len(whole) : CanMeet(whole[i])
      /\ whole # <<>> /\ LineInv /\ sent = whole
    BY DEF ReceptionInv, NoiseInv
<1>2. /\ auto \in {"S", "U", "I"} /\ seq \in {0, 1} /\ IsAutomaton(m) /\ wire \in Seq(Byte)
    BY <1>1 DEF TypeOK, IsAutomaton
<1>3. auto = "I" /\ Update(b).state = "STOP"
    BY <1>2, DataIsRead
<1>4. m.state = "DATA" /\ b = FLAG
    <2>1. PICK q \in {0, 1} : q = seq
        BY <1>2
    <2>2. PICK x : x = m
        OBVIOUS
    <2>3. b \in Byte
        BY <1>2, TailIs
    <2>4. IsAutomaton(x) /\ x.state \in IStates
        BY <1>1, <1>2, <1>3, <2>2 DEF AutomatonInv, IStates
    <2>5. PICK y : y = IUpdate(q, x, b) /\ y.state = "STOP"
        BY <1>3, <2>1, <2>2 DEF Update
    <2>6. /\ b # FLAG => y.state \notin {"STOP", "STOP_RR", "STOP_UA"}
          /\ b = FLAG => (x.state = "DATA" <=> y.state = "STOP")
        BY <2>3, <2>4, <2>5, INext
    <2> QED BY <2>2, <2>5, <2>6
<1>5. PICK w \in Seq(Sendable) : w = whole /\ w # <<>>
    BY <1>1 DEF TypeOK
<1>6. PICK f \in Sendable : f = Last(w)
    BY <1>5, LastFrame
<1>7. CanMeet(f) /\ f \in F
    <2>1. f = w[Len(w)] /\ Len(w) \in 1..Len(w) /\ DOMAIN w = 1..Len(w)
        BY <1>5, <1>6, LastFrame DEF Last
    <2> QED BY <1>1, <1>5, <2>1 DEF ToSet
<1>8. PICK k : LineAt(w, k)
    BY <1>1, <1>5, LineIs
<1> DEFINE n == Len(Bytes(f))
<1>9. /\ k \in 0..n
      /\ wire = SubSeq(Bytes(f), k + 1, n)
      /\ k # n => InFrame(f, k)
    <2>1. ~(faults > 0)
        OBVIOUS
    <2> QED BY <1>6, <1>8, <2>1 DEF LineAt
<1>10. Bytes(f) \in Seq(Byte) /\ n \in Nat /\ n >= 5
    <2>1. Bytes(f) \in Seq(Byte) /\ n = Len(Body(f)) + 5
        BY FrameBytes
    <2>2. Len(Body(f)) \in Nat
        BY BodyBytes
    <2> QED BY <2>1, <2>2
<1>11. b = Bytes(f)[k + 1] /\ k # n
    BY <1>9, <1>10, WireIs
<1>12. k \in 0..n - 1 /\ k \in Nat
    BY <1>9, <1>10, <1>11
<1>13. k = 0 \/ k = n - 1
    BY <1>4, <1>11, <1>12, NextByte
<1>14. InFrame(f, k)
    BY <1>9, <1>11
<1>15. k # 0
    <2> SUFFICES ASSUME k = 0 PROVE FALSE
        OBVIOUS
    <2>1. Resting
        BY <1>12, <1>14, InFrameIs
    <2> QED BY <1>3, <1>4, <2>1 DEF Resting
<1>16. End(f, k)
    <2>1. k = Len(Bytes(f)) - 1
        BY <1>13, <1>15
    <2> HIDE DEF n
    <2> QED BY <1>1, <1>7, <1>14, <2>1, AtTheEnd
<1>17. After(f, k) = Update(b)
    BY <1>11 DEF After
<1>18. Seen(f) = <<Result(Update(b), stale)>>
    BY <1>16, <1>17 DEF End
<1>19. f.c = "I" /\ Result(Update(b), stale).data = Payloads[f.d]
    <2>1. PICK o : o = Result(Update(b), stale) /\ o.o = "data"
        OBVIOUS
    <2>2. PICK v : v = Verdict(f) /\ v \in {"set", "data", "resend", "skip"}
                   /\ (v = "data" => f.c = "I")
        <3>1. f \in FromTransmitter /\ f.c \in {"SET", "I", "RR"}
            BY <1>3, <1>7 DEF CanMeet
        <3>2. PICK q \in {0, 1} : q = seq
            BY <1>2
        <3>3. IOutcome(q, f) \in {"set", "data", "resend", "skip"} /\ (IOutcome(q, f) = "data" => f.c = "I")
            BY <3>1, IVerdict
        <3> QED BY <1>3, <3>2, <3>3 DEF Verdict
    <2>3. Seen(f) = <<o>>
        BY <1>18, <2>1
    <2>4. CASE v = "skip"
        <3>1. Seen(f) = <<>>
            BY <2>2, <2>4 DEF Seen
        <3> QED BY <2>3, <3>1
    <2>5. CASE v = "data"
        <3>1. Seen(f) = <<Outcome("data", "", "", Payloads[f.d])>>
            BY <2>2, <2>5 DEF Seen
        <3>2. o = Outcome("data", "", "", Payloads[f.d])
            <4>1. PICK c : c = Outcome("data", "", "", Payloads[f.d])
                OBVIOUS
            <4>2. <<o>> = <<c>>
                BY <2>3, <3>1, <4>1
            <4>3. <<o>>[1] = o /\ <<c>>[1] = c
                OBVIOUS
            <4> QED BY <4>1, <4>2, <4>3
        <3>3. o.data = Payloads[f.d]
            BY <3>2 DEF Outcome
        <3> QED BY <2>1, <2>2, <2>5, <3>3
    <2>6. CASE v \in {"set", "resend"}
        <3>1. Seen(f) = <<Outcome(v, "", "", <<>>)>>
            BY <2>2, <2>6 DEF Seen
        <3>2. o = Outcome(v, "", "", <<>>)
            <4>1. PICK c : c = Outcome(v, "", "", <<>>)
                OBVIOUS
            <4>2. <<o>> = <<c>>
                BY <2>3, <3>1, <4>1
            <4>3. <<o>>[1] = o /\ <<c>>[1] = c
                OBVIOUS
            <4> QED BY <4>1, <4>2, <4>3
        <3>3. o.o = v
            BY <3>2 DEF Outcome
        <3> QED BY <2>1, <2>6, <3>3
    <2> QED BY <2>2, <2>4, <2>5, <2>6
<1> QED BY <1>7, <1>19 DEF Traced

\* All of the header has been read.
LEMMA HeaderRead ==
    ASSUME NEW CONSTANT f, NEW CONSTANT v \in {"data", "resend"}, v = Verdict(f)', auto' = "I",
           InFrame(f, 4)'
    PROVE  \/ m'.state = "DATA" /\ m'.data = <<>>
           \/ m'.state = "C_UNXP_RCV"
<1>1. CASE v = "data"
    <2>1. m'.state = "DATA" /\ m'.data = SubSeq(Body(f), 1, 4 - 4)
        BY <1>1 DEF InFrame
    <2>2. SubSeq(Body(f), 1, 4 - 4) = <<>>
        BY SubSeqEmpty
    <2> QED BY <2>1, <2>2
<1>2. CASE v = "resend"
    <2>1. m'.state = "C_UNXP_RCV"
        BY <1>2 DEF InFrame
    <2> QED BY <2>1
<1> QED BY <1>1, <1>2

\* After the first fault, the automaton and what comes.
LEMMA NoisyRead ==
    ASSUME ReceptionAssumption, ReceptionInv, auto = "I", wire # <<>>, m.state # "STOP_UA",
           NEW CONSTANT b, b = Head(wire), wire' = Tail(wire), UNCHANGED <<auto, seq, sent>>,
           m' = IF Update(b).state \in Stops THEN Start ELSE Update(b),
           NEW CONSTANT D, NEW CONSTANT h, h = IHeader(NextSeq(seq)),
           HeaderComes(D, h) \/ DataComes(D, h, m, wire)
    PROVE  /\ Update(b).state = "STOP" => Update(b).data \in D
           /\ (HeaderComes(D, h) \/ DataComes(D, h, m, wire))'
<1>1. TypeOK /\ AutomatonInv
    BY DEF ReceptionInv
<1>2. /\ seq \in {0, 1} /\ IsAutomaton(m) /\ wire \in Seq(Byte)
      /\ m.state \in IStates \ {"STOP_UA"} /\ (m.data # <<>> => m.state = "DATA")
    BY <1>1 DEF TypeOK, IsAutomaton, AutomatonInv, IStates
<1>3. PICK x : x = m
    OBVIOUS
<1>4. PICK q \in {0, 1}, w \in Seq(Byte) : q = seq /\ w = wire /\ w # <<>>
    BY <1>2
<1>5. PICK y : y = IUpdate(q, x, b) /\ y = Update(b)
    BY <1>4, <1>3 DEF Update
<1>6. PICK z : z = m' /\ z = IF y.state \in Stops THEN Start ELSE y
    BY <1>5
<1>7. b \in Byte /\ Tail(w) = wire' /\ b = w[1]
    BY <1>4, <1>3, TailIs
<1>8. CASE DataComes(D, h, m, wire)
    <2>1. /\ y.state = "STOP" => y.data \in D
          /\ DataComes(D, h, z, Tail(w))
        <3>1. IsAutomaton(x) /\ x.state \in IStates \ {"STOP_UA"} /\ (x.data # <<>> => x.state = "DATA")
            BY <1>2, <1>4, <1>3
        <3>2. DataComes(D, h, x, w) /\ h = IHeader(NextSeq(q)) /\ y = IUpdate(q, x, Head(w))
            BY <1>4, <1>3, <1>5, <1>8
        <3> QED BY <1>4, <1>3, <1>6, <3>1, <3>2, ComesOn
    <2> QED BY <1>5, <1>6, <1>7, <2>1
<1>9. CASE HeaderComes(D, h)
    <2>1. PICK f : /\ f = Last(sent) /\ f.c = "I" /\ CanMeet(f)
                   /\ \E k \in 0..3 : InFrame(f, k) /\ HeaderAhead(D, h, f, k, wire)
        BY <1>9 DEF HeaderComes
    <2>2. PICK k \in 0..3 : InFrame(f, k) /\ HeaderAhead(D, h, f, k, w)
        BY <1>4, <1>3, <2>1
    <2>3. f \in Sendable
        BY <2>1 DEF CanMeet, Sendable
    <2>4. k \in 0..4 /\ (k = 0 \/ k = 1 \/ k = 2 \/ k = 3) /\ k + 1 \in 1..4 /\ k + 1 \in 0..4
        BY <2>2
    <2>5. m.state # "DATA"
        <3>1. m.state \in {"START", "STOP_UA", "A_RCV", "C_RCV", "C_UNXP_RCV"}
            BY <1>2, <2>1, <2>2, <2>4, InHeader
        <3> QED BY <3>1
    <2>6. y.state # "STOP"
        <3>1. IsAutomaton(x) /\ x.state \in IStates /\ x.state # "DATA"
            BY <1>2, <1>4, <1>3, <2>5
        <3>2. /\ b # FLAG => y.state \notin {"STOP", "STOP_RR", "STOP_UA"}
              /\ b = FLAG => (x.state = "DATA" <=> y.state = "STOP")
            BY <1>5, <1>7, <3>1, INext, SMTT(30)
        <3> QED BY <3>1, <3>2
    <2>7. b = Bytes(f)[k + 1]
        <3>1. 1 \in 1..Len(w) /\ 1 + k <= 4 /\ 1 + k = k + 1
            BY <1>4, <1>3, <2>4
        <3>2. w[1] = Bytes(f)[1 + k]
            BY <2>2, <3>1 DEF HeaderAhead
        <3> QED BY <1>7, <3>1, <3>2
    <2>8. After(f, k) = Update(b)
        BY <2>7 DEF After
    <2>9. InFrame(f, k + 1)'
        <3>1. k \in 0..Len(Bytes(f)) - 2
            <4>1. Len(Bytes(f)) = Len(Body(f)) + 5
                BY <2>3, FrameBytes
            <4>2. Body(f) \in Seq(Byte)
                BY <2>3, BodyBytes
            <4>3. Len(Body(f)) \in Nat
                BY <4>2
            <4> QED BY <4>1, <4>3
        <3>2. After(f, k).state \notin Stops => m' = After(f, k)
            BY <2>8
        <3>3. UNCHANGED <<auto, seq>>
            OBVIOUS
        <3>4. InFrame(f, k)
            BY <2>2
        <3>5. Middle(f, k)
            BY <1>1, <2>1, <2>3, <3>1, <3>2, <3>3, <3>4, InTheMiddle
        <3> QED BY <3>5 DEF Middle
    <2>10. CanMeet(f)'
        BY <2>1, SameCanMeet
    <2>11. CASE k # 3
        <3>1. k \in 0..2 /\ k + 1 \in 0..3
            BY <2>4, <2>11
        <3>2. HeaderAhead(D, h, f, k + 1, Tail(w))
            BY <1>4, <1>3, <2>2, <3>1, HeaderOn
        <3>3. PICK v : v = wire' /\ HeaderAhead(D, h, f, k + 1, v)
            BY <1>7, <3>2
        <3>4. f = Last(sent)'
            BY <2>1
        <3>5. HeaderComes(D, h)'
            BY <2>1, <2>9, <2>10, <3>1, <3>3, <3>4 DEF HeaderComes
        <3> QED BY <1>5, <2>6, <3>5
    <2>12. CASE k = 3
        <3>1. InFrame(f, 4)'
            BY <2>9, <2>12
        <3>2. \/ m'.state = "DATA" /\ m'.data = <<>>
              \/ m'.state = "C_UNXP_RCV"
            <4>1. Verdict(f) \in {"data", "resend"}
                BY <1>2, <2>1, IFrameVerdict
            <4>2. Verdict(f)' = Verdict(f)
                BY DEF Verdict
            <4>3. PICK v \in {"data", "resend"} : v = Verdict(f)'
                BY <4>1, <4>2
            <4>4. auto' = "I"
                OBVIOUS
            <4> QED BY <3>1, <4>3, <4>4, HeaderRead
        <3>3. z.state \in {"DATA", "C_UNXP_RCV"} /\ (z.state = "DATA" => z.data = <<>>)
            BY <1>6, <3>2
        <3>4. DataComes(D, h, z, Tail(w))
            BY <1>4, <1>3, <2>2, <2>12, <3>3, HeaderEnds
        <3> QED BY <1>5, <1>6, <1>7, <2>6, <3>4
    <2> QED BY <2>11, <2>12
<1> QED BY <1>8, <1>9

\* A byte is read: what the caller then sees is accounted for.
LEMMA ReadNoiseInv ==
    ASSUME ReceptionAssumption, ReceptionInv, NoiseInv, Read
    PROVE  NoiseInv'
<1>1. /\ auto \in {"S", "U", "I"} /\ seq \in {0, 1} /\ faults \in Nat /\ got \in Seq(Outcomes)
      /\ StaleBytes \subseteq Byte
    BY DEF ReceptionInv, TypeOK, ReceptionAssumption
<1>2. PICK b : b = Head(wire)
    OBVIOUS
<1> DEFINE stops == Update(b).state \in Stops \cup {"STOP_UA"}
<1>3. /\ wire # <<>> /\ m.state # "STOP_UA" /\ wire' = Tail(wire)
      /\ m' = IF Update(b).state \in Stops THEN Start ELSE Update(b)
      /\ IF stops THEN \E stale \in StaleBytes : Tell(Result(Update(b), stale))
                  ELSE UNCHANGED <<got, heard>>
      /\ UNCHANGED <<auto, seq, sent, faults, whole>>
    BY <1>2 DEF Read
<1>4. PICK h : h = IHeader(NextSeq(seq))
    OBVIOUS
<1>5. PICK F : F = ToSet(sent) /\ F = ToSet(sent')
    BY <1>3
<1>6. PICK D : D = Accounted(F, h)
    OBVIOUS
<1>7. NoiseOnlyCuts
    BY DEF NoiseInv
<1>8. ASSUME auto = "I", faults = 1
      PROVE  /\ sent # <<>>
             /\ Update(b).state = "STOP" => Update(b).data \in D
             /\ (HeaderComes(D, h) \/ DataComes(D, h, m, wire))'
    <2>1. sent # <<>> /\ (HeaderComes(D, h) \/ DataComes(D, h, m, wire))
        BY <1>4, <1>5, <1>6, <1>8 DEF NoiseInv
    <2>2. /\ m' = IF Update(b).state \in Stops THEN Start ELSE Update(b)
          /\ UNCHANGED <<auto, seq, sent>> /\ wire' = Tail(wire)
        BY <1>3
    <2>3. /\ Update(b).state = "STOP" => Update(b).data \in D
          /\ (HeaderComes(D, h) \/ DataComes(D, h, m, wire))'
        BY <1>2, <1>3, <1>4, <1>8, <2>1, <2>2, NoisyRead
    <2> QED BY <2>1, <2>3
<1> HIDE DEF stops
<1>9. NoiseOnlyCuts'
    <2>1. CASE ~stops
        <3>1. UNCHANGED <<got, seq>> /\ faults' \in {faults, faults + 1}
            BY <1>3, <2>1
        <3>2. ToSet(sent) \subseteq ToSet(sent')
            BY <1>5
        <3> QED BY <1>1, <1>7, <3>1, <3>2, NothingNew
    <2>2. CASE stops
        <3>1. PICK stale \in StaleBytes : Tell(Result(Update(b), stale))
            BY <1>3, <2>2
        <3>2. PICK o : o = Result(Update(b), stale)
            OBVIOUS
        <3>3. got' = Append(got, o)
            BY <3>1, <3>2 DEF Tell
        <3>4. stale \in Byte
            BY <1>1
        <3>5. ASSUME faults <= 1, o.o = "data"
              PROVE  Traced(ToSet(sent), IHeader(NextSeq(seq)), faults = 1, o.data)
            <4>1. /\ auto = "I" /\ Update(b).state = "STOP"
                  /\ Valid(Destuffed(Update(b).data, stale))
                  /\ o.data = Payload(Destuffed(Update(b).data, stale))
                BY <1>1, <2>2, <3>2, <3>5, DataIsRead DEF stops
            <4>2. CASE faults = 0
                <5>1. Update(b).state \in Stops \cup {"STOP_UA"} /\ Result(Update(b), stale).o = "data"
                    BY <2>2, <3>2, <3>5 DEF stops
                <5>2. Traced(F, h, FALSE, Result(Update(b), stale).data)
                    BY <1>2, <1>3, <1>5, <3>4, <4>2, <5>1, QuietData
                <5>3. Traced(F, h, FALSE, o.data)
                    BY <3>2, <5>2
                <5>4. PICK d : d = o.data
                    OBVIOUS
                <5>5. PICK r : r = (faults = 1)
                    OBVIOUS
                <5>6. Traced(F, h, r, d)
                    BY <5>3, <5>4 DEF Traced
                <5> QED BY <1>4, <1>5, <5>4, <5>5, <5>6
            <4>3. CASE faults = 1
                <5>1. PICK e : e = Update(b).data /\ e \in D
                    BY <1>8, <4>1, <4>3
                <5>2. Traced(F, h, TRUE, Payload(Destuffed(e, stale)))
                    BY <1>6, <4>1, <5>1 DEF Accounted
                <5>3. PICK d : d = o.data /\ Traced(F, h, TRUE, d)
                    BY <4>1, <5>1, <5>2
                <5>4. (faults = 1) = TRUE
                    BY <4>3
                <5> QED BY <1>4, <1>5, <5>3, <5>4
            <4>4. faults = 0 \/ faults = 1
                BY <1>1, <3>5
            <4> QED BY <4>2, <4>3, <4>4
        <3> QED BY <1>1, <1>3, <1>7, <3>3, <3>5, OneMoreSeen
    <2> QED BY <2>1, <2>2
<1>10. faults' = 0 => sent' = whole'
    BY <1>3 DEF NoiseInv
<1>11. h = IHeader(NextSeq(seq))' /\ D = Accounted(ToSet(sent)', h)
    BY <1>3, <1>4, <1>5, <1>6
<1> QED BY <1>3, <1>8, <1>9, <1>10, <1>11 DEF NoiseInv

\* The byte after a SET: the automaton starts anew, and is at the beginning of the
\* header if one comes.
LEMMA ReadStoppedNoiseInv ==
    ASSUME ReceptionAssumption, ReceptionInv, NoiseInv, ReadStopped
    PROVE  NoiseInv'
<1>1. seq \in {0, 1} /\ faults \in Nat /\ wire \in Seq(Byte)
    BY DEF ReceptionInv, TypeOK
<1>2. /\ wire # <<>> /\ m.state = "STOP_UA" /\ wire' = Tail(wire) /\ m' = Start
      /\ UNCHANGED <<auto, seq, sent, faults, got, whole>>
    BY DEF ReadStopped
<1>3. PICK h : h = IHeader(NextSeq(seq)) /\ h = IHeader(NextSeq(seq))'
    BY <1>2
<1>4. PICK F : F = ToSet(sent) /\ F = ToSet(sent)'
    BY <1>2
<1>5. PICK D : D = Accounted(F, h)
    OBVIOUS
<1>6. NoiseOnlyCuts'
    <2>1. NoiseOnlyCuts
        BY DEF NoiseInv
    <2>2. ToSet(sent) \subseteq ToSet(sent') /\ faults' \in {faults, faults + 1}
        BY <1>2, <1>4
    <2> QED BY <1>1, <1>2, <2>1, <2>2, NothingNew
<1>7. ASSUME auto = "I", faults = 1
      PROVE  sent # <<>> /\ (HeaderComes(D, h) \/ DataComes(D, h, m, wire))'
    <2>1. sent # <<>> /\ (HeaderComes(D, h) \/ DataComes(D, h, m, wire))
        BY <1>3, <1>4, <1>5, <1>7 DEF NoiseInv
    <2>2. PICK w \in Seq(Byte) : w = wire /\ w # <<>> /\ Tail(w) = wire'
        BY <1>1, <1>2
    <2>3. CASE DataComes(D, h, m, wire)
        <3>1. PICK x : x = m /\ x.state = "STOP_UA"
            BY <1>2
        <3>2. DataComes(D, h, x, w)
            BY <2>2, <2>3, <3>1
        <3>3. DataComes(D, h, Start, Tail(w))
            BY <2>2, <3>1, <3>2, StoppedComes
        <3> QED BY <1>2, <2>1, <2>2, <3>3
    <2>4. CASE HeaderComes(D, h)
        <3>1. PICK f : /\ f = Last(sent) /\ f.c = "I" /\ CanMeet(f)
                       /\ \E k \in 0..3 : InFrame(f, k) /\ HeaderAhead(D, h, f, k, wire)
            BY <2>4 DEF HeaderComes
        <3>2. PICK k \in 0..3 : InFrame(f, k) /\ HeaderAhead(D, h, f, k, w)
            BY <2>2, <3>1
        <3>3. k = 0
            <4>1. k \in 0..4 /\ (k = 0 \/ k = 1 \/ k = 2 \/ k = 3)
                BY <3>2
            <4> QED BY <1>1, <1>2, <1>7, <3>1, <3>2, <4>1, InHeader
        <3>4. InFrame(f, 1)'
            <4>1. auto' = "I" /\ m'.state = "START"
                BY <1>2, <1>7, StartIsAutomaton
            <4> QED BY <4>1 DEF InFrame
        <3>5. CanMeet(f)' /\ f = Last(sent)'
            BY <1>2, <3>1, SameCanMeet
        <3>6. 0 \in 0..2 /\ 0 + 1 = 1 /\ 1 \in 0..3
            OBVIOUS
        <3>7. HeaderAhead(D, h, f, 1, Tail(w))
            BY <2>2, <3>2, <3>3, <3>6, HeaderOn
        <3>8. PICK v : v = wire' /\ HeaderAhead(D, h, f, 1, v)
            BY <2>2, <3>7
        <3>9. HeaderComes(D, h)'
            BY <3>1, <3>4, <3>5, <3>6, <3>8 DEF HeaderComes
        <3> QED BY <2>1, <3>9
    <2> QED BY <2>1, <2>3, <2>4
<1>8. faults' = 0 => sent' = whole'
    BY <1>2 DEF NoiseInv
<1> QED BY <1>2, <1>3, <1>4, <1>5, <1>6, <1>7, <1>8 DEF NoiseInv

\* Nothing happens.
LEMMA StutteringNoiseInv ==
    ASSUME NoiseInv, UNCHANGED vars
    PROVE  NoiseInv'
<1>1. UNCHANGED <<auto, seq, sent, faults, wire, m, got, whole>>
    BY DEF vars
<1>2. PICK h : h = IHeader(NextSeq(seq)) /\ h = IHeader(NextSeq(seq))'
    BY <1>1
<1>3. PICK D : D = Accounted(ToSet(sent), h) /\ D = Accounted(ToSet(sent)', h)
    BY <1>1
<1>4. NoiseOnlyCuts'
    BY <1>1 DEF NoiseInv, NoiseOnlyCuts
<1>5. HeaderComes(D, h)' <=> HeaderComes(D, h)
    <2>1. PICK f : f = Last(sent) /\ f = Last(sent)'
        BY <1>1
    <2>2. CanMeet(f)' <=> CanMeet(f)
        BY <1>1, SameCanMeet
    <2>3. \A k : InFrame(f, k)' <=> InFrame(f, k)
        BY <1>1 DEF InFrame, Resting, Verdict
    <2> QED BY <1>1, <2>1, <2>2, <2>3 DEF HeaderComes
<1>6. DataComes(D, h, m, wire)' <=> DataComes(D, h, m, wire)
    BY <1>1
<1> QED BY <1>1, <1>2, <1>3, <1>4, <1>5, <1>6 DEF NoiseInv

-----------------------------------------------------------------------------
(* One fault only cuts, whatever the payloads *)

\* The invariant of Reception that says what one fault leaves on the line: all that
\* may come to the I automaton as data, behind any header there is, is accounted
\* for by the payload of a frame sent, or is refused by its checksum.
THEOREM NoiseInvHolds ==
    ASSUME ReceptionAssumption
    PROVE  Spec => [](ReceptionInv /\ NoiseInv)
<1>1. Init => NoiseInv
    BY InitIsNoiseInv
<1>2. ReceptionInv /\ NoiseInv /\ [Next]_vars => NoiseInv'
    <2> SUFFICES ASSUME ReceptionInv, NoiseInv, [Next]_vars PROVE NoiseInv'
        OBVIOUS
    <2>1. CASE Send
        BY <2>1, SendNoiseInv
    <2>2. CASE SendNoisy \/ SendCut
        BY <2>2, NoiseNoiseInv
    <2>3. CASE Read
        BY <2>3, ReadNoiseInv
    <2>4. CASE ReadStopped
        BY <2>4, ReadStoppedNoiseInv
    <2>5. CASE UNCHANGED vars
        BY <2>5, StutteringNoiseInv
    <2> QED BY <2>1, <2>2, <2>3, <2>4, <2>5 DEF Next
<1> QED BY <1>1, <1>2, ReceptionInvHolds, PTL DEF Spec

\* One bit flipped in one frame, or one frame cut short, whatever the payloads and
\* wherever it is: the data that llread accepts are those of a frame sent, or a
\* part of them; no bit of them is wrong, and nothing of two frames is mixed.
THEOREM NoiseOnlyCutsHolds ==
    ASSUME ReceptionAssumption
    PROVE  Spec => []NoiseOnlyCuts
<1>1. NoiseInv => NoiseOnlyCuts
    BY DEF NoiseInv
<1> QED BY <1>1, NoiseInvHolds, PTL

-----------------------------------------------------------------------------
(* No fault, and nothing is lost or added *)

\* Before any noise all that has been seen counts as heard.
QuietInv == faults = 0 => got = heard

\* Only a byte of a whole frame can be read, and what comes of it is heard.
LEMMA NextQuietInv ==
    ASSUME ReceptionAssumption, ReceptionInv, QuietInv, [Next]_vars
    PROVE  QuietInv'
<1>1. faults \in Nat
    BY DEF ReceptionAssumption, ReceptionInv, TypeOK
<1>2. CASE Send
    BY <1>2 DEF Send, QuietInv
<1>3. CASE SendNoisy \/ SendCut
    <2>1. faults' = faults + 1
        BY <1>3 DEF SendNoisy, SendCut
    <2> QED BY <1>1, <2>1 DEF QuietInv
<1>4. CASE Read
    <2>1. wire # <<>> /\ faults' = faults /\ whole' = whole
        BY <1>4 DEF Read
    <2>2. faults = 0 => whole # <<>>
        BY <2>1 DEF ReceptionInv
    <2>3. UNCHANGED <<got, heard>> \/ \E o : Tell(o)
        BY <1>4 DEF Read
    <2> QED BY <2>1, <2>2, <2>3 DEF Tell, QuietInv
<1>5. CASE ReadStopped
    BY <1>5 DEF ReadStopped, QuietInv
<1>6. CASE UNCHANGED vars
    BY <1>6 DEF vars, QuietInv
<1> QED BY <1>2, <1>3, <1>4, <1>5, <1>6 DEF Next

\* On a line without faults the caller of ll_expect_Sframe, _Uframe or _Iframe, called
\* again and again, sees all frames sent, in their order, as SOutcome, UOutcome and
\* IOutcome say, and nothing else: whatever the payloads, from the first byte on.
THEOREM QuietIsExact ==
    ASSUME ReceptionAssumption
    PROVE  Spec => [](wire = <<>> /\ faults = 0 => got = SeenOf(sent))
<1>1. Init => QuietInv
    BY DEF Init, QuietInv
<1>2. ReceptionInv /\ QuietInv /\ [Next]_vars => QuietInv'
    BY NextQuietInv
<1>3. NoiseInv /\ QuietInv /\ WholeIsSeen => (wire = <<>> /\ faults = 0 => got = SeenOf(sent))
    BY DEF NoiseInv, QuietInv, WholeIsSeen, HeardAre
<1> QED BY <1>1, <1>2, <1>3, NoiseInvHolds, WholeIsSeenHolds, PTL DEF Spec

=============================================================================

--------------------------- MODULE Framing_proofs ---------------------------
(***************************************************************************)
(* What the functions of Framing do with data of any length: stuffed data  *)
(* have no FLAG in them, and destuffing gives back what was stuffed.       *)
(***************************************************************************)
EXTENDS Framing, SequenceTheorems, FiniteSetTheorems, TLAPS

-----------------------------------------------------------------------------
(* Induction: a set stands for what is to be shown of a number, a function    *)
(* for the step of a recursion.                                               *)

Below == {pair \in Nat \X Nat : pair[1] < pair[2]}

\* A set of natural numbers that is not empty has a least element.
LEMMA LeastNumber ==
    ASSUME NEW S, S \subseteq Nat, S # {}
    PROVE  \E n \in S : \A k \in S : n <= k
<1>1. IsWellFoundedOn(Below, Nat)
    <2>1. OpToRel(<, Nat) = Below
        BY DEF OpToRel, Below
    <2> QED BY <2>1, NatLessThanWellFounded
<1>2. PICK n \in S : \A k \in S : ~(<<k, n>> \in Below)
    BY <1>1, WFMin
<1>3. n \in Nat /\ \A k \in S : k \in Nat /\ ~(k < n)
    BY <1>2 DEF Below
<1> QED BY <1>3

\* A set that has 0, and with each number below n the next one, has all up to n.
LEMMA UpTo ==
    ASSUME NEW n \in Nat, NEW S, 0 \in S,
           \A i \in 0..n : i # n /\ i \in S => i + 1 \in S
    PROVE  \A i \in 0..n : i \in S
<1> DEFINE missing == {i \in 0..n : i \notin S}
<1> SUFFICES ASSUME missing # {} PROVE FALSE
    OBVIOUS
<1>1. PICK i \in missing : \A j \in missing : i <= j
    <2>1. missing \subseteq Nat
        OBVIOUS
    <2> HIDE DEF missing
    <2> QED BY <2>1, LeastNumber
<1>2. i - 1 \in 0..n /\ i - 1 # n /\ i - 1 \notin missing /\ (i - 1) + 1 = i
    BY <1>1
<1> QED BY <1>1, <1>2

Steps(step, n, T) == \A i \in 1..n : \A t \in T : step[<<i, t>>] \in T

Solves(g, n, base, step) == g[0] = base /\ \A i \in 1..n : g[i] = step[<<i, g[i - 1]>>]

\* A recursion over 0..n has a solution.
LEMMA Recursion ==
    ASSUME NEW n \in Nat, NEW T, NEW base \in T, NEW step, Steps(step, n, T)
    PROVE  \E g : g \in [0..n -> T] /\ Solves(g, n, base, step)
<1> USE DEF Solves
<1> DEFINE S == {k \in 0..n : \E g \in [0..n -> T] : Solves(g, k, base, step)}
<1>1. 0 \in S
    <2>1. [i \in 0..n |-> base] \in [0..n -> T] /\ Solves([i \in 0..n |-> base], 0, base, step)
        OBVIOUS
    <2>2. 0 \in 0..n
        OBVIOUS
    <2> QED BY <2>1, <2>2
<1>2. ASSUME NEW k \in 0..n, k # n, k \in S PROVE k + 1 \in S
    <2>1. PICK g \in [0..n -> T] : Solves(g, k, base, step)
        BY <1>2
    <2>2. k + 1 \in 1..n /\ g[k] \in T
        BY <1>2, <2>1
    <2> DEFINE h == [g EXCEPT ![k + 1] = step[<<k + 1, g[k]>>]]
    <2>3. h \in [0..n -> T]
        BY <2>2 DEF Steps
    <2>4. h[0] = base
        BY <2>1, <2>2
    <2>5. ASSUME NEW i \in 1..k + 1 PROVE h[i] = step[<<i, h[i - 1]>>]
        <3>1. i - 1 \in 0..n /\ i - 1 # k + 1 /\ i \in 0..n
            BY <2>2
        <3>2. h[i - 1] = g[i - 1]
            BY <3>1
        <3>3. CASE i = k + 1
            <4>1. i - 1 = k /\ h[i] = step[<<k + 1, g[k]>>]
                BY <3>1, <3>3
            <4> HIDE DEF h
            <4> QED BY <3>2, <3>3, <4>1
        <3>4. CASE i # k + 1
            <4>1. i \in 1..k
                BY <3>4
            <4>2. g[i] = step[<<i, g[i - 1]>>]
                BY <2>1, <4>1
            <4> QED BY <3>1, <3>2, <3>4, <4>2
        <3> QED BY <3>3, <3>4
    <2>6. Solves(h, k + 1, base, step)
        BY <2>4, <2>5
    <2>7. k + 1 \in 0..n
        BY <1>2
    <2> HIDE DEF h, Solves
    <2> QED BY <2>3, <2>6, <2>7
<1>3. n \in S
    <2> HIDE DEF S
    <2>1. \A k \in 0..n : k # n /\ k \in S => k + 1 \in S
        BY <1>2
    <2>2. \A k \in 0..n : k \in S
        BY <1>1, <2>1, UpTo
    <2> QED BY <2>2
<1> QED BY <1>3

Alike(g, h, n) == g[0] = h[0] /\ \A i \in 1..n : g[i - 1] = h[i - 1] => g[i] = h[i]

\* It has no other.
LEMMA SameRecursion ==
    ASSUME NEW n \in Nat, NEW g, NEW h, Alike(g, h, n)
    PROVE  \A i \in 0..n : g[i] = h[i]
<1> USE DEF Alike
<1> DEFINE S == {i \in 0..n : g[i] = h[i]}
<1>1. 0 \in S
    OBVIOUS
<1>2. \A i \in 0..n : i # n /\ i \in S => i + 1 \in S
    <2>1. \A i \in 0..n : i # n => i + 1 \in 1..n /\ (i + 1) - 1 = i
        OBVIOUS
    <2> QED BY <2>1
<1> HIDE DEF S
<1>3. \A i \in 0..n : i \in S
    BY <1>1, <1>2, UpTo
<1> QED BY <1>3 DEF S

-----------------------------------------------------------------------------
(* Sequences of sequences *)

\* FlattenSeq is a recursion from the left.
LEMMA FlattenIs ==
    ASSUME NEW T, NEW ss \in Seq(Seq(T))
    PROVE  \E g :
              /\ g \in [0..Len(ss) -> Seq(T)]
              /\ g[0] = <<>>
              /\ \A i \in 1..Len(ss) : g[i] = g[i - 1] \o ss[i]
              /\ FlattenSeq(ss) = g[Len(ss)]
<1> DEFINE n == Len(ss)
           step == [x \in (1..n) \X Seq(T) |-> x[2] \o ss[x[1]]]
           Rec(f) == f = [i \in 1..n |-> IF i = 1 THEN ss[i] ELSE f[i - 1] \o ss[i]]
<1>0. n \in Nat /\ <<>> \in Seq(T) /\ \A i \in 1..n : ss[i] \in Seq(T)
    OBVIOUS
<1>1. \A i \in 1..n, t \in Seq(T) : step[<<i, t>>] = t \o ss[i] /\ step[<<i, t>>] \in Seq(T)
    <2>1. \A i \in 1..n, t \in Seq(T) : step[<<i, t>>] = t \o ss[i]
        OBVIOUS
    <2>2. \A i \in 1..n, t \in Seq(T) : t \o ss[i] \in Seq(T)
        BY <1>0, ConcatProperties
    <2> QED BY <2>1, <2>2
<1>2. PICK g : /\ g \in [0..n -> Seq(T)]
               /\ g[0] = <<>> /\ \A i \in 1..n : g[i] = step[<<i, g[i - 1]>>]
    <2>1. Steps(step, n, Seq(T))
        BY <1>1 DEF Steps
    <2> HIDE DEF step, n
    <2>2. \E g : g \in [0..n -> Seq(T)] /\ Solves(g, n, <<>>, step)
        BY <1>0, <2>1, Recursion, Zenon
    <2> QED BY <2>2 DEF Solves
<1>3. \A i \in 1..n : i - 1 \in 0..n /\ g[i - 1] \in Seq(T) /\ g[i] = g[i - 1] \o ss[i]
    <2>1. \A i \in 1..n : i - 1 \in 0..n
        BY <1>0
    <2>2. \A i \in 1..n : g[i - 1] \in Seq(T)
        BY <1>2, <2>1
    <2> HIDE DEF step
    <2> QED BY <1>1, <1>2, <2>1, <2>2
<1>4. CASE n = 0
    <2>1. FlattenSeq(ss) = ss /\ ss = <<>>
        BY <1>4 DEF FlattenSeq
    <2> QED BY <1>2, <1>3, <1>4, <2>1
<1>5. CASE n # 0
    <2> DEFINE r == [i \in 1..n |-> g[i]]
               f == CHOOSE f : Rec(f)
    <2>1. Rec(r)
        <3>1. 0 + 1 = 1 /\ 1 \in 1..n
            BY <1>0, <1>5
        <3>2. g[1] = ss[1]
            <4>1. g[1] = g[0] \o ss[1] /\ ss[1] \in Seq(T)
                <5>1. 1 - 1 = 0
                    OBVIOUS
                <5> HIDE DEF n
                <5> QED BY <1>0, <1>3, <3>1, <5>1, Zenon
            <4> QED BY <1>2, <4>1, ConcatEmptySeq
        <3>3. ASSUME NEW i \in 1..n, i # 1 PROVE r[i] = r[i - 1] \o ss[i]
            <4>1. i - 1 \in 1..n
                BY <3>3
            <4> QED BY <1>3, <4>1
        <3> QED BY <3>2, <3>3
    <2>2. Rec(f)
        <3>1. \E x : Rec(x)
            BY <2>1
        <3> HIDE DEF Rec
        <3> QED BY <3>1
    <2>3. FlattenSeq(ss) = f[n]
        BY <1>5 DEF FlattenSeq
    <2>4. f[n] = g[n]
        <3> DEFINE h == [i \in 0..n |-> IF i = 0 THEN <<>> ELSE f[i]]
        <3> HIDE DEF f, r
        <3>1. g[0] = h[0]
            BY <1>0, <1>2
        <3>2. ASSUME NEW i \in 1..n, g[i - 1] = h[i - 1] PROVE g[i] = h[i]
            <4>1. CASE i = 1
                <5>1. f[1] = ss[1]
                    BY <2>2, <3>2, <4>1
                <5>2. g[1] = g[0] \o ss[1] /\ ss[1] \in Seq(T)
                    <6>1. 1 - 1 = 0
                        OBVIOUS
                    <6> HIDE DEF n
                    <6> QED BY <1>0, <1>3, <3>2, <4>1, <6>1, Zenon
                <5>3. g[1] = ss[1]
                    BY <1>2, <5>2, ConcatEmptySeq
                <5>4. h[1] = f[1]
                    BY <3>2, <4>1
                <5> QED BY <4>1, <5>1, <5>3, <5>4
            <4>2. CASE i # 1
                <5>1. i - 1 \in 1..n /\ i \in 0..n /\ i - 1 \in 0..n /\ i - 1 # 0
                    BY <4>2
                <5>2. f[i] = f[i - 1] \o ss[i]
                    BY <2>2, <4>2
                <5>3. h[i] = f[i] /\ h[i - 1] = f[i - 1]
                    BY <5>1
                <5> QED BY <1>3, <3>2, <5>2, <5>3
            <4> QED BY <4>1, <4>2
        <3>3. \A i \in 0..n : g[i] = h[i]
            <4> HIDE DEF h, n
            <4>1. \A i \in 1..n : g[i - 1] = h[i - 1] => g[i] = h[i]
                BY <3>2
            <4>2. Alike(g, h, n)
                BY <3>1, <4>1 DEF Alike
            <4> QED BY <1>0, <4>2, SameRecursion, Zenon
        <3> QED BY <1>0, <1>5, <3>3
    <2> HIDE DEF f
    <2> QED BY <1>2, <1>3, <2>3, <2>4
<1> QED BY <1>4, <1>5

\* One sequence more is appended to the others.
LEMMA FlattenAppend ==
    ASSUME NEW T, NEW ss \in Seq(Seq(T)), NEW s \in Seq(T)
    PROVE  /\ FlattenSeq(ss) \in Seq(T)
           /\ FlattenSeq(Append(ss, s)) = FlattenSeq(ss) \o s
<1> DEFINE n == Len(ss)
           more == Append(ss, s)
<1>1. /\ n \in Nat /\ more \in Seq(Seq(T)) /\ Len(more) = n + 1
      /\ \A i \in 1..n : more[i] = ss[i]
      /\ more[n + 1] = s
    OBVIOUS
<1>2. PICK g :
          /\ g \in [0..n -> Seq(T)]
          /\ g[0] = <<>>
          /\ \A i \in 1..n : g[i] = g[i - 1] \o ss[i]
          /\ FlattenSeq(ss) = g[n]
    BY FlattenIs
<1> HIDE DEF more
<1>3. PICK h :
          /\ h \in [0..n + 1 -> Seq(T)]
          /\ h[0] = <<>>
          /\ \A i \in 1..n + 1 : h[i] = h[i - 1] \o more[i]
          /\ FlattenSeq(more) = h[n + 1]
    <2>1. PICK h :
              /\ h \in [0..Len(more) -> Seq(T)]
              /\ h[0] = <<>>
              /\ \A i \in 1..Len(more) : h[i] = h[i - 1] \o more[i]
              /\ FlattenSeq(more) = h[Len(more)]
        BY <1>1, FlattenIs
    <2> QED BY <1>1, <2>1
<1> HIDE DEF n
<1>4. g[n] = h[n]
    <2>1. \A i \in 1..n : g[i - 1] = h[i - 1] => g[i] = h[i]
        <3>1. \A i \in 1..n : i \in 1..n + 1
            BY <1>1
        <3> QED BY <1>1, <1>2, <1>3, <3>1
    <2>2. \A i \in 0..n : g[i] = h[i]
        <3>1. n \in Nat /\ g[0] = h[0]
            BY <1>1, <1>2, <1>3
        <3>2. Alike(g, h, n)
            BY <2>1, <3>1 DEF Alike
        <3> QED BY <3>1, <3>2, SameRecursion, Zenon
    <2> QED BY <1>1, <2>2
<1>5. h[n + 1] = h[n] \o s
    <2>1. n + 1 \in 1..n + 1 /\ (n + 1) - 1 = n
        BY <1>1
    <2> QED BY <1>1, <1>3, <2>1
<1>6. g[n] \in Seq(T)
    BY <1>1, <1>2
<1> QED BY <1>2, <1>3, <1>4, <1>5, <1>6 DEF more

-----------------------------------------------------------------------------
(* Bytes *)

\* The codes are bytes, and those that an automaton has to tell apart differ.
LEMMA Codes ==
    /\ FLAG \in Byte /\ ESC \in Byte /\ A_SEND \in Byte /\ A_RECV \in Byte
    /\ C_SET \in Byte /\ C_DISC \in Byte /\ C_UA \in Byte
    /\ \A n \in {0, 1} : C_I(n) \in Byte /\ RR(n) \in Byte /\ REJ(n) \in Byte
    /\ FLAG \notin {ESC, A_SEND, A_RECV, C_SET, C_DISC, C_UA, {}}
    /\ \A n \in {0, 1} : FLAG \notin {C_I(n), RR(n), REJ(n)}
    /\ A_SEND # A_RECV
<1>1. /\ FLAG \in Byte /\ ESC \in Byte /\ A_SEND \in Byte /\ A_RECV \in Byte
      /\ C_SET \in Byte /\ C_DISC \in Byte /\ C_UA \in Byte
    BY DEF Byte, FLAG, ESC, A_SEND, A_RECV, C_SET, C_DISC, C_UA
<1>2. \A n \in {0, 1} : C_I(n) \in Byte /\ RR(n) \in Byte /\ REJ(n) \in Byte
    BY DEF Byte, C_I, RR, REJ
<1>3. 1 \in FLAG /\ 1 \notin ESC
    BY DEF FLAG, ESC
<1>4. 5 \in FLAG /\ 5 \notin A_SEND /\ 5 \notin A_RECV /\ 5 \notin C_SET
    BY DEF FLAG, A_SEND, A_RECV, C_SET
<1>5. 5 \notin C_DISC /\ 5 \notin C_UA
    BY DEF C_DISC, C_UA
<1>6. \A n \in {0, 1} : 5 \notin C_I(n) /\ 5 \notin RR(n) /\ 5 \notin REJ(n)
    BY DEF C_I, RR, REJ
<1>7. 1 \in A_SEND /\ 1 \notin A_RECV
    BY DEF A_SEND, A_RECV
<1> QED BY <1>1, <1>2, <1>3, <1>4, <1>5, <1>6, <1>7

LEMMA XorIsByte == \A x, y \in Byte : Xor(x, y) \in Byte
BY DEF Byte, Xor

LEMMA FlippedIsByte ==
    \A b \in Byte, bit \in 0..7 : Flipped(b, bit) \in Byte /\ Flipped(Flipped(b, bit), bit) = b
BY DEF Byte, Flipped, Xor

LEMMA BCCIsByte == \A s : BCC(s) \in Byte
BY DEF BCC, Byte

\* BCC1, of two bytes.
LEMMA BCCOfTwo ==
    ASSUME NEW a \in Byte, NEW c \in Byte
    PROVE  BCC(<<a, c>>) = Xor(a, c)
<1> DEFINE where(bit) == {i \in DOMAIN <<a, c>> : bit \in <<a, c>>[i]}
<1>0. /\ Cardinality({}) = 0 /\ Cardinality({1}) = 1 /\ Cardinality({2}) = 1
      /\ Cardinality({1, 2}) = 2
    <2>0. \A x : IsFiniteSet({x}) /\ Cardinality({x}) = 1
        BY FS_Singleton, Zenon
    <2>1. Cardinality({1} \cup {2}) = Cardinality({1}) + 1
        <3>1. 2 \notin {1}
            OBVIOUS
        <3> QED BY <2>0, <3>1, FS_AddElement
    <2>2. {1} \cup {2} = {1, 2}
        OBVIOUS
    <2>3. Cardinality({}) = 0
        BY FS_EmptySet
    <2>4. Cardinality({1}) = 1 /\ Cardinality({2}) = 1
        BY <2>0, Zenon
    <2> QED BY <2>1, <2>2, <2>3, <2>4
<1>1. \A bit \in 0..7 :
          where(bit) = {i \in {1, 2} : IF i = 1 THEN bit \in a ELSE bit \in c}
    OBVIOUS
<1>2. \A bit \in 0..7 : Cardinality(where(bit)) % 2 = 1 <=> bit \in Xor(a, c)
    <2> SUFFICES ASSUME NEW bit \in 0..7
                 PROVE  Cardinality(where(bit)) % 2 = 1 <=> bit \in Xor(a, c)
        OBVIOUS
    <2> HIDE DEF where
    <2>0. where(bit) = {i \in {1, 2} : IF i = 1 THEN bit \in a ELSE bit \in c}
        BY <1>1
    <2>1. CASE bit \in a /\ bit \in c
        <3>1. where(bit) = {1, 2}
            BY <2>0, <2>1
        <3> QED BY <1>0, <2>1, <3>1 DEF Xor
    <2>2. CASE bit \in a /\ bit \notin c
        <3>1. where(bit) = {1}
            BY <2>0, <2>2
        <3> QED BY <1>0, <2>2, <3>1 DEF Xor
    <2>3. CASE bit \notin a /\ bit \in c
        <3>1. where(bit) = {2}
            BY <2>0, <2>3
        <3> QED BY <1>0, <2>3, <3>1 DEF Xor
    <2>4. CASE bit \notin a /\ bit \notin c
        <3>1. where(bit) = {}
            BY <2>0, <2>4
        <3> QED BY <1>0, <2>4, <3>1 DEF Xor
    <2> QED BY <2>1, <2>2, <2>3, <2>4
<1>3. BCC(<<a, c>>) = {bit \in 0..7 : Cardinality(where(bit)) % 2 = 1}
    BY DEF BCC
<1>4. Xor(a, c) \subseteq 0..7
    BY DEF Xor, Byte
<1> HIDE DEF where
<1> QED BY <1>2, <1>3, <1>4

\* No FLAG is left in a stuffed byte.
LEMMA EscapedByte ==
    ASSUME NEW b \in Byte
    PROVE  /\ Escaped(b) \in Seq(Byte)
           /\ \A i \in 1..Len(Escaped(b)) : Escaped(b)[i] # FLAG
<1>1. CASE b \in {FLAG, ESC}
    <2>1. Flipped(b, 5) \in Byte /\ ESC \in Byte /\ ESC # FLAG
        BY FlippedIsByte, Codes
    <2>2. Flipped(b, 5) # FLAG
        BY <1>1 DEF Flipped, Xor, FLAG, ESC
    <2>3. Escaped(b) = <<ESC, Flipped(b, 5)>>
        BY <1>1 DEF Escaped
    <2> QED BY <2>1, <2>2, <2>3
<1>2. CASE b \notin {FLAG, ESC}
    BY <1>2 DEF Escaped
<1> QED BY <1>1, <1>2

-----------------------------------------------------------------------------
(* Stuffing *)

LEMMA StuffedAppend ==
    ASSUME NEW s \in Seq(Byte), NEW b \in Byte
    PROVE  /\ Stuffed(s) \in Seq(Byte)
           /\ Stuffed(Append(s, b)) = Stuffed(s) \o Escaped(b)
<1> DEFINE escaped(t) == [i \in DOMAIN t |-> Escaped(t[i])]
<1>1. ASSUME NEW t \in Seq(Byte) PROVE escaped(t) \in Seq(Seq(Byte))
    <2>1. \A i \in 1..Len(t) : Escaped(t[i]) \in Seq(Byte)
        BY <1>1, EscapedByte
    <2>2. DOMAIN t = 1..Len(t)
        BY <1>1
    <2> QED BY <1>1, <2>1, <2>2
<1>2. escaped(Append(s, b)) = Append(escaped(s), Escaped(b))
    <2>1. Escaped(b) \in Seq(Byte) /\ escaped(s) \in Seq(Seq(Byte))
        BY <1>1, EscapedByte
    <2>2. /\ Append(s, b) \in Seq(Byte) /\ Len(Append(s, b)) = Len(s) + 1
          /\ \A i \in 1..Len(s) : Append(s, b)[i] = s[i]
          /\ Append(s, b)[Len(s) + 1] = b
        OBVIOUS
    <2>3. escaped(Append(s, b)) \in Seq(Seq(Byte))
        BY <1>1, <2>2
    <2>4. Len(escaped(s)) = Len(s) /\ Len(escaped(Append(s, b))) = Len(s) + 1
        BY <2>2
    <2>5. /\ \A i \in 1..Len(s) : escaped(s)[i] = Escaped(s[i])
          /\ \A i \in 1..Len(s) + 1 : escaped(Append(s, b))[i] = Escaped(Append(s, b)[i])
        BY <2>2
    <2> HIDE DEF escaped
    <2>6. /\ Append(escaped(s), Escaped(b)) \in Seq(Seq(Byte))
          /\ Len(Append(escaped(s), Escaped(b))) = Len(s) + 1
          /\ \A i \in 1..Len(s) : Append(escaped(s), Escaped(b))[i] = escaped(s)[i]
          /\ Append(escaped(s), Escaped(b))[Len(s) + 1] = Escaped(b)
        BY <2>1, <2>4, AppendProperties
    <2>7. \A i \in 1..Len(s) + 1 :
              escaped(Append(s, b))[i] = Append(escaped(s), Escaped(b))[i]
        <3> SUFFICES ASSUME NEW i \in 1..Len(s) + 1
                     PROVE  escaped(Append(s, b))[i] = Append(escaped(s), Escaped(b))[i]
            OBVIOUS
        <3>0. escaped(Append(s, b))[i] = Escaped(Append(s, b)[i])
            BY <2>5
        <3>1. CASE i = Len(s) + 1
            <4>1. Append(s, b)[i] = b
                BY <2>2, <3>1
            <4>2. Append(escaped(s), Escaped(b))[i] = Escaped(b)
                BY <2>6, <3>1
            <4> QED BY <3>0, <4>1, <4>2, Zenon
        <3>2. CASE i \in 1..Len(s)
            <4>1. Append(s, b)[i] = s[i]
                BY <2>2, <3>2
            <4>2. Append(escaped(s), Escaped(b))[i] = Escaped(s[i])
                BY <2>5, <2>6, <3>2
            <4> QED BY <3>0, <4>1, <4>2, Zenon
        <3>3. i = Len(s) + 1 \/ i \in 1..Len(s)
            BY <2>2
        <3> QED BY <3>1, <3>2, <3>3, Zenon
    <2> QED BY <2>3, <2>4, <2>6, <2>7, SeqEqual
<1>3. escaped(s) \in Seq(Seq(Byte)) /\ Escaped(b) \in Seq(Byte)
    BY <1>1, EscapedByte
<1>4. Stuffed(s) = FlattenSeq(escaped(s)) /\ Stuffed(Append(s, b)) = FlattenSeq(escaped(Append(s, b)))
    BY DEF Stuffed
<1> HIDE DEF escaped
<1> QED BY <1>2, <1>3, <1>4, FlattenAppend

\* The data of an I-frame, in which BCC2 is stuffed apart.
LEMMA StuffedParts ==
    /\ Stuffed(<<>>) = <<>>
    /\ \A s \in Seq(Byte), b \in Byte :
          Stuffed(s) \o Stuffed(<<b>>) = Stuffed(Append(s, b))
<1>1. Stuffed(<<>>) = <<>>
    <2>1. [i \in DOMAIN <<>> |-> Escaped(<<>>[i])] = <<>>
        OBVIOUS
    <2> QED BY <2>1 DEF Stuffed, FlattenSeq
<1>2. ASSUME NEW s \in Seq(Byte), NEW b \in Byte
      PROVE  Stuffed(s) \o Stuffed(<<b>>) = Stuffed(Append(s, b))
    <2>1. <<>> \in Seq(Byte) /\ Append(<<>>, b) = <<b>>
        OBVIOUS
    <2>2. Stuffed(<<b>>) = <<>> \o Escaped(b)
        BY <1>1, <2>1, StuffedAppend
    <2>3. Stuffed(<<b>>) = Escaped(b)
        BY <2>2, EscapedByte, ConcatEmptySeq
    <2> QED BY <2>3, StuffedAppend
<1> QED BY <1>1, <1>2

\* What holds of no data, and with data of them and one byte more, holds of all.
LEMMA ByAppending ==
    ASSUME NEW s \in Seq(Byte), NEW S, <<>> \in S,
           \A p \in Seq(Byte) : \A b \in Byte : p \in S => Append(p, b) \in S
    PROVE  s \in S
<1> DEFINE upto == {i \in 0..Len(s) : SubSeq(s, 1, i) \in S}
<1>0. Len(s) \in Nat /\ \A i \in 1..Len(s) : s[i] \in Byte
    OBVIOUS
<1>1. 0 \in upto
    <2>1. SubSeq(s, 1, 0) = <<>>
        BY SubSeqEmpty
    <2>2. 0 \in 0..Len(s)
        BY <1>0
    <2> QED BY <2>1, <2>2, Zenon
<1>2. \A i \in 0..Len(s) : i # Len(s) /\ i \in upto => i + 1 \in upto
    <2> SUFFICES ASSUME NEW i \in 0..Len(s), i # Len(s), i \in upto
                 PROVE  i + 1 \in upto
        OBVIOUS
    <2>1. i + 1 \in 1..Len(s) /\ i + 1 \in 0..Len(s)
        BY <1>0
    <2>2. SubSeq(s, 1, i) \in Seq(Byte) /\ SubSeq(s, 1, i + 1) \in Seq(Byte)
        BY <1>0, <2>1
    <2>3. SubSeq(s, 1, i + 1) = Append(SubSeq(s, 1, i), s[i + 1])
        BY <1>0, <2>1, <2>2
    <2>4. SubSeq(s, 1, i) \in S /\ s[i + 1] \in Byte
        BY <1>0, <2>1
    <2> QED BY <2>1, <2>2, <2>3, <2>4
<1>3. \A i \in 0..Len(s) : i \in upto
    <2> HIDE DEF upto
    <2> QED BY <1>0, <1>1, <1>2, UpTo
<1>4. SubSeq(s, 1, Len(s)) = s
    BY SubSeqFull
<1>5. Len(s) \in upto
    <2> HIDE DEF upto
    <2> QED BY <1>0, <1>3
<1> QED BY <1>4, <1>5

\* No FLAG is left in stuffed data.
LEMMA NoFlagIsStuffed ==
    ASSUME NEW s \in Seq(Byte)
    PROVE  \A i \in 1..Len(Stuffed(s)) : Stuffed(s)[i] # FLAG
<1> DEFINE S == {p \in Seq(Byte) : \A i \in 1..Len(Stuffed(p)) : Stuffed(p)[i] # FLAG}
<1>1. <<>> \in S
    BY StuffedParts
<1>2. \A p \in Seq(Byte) : \A b \in Byte : p \in S => Append(p, b) \in S
    <2> SUFFICES ASSUME NEW p \in Seq(Byte), NEW b \in Byte, p \in S
                 PROVE  Append(p, b) \in S
        OBVIOUS
    <2>1. Stuffed(p) \in Seq(Byte) /\ Stuffed(Append(p, b)) = Stuffed(p) \o Escaped(b)
        BY StuffedAppend
    <2>2. Escaped(b) \in Seq(Byte) /\ \A i \in 1..Len(Escaped(b)) : Escaped(b)[i] # FLAG
        BY EscapedByte
    <2> DEFINE t == Stuffed(p)
               e == Escaped(b)
    <2>3. \A i \in 1..Len(t) : t[i] # FLAG
        OBVIOUS
    <2> HIDE DEF t, e
    <2>4. \A i \in 1..Len(t \o e) : (t \o e)[i] # FLAG
        BY <2>1, <2>2, <2>3, ConcatProperties DEF t, e
    <2>5. Append(p, b) \in Seq(Byte)
        OBVIOUS
    <2> QED BY <2>1, <2>4, <2>5 DEF t, e
<1>3. s \in S
    <2> HIDE DEF S
    <2> QED BY <1>1, <1>2, ByAppending
<1> QED BY <1>3

-----------------------------------------------------------------------------
(* Destuffing *)

\* What the loop of ll_destuffing has when it has read s.
Run(to, s) ==
    to = [i \in 0..Len(s) |->
             IF i = 0 THEN NothingRead ELSE DestuffedByte(to[i - 1], s[i])]

ReadTo(s, end) == \E to : Run(to, s) /\ to[Len(s)] = end

Taken == [out : Seq(Byte), escape : {"yes", "no"}]

LEMMA DestuffedByteTyped ==
    ASSUME NEW to \in Taken, NEW b \in Byte
    PROVE  DestuffedByte(to, b) \in Taken
<1>1. to.out \in Seq(Byte) /\ to.escape \in {"yes", "no"} /\ Flipped(b, 5) \in Byte
    BY FlippedIsByte DEF Taken
<1>2. Append(to.out, Flipped(b, 5)) \in Seq(Byte) /\ Append(to.out, b) \in Seq(Byte)
    BY <1>1
<1>3. CASE to.escape = "yes"
    BY <1>2, <1>3 DEF DestuffedByte, Taken
<1>4. CASE to.escape # "yes" /\ b = ESC
    BY <1>1, <1>4 DEF DestuffedByte, Taken
<1>5. CASE to.escape # "yes" /\ b # ESC
    BY <1>1, <1>2, <1>5 DEF DestuffedByte, Taken
<1> QED BY <1>3, <1>4, <1>5

LEMMA ReadNothing == ReadTo(<<>>, NothingRead)
<1> DEFINE to == [i \in 0..0 |-> NothingRead]
<1>1. Run(to, <<>>)
    BY DEF Run
<1>2. to[Len(<<>>)] = NothingRead
    OBVIOUS
<1> HIDE DEF to
<1> QED BY <1>1, <1>2 DEF ReadTo

\* It reads one byte more.
LEMMA ReadByte ==
    ASSUME NEW s \in Seq(Byte), NEW b \in Byte, NEW end, ReadTo(s, end)
    PROVE  ReadTo(Append(s, b), DestuffedByte(end, b))
<1> DEFINE n == Len(s)
           t == Append(s, b)
<1>1. /\ n \in Nat /\ Len(t) = n + 1 /\ t[n + 1] = b
      /\ \A i \in 1..n : t[i] = s[i]
    OBVIOUS
<1>2. PICK to : Run(to, s) /\ to[n] = end
    BY DEF ReadTo
<1> DEFINE more == [i \in 0..n + 1 |-> IF i = n + 1 THEN DestuffedByte(end, b) ELSE to[i]]
<1>3. /\ to[0] = NothingRead
      /\ \A i \in 1..n : to[i] = DestuffedByte(to[i - 1], s[i])
    <2>1. 0 \in 0..n /\ \A i \in 1..n : i \in 0..n /\ i # 0
        BY <1>1
    <2> HIDE DEF n
    <2> QED BY <1>2, <2>1 DEF Run, n
<1> HIDE DEF n, t
<1>4. more[n + 1] = DestuffedByte(end, b) /\ \A i \in 0..n : more[i] = to[i]
    BY <1>1
<1>5. ASSUME NEW i \in 0..n + 1
      PROVE  more[i] = IF i = 0 THEN NothingRead ELSE DestuffedByte(more[i - 1], t[i])
    <2> HIDE DEF more
    <2>1. CASE i = 0
        <3>1. 0 \in 0..n
            BY <1>1
        <3> QED BY <1>3, <1>4, <2>1, <3>1
    <2>2. CASE i = n + 1
        <3>1. i - 1 = n /\ n \in 0..n /\ i # 0
            BY <1>1, <2>2
        <3>2. more[i - 1] = end /\ t[i] = b
            BY <1>1, <1>2, <1>4, <2>2, <3>1 DEF n
        <3> QED BY <1>4, <2>2, <3>1, <3>2
    <2>3. CASE i \in 1..n
        <3>1. i - 1 \in 0..n /\ i \in 0..n /\ i # 0
            BY <1>1, <2>3
        <3>2. more[i - 1] = to[i - 1] /\ more[i] = to[i] /\ t[i] = s[i]
            BY <1>1, <1>4, <2>3, <3>1
        <3> QED BY <1>3, <2>3, <3>1, <3>2
    <2> QED BY <1>1, <2>1, <2>2, <2>3
<1>6. Run(more, t)
    <2>1. more = [i \in 0..n + 1 |-> more[i]]
        OBVIOUS
    <2> DEFINE again == [i \in 0..n + 1 |->
                           IF i = 0 THEN NothingRead ELSE DestuffedByte(more[i - 1], t[i])]
    <2>2. again = [i \in 0..n + 1 |-> more[i]]
        <3> HIDE DEF more
        <3> QED BY <1>5
    <2>3. more = again
        BY <2>1, <2>2
    <2> HIDE DEF more
    <2> QED BY <1>1, <2>3 DEF Run
<1> HIDE DEF more
<1> QED BY <1>1, <1>4, <1>6 DEF ReadTo, t

\* What ll_destuffing returns.
LEMMA DestuffedIs ==
    ASSUME NEW s \in Seq(Byte), NEW end, ReadTo(s, end), NEW stale
    PROVE  Destuffed(s, stale) =
               IF end.escape = "yes" THEN DestuffedByte(end, stale).out ELSE end.out
<1> DEFINE n == Len(s)
           to == CHOOSE to : Run(to, s)
<1>0. n \in Nat
    OBVIOUS
<1>1. PICK x : Run(x, s) /\ x[n] = end
    BY DEF ReadTo
<1>2. Run(to, s)
    BY <1>1
<1>3. Destuffed(s, stale) =
          IF to[n].escape = "yes" THEN DestuffedByte(to[n], stale).out ELSE to[n].out
    BY DEF Destuffed, Run
<1> HIDE DEF to
<1>4. to[n] = x[n]
    <2>1. 0 \in 0..n /\ n \in 0..n /\ \A i \in 1..n : i \in 0..n /\ i # 0
        BY <1>0
    <2> HIDE DEF n
    <2>2. to[0] = NothingRead /\ x[0] = NothingRead
        BY <1>1, <1>2, <2>1 DEF Run, n
    <2>3. \A i \in 1..n : /\ to[i] = DestuffedByte(to[i - 1], s[i])
                          /\ x[i] = DestuffedByte(x[i - 1], s[i])
        BY <1>1, <1>2, <2>1 DEF Run, n
    <2>4. \A i \in 1..n : to[i - 1] = x[i - 1] => to[i] = x[i]
        BY <2>3
    <2>5. to[0] = x[0]
        BY <2>2
    <2>6. \A i \in 0..n : to[i] = x[i]
        <3>1. Alike(to, x, n)
            BY <2>4, <2>5 DEF Alike
        <3> QED BY <1>0, <3>1, SameRecursion, Zenon
    <2> QED BY <2>1, <2>6
<1> QED BY <1>1, <1>3, <1>4

\* Any data are read to their end.
LEMMA AllIsRead ==
    ASSUME NEW s \in Seq(Byte)
    PROVE  \E end \in Taken : ReadTo(s, end)
<1> DEFINE S == {p \in Seq(Byte) : \E end \in Taken : ReadTo(p, end)}
<1>1. <<>> \in S
    <2>1. NothingRead \in Taken
        BY DEF NothingRead, Taken
    <2>2. <<>> \in Seq(Byte)
        OBVIOUS
    <2> QED BY <2>1, <2>2, ReadNothing
<1>2. \A p \in Seq(Byte) : \A b \in Byte : p \in S => Append(p, b) \in S
    <2> SUFFICES ASSUME NEW p \in Seq(Byte), NEW b \in Byte, p \in S
                 PROVE  Append(p, b) \in S
        OBVIOUS
    <2>1. PICK end \in Taken : ReadTo(p, end)
        OBVIOUS
    <2>2. DestuffedByte(end, b) \in Taken /\ ReadTo(Append(p, b), DestuffedByte(end, b))
        BY <2>1, ReadByte, DestuffedByteTyped
    <2>3. Append(p, b) \in Seq(Byte)
        OBVIOUS
    <2> QED BY <2>2, <2>3
<1>3. s \in S
    <2> HIDE DEF S
    <2> QED BY <1>1, <1>2, ByAppending
<1> QED BY <1>3

LEMMA DestuffedTyped ==
    ASSUME NEW s \in Seq(Byte), NEW stale \in Byte
    PROVE  Destuffed(s, stale) \in Seq(Byte)
<1>1. PICK end \in Taken : ReadTo(s, end)
    BY AllIsRead
<1>2. DestuffedByte(end, stale) \in Taken
    BY DestuffedByteTyped
<1>3. Destuffed(s, stale) =
          IF end.escape = "yes" THEN DestuffedByte(end, stale).out ELSE end.out
    BY <1>1, DestuffedIs
<1>4. end.out \in Seq(Byte) /\ DestuffedByte(end, stale).out \in Seq(Byte)
    BY <1>2 DEF Taken
<1> QED BY <1>3, <1>4

\* A byte that was stuffed is read as itself.
LEMMA EscapedIsRead ==
    ASSUME NEW t \in Seq(Byte), NEW p \in Seq(Byte), NEW b \in Byte,
           ReadTo(t, [out |-> p, escape |-> "no"])
    PROVE  ReadTo(t \o Escaped(b), [out |-> Append(p, b), escape |-> "no"])
<1> DEFINE end == [out |-> p, escape |-> "no"]
<1>0. ESC \in Byte /\ Flipped(b, 5) \in Byte /\ Flipped(Flipped(b, 5), 5) = b
    BY Codes, FlippedIsByte
<1>1. CASE b \in {FLAG, ESC}
    <2> DEFINE mid == [out |-> p, escape |-> "yes"]
    <2>1. DestuffedByte(end, ESC) = mid
        BY DEF DestuffedByte
    <2>2. DestuffedByte(mid, Flipped(b, 5)) = [out |-> Append(p, b), escape |-> "no"]
        BY <1>0 DEF DestuffedByte
    <2>3. ReadTo(Append(t, ESC), mid) /\ Append(t, ESC) \in Seq(Byte)
        BY <1>0, <2>1, ReadByte
    <2>4. ReadTo(Append(Append(t, ESC), Flipped(b, 5)), [out |-> Append(p, b), escape |-> "no"])
        BY <1>0, <2>2, <2>3, ReadByte
    <2>5. t \o Escaped(b) = Append(Append(t, ESC), Flipped(b, 5))
        <3>1. Escaped(b) = <<ESC, Flipped(b, 5)>>
            BY <1>1 DEF Escaped
        <3>2. t \o <<ESC, Flipped(b, 5)>> = Append(Append(t, ESC), Flipped(b, 5))
            BY <1>0
        <3> QED BY <3>1, <3>2
    <2> QED BY <2>4, <2>5
<1>2. CASE b \notin {FLAG, ESC}
    <2>1. DestuffedByte(end, b) = [out |-> Append(p, b), escape |-> "no"]
        BY <1>2 DEF DestuffedByte
    <2>2. t \o Escaped(b) = Append(t, b)
        <3>1. Escaped(b) = <<b>>
            BY <1>2 DEF Escaped
        <3>2. t \o <<b>> = Append(t, b)
            BY AppendIsConcat
        <3> QED BY <3>1, <3>2
    <2> QED BY <2>1, <2>2, ReadByte
<1> QED BY <1>1, <1>2

\* ll_destuffing undoes ll_stuffing, whatever is in the memory after the data.
THEOREM DestuffingUndoesStuffing ==
    ASSUME NEW s \in Seq(Byte), NEW stale
    PROVE  Destuffed(Stuffed(s), stale) = s
<1> DEFINE S == {p \in Seq(Byte) : ReadTo(Stuffed(p), [out |-> p, escape |-> "no"])}
<1>1. <<>> \in S
    BY StuffedParts, ReadNothing DEF NothingRead
<1>2. \A p \in Seq(Byte) : \A b \in Byte : p \in S => Append(p, b) \in S
    <2> SUFFICES ASSUME NEW p \in Seq(Byte), NEW b \in Byte, p \in S
                 PROVE  Append(p, b) \in S
        OBVIOUS
    <2>1. Stuffed(p) \in Seq(Byte) /\ Stuffed(Append(p, b)) = Stuffed(p) \o Escaped(b)
        BY StuffedAppend
    <2>2. ReadTo(Stuffed(p), [out |-> p, escape |-> "no"])
        OBVIOUS
    <2>3. ReadTo(Stuffed(p) \o Escaped(b), [out |-> Append(p, b), escape |-> "no"])
        BY <2>1, <2>2, EscapedIsRead
    <2>4. Append(p, b) \in Seq(Byte)
        OBVIOUS
    <2> QED BY <2>1, <2>3, <2>4
<1>3. s \in S
    <2> HIDE DEF S
    <2> QED BY <1>1, <1>2, ByAppending
<1>4. Stuffed(s) \in Seq(Byte)
    <2>1. {} \in Byte
        BY DEF Byte
    <2> QED BY <2>1, StuffedAppend
<1>5. ReadTo(Stuffed(s), [out |-> s, escape |-> "no"])
    BY <1>3
<1>6. Destuffed(Stuffed(s), stale) =
          IF [out |-> s, escape |-> "no"].escape = "yes"
          THEN DestuffedByte([out |-> s, escape |-> "no"], stale).out
          ELSE [out |-> s, escape |-> "no"].out
    BY <1>4, <1>5, DestuffedIs
<1> QED BY <1>6

\* What ll_expect_Iframe makes of an intact payload.
LEMMA IntactIsValid ==
    ASSUME NEW s \in Seq(Byte), s # <<>>
    PROVE  Valid(Append(s, BCC(s))) /\ Payload(Append(s, BCC(s))) = s
<1> DEFINE t == Append(s, BCC(s))
<1>1. /\ Len(t) = Len(s) + 1 /\ Len(s) \in Nat /\ Len(s) # 0
      /\ t[Len(t)] = BCC(s) /\ t \in Seq(Byte)
    BY BCCIsByte
<1>2. SubSeq(t, 1, Len(t) - 1) = s
    BY BCCIsByte
<1> HIDE DEF t
<1>3. Front(t) = s /\ Last(t) = BCC(s)
    BY <1>1, <1>2 DEF Front, Last
<1> QED BY <1>1, <1>3 DEF Valid, Payload, t

-----------------------------------------------------------------------------
(* The exclusive or of all bytes *)

LEMMA XorLaws ==
    /\ \A x \in Byte : Xor(x, x) = {} /\ Xor(x, {}) = x /\ Xor({}, x) = x
    /\ \A x, y \in Byte : Xor(x, y) = Xor(y, x) /\ (Xor(x, y) = {} <=> x = y)
    /\ \A x, y, z \in Byte : Xor(Xor(x, y), z) = Xor(x, Xor(y, z))
<1>1. \A x \in Byte : Xor(x, x) = {} /\ Xor(x, {}) = x /\ Xor({}, x) = x
    BY DEF Xor
<1>2. \A x, y \in Byte : Xor(x, y) = Xor(y, x) /\ (Xor(x, y) = {} <=> x = y)
    BY DEF Xor
<1>3. \A x, y, z \in Byte : Xor(Xor(x, y), z) = Xor(x, Xor(y, z))
    BY DEF Xor
<1> QED BY <1>1, <1>2, <1>3

LEMMA BCCOfNone == BCC(<<>>) = {}
<1>1. \A bit \in 0..7 : {i \in DOMAIN <<>> : bit \in <<>>[i]} = {}
    OBVIOUS
<1>2. Cardinality({}) = 0
    BY FS_EmptySet
<1>3. \A bit \in 0..7 : Cardinality({i \in DOMAIN <<>> : bit \in <<>>[i]}) % 2 # 1
    BY <1>1, <1>2
<1> QED BY <1>3 DEF BCC

\* Of one byte more.
LEMMA BCCOfAppend ==
    ASSUME NEW s \in Seq(Byte), NEW b \in Byte
    PROVE  BCC(Append(s, b)) = Xor(BCC(s), b)
<1> DEFINE n == Len(s)
           where(t, bit) == {i \in DOMAIN t : bit \in t[i]}
           t == Append(s, b)
<1>1. /\ n \in Nat /\ DOMAIN s = 1..n /\ DOMAIN t = 1..n + 1 /\ t[n + 1] = b
      /\ \A i \in 1..n : t[i] = s[i]
    OBVIOUS
<1>2. ASSUME NEW bit \in 0..7
      PROVE  Cardinality(where(t, bit)) % 2 = 1 <=> bit \in Xor(BCC(s), b)
    <2>1. IsFiniteSet(where(s, bit))
        <3>1. IsFiniteSet(1..n)
            BY <1>1, FS_Interval
        <3>2. where(s, bit) \subseteq 1..n
            BY <1>1
        <3> QED BY <3>1, <3>2, FS_Subset
    <2>2. Cardinality(where(s, bit)) \in Nat
        BY <2>1, FS_CardinalityType
    <2>3. bit \in BCC(s) <=> Cardinality(where(s, bit)) % 2 = 1
        BY DEF BCC
    <2>4. CASE bit \in b
        <3>1. where(t, bit) = where(s, bit) \cup {n + 1} /\ n + 1 \notin where(s, bit)
            <4> HIDE DEF t, n
            <4> QED BY <1>1, <2>4
        <3>2. Cardinality(where(t, bit)) = Cardinality(where(s, bit)) + 1
            <4> HIDE DEF where
            <4> QED BY <2>1, <3>1, FS_AddElement
        <3>3. Cardinality(where(t, bit)) % 2 = 1 <=> ~(Cardinality(where(s, bit)) % 2 = 1)
            <4> HIDE DEF where
            <4> QED BY <2>2, <3>2
        <3> HIDE DEF where
        <3> QED BY <2>3, <2>4, <3>3 DEF Xor
    <2>5. CASE bit \notin b
        <3>1. where(t, bit) = where(s, bit)
            <4>1. \A i \in 1..n + 1 : i = n + 1 \/ i \in 1..n
                BY <1>1
            <4>2. \A i \in 1..n : i \in 1..n + 1
                BY <1>1
            <4> HIDE DEF t, n
            <4> QED BY <1>1, <2>5, <4>1, <4>2
        <3> HIDE DEF where
        <3> QED BY <2>3, <2>5, <3>1 DEF Xor
    <2> QED BY <2>4, <2>5
<1>3. BCC(t) = {bit \in 0..7 : Cardinality(where(t, bit)) % 2 = 1}
    BY DEF BCC
<1>4. Xor(BCC(s), b) \subseteq 0..7
    BY BCCIsByte, XorIsByte DEF Byte
<1> HIDE DEF where, t
<1>5. BCC(t) = Xor(BCC(s), b)
    BY <1>2, <1>3, <1>4
<1> QED BY <1>5 DEF t

\* Of two parts.
LEMMA BCCOfParts ==
    ASSUME NEW s \in Seq(Byte), NEW t \in Seq(Byte)
    PROVE  BCC(s \o t) = Xor(BCC(s), BCC(t))
<1> DEFINE S == {u \in Seq(Byte) : BCC(s \o u) = Xor(BCC(s), BCC(u))}
<1>1. <<>> \in S
    <2>1. s \o <<>> = s /\ <<>> \in Seq(Byte)
        OBVIOUS
    <2>2. Xor(BCC(s), {}) = BCC(s)
        BY BCCIsByte, XorLaws
    <2> QED BY <2>1, <2>2, BCCOfNone
<1>2. \A p \in Seq(Byte) : \A b \in Byte : p \in S => Append(p, b) \in S
    <2> SUFFICES ASSUME NEW p \in Seq(Byte), NEW b \in Byte, p \in S
                 PROVE  Append(p, b) \in S
        OBVIOUS
    <2>1. s \o Append(p, b) = Append(s \o p, b) /\ s \o p \in Seq(Byte)
        OBVIOUS
    <2>2. BCC(s \o Append(p, b)) = Xor(Xor(BCC(s), BCC(p)), b)
        BY <2>1, BCCOfAppend
    <2>3. BCC(Append(p, b)) = Xor(BCC(p), b)
        BY BCCOfAppend
    <2>4. BCC(s) \in Byte /\ BCC(p) \in Byte
        BY BCCIsByte
    <2>5. Append(p, b) \in Seq(Byte)
        OBVIOUS
    <2> QED BY <2>2, <2>3, <2>4, <2>5, XorLaws
<1>3. t \in S
    <2> HIDE DEF S
    <2> QED BY <1>1, <1>2, ByAppending
<1> QED BY <1>3

LEMMA LastByte ==
    ASSUME NEW s \in Seq(Byte), s # <<>>
    PROVE  /\ Front(s) \in Seq(Byte) /\ Last(s) \in Byte /\ s = Append(Front(s), Last(s))
           /\ Len(s) \in Nat \ {0} /\ Len(Front(s)) = Len(s) - 1 /\ Last(s) = s[Len(s)]
<1>1. PICK p \in Seq(Byte), b \in Byte : s = Append(p, b)
    BY SequenceEmptyOrAppend
<1>2. /\ Len(s) = Len(p) + 1 /\ Len(p) \in Nat /\ s[Len(s)] = b
      /\ SubSeq(s, 1, Len(s) - 1) = p
    BY <1>1
<1>3. Front(s) = p /\ Last(s) = b
    BY <1>2 DEF Front, Last
<1> QED BY <1>1, <1>2, <1>3

\* Data with a right BCC2 are those of which the exclusive or is 0.
LEMMA ValidIs ==
    ASSUME NEW s \in Seq(Byte)
    PROVE  Valid(s) <=> Len(s) > 1 /\ BCC(s) = {}
<1>1. CASE s = <<>>
    BY <1>1 DEF Valid
<1>2. CASE s # <<>>
    <2>1. BCC(s) = Xor(BCC(Front(s)), Last(s))
        BY <1>2, LastByte, BCCOfAppend
    <2>2. BCC(Front(s)) \in Byte /\ Last(s) \in Byte
        BY <1>2, LastByte, BCCIsByte
    <2>3. BCC(s) = {} <=> Last(s) = BCC(Front(s))
        BY <2>1, <2>2, XorLaws
    <2> QED BY <2>3 DEF Valid
<1> QED BY <1>1, <1>2

LEMMA BytesAssociate ==
    ASSUME NEW p \in Seq(Byte), NEW q \in Seq(Byte), NEW r \in Seq(Byte)
    PROVE  (p \o q) \o r = p \o (q \o r)
BY ConcatAssociative, SMTT(30)

LEMMA AppendToParts ==
    ASSUME NEW p \in Seq(Byte), NEW q \in Seq(Byte), NEW b \in Byte
    PROVE  Append(p \o q, b) = p \o Append(q, b) /\ Append(q, b) \in Seq(Byte)
OBVIOUS

-----------------------------------------------------------------------------
(* The parts of stuffed data *)

LEMMA StuffedTyped == \A s \in Seq(Byte) : Stuffed(s) \in Seq(Byte)
<1>1. {} \in Byte
    BY DEF Byte
<1> QED BY <1>1, StuffedAppend

\* What a byte is stuffed to.
LEMMA EscapedIs ==
    ASSUME NEW b \in Byte
    PROVE  /\ b \in {FLAG, ESC} => Escaped(b) = <<ESC, Flipped(b, 5)>> /\ Len(Escaped(b)) = 2
           /\ b \notin {FLAG, ESC} => Escaped(b) = <<b>> /\ Len(Escaped(b)) = 1
BY DEF Escaped

\* What is stuffed apart is stuffed together.
LEMMA StuffedConcat ==
    ASSUME NEW s \in Seq(Byte), NEW t \in Seq(Byte)
    PROVE  Stuffed(s \o t) = Stuffed(s) \o Stuffed(t)
<1> DEFINE S == {u \in Seq(Byte) : Stuffed(s \o u) = Stuffed(s) \o Stuffed(u)}
<1>1. <<>> \in S
    <2>1. s \o <<>> = s /\ <<>> \in Seq(Byte)
        OBVIOUS
    <2>2. Stuffed(s) \o <<>> = Stuffed(s)
        BY StuffedTyped, ConcatEmptySeq
    <2> QED BY <2>1, <2>2, StuffedParts
<1>2. \A p \in Seq(Byte) : \A b \in Byte : p \in S => Append(p, b) \in S
    <2> SUFFICES ASSUME NEW p \in Seq(Byte), NEW b \in Byte, p \in S
                 PROVE  Append(p, b) \in S
        OBVIOUS
    <2>1. s \o Append(p, b) = Append(s \o p, b) /\ s \o p \in Seq(Byte)
        OBVIOUS
    <2>2. Stuffed(s \o Append(p, b)) = (Stuffed(s) \o Stuffed(p)) \o Escaped(b)
        BY <2>1, StuffedAppend
    <2>3. Stuffed(Append(p, b)) = Stuffed(p) \o Escaped(b)
        BY StuffedAppend
    <2>4. Stuffed(s) \in Seq(Byte) /\ Stuffed(p) \in Seq(Byte) /\ Escaped(b) \in Seq(Byte)
        BY StuffedTyped, EscapedByte
    <2>5. Append(p, b) \in Seq(Byte)
        OBVIOUS
    <2>6. (Stuffed(s) \o Stuffed(p)) \o Escaped(b) = Stuffed(s) \o (Stuffed(p) \o Escaped(b))
        BY <2>4, BytesAssociate, ZenonT(30)
    <2>7. Stuffed(s \o Append(p, b)) = Stuffed(s) \o Stuffed(Append(p, b))
        BY <2>2, <2>3, <2>6, Zenon
    <2> QED BY <2>5, <2>7
<1>3. t \in S
    <2> HIDE DEF S
    <2> QED BY <1>1, <1>2, ByAppending
<1> QED BY <1>3

\* Data of three parts, of which the second is one byte, in stuffed form.
LEMMA StuffedAround ==
    ASSUME NEW p \in Seq(Byte), NEW b \in Byte, NEW t \in Seq(Byte)
    PROVE  /\ Append(p, b) \o t \in Seq(Byte)
           /\ Stuffed(Append(p, b) \o t) = (Stuffed(p) \o Escaped(b)) \o Stuffed(t)
           /\ Stuffed(p) \in Seq(Byte) /\ Escaped(b) \in Seq(Byte) /\ Stuffed(t) \in Seq(Byte)
           /\ Len(Stuffed(p)) \in Nat /\ Len(Escaped(b)) \in Nat /\ Len(Stuffed(t)) \in Nat
<1>1. Append(p, b) \in Seq(Byte)
    OBVIOUS
<1>2. Append(p, b) \o t \in Seq(Byte)
    BY <1>1
<1>3. Stuffed(Append(p, b) \o t) = (Stuffed(p) \o Escaped(b)) \o Stuffed(t)
    BY <1>1, StuffedConcat, StuffedAppend
<1>4. Stuffed(p) \in Seq(Byte) /\ Escaped(b) \in Seq(Byte) /\ Stuffed(t) \in Seq(Byte)
    BY StuffedTyped, EscapedByte
<1> QED BY <1>2, <1>3, <1>4

Splits(s, k, p, b, t) ==
    s = Append(p, b) \o t /\ k > Len(Stuffed(p)) /\ k <= Len(Stuffed(p)) + Len(Escaped(b))

\* Every byte of stuffed data comes from one byte of the data.
LEMMA SplitAt ==
    ASSUME NEW s \in Seq(Byte), NEW k \in 1..Len(Stuffed(s))
    PROVE  \E p \in Seq(Byte), b \in Byte, t \in Seq(Byte) : Splits(s, k, p, b, t)
<1> DEFINE S == {u \in Seq(Byte) : \A i \in 1..Len(Stuffed(u)) :
                     \E p \in Seq(Byte), b \in Byte, t \in Seq(Byte) : Splits(u, i, p, b, t)}
<1>1. <<>> \in S
    BY StuffedParts
<1>2. \A p \in Seq(Byte) : \A b \in Byte : p \in S => Append(p, b) \in S
    <2> SUFFICES ASSUME NEW u \in Seq(Byte), NEW c \in Byte, u \in S
                 PROVE  Append(u, c) \in S
        OBVIOUS
    <2>0. Append(u, c) \in Seq(Byte)
        OBVIOUS
    <2> SUFFICES ASSUME NEW i \in 1..Len(Stuffed(Append(u, c)))
                 PROVE  \E p \in Seq(Byte), b \in Byte, t \in Seq(Byte) :
                            Splits(Append(u, c), i, p, b, t)
        BY <2>0
    <2>1. /\ Stuffed(Append(u, c)) = Stuffed(u) \o Escaped(c)
          /\ Stuffed(u) \in Seq(Byte) /\ Escaped(c) \in Seq(Byte)
        BY StuffedAppend, EscapedByte
    <2>2. /\ Len(Stuffed(Append(u, c))) = Len(Stuffed(u)) + Len(Escaped(c))
          /\ Len(Stuffed(u)) \in Nat /\ Len(Escaped(c)) \in Nat
        BY <2>1, ConcatProperties
    <2>3. CASE i <= Len(Stuffed(u))
        <3>1. i \in 1..Len(Stuffed(u))
            BY <2>2, <2>3
        <3>2. PICK p \in Seq(Byte), b \in Byte, t \in Seq(Byte) : Splits(u, i, p, b, t)
            BY <3>1
        <3>3. Append(u, c) = Append(p, b) \o Append(t, c) /\ Append(t, c) \in Seq(Byte)
            <4>1. u = Append(p, b) \o t /\ Append(p, b) \in Seq(Byte)
                BY <3>2 DEF Splits
            <4>2. Append(Append(p, b) \o t, c) = Append(p, b) \o Append(t, c) /\ Append(t, c) \in Seq(Byte)
                BY <4>1, AppendToParts, Zenon
            <4> QED BY <4>1, <4>2, Zenon
        <3>4. Splits(Append(u, c), i, p, b, Append(t, c))
            BY <3>2, <3>3 DEF Splits
        <3> QED BY <3>3, <3>4
    <2>4. CASE i > Len(Stuffed(u))
        <3>1. Append(u, c) = Append(u, c) \o <<>> /\ <<>> \in Seq(Byte)
            OBVIOUS
        <3>2. i <= Len(Stuffed(u)) + Len(Escaped(c))
            BY <2>2
        <3>3. Splits(Append(u, c), i, u, c, <<>>)
            BY <2>4, <3>1, <3>2 DEF Splits
        <3> QED BY <3>1, <3>3
    <2> QED BY <2>2, <2>3, <2>4
<1>3. s \in S
    <2> HIDE DEF S
    <2> QED BY <1>1, <1>2, ByAppending
<1> QED BY <1>3

\* The bytes of a header have bit 2 not set; those that stuffing makes have it.
LEMMA StuffingMarks ==
    /\ 2 \in FLAG /\ 2 \in ESC /\ 2 \in Flipped(FLAG, 5) /\ 2 \in Flipped(ESC, 5)
    /\ \A n \in {0, 1} : 2 \notin A_SEND /\ 2 \notin C_I(n) /\ 2 \notin Xor(A_SEND, C_I(n))
BY DEF FLAG, ESC, Flipped, Xor, A_SEND, C_I

\* Such a byte, at the end of stuffed data, is the last of the data.
LEMMA LastPlain ==
    ASSUME NEW s \in Seq(Byte), Len(Stuffed(s)) > 0, 2 \notin Stuffed(s)[Len(Stuffed(s))]
    PROVE  \E p \in Seq(Byte), b \in Byte :
              /\ s = Append(p, b) /\ Stuffed(s) = Append(Stuffed(p), b)
              /\ b = Stuffed(s)[Len(Stuffed(s))]
<1>1. s # <<>>
    BY StuffedParts
<1>2. PICK p \in Seq(Byte), b \in Byte : s = Append(p, b)
    BY <1>1, SequenceEmptyOrAppend
<1>3. Stuffed(s) = Stuffed(p) \o Escaped(b) /\ Stuffed(p) \in Seq(Byte)
    BY <1>2, StuffedAppend
<1>4. b \notin {FLAG, ESC}
    <2> SUFFICES ASSUME b \in {FLAG, ESC} PROVE FALSE
        OBVIOUS
    <2>1. Escaped(b) = <<ESC, Flipped(b, 5)>> /\ ESC \in Byte /\ Flipped(b, 5) \in Byte
        <3>1. 5 \in 0..7
            OBVIOUS
        <3> QED BY <3>1, EscapedIs, Codes, FlippedIsByte, Zenon
    <2>2. Stuffed(s)[Len(Stuffed(s))] = Flipped(b, 5)
        BY <1>3, <2>1
    <2> QED BY <2>2, StuffingMarks
<1>5. Stuffed(s) = Append(Stuffed(p), b)
    <2>1. Escaped(b) = <<b>>
        BY <1>4, EscapedIs
    <2> QED BY <1>3, <2>1, AppendIsConcat
<1>6. Stuffed(s)[Len(Stuffed(s))] = b
    BY <1>3, <1>5
<1> QED BY <1>2, <1>5, <1>6

-----------------------------------------------------------------------------
(* Reading what is not as it was sent *)

Plain(o)  == [out |-> o, escape |-> "no"]
Escape(o) == [out |-> o, escape |-> "yes"]

\* The three kinds of byte to ll_destuffing.
LEMMA ReadSteps ==
    ASSUME NEW u \in Seq(Byte), NEW o \in Seq(Byte), NEW b \in Byte
    PROVE  /\ ReadTo(u, Plain(o)) /\ b # ESC => ReadTo(u \o <<b>>, Plain(o \o <<b>>))
           /\ ReadTo(u, Plain(o)) => ReadTo(u \o <<ESC>>, Escape(o))
           /\ ReadTo(u, Escape(o)) => ReadTo(u \o <<b>>, Plain(o \o <<Flipped(b, 5)>>))
<1>1. ESC \in Byte /\ Flipped(b, 5) \in Byte
    BY Codes, FlippedIsByte
<1>2. /\ u \o <<b>> = Append(u, b) /\ u \o <<ESC>> = Append(u, ESC)
      /\ o \o <<b>> = Append(o, b) /\ o \o <<Flipped(b, 5)>> = Append(o, Flipped(b, 5))
    BY <1>1, AppendIsConcat
<1>3. /\ b # ESC => DestuffedByte(Plain(o), b) = Plain(Append(o, b))
      /\ DestuffedByte(Plain(o), ESC) = Escape(o)
      /\ DestuffedByte(Escape(o), b) = Plain(Append(o, Flipped(b, 5)))
    BY DEF DestuffedByte, Plain, Escape
<1>4. ReadTo(u, Plain(o)) /\ b # ESC => ReadTo(Append(u, b), Plain(Append(o, b)))
    BY <1>3, ReadByte
<1>5. ReadTo(u, Plain(o)) => ReadTo(Append(u, ESC), Escape(o))
    BY <1>1, <1>3, ReadByte
<1>6. ReadTo(u, Escape(o)) => ReadTo(Append(u, b), Plain(Append(o, Flipped(b, 5))))
    BY <1>3, ReadByte
<1> QED BY <1>2, <1>4, <1>5, <1>6

\* What it returns.
LEMMA ReadEnds ==
    ASSUME NEW u \in Seq(Byte), NEW o \in Seq(Byte), NEW stale \in Byte
    PROVE  /\ ReadTo(u, Plain(o)) => Destuffed(u, stale) = o
           /\ ReadTo(u, Escape(o)) => Destuffed(u, stale) = o \o <<Flipped(stale, 5)>>
<1>1. Flipped(stale, 5) \in Byte
    BY FlippedIsByte
<1>2. DestuffedByte(Escape(o), stale).out = o \o <<Flipped(stale, 5)>>
    BY <1>1, AppendIsConcat DEF DestuffedByte, Escape
<1>3. Plain(o).escape = "no" /\ Plain(o).out = o /\ Escape(o).escape = "yes"
    BY DEF Plain, Escape
<1> QED BY <1>2, <1>3, DestuffedIs

\* Stuffed data are read as themselves, whatever has been read before.
LEMMA StuffedIsReadOn ==
    ASSUME NEW u \in Seq(Byte), NEW o \in Seq(Byte), NEW s \in Seq(Byte), ReadTo(u, Plain(o))
    PROVE  ReadTo(u \o Stuffed(s), Plain(o \o s))
<1> DEFINE S == {x \in Seq(Byte) : ReadTo(u \o Stuffed(x), Plain(o \o x))}
<1>1. <<>> \in S
    <2>1. u \o <<>> = u /\ o \o <<>> = o /\ <<>> \in Seq(Byte)
        OBVIOUS
    <2> QED BY <2>1, StuffedParts
<1>2. \A p \in Seq(Byte) : \A b \in Byte : p \in S => Append(p, b) \in S
    <2> SUFFICES ASSUME NEW p \in Seq(Byte), NEW b \in Byte, p \in S
                 PROVE  Append(p, b) \in S
        OBVIOUS
    <2>1. /\ Stuffed(p) \in Seq(Byte) /\ Escaped(b) \in Seq(Byte)
          /\ Stuffed(Append(p, b)) = Stuffed(p) \o Escaped(b)
        BY StuffedAppend, EscapedByte
    <2>2. (u \o Stuffed(p)) \o Escaped(b) = u \o Stuffed(Append(p, b))
        <3>1. (u \o Stuffed(p)) \o Escaped(b) = u \o (Stuffed(p) \o Escaped(b))
            BY <2>1, BytesAssociate, ZenonT(30)
        <3> QED BY <2>1, <3>1, Zenon
    <2>3. Append(o \o p, b) = o \o Append(p, b) /\ Append(p, b) \in Seq(Byte)
        BY AppendToParts, Zenon
    <2>4. u \o Stuffed(p) \in Seq(Byte) /\ o \o p \in Seq(Byte)
        BY <2>1, ConcatProperties
    <2>5. ReadTo(u \o Stuffed(p), [out |-> o \o p, escape |-> "no"])
        BY DEF Plain
    <2>6. ReadTo((u \o Stuffed(p)) \o Escaped(b), [out |-> Append(o \o p, b), escape |-> "no"])
        BY <2>4, <2>5, EscapedIsRead
    <2> QED BY <2>2, <2>3, <2>6 DEF Plain
<1>3. s \in S
    <2> HIDE DEF S
    <2> QED BY <1>1, <1>2, ByAppending
<1> QED BY <1>3

LEMMA StuffedIsRead ==
    ASSUME NEW s \in Seq(Byte)
    PROVE  ReadTo(Stuffed(s), Plain(s))
<1>1. <<>> \in Seq(Byte) /\ <<>> \o s = s
    OBVIOUS
<1>2. <<>> \o Stuffed(s) = Stuffed(s)
    BY StuffedTyped, ConcatEmptySeq
<1>3. ReadTo(<<>>, Plain(<<>>))
    BY ReadNothing DEF NothingRead, Plain
<1>4. ReadTo(<<>> \o Stuffed(s), Plain(<<>> \o s))
    BY <1>1, <1>3, StuffedIsReadOn
<1> QED BY <1>1, <1>2, <1>4

LEMMA XorCancels ==
    ASSUME NEW x \in Byte, NEW y \in Byte, NEW y2 \in Byte, NEW z \in Byte,
           Xor(Xor(x, y), z) = {}, Xor(Xor(x, y2), z) = {}
    PROVE  y = y2
<1>1. Xor(x, y) = z /\ Xor(x, y2) = z
    <2>1. Xor(x, y) \in Byte /\ Xor(x, y2) \in Byte
        BY XorIsByte, Zenon
    <2>2. ASSUME NEW w \in Byte, Xor(w, z) = {} PROVE w = z
        BY <2>2 DEF Xor
    <2> QED BY <2>1, <2>2
<1>2. Xor(x, Xor(x, y)) = y /\ Xor(x, Xor(x, y2)) = y2
    BY DEF Xor
<1> QED BY <1>1, <1>2

\* Where only the bytes of one place differ, the exclusive or of all is 0 of both
\* only if that of the place is the same.
LEMMA SamePlace ==
    ASSUME NEW p \in Seq(Byte), NEW r \in Seq(Byte), NEW r2 \in Seq(Byte), NEW t \in Seq(Byte),
           BCC((p \o r) \o t) = {}, BCC((p \o r2) \o t) = {}
    PROVE  BCC(r) = BCC(r2)
<1>1. p \o r \in Seq(Byte) /\ p \o r2 \in Seq(Byte)
    BY ConcatProperties
<1>2. BCC((p \o r) \o t) = Xor(Xor(BCC(p), BCC(r)), BCC(t))
    <2>1. BCC((p \o r) \o t) = Xor(BCC(p \o r), BCC(t))
        BY <1>1, BCCOfParts, Zenon
    <2>2. BCC(p \o r) = Xor(BCC(p), BCC(r))
        BY BCCOfParts, Zenon
    <2> QED BY <2>1, <2>2, Zenon
<1>3. BCC((p \o r2) \o t) = Xor(Xor(BCC(p), BCC(r2)), BCC(t))
    <2>1. BCC((p \o r2) \o t) = Xor(BCC(p \o r2), BCC(t))
        BY <1>1, BCCOfParts, Zenon
    <2>2. BCC(p \o r2) = Xor(BCC(p), BCC(r2))
        BY BCCOfParts, Zenon
    <2> QED BY <2>1, <2>2, Zenon
<1>4. BCC(p) \in Byte /\ BCC(r) \in Byte /\ BCC(r2) \in Byte /\ BCC(t) \in Byte
    BY BCCIsByte, Zenon
<1> QED BY <1>2, <1>3, <1>4, XorCancels, Zenon

LEMMA BCCOfOne ==
    ASSUME NEW b \in Byte
    PROVE  BCC(<<b>>) = b
<1>1. <<b>> = Append(<<>>, b) /\ <<>> \in Seq(Byte)
    OBVIOUS
<1>2. BCC(<<b>>) = Xor({}, b)
    BY <1>1, BCCOfAppend, BCCOfNone
<1> QED BY <1>2, XorLaws

LEMMA BytesTyped ==
    ASSUME NEW a \in Byte, NEW b \in Byte
    PROVE  <<a>> \in Seq(Byte) /\ <<a, b>> \in Seq(Byte) /\ <<a, b>> = <<a>> \o <<b>>
<1>1. <<a>> \in Seq(Byte) /\ <<a, b>> \in Seq(Byte)
    OBVIOUS
<1>2. Append(<<a>>, b) = <<a>> \o <<b>>
    BY <1>1, AppendIsConcat, Zenon
<1>3. Append(<<a>>, b) = <<a, b>>
    <2>1. /\ Append(<<a>>, b) \in Seq(Byte) /\ Len(Append(<<a>>, b)) = 2
          /\ Append(<<a>>, b)[1] = a /\ Append(<<a>>, b)[2] = b
        BY <1>1, AppendProperties
    <2>2. Len(<<a, b>>) = 2 /\ <<a, b>>[1] = a /\ <<a, b>>[2] = b
        OBVIOUS
    <2>3. \A i \in 1..2 : i = 1 \/ i = 2
        OBVIOUS
    <2>4. \A i \in 1..Len(Append(<<a>>, b)) : Append(<<a>>, b)[i] = <<a, b>>[i]
        BY <2>1, <2>2, <2>3
    <2> QED BY <1>1, <2>1, <2>2, <2>4, SeqEqual
<1> QED BY <1>1, <1>2, <1>3

\* One byte of the data has another value, or there is one byte more or less: BCC2
\* is right only where the exclusive or of what is in the place is the same.
LEMMA ReadPlace ==
    ASSUME NEW p \in Seq(Byte), NEW r \in Seq(Byte), NEW r2 \in Seq(Byte), NEW t \in Seq(Byte),
           BCC((p \o r) \o t) = {}, NEW e \in Seq(Byte),
           ReadTo(Stuffed(p) \o e, Plain(p \o r2)), BCC(r) # BCC(r2), NEW stale \in Byte
    PROVE  ~Valid(Destuffed((Stuffed(p) \o e) \o Stuffed(t), stale))
<1>1. Stuffed(p) \o e \in Seq(Byte) /\ p \o r2 \in Seq(Byte) /\ Stuffed(t) \in Seq(Byte)
    BY StuffedTyped, ConcatProperties
<1>2. (Stuffed(p) \o e) \o Stuffed(t) \in Seq(Byte) /\ (p \o r2) \o t \in Seq(Byte)
    BY <1>1, ConcatProperties
<1>3. ReadTo((Stuffed(p) \o e) \o Stuffed(t), Plain((p \o r2) \o t))
    BY <1>1, StuffedIsReadOn
<1>4. Destuffed((Stuffed(p) \o e) \o Stuffed(t), stale) = (p \o r2) \o t
    BY <1>2, <1>3, ReadEnds
<1>5. BCC((p \o r2) \o t) # {}
    BY SamePlace, SMTT(30)
<1> QED BY <1>2, <1>4, <1>5, ValidIs

LEMMA ConcatIs ==
    ASSUME NEW u \in Seq(Byte), NEW v \in Seq(Byte)
    PROVE  /\ u \o v \in Seq(Byte) /\ Len(u \o v) = Len(u) + Len(v)
           /\ \A j \in 1..Len(u) + Len(v) :
                 (u \o v)[j] = IF j <= Len(u) THEN u[j] ELSE v[j - Len(u)]
BY ConcatProperties

\* A name for \o, of which the provers then see no more than that it is associative.
Cat(u, v) == u \o v

\* Byte k of w = u \o e \o v, which is byte i of e, is replaced by x.
Replaced(u, e, v, i, x, w, k, e2, w2) ==
    /\ u \in Seq(Byte) /\ e \in Seq(Byte) /\ v \in Seq(Byte) /\ x \in Byte
    /\ w = Cat(Cat(u, e), v) /\ i \in 1..Len(e) /\ k = Len(u) + i
    /\ e2 = [e EXCEPT ![i] = x] /\ w2 = [w EXCEPT ![k] = x]

LEMMA InTheMiddleOf ==
    ASSUME NEW u, NEW e, NEW v, NEW i, NEW x, NEW w, NEW k, NEW g, NEW w2,
           Replaced(u, e, v, i, x, w, k, g, w2)
    PROVE  w[k] = e[i] /\ w2 = Cat(Cat(u, g), v)
<1> SUFFICES ASSUME u \in Seq(Byte), e \in Seq(Byte), v \in Seq(Byte), x \in Byte,
                    w = Cat(Cat(u, e), v), i \in 1..Len(e), k = Len(u) + i,
                    g = [e EXCEPT ![i] = x], w2 = [w EXCEPT ![k] = x]
             PROVE  w[k] = e[i] /\ w2 = Cat(Cat(u, g), v)
    BY DEF Replaced
<1> DEFINE h == Cat(Cat(u, g), v)
           a == Len(u)
           b == Len(e)
           c == Len(v)
<1>0. a \in Nat /\ b \in Nat /\ c \in Nat
    OBVIOUS
<1>1. g \in Seq(Byte) /\ Len(g) = b /\ \A j \in 1..b : g[j] = IF j = i THEN x ELSE e[j]
    BY ExceptSeq
<1>2. /\ u \o e \in Seq(Byte) /\ Len(u \o e) = a + b
      /\ \A j \in 1..a + b : (u \o e)[j] = IF j <= a THEN u[j] ELSE e[j - a]
    BY ConcatProperties
<1>3. /\ u \o g \in Seq(Byte) /\ Len(u \o g) = a + b
      /\ \A j \in 1..a + b : (u \o g)[j] = IF j <= a THEN u[j] ELSE g[j - a]
    <2>1. g \in Seq(Byte) /\ Len(g) = b
        BY <1>1
    <2>2. /\ u \o g \in Seq(Byte) /\ Len(u \o g) = a + Len(g)
          /\ \A j \in 1..a + Len(g) : (u \o g)[j] = IF j <= a THEN u[j] ELSE g[j - a]
        BY <2>1, ConcatIs
    <2> HIDE DEF a, b, c
    <2> QED BY <2>1, <2>2
<1>4. /\ w \in Seq(Byte) /\ Len(w) = (a + b) + c
      /\ \A j \in 1..(a + b) + c : w[j] = IF j <= a + b THEN (u \o e)[j] ELSE v[j - (a + b)]
    <2> DEFINE ue == u \o e
    <2>1. ue \in Seq(Byte) /\ Len(ue) = a + b /\ w = ue \o v
        BY <1>2 DEF Cat
    <2>2. ue \o v \in Seq(Byte) /\ Len(ue \o v) = Len(ue) + c
        BY <2>1, ConcatIs
    <2>3. \A j \in 1..Len(ue) + c : (ue \o v)[j] = IF j <= Len(ue) THEN ue[j] ELSE v[j - Len(ue)]
        <3> HIDE DEF ue
        <3> QED BY <2>1, ConcatIs
    <2>4. \A j \in 1..(a + b) + c : w[j] = IF j <= a + b THEN ue[j] ELSE v[j - (a + b)]
        <3> HIDE DEF a, b, c, ue
        <3> QED BY <2>1, <2>3
    <2>5. w \in Seq(Byte) /\ Len(w) = (a + b) + c
        <3> HIDE DEF a, b, c, ue
        <3> QED BY <2>1, <2>2
    <2> QED BY <2>4, <2>5
<1>5. /\ h \in Seq(Byte) /\ Len(h) = (a + b) + c
      /\ \A j \in 1..(a + b) + c : h[j] = IF j <= a + b THEN (u \o g)[j] ELSE v[j - (a + b)]
    <2> DEFINE ug == u \o g
    <2>1. ug \in Seq(Byte) /\ Len(ug) = a + b /\ h = ug \o v
        BY <1>3 DEF Cat
    <2>2. ug \o v \in Seq(Byte) /\ Len(ug \o v) = Len(ug) + c
        BY <2>1, ConcatIs
    <2>3. \A j \in 1..Len(ug) + c : (ug \o v)[j] = IF j <= Len(ug) THEN ug[j] ELSE v[j - Len(ug)]
        <3> HIDE DEF ug
        <3> QED BY <2>1, ConcatIs
    <2>4. \A j \in 1..(a + b) + c : h[j] = IF j <= a + b THEN ug[j] ELSE v[j - (a + b)]
        <3> HIDE DEF a, b, c, ug
        <3> QED BY <2>1, <2>3
    <2>5. h \in Seq(Byte) /\ Len(h) = (a + b) + c
        <3> HIDE DEF a, b, c, ug
        <3> QED BY <2>1, <2>2
    <2> QED BY <2>4, <2>5
<1>6. a + i \in 1..a + b /\ a + i \in 1..(a + b) + c /\ a + i <= a + b /\ ~(a + i <= a) /\ (a + i) - a = i
    BY <1>0 DEF b
<1> HIDE DEF a, b, c
<1>7. w[a + i] = e[i]
    BY <1>2, <1>4, <1>6
<1>8. DOMAIN w = 1..Len(w)
    BY <1>4
<1>9. /\ w2 \in Seq(Byte)
      /\ Len(w2) = (a + b) + c
      /\ \A j \in 1..(a + b) + c : w2[j] = IF j = a + i THEN x ELSE w[j]
    <2>1. k = a + i /\ k \in 1..Len(w)
        BY <1>4, <1>6 DEF a
    <2>2. /\ w2 \in Seq(Byte) /\ Len(w2) = Len(w)
          /\ \A j \in 1..Len(w) : w2[j] = IF j = k THEN x ELSE w[j]
        BY <1>4, <2>1, ExceptSeq
    <2> QED BY <1>4, <2>1, <2>2
<1>10. ASSUME NEW j \in 1..(a + b) + c PROVE w2[j] = h[j]
    <2>1. CASE j = a + i
        <3>1. g[i] = x
            BY <1>1 DEF b
        <3>2. h[j] = g[i]
            BY <1>3, <1>5, <1>6, <2>1
        <3> QED BY <1>9, <2>1, <3>1, <3>2
    <2>2. CASE j # a + i /\ j <= a + b
        <3>1. CASE j <= a
            <4>1. j \in 1..a + b
                BY <1>0, <2>2, <3>1
            <4>2. w[j] = u[j]
                BY <1>2, <1>4, <2>2, <3>1, <4>1
            <4>3. h[j] = u[j]
                BY <1>3, <1>5, <2>2, <3>1, <4>1
            <4> QED BY <1>9, <2>2, <4>2, <4>3
        <3>2. CASE ~(j <= a)
            <4>1. j \in 1..a + b /\ j - a \in 1..b /\ j - a # i
                BY <1>0, <1>6, <2>2, <3>2
            <4>2. w[j] = e[j - a]
                BY <1>2, <1>4, <2>2, <3>2, <4>1
            <4>3. h[j] = g[j - a]
                BY <1>3, <1>5, <2>2, <3>2, <4>1
            <4>4. g[j - a] = e[j - a]
                BY <1>1, <4>1
            <4> QED BY <1>9, <2>2, <4>2, <4>3, <4>4
        <3> QED BY <3>1, <3>2
    <2>3. CASE ~(j <= a + b)
        <3>1. j # a + i
            BY <1>6, <2>3
        <3>2. w[j] = v[j - (a + b)] /\ h[j] = v[j - (a + b)]
            BY <1>4, <1>5, <2>3
        <3> QED BY <1>9, <3>1, <3>2
    <2> QED BY <2>1, <2>2, <2>3
<1> HIDE DEF h
<1>11. w2 = h
    BY <1>5, <1>9, <1>10, SeqEqual
<1> QED BY <1>7, <1>11 DEF a, h

\* The first byte of data.
LEMMA FirstByte ==
    ASSUME NEW t \in Seq(Byte), t # <<>>
    PROVE  \E c \in Byte, v \in Seq(Byte) :
              t = <<c>> \o v /\ Stuffed(t) = Escaped(c) \o Stuffed(v)
<1>1. Head(t) \in Byte /\ Tail(t) \in Seq(Byte) /\ t = <<Head(t)>> \o Tail(t)
    OBVIOUS
<1>2. PICK c \in Byte, v \in Seq(Byte) : t = <<c>> \o v
    BY <1>1
<1>3. <<c>> \in Seq(Byte) /\ <<>> \in Seq(Byte) /\ <<c>> = Append(<<>>, c)
    OBVIOUS
<1>4. Stuffed(<<c>>) = Escaped(c)
    <2>1. Stuffed(<<c>>) = <<>> \o Escaped(c)
        BY <1>3, StuffedAppend, StuffedParts, ZenonT(30)
    <2> QED BY <2>1, EscapedByte, ConcatEmptySeq
<1>5. Stuffed(t) = Escaped(c) \o Stuffed(v)
    BY <1>2, <1>3, <1>4, StuffedConcat, Zenon
<1> QED BY <1>2, <1>5

\* What one bit does to the codes of stuffing.
LEMMA StuffingBits ==
    ASSUME NEW bit \in 0..7
    PROVE  /\ \A b \in Byte : Flipped(b, bit) # b
           /\ Flipped(ESC, bit) # ESC /\ Flipped(ESC, bit) # {5}
           /\ \A b \in Byte : Flipped(b, bit) = ESC => b # {5}
           /\ \A b, c \in Byte : Xor(b, c) = Flipped(c, 5) => b = {5}
           /\ \A b, c \in Byte :
                 Flipped(b, bit) = ESC => Xor(b, c) # Xor(Flipped(ESC, 5), Flipped(c, 5))
           /\ \A b, x \in Byte : Xor(x, Flipped(b, 5)) = b => x = {5}
           /\ \A b \in Byte : Flipped(Flipped(Flipped(b, 5), bit), 5) # b
           /\ Flipped(FLAG, 5) # ESC /\ Flipped(ESC, 5) # ESC
<1>1. \A b \in Byte : Flipped(b, bit) # b
    BY DEF Flipped, Xor
<1>2. Flipped(ESC, bit) # {5}
    BY DEF Flipped, Xor, ESC
<1>3. \A b \in Byte : Flipped(b, bit) = ESC => b # {5}
    BY DEF Flipped, Xor, ESC
<1>4. \A b, c \in Byte : Xor(b, c) = Flipped(c, 5) => b = {5}
    BY DEF Flipped, Xor
<1>5. ASSUME NEW b \in Byte, NEW c \in Byte, Flipped(b, bit) = ESC,
             Xor(b, c) = Xor(Flipped(ESC, 5), Flipped(c, 5))
      PROVE  FALSE
    <2>1. bit \in b <=> bit \notin ESC
        BY <1>5 DEF Flipped, Xor
    <2>2. bit \in Xor(b, c) <=> bit \in Xor(Flipped(ESC, 5), Flipped(c, 5))
        BY <1>5, Zenon
    <2> QED BY <2>1, <2>2 DEF Flipped, Xor
<1>6. \A b, x \in Byte : Xor(x, Flipped(b, 5)) = b => x = {5}
    BY DEF Flipped, Xor
<1>7. ASSUME NEW b \in Byte, Flipped(Flipped(Flipped(b, 5), bit), 5) = b PROVE FALSE
    <2>1. bit \in b <=> bit \in Flipped(Flipped(Flipped(b, 5), bit), 5)
        BY <1>7, Zenon
    <2> QED BY <2>1 DEF Flipped, Xor
<1>8. Flipped(FLAG, 5) # ESC /\ Flipped(ESC, 5) # ESC
    BY DEF Flipped, Xor, FLAG, ESC
<1>9. Flipped(ESC, bit) # ESC
    BY <1>1, Codes
<1> QED BY <1>1, <1>2, <1>3, <1>4, <1>5, <1>6, <1>7, <1>8, <1>9

LEMMA CatAssociates ==
    \A u, v, w \in Seq(Byte) : Cat(Cat(u, v), w) = Cat(u, Cat(v, w)) /\ Cat(u, v) \in Seq(Byte)
<1> SUFFICES ASSUME NEW u \in Seq(Byte), NEW v \in Seq(Byte), NEW w \in Seq(Byte)
             PROVE  Cat(Cat(u, v), w) = Cat(u, Cat(v, w)) /\ Cat(u, v) \in Seq(Byte)
    OBVIOUS
<1>1. (u \o v) \o w = u \o (v \o w)
    BY BytesAssociate
<1>2. u \o v \in Seq(Byte)
    OBVIOUS
<1> QED BY <1>1, <1>2 DEF Cat

LEMMA Regroup ==
    ASSUME NEW a \in Seq(Byte), NEW b \in Seq(Byte), NEW c \in Seq(Byte), NEW d \in Seq(Byte)
    PROVE  Cat(Cat(a, b), Cat(c, d)) = Cat(Cat(a, Cat(b, c)), d)
BY CatAssociates

LEMMA ConcatTwo ==
    ASSUME NEW u \in Seq(Byte), NEW x \in Byte, NEW y \in Byte
    PROVE  (u \o <<x>>) \o <<y>> = u \o <<x, y>> /\ u \o <<x>> \in Seq(Byte) /\ u \o <<x, y>> \in Seq(Byte)
<1>1. <<x>> \in Seq(Byte) /\ <<y>> \in Seq(Byte) /\ <<x, y>> \in Seq(Byte) /\ <<x, y>> = <<x>> \o <<y>>
    BY BytesTyped
<1>2. (u \o <<x>>) \o <<y>> = u \o (<<x>> \o <<y>>)
    BY <1>1, BytesAssociate
<1>3. u \o <<x>> \in Seq(Byte) /\ u \o <<x, y>> \in Seq(Byte)
    BY <1>1, ConcatProperties
<1> QED BY <1>1, <1>2, <1>3, Zenon

\* Two bytes are read, where the data before them have been.
LEMMA ReadTwo ==
    ASSUME NEW p \in Seq(Byte), NEW x \in Byte, NEW y \in Byte
    PROVE  /\ x # ESC => ReadTo(Stuffed(p) \o <<x>>, Plain(p \o <<x>>))
           /\ x # ESC /\ y # ESC => ReadTo(Stuffed(p) \o <<x, y>>, Plain(p \o <<x, y>>))
           /\ ReadTo(Stuffed(p) \o <<ESC>>, Escape(p))
           /\ ReadTo(Stuffed(p) \o <<ESC, y>>, Plain(p \o <<Flipped(y, 5)>>))
<1> DEFINE u == Stuffed(p)
<1>1. u \in Seq(Byte) /\ ReadTo(u, Plain(p)) /\ ESC \in Byte
    BY StuffedTyped, StuffedIsRead, Codes
<1> HIDE DEF u
<1>2. x # ESC => ReadTo(u \o <<x>>, Plain(p \o <<x>>))
    BY <1>1, ReadSteps
<1>3. ReadTo(u \o <<ESC>>, Escape(p))
    BY <1>1, ReadSteps
<1>4. u \o <<x>> \in Seq(Byte) /\ p \o <<x>> \in Seq(Byte) /\ u \o <<ESC>> \in Seq(Byte)
    BY <1>1
<1>5. /\ (u \o <<x>>) \o <<y>> = u \o <<x, y>> /\ (p \o <<x>>) \o <<y>> = p \o <<x, y>>
      /\ (u \o <<ESC>>) \o <<y>> = u \o <<ESC, y>>
    BY <1>1, ConcatTwo
<1>6. x # ESC /\ y # ESC => ReadTo((u \o <<x>>) \o <<y>>, Plain((p \o <<x>>) \o <<y>>))
    BY <1>2, <1>4, ReadSteps
<1>7. ReadTo((u \o <<ESC>>) \o <<y>>, Plain(p \o <<Flipped(y, 5)>>))
    BY <1>3, <1>4, ReadSteps
<1>8. x # ESC /\ y # ESC => ReadTo(u \o <<x, y>>, Plain(p \o <<x, y>>))
    BY <1>5, <1>6, Zenon
<1>9. ReadTo(u \o <<ESC, y>>, Plain(p \o <<Flipped(y, 5)>>))
    BY <1>5, <1>7, Zenon
<1> QED BY <1>2, <1>3, <1>8, <1>9 DEF u

\* A byte that is not stuffed becomes another such.
LEMMA PlainToPlain ==
    ASSUME NEW p \in Seq(Byte), NEW b \in Byte, NEW t \in Seq(Byte), NEW x \in Byte,
           BCC((p \o <<b>>) \o t) = {}, x # ESC, x # b, NEW stale \in Byte
    PROVE  ~Valid(Destuffed((Stuffed(p) \o <<x>>) \o Stuffed(t), stale))
<1>1. ReadTo(Stuffed(p) \o <<x>>, Plain(p \o <<x>>))
    BY ReadTwo
<1>2. BCC(<<b>>) # BCC(<<x>>)
    BY BCCOfOne
<1>3. <<b>> \in Seq(Byte) /\ <<x>> \in Seq(Byte)
    OBVIOUS
<1> QED BY <1>1, <1>2, <1>3, ReadPlace

\* It becomes an ESC, in front of a byte c.
LEMMA PlainToESC ==
    ASSUME NEW p \in Seq(Byte), NEW b \in Byte, NEW c \in Byte, NEW v \in Seq(Byte),
           NEW bit \in 0..7, Flipped(b, bit) = ESC,
           BCC((p \o <<b, c>>) \o v) = {}, NEW stale \in Byte
    PROVE  ~Valid(Destuffed((Stuffed(p) \o <<ESC>>) \o (Escaped(c) \o Stuffed(v)), stale))
<1>0. ESC \in Byte /\ Flipped(c, 5) \in Byte /\ Flipped(ESC, 5) \in Byte
    <2>1. 5 \in 0..7
        OBVIOUS
    <2> QED BY <2>1, Codes, FlippedIsByte, Zenon
<1>1. Stuffed(p) \in Seq(Byte) /\ <<ESC>> \in Seq(Byte) /\ Stuffed(v) \in Seq(Byte) /\ Escaped(c) \in Seq(Byte)
    BY <1>0, StuffedTyped, EscapedByte
<1>2. (Stuffed(p) \o <<ESC>>) \o (Escaped(c) \o Stuffed(v)) = (Stuffed(p) \o (<<ESC>> \o Escaped(c))) \o Stuffed(v)
    <2> DEFINE u == Stuffed(p)
               g == <<ESC>>
               h == Escaped(c)
               y == Stuffed(v)
    <2>1. u \in Seq(Byte) /\ g \in Seq(Byte) /\ h \in Seq(Byte) /\ y \in Seq(Byte)
        BY <1>1
    <2> HIDE DEF u, g, h, y
    <2>2. Cat(Cat(u, g), Cat(h, y)) = Cat(Cat(u, Cat(g, h)), y)
        BY <2>1, Regroup
    <2> QED BY <2>2 DEF Cat, u, g, h, y
<1>3. <<b, c>> \in Seq(Byte) /\ BCC(<<b, c>>) = Xor(b, c)
    BY BytesTyped, BCCOfTwo
<1>4. CASE c \notin {FLAG, ESC}
    <2>1. <<ESC>> \o Escaped(c) = <<ESC, c>> /\ <<ESC, c>> \in Seq(Byte)
        <3>1. Escaped(c) = <<c>>
            BY <1>4, EscapedIs
        <3>2. <<ESC, c>> = <<ESC>> \o <<c>> /\ <<ESC, c>> \in Seq(Byte)
            BY <1>0, BytesTyped
        <3> QED BY <3>1, <3>2, Zenon
    <2>2. ReadTo(Stuffed(p) \o <<ESC, c>>, Plain(p \o <<Flipped(c, 5)>>))
        BY <1>0, ReadTwo
    <2>3. <<Flipped(c, 5)>> \in Seq(Byte) /\ BCC(<<Flipped(c, 5)>>) = Flipped(c, 5)
        BY <1>0, BCCOfOne
    <2>4. Xor(b, c) # Flipped(c, 5)
        BY StuffingBits
    <2>5. ~Valid(Destuffed((Stuffed(p) \o <<ESC, c>>) \o Stuffed(v), stale))
        BY <1>3, <2>1, <2>2, <2>3, <2>4, ReadPlace
    <2> QED BY <1>2, <2>1, <2>5, Zenon
<1>5. CASE c \in {FLAG, ESC}
    <2> DEFINE d == Flipped(c, 5)
               a == Flipped(ESC, 5)
               r2 == <<a, d>>
    <2>1. d \in Byte /\ a \in Byte /\ d # ESC
        BY <1>0, <1>5, StuffingBits
    <2> HIDE DEF a, d
    <2>2. Escaped(c) = <<ESC, d>>
        BY <1>5, EscapedIs DEF d
    <2>3. <<ESC>> \o <<ESC, d>> = <<ESC, ESC>> \o <<d>> /\ <<ESC>> \o <<ESC, d>> \in Seq(Byte)
        <3>1. <<ESC, d>> = <<ESC>> \o <<d>> /\ <<ESC, ESC>> = <<ESC>> \o <<ESC>>
            BY <1>0, <2>1, BytesTyped
        <3>2. <<ESC>> \in Seq(Byte) /\ <<d>> \in Seq(Byte) /\ <<ESC, d>> \in Seq(Byte)
            BY <1>0, <2>1, BytesTyped
        <3>3. (<<ESC>> \o <<ESC>>) \o <<d>> = <<ESC>> \o (<<ESC>> \o <<d>>)
            BY <3>2, BytesAssociate
        <3>4. <<ESC>> \o <<ESC, d>> \in Seq(Byte)
            BY <3>2, ConcatProperties
        <3> QED BY <3>1, <3>3, <3>4, Zenon
    <2>4. ReadTo(Stuffed(p) \o <<ESC, ESC>>, Plain(p \o <<a>>))
        BY <1>0, ReadTwo DEF a
    <2>5. Stuffed(p) \o <<ESC, ESC>> \in Seq(Byte) /\ p \o <<a>> \in Seq(Byte) /\ <<ESC, ESC>> \in Seq(Byte)
        BY <1>0, <1>1, <2>1
    <2>6. ReadTo((Stuffed(p) \o <<ESC, ESC>>) \o <<d>>, Plain((p \o <<a>>) \o <<d>>))
        BY <2>1, <2>4, <2>5, ReadSteps
    <2>7. /\ (Stuffed(p) \o <<ESC, ESC>>) \o <<d>> = Stuffed(p) \o (<<ESC>> \o <<ESC, d>>)
          /\ (p \o <<a>>) \o <<d>> = p \o <<a, d>>
        <3>1. <<d>> \in Seq(Byte)
            BY <2>1
        <3>2. (Stuffed(p) \o <<ESC, ESC>>) \o <<d>> = Stuffed(p) \o (<<ESC, ESC>> \o <<d>>)
            BY <1>1, <2>5, <3>1, BytesAssociate
        <3>3. (p \o <<a>>) \o <<d>> = p \o <<a, d>>
            BY <2>1, ConcatTwo
        <3> QED BY <2>3, <3>2, <3>3, Zenon
    <2>8. ReadTo(Stuffed(p) \o (<<ESC>> \o <<ESC, d>>), Plain(p \o r2))
        BY <2>6, <2>7, Zenon
    <2>9. r2 \in Seq(Byte) /\ BCC(r2) = Xor(a, d)
        BY <2>1, BytesTyped, BCCOfTwo
    <2>10. Xor(b, c) # Xor(a, d)
        BY StuffingBits DEF a, d
    <2> HIDE DEF r2
    <2>11. PICK e \in Seq(Byte) : e = <<ESC>> \o <<ESC, d>>
        BY <2>3
    <2>12. BCC(<<b, c>>) # BCC(r2)
        BY <1>3, <2>9, <2>10
    <2>13. ReadTo(Stuffed(p) \o e, Plain(p \o r2))
        BY <2>8, <2>11, Zenon
    <2>14. ~Valid(Destuffed((Stuffed(p) \o e) \o Stuffed(v), stale))
        BY <1>3, <2>9, <2>12, <2>13, ReadPlace
    <2> QED BY <1>2, <2>2, <2>11, <2>14, Zenon
<1> QED BY <1>4, <1>5

\* One of the two bytes of a stuffed one becomes another.
LEMMA StuffedHit ==
    ASSUME NEW p \in Seq(Byte), NEW b \in {FLAG, ESC}, NEW t \in Seq(Byte), NEW bit \in 0..7,
           BCC((p \o <<b>>) \o t) = {}, NEW stale \in Byte,
           NEW e \in {<<Flipped(ESC, bit), Flipped(b, 5)>>, <<ESC, Flipped(Flipped(b, 5), bit)>>}
    PROVE  ~Valid(Destuffed((Stuffed(p) \o e) \o Stuffed(t), stale))
<1> DEFINE d == Flipped(b, 5)
<1>0. b \in Byte /\ ESC \in Byte /\ d \in Byte /\ d # ESC /\ <<b>> \in Seq(Byte) /\ BCC(<<b>>) = b
    <2>1. 5 \in 0..7 /\ b \in Byte
        BY Codes
    <2>2. d # ESC
        BY StuffingBits
    <2>3. ESC \in Byte /\ d \in Byte
        BY <2>1, Codes, FlippedIsByte
    <2> QED BY <2>1, <2>2, <2>3, BCCOfOne
<1>1. CASE e = <<Flipped(ESC, bit), Flipped(b, 5)>>
    <2> DEFINE x == Flipped(ESC, bit)
    <2>1. x \in Byte /\ x # ESC
        BY <1>0, FlippedIsByte, StuffingBits
    <2>2. Xor(x, d) # b
        <3>1. x # {5}
            BY StuffingBits
        <3> QED BY <1>0, <2>1, <3>1, StuffingBits
    <2> HIDE DEF d, x
    <2>3. <<x, d>> \in Seq(Byte) /\ BCC(<<x, d>>) = Xor(x, d)
        BY <1>0, <2>1, BytesTyped, BCCOfTwo
    <2>4. ReadTo(Stuffed(p) \o <<x, d>>, Plain(p \o <<x, d>>))
        BY <1>0, <2>1, ReadTwo
    <2>5. ~Valid(Destuffed((Stuffed(p) \o <<x, d>>) \o Stuffed(t), stale))
        BY <1>0, <2>2, <2>3, <2>4, ReadPlace
    <2> QED BY <1>1, <2>5, Zenon DEF x, d
<1>2. CASE e = <<ESC, Flipped(Flipped(b, 5), bit)>>
    <2> DEFINE y == Flipped(d, bit)
    <2>1. y \in Byte
        BY <1>0, FlippedIsByte
    <2>2. Flipped(y, 5) \in Byte
        <3>1. 5 \in 0..7
            OBVIOUS
        <3> QED BY <2>1, <3>1, FlippedIsByte
    <2>3. Flipped(y, 5) # b
        BY <1>0, StuffingBits
    <2> HIDE DEF d, y
    <2>4. <<ESC, y>> \in Seq(Byte) /\ <<Flipped(y, 5)>> \in Seq(Byte) /\ BCC(<<Flipped(y, 5)>>) = Flipped(y, 5)
        BY <1>0, <2>1, <2>2, BytesTyped, BCCOfOne
    <2>5. ReadTo(Stuffed(p) \o <<ESC, y>>, Plain(p \o <<Flipped(y, 5)>>))
        BY <2>1, ReadTwo
    <2>6. ~Valid(Destuffed((Stuffed(p) \o <<ESC, y>>) \o Stuffed(t), stale))
        BY <1>0, <2>3, <2>4, <2>5, ReadPlace
    <2> QED BY <1>2, <2>6, Zenon DEF y, d
<1> QED BY <1>1, <1>2

LEMMA ParenthesesOfPlace ==
    ASSUME NEW p \in Seq(Byte), NEW b \in Byte, NEW t \in Seq(Byte)
    PROVE  /\ Append(p, b) = p \o <<b>> /\ <<b>> \in Seq(Byte) /\ Append(p, b) \in Seq(Byte)
           /\ Front(Append(p, b)) = p
<1>1. <<b>> \in Seq(Byte) /\ Append(p, b) \in Seq(Byte)
    OBVIOUS
<1>2. Append(p, b) = p \o <<b>>
    BY AppendIsConcat
<1>3. Front(Append(p, b)) = p
    <2>1. Len(Append(p, b)) - 1 = Len(p) /\ SubSeq(Append(p, b), 1, Len(p)) = p
        OBVIOUS
    <2> QED BY <2>1 DEF Front
<1> QED BY <1>1, <1>2, <1>3

\* w is e with one bit flipped.
Hit(w, e) == \E k \in 1..Len(e), bit \in 0..7 : w = [e EXCEPT ![k] = Flipped(e[k], bit)]

\* One bit of stuffed data with their BCC2 is flipped: what ll_expect_Iframe then
\* accepts, if it accepts anything, is still the payload.  It is BCC2 itself that was
\* hit, so that it became an ESC, and ll_destuffing took the byte in the memory behind
\* the data for it.
THEOREM OneBitIsSeen ==
    ASSUME NEW q \in Seq(Byte), BCC(q) = {}, NEW w, Hit(w, Stuffed(q)),
           NEW stale \in Byte, Valid(Destuffed(w, stale))
    PROVE  Payload(Destuffed(w, stale)) = Front(q)
<1>0. PICK k \in 1..Len(Stuffed(q)), bit \in 0..7 :
          w = [Stuffed(q) EXCEPT ![k] = Flipped(Stuffed(q)[k], bit)]
    BY DEF Hit
<1>1. PICK p \in Seq(Byte), b \in Byte, t \in Seq(Byte) : Splits(q, k, p, b, t)
    BY SplitAt
<1>2. /\ q = (p \o <<b>>) \o t
      /\ Stuffed(q) = (Stuffed(p) \o Escaped(b)) \o Stuffed(t)
      /\ Stuffed(p) \in Seq(Byte) /\ Escaped(b) \in Seq(Byte) /\ Stuffed(t) \in Seq(Byte)
      /\ Len(Stuffed(p)) \in Nat /\ Len(Escaped(b)) \in Nat
    <2>1. q = Append(p, b) \o t
        BY <1>1 DEF Splits
    <2>2. Append(p, b) = p \o <<b>>
        BY ParenthesesOfPlace
    <2> QED BY <2>1, <2>2, StuffedAround, ZenonT(30)
<1>3. PICK i \in 1..Len(Escaped(b)) : k = Len(Stuffed(p)) + i
    <2>1. k > Len(Stuffed(p)) /\ k <= Len(Stuffed(p)) + Len(Escaped(b)) /\ k \in Nat
        BY <1>1 DEF Splits
    <2>2. k - Len(Stuffed(p)) \in 1..Len(Escaped(b))
        BY <1>2, <2>1
    <2>3. k = Len(Stuffed(p)) + (k - Len(Stuffed(p)))
        BY <1>2, <2>1
    <2> QED BY <2>2, <2>3
<1>4. Escaped(b)[i] \in Byte
    BY <1>2
<1>5. PICK x \in Byte : x = Flipped(Escaped(b)[i], bit)
    BY <1>4, FlippedIsByte
<1>6. PICK e : e = [Escaped(b) EXCEPT ![i] = x]
    OBVIOUS
<1>7. w = (Stuffed(p) \o e) \o Stuffed(t)
    <2> DEFINE u == Stuffed(p)
               g == Escaped(b)
               v == Stuffed(t)
    <2>1. u \in Seq(Byte) /\ g \in Seq(Byte) /\ v \in Seq(Byte) /\ i \in 1..Len(g)
        BY <1>2, <1>3
    <2>2. Stuffed(q) = (u \o g) \o v /\ k = Len(u) + i
        BY <1>2, <1>3
    <2>3. w = [Stuffed(q) EXCEPT ![k] = Flipped(Stuffed(q)[k], bit)]
        BY <1>0
    <2>4. e = [g EXCEPT ![i] = x] /\ x = Flipped(g[i], bit)
        BY <1>5, <1>6
    <2> HIDE DEF u, g, v
    <2>5. PICK s : s = Stuffed(q)
        OBVIOUS
    <2>6. s = Cat(Cat(u, g), v) /\ w = [s EXCEPT ![k] = Flipped(s[k], bit)]
        BY <2>2, <2>3, <2>5 DEF Cat
    <2>7. PICK w2 : w2 = [s EXCEPT ![k] = x]
        OBVIOUS
    <2>8. s[k] = g[i] /\ w2 = Cat(Cat(u, e), v)
        <3>1. Replaced(u, g, v, i, x, s, k, e, w2)
            BY <2>1, <2>2, <2>4, <2>6, <2>7 DEF Replaced
        <3> QED BY <3>1, InTheMiddleOf
    <2>9. w = Cat(Cat(u, e), v)
        BY <2>4, <2>6, <2>7, <2>8
    <2> QED BY <2>9 DEF Cat, u, v
<1>8. BCC((p \o <<b>>) \o t) = {}
    BY <1>2
<1>9. CASE b \notin {FLAG, ESC}
    <2>1. e = <<x>> /\ x = Flipped(b, bit)
        <3>1. Escaped(b) = <<b>> /\ i = 1
            <4>1. Escaped(b) = <<b>>
                BY <1>9, EscapedIs
            <4>2. Len(<<b>>) = 1
                OBVIOUS
            <4> QED BY <1>3, <4>1, <4>2
        <3>2. <<b>>[1] = b /\ [<<b>> EXCEPT ![1] = x] = <<x>>
            OBVIOUS
        <3> QED BY <1>5, <1>6, <3>1, <3>2
    <2>2. CASE x # ESC
        <3>1. x # b
            BY <2>1, StuffingBits
        <3>2. ~Valid(Destuffed((Stuffed(p) \o <<x>>) \o Stuffed(t), stale))
            BY <1>8, <2>2, <3>1, PlainToPlain
        <3> QED BY <1>7, <2>1, <3>2, Zenon
    <2>3. CASE x = ESC /\ t = <<>>
        <3>1. w = Stuffed(p) \o <<ESC>>
            <4>1. Stuffed(t) = <<>>
                BY <2>3, StuffedParts
            <4>2. (Stuffed(p) \o <<x>>) \in Seq(Byte)
                BY <1>2
            <4>3. (Stuffed(p) \o <<x>>) \o <<>> = Stuffed(p) \o <<x>>
                BY <4>2, ConcatEmptySeq
            <4> QED BY <1>7, <2>1, <2>3, <4>1, <4>3, Zenon
        <3>2. w \in Seq(Byte) /\ ReadTo(w, Escape(p))
            <4>1. Stuffed(p) \o <<ESC>> \in Seq(Byte)
                BY <1>2, Codes
            <4>2. ReadTo(Stuffed(p) \o <<ESC>>, Escape(p))
                BY ReadTwo
            <4> QED BY <3>1, <4>1, <4>2, Zenon
        <3>3. Destuffed(w, stale) = p \o <<Flipped(stale, 5)>>
            BY <3>2, ReadEnds
        <3>4. Flipped(stale, 5) \in Byte
            <4>1. 5 \in 0..7
                OBVIOUS
            <4> QED BY <4>1, FlippedIsByte
        <3>5. Front(p \o <<Flipped(stale, 5)>>) = p
            BY <3>4, ParenthesesOfPlace
        <3>6. Front(q) = p
            <4>1. (p \o <<b>>) \o <<>> = p \o <<b>>
                BY ParenthesesOfPlace, ConcatEmptySeq
            <4>2. Front(p \o <<b>>) = p
                BY ParenthesesOfPlace
            <4> QED BY <1>2, <2>3, <4>1, <4>2, Zenon
        <3> QED BY <3>3, <3>5, <3>6 DEF Payload
    <2>4. CASE x = ESC /\ t # <<>>
        <3>1. PICK c \in Byte, v \in Seq(Byte) :
                  t = <<c>> \o v /\ Stuffed(t) = Escaped(c) \o Stuffed(v)
            BY <2>4, FirstByte
        <3>2. BCC((p \o <<b, c>>) \o v) = {}
            <4>1. (p \o <<b>>) \o (<<c>> \o v) = (p \o (<<b>> \o <<c>>)) \o v
                <5> DEFINE g == <<b>>
                           h == <<c>>
                <5>1. g \in Seq(Byte) /\ h \in Seq(Byte)
                    OBVIOUS
                <5> HIDE DEF g, h
                <5>2. Cat(Cat(p, g), Cat(h, v)) = Cat(Cat(p, Cat(g, h)), v)
                    BY <5>1, Regroup
                <5> QED BY <5>2 DEF Cat, g, h
            <4>2. <<b>> \o <<c>> = <<b, c>>
                BY BytesTyped
            <4> QED BY <1>8, <3>1, <4>1, <4>2, Zenon
        <3>3. ~Valid(Destuffed((Stuffed(p) \o <<ESC>>) \o (Escaped(c) \o Stuffed(v)), stale))
            BY <2>1, <2>4, <3>2, PlainToESC
        <3> QED BY <1>7, <2>1, <2>4, <3>1, <3>3, Zenon
    <2> QED BY <2>2, <2>3, <2>4
<1>10. CASE b \in {FLAG, ESC}
    <2>1. e \in {<<Flipped(ESC, bit), Flipped(b, 5)>>, <<ESC, Flipped(Flipped(b, 5), bit)>>}
        <3>1. Escaped(b) = <<ESC, Flipped(b, 5)>> /\ i \in {1, 2}
            <4>1. Escaped(b) = <<ESC, Flipped(b, 5)>> /\ Len(Escaped(b)) = 2
                BY <1>10, EscapedIs
            <4> QED BY <1>3, <4>1
        <3>2. CASE i = 1
            <4>1. \A y, z \in Byte : [<<y, z>> EXCEPT ![1] = x] = <<x, z>> /\ <<y, z>>[1] = y
                OBVIOUS
            <4> QED BY <1>5, <1>6, <3>1, <3>2
        <3>3. CASE i = 2
            <4> QED BY <1>5, <1>6, <3>1, <3>3
        <3> QED BY <3>1, <3>2, <3>3
    <2>2. ~Valid(Destuffed((Stuffed(p) \o e) \o Stuffed(t), stale))
        BY <1>8, <1>10, <2>1, StuffedHit
    <2> QED BY <1>7, <2>2, Zenon
<1> QED BY <1>9, <1>10

\* The FLAG that ends the data is hit: what comes in its place makes BCC2 wrong.
LEMMA LastFlagIsSeen ==
    ASSUME NEW q \in Seq(Byte), BCC(q) = {}, NEW bit \in 0..7, NEW stale \in Byte
    PROVE  ~Valid(Destuffed(Append(Stuffed(q), Flipped(FLAG, bit)), stale))
<1>1. PICK x \in Byte : x = Flipped(FLAG, bit) /\ x # ESC /\ x # {}
    <2>1. Flipped(FLAG, bit) \in Byte
        BY Codes, FlippedIsByte
    <2>2. Flipped(FLAG, bit) # ESC
        <3>1. 0 \notin Flipped(FLAG, bit) \/ 1 \in Flipped(FLAG, bit)
            BY DEF Flipped, Xor, FLAG
        <3>2. 0 \in ESC /\ 1 \notin ESC
            BY DEF ESC
        <3> QED BY <3>1, <3>2
    <2>3. Flipped(FLAG, bit) # {}
        <3>1. 1 \in Flipped(FLAG, bit) \/ 2 \in Flipped(FLAG, bit)
            BY DEF Flipped, Xor, FLAG
        <3> QED BY <3>1
    <2> QED BY <2>1, <2>2, <2>3
<1>2. ReadTo(Stuffed(q) \o <<x>>, Plain(q \o <<x>>))
    BY <1>1, ReadTwo
<1>3. Append(Stuffed(q), x) = Stuffed(q) \o <<x>> /\ Append(q, x) = q \o <<x>>
    BY StuffedTyped, AppendIsConcat
<1>4. Append(Stuffed(q), x) \in Seq(Byte) /\ Append(q, x) \in Seq(Byte)
    BY StuffedTyped
<1>5. Destuffed(Append(Stuffed(q), x), stale) = Append(q, x)
    <2>1. ReadTo(Append(Stuffed(q), x), Plain(Append(q, x)))
        BY <1>2, <1>3, ZenonT(30)
    <2> QED BY <1>4, <2>1, ReadEnds
<1>6. BCC(Append(q, x)) = x
    <2>1. BCC(Append(q, x)) = Xor({}, x)
        BY BCCOfAppend
    <2> QED BY <2>1, XorLaws
<1>7. ~Valid(Append(q, x))
    BY <1>1, <1>4, <1>6, ValidIs
<1> QED BY <1>1, <1>5, <1>7

LEMMA TwoParts ==
    ASSUME NEW u \in Seq(Byte), NEW v \in Seq(Byte)
    PROVE  /\ SubSeq(u \o v, 1, Len(u)) = u
           /\ SubSeq(u \o v, Len(u) + 1, Len(u \o v)) = v
<1> DEFINE w == u \o v
           a == Len(u)
           b == Len(v)
<1>1. w \in Seq(Byte) /\ Len(w) = a + b /\ a \in Nat /\ b \in Nat
    BY ConcatIs
<1>2. \A j \in 1..a + b : w[j] = IF j <= a THEN u[j] ELSE v[j - a]
    BY ConcatIs
<1> HIDE DEF w
<1>3. SubSeq(w, 1, a) = u
    <2>1. /\ SubSeq(w, 1, a) \in Seq(Byte) /\ Len(SubSeq(w, 1, a)) = a
          /\ \A j \in 1..a : SubSeq(w, 1, a)[j] = w[j]
        BY <1>1
    <2>2. \A j \in 1..a : j \in 1..a + b /\ j <= a
        BY <1>1
    <2>3. \A j \in 1..a : SubSeq(w, 1, a)[j] = u[j]
        BY <1>2, <2>1, <2>2
    <2> QED BY <2>1, <2>3, SeqEqual
<1>4. SubSeq(w, a + 1, Len(w)) = v
    <2> DEFINE s == SubSeq(w, a + 1, Len(w))
    <2>1. /\ s \in Seq(Byte) /\ Len(s) = b
          /\ \A j \in 1..b : s[j] = w[a + j]
        <3> HIDE DEF a, b
        <3> QED BY <1>1
    <2> HIDE DEF s
    <2>2. \A j \in 1..b : a + j \in 1..a + b /\ ~(a + j <= a) /\ (a + j) - a = j
        <3> HIDE DEF a, b
        <3> QED BY <1>1
    <2>3. \A j \in 1..b : s[j] = v[j]
        <3> HIDE DEF a, b
        <3> QED BY <1>2, <2>1, <2>2
    <2> QED BY <2>1, <2>3, SeqEqual DEF s
<1> QED BY <1>3, <1>4 DEF w

\* The beginning of q, and perhaps a byte more in the place of the next one.
BeginningOf(s, q) ==
    \E u \in Seq(Byte), v \in Seq(Byte) :
        q = u \o v /\ (s = u \/ (v # <<>> /\ \E x \in Byte : s = Append(u, x)))

\* Stuffed data that end anywhere are read as a beginning of the data, and where
\* they end within a stuffed byte, one byte more.
LEMMA CutIsRead ==
    ASSUME NEW q \in Seq(Byte), NEW k \in 0..Len(Stuffed(q)), NEW stale \in Byte
    PROVE  BeginningOf(Destuffed(SubSeq(Stuffed(q), 1, k), stale), q)
<1>1. CASE k = 0
    <2>1. SubSeq(Stuffed(q), 1, 0) = <<>> /\ <<>> \in Seq(Byte) /\ q = <<>> \o q
        BY StuffedTyped
    <2>2. Destuffed(<<>>, stale) = <<>>
        <3>1. ReadTo(<<>>, Plain(<<>>))
            BY ReadNothing DEF NothingRead, Plain
        <3> QED BY <2>1, <3>1, ReadEnds
    <2> QED BY <1>1, <2>1, <2>2 DEF BeginningOf
<1>2. CASE k # 0
    <2>1. k \in 1..Len(Stuffed(q))
        BY <1>2, StuffedTyped
    <2>2. PICK p \in Seq(Byte), b \in Byte, t \in Seq(Byte) : Splits(q, k, p, b, t)
        BY <2>1, SplitAt
    <2>3. /\ q = Append(p, b) \o t /\ Append(p, b) \in Seq(Byte)
          /\ Stuffed(q) = (Stuffed(p) \o Escaped(b)) \o Stuffed(t)
          /\ Stuffed(p) \in Seq(Byte) /\ Escaped(b) \in Seq(Byte) /\ Stuffed(t) \in Seq(Byte)
          /\ k > Len(Stuffed(p)) /\ k <= Len(Stuffed(p)) + Len(Escaped(b))
        <3>1. /\ q = Append(p, b) \o t
              /\ k > Len(Stuffed(p)) /\ k <= Len(Stuffed(p)) + Len(Escaped(b))
            BY <2>2 DEF Splits
        <3>2. Append(p, b) \in Seq(Byte)
            BY ParenthesesOfPlace
        <3> QED BY <3>1, <3>2, StuffedAround, ZenonT(30)
    <2>4. CASE k = Len(Stuffed(p)) + Len(Escaped(b))
        <3>1. Stuffed(Append(p, b)) = Stuffed(p) \o Escaped(b)
            BY StuffedAppend
        <3>2. PICK g \in Seq(Byte) : g = Stuffed(Append(p, b))
            BY <2>3, StuffedTyped
        <3>3. Len(g) = k
            BY <2>3, <2>4, <3>1, <3>2
        <3>4. Stuffed(q) = g \o Stuffed(t)
            BY <2>3, <3>1, <3>2
        <3>5. SubSeq(Stuffed(q), 1, k) = g
            BY <2>3, <3>3, <3>4, TwoParts
        <3>6. Destuffed(g, stale) = Append(p, b)
            BY <2>3, <3>2, DestuffingUndoesStuffing
        <3> QED BY <2>3, <3>5, <3>6 DEF BeginningOf
    <2>5. CASE k # Len(Stuffed(p)) + Len(Escaped(b))
        <3>1. b \in {FLAG, ESC} /\ k = Len(Stuffed(p)) + 1
            <4>1. Len(Escaped(b)) \in {1, 2} /\ (b \notin {FLAG, ESC} => Len(Escaped(b)) = 1)
                BY EscapedIs
            <4>2. Len(Stuffed(p)) \in Nat
                BY <2>3
            <4>3. k = Len(Stuffed(p)) + 1 /\ Len(Escaped(b)) = 2
                <5>1. PICK a \in Nat, c \in {1, 2} : a = Len(Stuffed(p)) /\ c = Len(Escaped(b))
                    BY <4>1, <4>2
                <5>2. k \in Nat /\ k > a /\ k <= a + c /\ k # a + c
                    BY <2>1, <2>3, <2>5, <5>1
                <5>3. k = a + 1 /\ c = 2
                    BY <5>2
                <5> QED BY <5>1, <5>3
            <4> QED BY <4>1, <4>3
        <3> DEFINE d == Flipped(b, 5)
        <3>2. d \in Byte /\ ESC \in Byte /\ Escaped(b) = <<ESC, d>>
            <4>1. 5 \in 0..7
                OBVIOUS
            <4> QED BY <3>1, <4>1, Codes, EscapedIs, FlippedIsByte
        <3> HIDE DEF d
        <3>3. PICK g \in Seq(Byte) : g = Stuffed(p) \o <<ESC>>
            BY <2>3, <3>2, ConcatTwo
        <3>4. PICK r \in Seq(Byte) : r = <<d>> \o Stuffed(t)
            <4>1. <<d>> \in Seq(Byte)
                BY <3>2
            <4> QED BY <2>3, <4>1, ConcatIs
        <3>5. Stuffed(q) = g \o r
            <4>1. Stuffed(p) \o <<ESC, d>> = g \o <<d>> /\ <<d>> \in Seq(Byte)
                <5>1. (Stuffed(p) \o <<ESC>>) \o <<d>> = Stuffed(p) \o <<ESC, d>>
                    BY <2>3, <3>2, ConcatTwo, ZenonT(30)
                <5>2. <<d>> \in Seq(Byte)
                    BY <3>2
                <5> QED BY <3>3, <5>1, <5>2
            <4>2. (g \o <<d>>) \o Stuffed(t) = g \o (<<d>> \o Stuffed(t))
                <5>1. PICK a \in Seq(Byte), c \in Seq(Byte) : a = <<d>> /\ c = Stuffed(t)
                    BY <2>3, <4>1
                <5>2. Cat(Cat(g, a), c) = Cat(g, Cat(a, c))
                    BY CatAssociates
                <5> QED BY <5>1, <5>2 DEF Cat
            <4> QED BY <2>3, <3>2, <3>4, <4>1, <4>2
        <3>6. Len(g) = k
            BY <2>3, <3>1, <3>2, <3>3
        <3>7. SubSeq(Stuffed(q), 1, k) = g
            BY <3>5, <3>6, TwoParts
        <3>8. ReadTo(g, Escape(p))
            BY <3>3, ReadTwo
        <3>9. PICK x \in Byte : Destuffed(g, stale) = p \o <<x>>
            <4>1. 5 \in 0..7
                OBVIOUS
            <4> QED BY <3>8, <4>1, ReadEnds, FlippedIsByte
        <3>10. Destuffed(g, stale) = Append(p, x)
            BY <3>9, AppendIsConcat
        <3>11. q = p \o (<<b>> \o t) /\ <<b>> \o t \in Seq(Byte) /\ <<b>> \o t # <<>>
            <4>1. Append(p, b) = p \o <<b>> /\ <<b>> \in Seq(Byte)
                BY ParenthesesOfPlace
            <4>2. (p \o <<b>>) \o t = p \o (<<b>> \o t)
                BY <4>1, BytesAssociate, ZenonT(30)
            <4>3. <<b>> \o t \in Seq(Byte) /\ Len(<<b>> \o t) = 1 + Len(t)
                OBVIOUS
            <4>4. <<b>> \o t # <<>>
                BY <4>3
            <4> QED BY <2>3, <4>1, <4>2, <4>3, <4>4
        <3> QED BY <3>7, <3>10, <3>11 DEF BeginningOf
    <2> QED BY <2>4, <2>5
<1> QED BY <1>1, <1>2

\* What is accepted of stuffed data that end anywhere: a beginning of the data.
LEMMA CutIsBeginning ==
    ASSUME NEW q \in Seq(Byte), NEW k \in 0..Len(Stuffed(q)), NEW stale \in Byte,
           NEW s, s = Destuffed(SubSeq(Stuffed(q), 1, k), stale), Valid(s)
    PROVE  \E j \in 0..Len(q) - 1 : Payload(s) = SubSeq(q, 1, j)
<1>1. PICK u \in Seq(Byte), v \in Seq(Byte) :
          q = u \o v /\ (s = u \/ (v # <<>> /\ \E x \in Byte : s = Append(u, x)))
    <2>1. BeginningOf(s, q)
        BY CutIsRead
    <2> QED BY <2>1 DEF BeginningOf
<1>2. Len(q) = Len(u) + Len(v) /\ Len(u) \in Nat /\ Len(v) \in Nat
    BY <1>1
<1>3. SubSeq(q, 1, Len(u)) = u
    BY <1>1, TwoParts
<1>4. CASE s = u
    <2>1. Len(u) > 1
        BY <1>4 DEF Valid
    <2>2. Payload(s) = SubSeq(u, 1, Len(u) - 1)
        BY <1>4 DEF Payload, Front
    <2>3. SubSeq(u, 1, Len(u) - 1) = SubSeq(q, 1, Len(u) - 1)
        <3>1. PICK a \in Nat : a = Len(u) - 1
            BY <1>2, <2>1
        <3>2. /\ SubSeq(u, 1, a) \in Seq(Byte) /\ SubSeq(q, 1, a) \in Seq(Byte)
              /\ Len(SubSeq(u, 1, a)) = a /\ Len(SubSeq(q, 1, a)) = a
              /\ \A j \in 1..a : SubSeq(u, 1, a)[j] = u[j]
              /\ \A j \in 1..a : SubSeq(q, 1, a)[j] = q[j]
            BY <1>2, <3>1
        <3>3. \A j \in 1..a : u[j] = q[j]
            BY <1>1, <1>2, <3>1, ConcatIs
        <3>4. \A j \in 1..a : SubSeq(u, 1, a)[j] = SubSeq(q, 1, a)[j]
            BY <3>2, <3>3
        <3> QED BY <3>1, <3>2, <3>4, SeqEqual
    <2>4. Len(u) - 1 \in 0..Len(q) - 1
        BY <1>2, <2>1
    <2> QED BY <2>2, <2>3, <2>4
<1>5. CASE v # <<>> /\ \E x \in Byte : s = Append(u, x)
    <2>1. Payload(s) = u
        BY <1>5, ParenthesesOfPlace DEF Payload
    <2>2. Len(v) # 0
        BY <1>5
    <2>3. Len(u) \in 0..Len(q) - 1
        BY <1>2, <2>2
    <2> QED BY <1>3, <2>1, <2>3
<1> QED BY <1>1, <1>4, <1>5

LEMMA StuffedNothing ==
    ASSUME NEW u \in Seq(Byte), Len(Stuffed(u)) = 0
    PROVE  u = <<>>
<1> SUFFICES ASSUME u # <<>> PROVE FALSE
    OBVIOUS
<1>1. PICK p \in Seq(Byte), b \in Byte : u = Append(p, b)
    BY SequenceEmptyOrAppend
<1>2. Stuffed(u) = Stuffed(p) \o Escaped(b)
    BY <1>1, StuffedAppend
<1>3. PICK g \in Seq(Byte), s \in Seq(Byte) : g = Stuffed(p) /\ s = Escaped(b)
    BY StuffedTyped, EscapedByte
<1>4. Len(s) \in {1, 2}
    BY <1>3, EscapedIs
<1>5. Len(g \o s) = Len(g) + Len(s) /\ Len(g) \in Nat
    BY ConcatIs
<1>6. PICK a \in Nat, d \in {1, 2} : a = Len(g) /\ d = Len(s)
    BY <1>4, <1>5
<1>7. Len(g \o s) = 0
    BY <1>2, <1>3, Zenon
<1>8. a + d = 0
    BY <1>5, <1>6, <1>7, Zenon
<1>9. a + d # 0
    BY <1>6
<1> QED BY <1>8, <1>9

LEMMA SplitStuffed ==
    ASSUME NEW q, NEW k, NEW p \in Seq(Byte), NEW b \in Byte, NEW t \in Seq(Byte), Splits(q, k, p, b, t)
    PROVE  /\ q = Append(p, b) \o t /\ Stuffed(q) = (Stuffed(p) \o Escaped(b)) \o Stuffed(t)
           /\ k > Len(Stuffed(p)) /\ k <= Len(Stuffed(p)) + Len(Escaped(b))
<1>1. /\ q = Append(p, b) \o t
      /\ k > Len(Stuffed(p)) /\ k <= Len(Stuffed(p)) + Len(Escaped(b))
    BY DEF Splits
<1>2. Stuffed(Append(p, b) \o t) = (Stuffed(p) \o Escaped(b)) \o Stuffed(t)
    BY StuffedAround
<1> QED BY <1>1, <1>2, Zenon

\* Bytes k-1 and k of e, the stuffed q, are the bytes c and h between u and t in q.
Pair(q, e, k, u, c, h, t) ==
    /\ c = e[k - 1] /\ h = e[k]
    /\ q = Append(Append(u, c), h) \o t
    /\ SubSeq(e, k + 1, Len(e)) = Stuffed(t)
    /\ Len(Stuffed(u)) = k - 2
    /\ \A i \in 1..k - 2 : Stuffed(u)[i] = e[i]

\* Two bytes of stuffed data that are not of a stuffed byte are bytes of the data.
LEMMA InnerTwo ==
    ASSUME NEW q \in Seq(Byte), NEW e, e = Stuffed(q), NEW k \in 2..Len(e),
           2 \notin e[k - 1], 2 \notin e[k]
    PROVE  \E u \in Seq(Byte), c \in Byte, h \in Byte, t \in Seq(Byte) : Pair(q, e, k, u, c, h, t)
<1>1. e \in Seq(Byte) /\ Len(e) \in Nat /\ k \in Nat /\ k >= 2 /\ k <= Len(e) /\ k \in 1..Len(Stuffed(q))
    BY StuffedTyped
<1>2. PICK p \in Seq(Byte), b \in Byte, t \in Seq(Byte) : Splits(q, k, p, b, t)
    BY <1>1, SplitAt
<1>3. PICK g \in Seq(Byte), s \in Seq(Byte), r \in Seq(Byte) :
          g = Stuffed(p) /\ s = Escaped(b) /\ r = Stuffed(t)
    BY StuffedTyped, EscapedByte
<1>4. q = Append(p, b) \o t /\ e = (g \o s) \o r /\ k > Len(g) /\ k <= Len(g) + Len(s)
    <2>1. /\ q = Append(p, b) \o t /\ Stuffed(q) = (Stuffed(p) \o Escaped(b)) \o Stuffed(t)
          /\ k > Len(Stuffed(p)) /\ k <= Len(Stuffed(p)) + Len(Escaped(b))
        BY <1>2, SplitStuffed
    <2> QED BY <1>3, <2>1
<1>5. PICK i \in 1..Len(s) : k = Len(g) + i
    <2>1. Len(g) \in Nat /\ Len(s) \in Nat
        BY <1>3
    <2>2. PICK a \in Nat, c \in Nat : a = Len(g) /\ c = Len(s)
        BY <2>1
    <2>3. k - a \in 1..c /\ k = a + (k - a)
        BY <1>1, <1>4, <2>2
    <2> QED BY <2>2, <2>3
<1>6. e[k] = s[i]
    <2>1. PICK y, w2 : y = [s EXCEPT ![i] = b] /\ w2 = [e EXCEPT ![k] = b]
        OBVIOUS
    <2>2. e = Cat(Cat(g, s), r)
        BY <1>4 DEF Cat
    <2>3. Replaced(g, s, r, i, b, e, k, y, w2)
        BY <1>3, <1>5, <2>1, <2>2 DEF Replaced
    <2> QED BY <2>3, InTheMiddleOf
<1>7. b \notin {FLAG, ESC} /\ s = <<b>> /\ i = 1 /\ e[k] = b
    <2>1. ASSUME b \in {FLAG, ESC} PROVE FALSE
        <3>1. s = <<ESC, Flipped(b, 5)>>
            BY <1>3, <2>1, EscapedIs
        <3>2. Len(s) = 2 /\ s[1] = ESC /\ s[2] = Flipped(b, 5)
            BY <3>1
        <3>3. i = 1 \/ i = 2
            BY <1>5, <3>2
        <3> QED BY <1>6, <2>1, <3>2, <3>3, StuffingMarks
    <2>2. s = <<b>>
        BY <1>3, <2>1, EscapedIs
    <2>3. Len(s) = 1 /\ s[1] = b
        BY <2>2
    <2> QED BY <1>5, <1>6, <2>1, <2>2, <2>3
<1>8. Len(g) = k - 1 /\ Len(g) > 0
    <2>1. Len(g) \in Nat
        BY <1>3
    <2> QED BY <1>1, <1>5, <1>7, <2>1
<1>9. PICK v \in Seq(Byte) : v = g \o s
    BY ConcatIs
<1>10. Len(v) = k /\ \A j \in 1..Len(g) : v[j] = g[j]
    <2>1. Len(v) = Len(g) + Len(s) /\ Len(s) = 1
        BY <1>7, <1>9, ConcatIs
    <2>2. \A j \in 1..Len(g) : j \in 1..Len(g) + Len(s) /\ j <= Len(g)
        BY <2>1
    <2>3. \A j \in 1..Len(g) : v[j] = g[j]
        BY <1>9, <2>2, ConcatIs
    <2> QED BY <1>1, <1>8, <2>1, <2>3
<1>11. e = v \o r
    BY <1>4, <1>9
<1>12. \A j \in 1..k - 1 : e[j] = g[j]
    <2>1. \A j \in 1..k : j \in 1..Len(v) + Len(r) /\ j <= Len(v)
        <3>1. Len(r) \in Nat
            BY <1>3
        <3> QED BY <1>1, <1>10, <3>1
    <2>2. \A j \in 1..k : e[j] = v[j]
        BY <1>11, <2>1, ConcatIs
    <2> QED BY <1>1, <1>8, <1>10, <2>2
<1>13. SubSeq(e, k + 1, Len(e)) = r
    <2>1. SubSeq(v \o r, Len(v) + 1, Len(v \o r)) = r
        BY TwoParts
    <2> QED BY <1>10, <1>11, <2>1
<1>14. 2 \notin Stuffed(p)[Len(Stuffed(p))] /\ Len(Stuffed(p)) > 0
    <2>1. k - 1 \in 1..k - 1
        BY <1>1
    <2>2. g[k - 1] = e[k - 1]
        BY <1>12, <2>1
    <2> QED BY <1>3, <1>8, <2>2
<1>15. PICK u \in Seq(Byte), c \in Byte :
           p = Append(u, c) /\ Stuffed(p) = Append(Stuffed(u), c) /\ c = Stuffed(p)[Len(Stuffed(p))]
    BY <1>14, LastPlain
<1>16. c = e[k - 1]
    <2>1. k - 1 \in 1..k - 1
        BY <1>1
    <2> QED BY <1>3, <1>8, <1>12, <1>15, <2>1
<1>17. PICK d \in Seq(Byte) : d = Stuffed(u) /\ g = Append(d, c)
    BY <1>3, <1>15, StuffedTyped
<1>18. Len(d) = k - 2 /\ \A j \in 1..k - 2 : d[j] = e[j]
    <2>1. Len(g) = Len(d) + 1 /\ Len(d) \in Nat /\ \A j \in 1..Len(d) : g[j] = d[j]
        BY <1>17
    <2>2. Len(d) = k - 2
        BY <1>1, <1>8, <2>1, SMTT(30)
    <2>3. \A j \in 1..k - 2 : j \in 1..k - 1
        BY <1>1
    <2> QED BY <1>12, <2>1, <2>2, <2>3
<1>19. Pair(q, e, k, u, c, b, t)
    BY <1>3, <1>4, <1>7, <1>13, <1>15, <1>16, <1>17, <1>18 DEF Pair
<1> QED BY <1>19

\* Bytes k-2, k-1 and k of the stuffed data e are none that come of stuffing.
ThreePlain(e, k) == k \in 3..Len(e) /\ 2 \notin e[k - 2] /\ 2 \notin e[k - 1] /\ 2 \notin e[k]

\* They are three bytes of q, with u in front of them and t behind.
Around(q, e, k, u, t) ==
    /\ e[k - 2] \in Byte /\ e[k - 1] \in Byte /\ e[k] \in Byte
    /\ q = Append(Append(Append(u, e[k - 2]), e[k - 1]), e[k]) \o t
    /\ SubSeq(e, k + 1, Len(e)) = Stuffed(t)

\* Likewise three, the header of an I-frame.
LEMMA InnerHeader ==
    ASSUME NEW q \in Seq(Byte), NEW k, ThreePlain(Stuffed(q), k)
    PROVE  \E u \in Seq(Byte), t \in Seq(Byte) : Around(q, Stuffed(q), k, u, t)
<1>1. PICK e : e = Stuffed(q)
    OBVIOUS
<1>2. k \in 3..Len(e) /\ 2 \notin e[k - 2] /\ 2 \notin e[k - 1] /\ 2 \notin e[k]
    BY <1>1 DEF ThreePlain
<1>3. k \in 2..Len(e) /\ k - 2 \in 1..k - 2 /\ k - 2 > 0
    BY <1>1, <1>2, StuffedTyped
<1>4. PICK p \in Seq(Byte), c \in Byte, h \in Byte, t \in Seq(Byte) : Pair(q, e, k, p, c, h, t)
    BY <1>1, <1>2, <1>3, InnerTwo
<1>5. /\ c = e[k - 1] /\ h = e[k] /\ q = Append(Append(p, c), h) \o t
      /\ SubSeq(e, k + 1, Len(e)) = Stuffed(t)
      /\ Len(Stuffed(p)) = k - 2 /\ \A i \in 1..k - 2 : Stuffed(p)[i] = e[i]
    BY <1>4 DEF Pair
<1>6. Stuffed(p)[Len(Stuffed(p))] = e[k - 2] /\ Len(Stuffed(p)) > 0
    BY <1>3, <1>5
<1>7. PICK u \in Seq(Byte), a \in Byte : p = Append(u, a) /\ a = Stuffed(p)[Len(Stuffed(p))]
    BY <1>2, <1>6, LastPlain
<1>8. Around(q, e, k, u, t)
    BY <1>5, <1>6, <1>7 DEF Around
<1> QED BY <1>1, <1>8

\* The bytes a, c, h are in the payload p, or reach into its BCC2, b: behind them is t.
HeaderIn(p, b, a, c, h, t) ==
    /\ BCC(Append(p, b)) = {}
    /\ \E u \in Seq(Byte) : Append(p, b) = Append(Append(Append(u, a), c), h) \o t

\* The data are what is behind the header h in p, when the bytes up to there cancel out.
EndOf(h, data, p) ==
    \E k \in 3..Len(p) :
        /\ SubSeq(p, k - 2, k) = h
        /\ BCC(SubSeq(p, 1, k)) = {}
        /\ data = SubSeq(p, k + 1, Len(p))

\* What is behind a header that is in the data is accepted only where the bytes of
\* the payload up to there cancel out.
LEMMA BehindHeader ==
    ASSUME NEW p \in Seq(Byte), NEW b \in Byte, NEW a \in Byte, NEW c \in Byte, NEW h \in Byte,
           NEW t \in Seq(Byte), HeaderIn(p, b, a, c, h, t), Valid(t)
    PROVE  EndOf(<<a, c, h>>, Payload(t), p)
<1>1. PICK u \in Seq(Byte) : Append(p, b) = Append(Append(Append(u, a), c), h) \o t
    BY DEF HeaderIn
<1>2. BCC(Append(p, b)) = {}
    BY DEF HeaderIn
<1>3. PICK g \in Seq(Byte) : g = Append(Append(Append(u, a), c), h)
    <2>1. Append(u, a) \in Seq(Byte)
        OBVIOUS
    <2>2. Append(Append(u, a), c) \in Seq(Byte)
        BY <2>1
    <2>3. Append(Append(Append(u, a), c), h) \in Seq(Byte)
        BY <2>2
    <2> QED BY <2>3, Zenon
<1>4. /\ Len(g) = Len(u) + 3 /\ Len(u) \in Nat
      /\ g[Len(u) + 1] = a /\ g[Len(u) + 2] = c /\ g[Len(u) + 3] = h
    BY <1>3
<1>5. Len(t) > 1 /\ BCC(t) = {} /\ t # <<>>
    <2>1. Len(t) > 1 /\ BCC(t) = {}
        BY ValidIs
    <2> QED BY <2>1
<1>6. PICK r \in Seq(Byte), y \in Byte : t = Append(r, y) /\ r = Payload(t)
    BY <1>5, LastByte DEF Payload
<1>7. Append(p, b) = Append(g \o r, y) /\ g \o r \in Seq(Byte)
    <2>1. Append(g \o r, y) = g \o Append(r, y)
        BY AppendToParts, ZenonT(30)
    <2>2. g \o r \in Seq(Byte)
        BY ConcatIs
    <2> QED BY <1>1, <1>3, <1>6, <2>1, <2>2
<1>8. p = g \o r
    <2>1. Front(Append(p, b)) = p
        BY ParenthesesOfPlace
    <2>2. Front(Append(g \o r, y)) = g \o r
        BY <1>7, ParenthesesOfPlace
    <2> QED BY <1>7, <2>1, <2>2
<1>9. BCC(g) = {}
    <2>1. BCC(Append(p, b)) = Xor(BCC(g), BCC(t))
        BY <1>1, <1>3, BCCOfParts
    <2>2. Xor(BCC(g), {}) = BCC(g)
        BY BCCIsByte, XorLaws
    <2> QED BY <1>5, <1>2, <2>1, <2>2
<1>10. Len(p) = Len(g) + Len(r) /\ Len(r) \in Nat
    BY <1>6, <1>8, ConcatIs
<1> DEFINE k == Len(g)
<1>11. k \in 3..Len(p)
    BY <1>4, <1>10
<1>12. SubSeq(p, 1, k) = g /\ SubSeq(p, k + 1, Len(p)) = r
    BY <1>8, TwoParts
<1>13. SubSeq(p, k - 2, k) = <<a, c, h>>
    <2>1. p[k - 2] = a /\ p[k - 1] = c /\ p[k] = h
        <3>1. \A i \in 1..k : p[i] = g[i]
            <4>1. \A i \in 1..k : i \in 1..k + Len(r) /\ i <= k
                BY <1>4, <1>10
            <4> QED BY <1>8, <4>1, ConcatIs
        <3>2. k - 2 \in 1..k /\ k - 1 \in 1..k /\ k \in 1..k /\ k - 2 = Len(u) + 1 /\ k - 1 = Len(u) + 2
            BY <1>4
        <3> QED BY <1>4, <3>1, <3>2
    <2>2. PICK n \in Nat : n = k - 2 /\ n >= 1 /\ n + 2 <= Len(p)
        BY <1>4, <1>11
    <2>3. /\ SubSeq(p, n, n + 2) \in Seq(Byte) /\ Len(SubSeq(p, n, n + 2)) = 3
          /\ SubSeq(p, n, n + 2)[1] = p[n] /\ SubSeq(p, n, n + 2)[2] = p[n + 1]
          /\ SubSeq(p, n, n + 2)[3] = p[n + 2]
        BY <2>2
    <2>4. k - 1 = n + 1 /\ k = n + 2
        BY <2>2
    <2>5. SubSeq(p, n, n + 2) = <<a, c, h>>
        <3>1. <<a, c, h>> \in Seq(Byte) /\ Len(<<a, c, h>>) = 3
            OBVIOUS
        <3>2. \A i \in 1..3 : i = 1 \/ i = 2 \/ i = 3
            OBVIOUS
        <3>3. \A i \in 1..3 : SubSeq(p, n, n + 2)[i] = <<a, c, h>>[i]
            BY <2>1, <2>2, <2>3, <2>4, <3>2
        <3> QED BY <2>3, <3>1, <3>3, SeqEqual
    <2> QED BY <2>2, <2>4, <2>5
<1> QED BY <1>6, <1>9, <1>11, <1>12, <1>13 DEF EndOf

\* Data that begin with the last two bytes of a header: what is behind them is not
\* accepted.
LEMMA BehindTwo ==
    ASSUME NEW q \in Seq(Byte), BCC(q) = {}, NEW e, e = Stuffed(q), Len(e) >= 2,
           2 \notin e[1], 2 \notin e[2], Xor(e[1], e[2]) # {}, NEW stale \in Byte
    PROVE  ~Valid(Destuffed(SubSeq(e, 3, Len(e)), stale))
<1>1. 2 \in 2..Len(e) /\ 2 - 1 = 1 /\ 2 + 1 = 3
    BY StuffedTyped
<1>2. PICK u \in Seq(Byte), c \in Byte, h \in Byte, t \in Seq(Byte) :
          /\ c = e[1] /\ h = e[2]
          /\ q = Append(Append(u, c), h) \o t
          /\ SubSeq(e, 3, Len(e)) = Stuffed(t)
          /\ Len(Stuffed(u)) = 0
    <2>1. \E u \in Seq(Byte), c \in Byte, h \in Byte, t \in Seq(Byte) : Pair(q, e, 2, u, c, h, t)
        BY <1>1, InnerTwo
    <2>2. PICK u \in Seq(Byte), c \in Byte, h \in Byte, t \in Seq(Byte) : Pair(q, e, 2, u, c, h, t)
        BY <2>1
    <2>3. /\ c = e[2 - 1] /\ h = e[2] /\ q = Append(Append(u, c), h) \o t
          /\ SubSeq(e, 2 + 1, Len(e)) = Stuffed(t) /\ Len(Stuffed(u)) = 2 - 2
        BY <2>2 DEF Pair
    <2>4. c = e[1] /\ SubSeq(e, 3, Len(e)) = Stuffed(t) /\ Len(Stuffed(u)) = 0
        BY <2>3
    <2> QED BY <2>3, <2>4, Zenon
<1>3. u = <<>>
    BY <1>2, StuffedNothing
<1>4. PICK g \in Seq(Byte) : g = Append(Append(u, c), h)
    <2>1. Append(u, c) \in Seq(Byte)
        OBVIOUS
    <2>2. Append(Append(u, c), h) \in Seq(Byte)
        BY <2>1
    <2> QED BY <2>2, Zenon
<1>5. BCC(g) = Xor(c, h)
    <2>1. <<>> \in Seq(Byte) /\ Append(<<>>, c) \in Seq(Byte) /\ g = Append(Append(<<>>, c), h)
        BY <1>3, <1>4
    <2>2. BCC(Append(<<>>, c)) = Xor({}, c)
        BY <2>1, BCCOfAppend, BCCOfNone, ZenonT(30)
    <2>3. BCC(g) = Xor(BCC(Append(<<>>, c)), h)
        BY <2>1, BCCOfAppend
    <2> QED BY <2>2, <2>3, XorLaws
<1>6. BCC(q) = Xor(BCC(g), BCC(t))
    <2>1. q = g \o t
        BY <1>2, <1>4
    <2>2. BCC(g \o t) = Xor(BCC(g), BCC(t))
        BY BCCOfParts
    <2> QED BY <2>1, <2>2
<1>7. BCC(t) # {}
    <2>1. Xor(BCC(g), {}) = BCC(g)
        BY BCCIsByte, XorLaws
    <2> QED BY <1>2, <1>5, <1>6, <2>1
<1>8. Destuffed(Stuffed(t), stale) = t
    BY DestuffingUndoesStuffing
<1> QED BY <1>2, <1>7, <1>8, ValidIs

=============================================================================

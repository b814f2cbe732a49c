------------------------------ MODULE Framing ------------------------------
(***************************************************************************)
(* The bytes of a frame: how src/ll_internal.c and src/ll_utils.c          *)
(* build and take them apart, and the three automata that recognise them   *)
(* (src/ll_s_statemachine.c, ll_u_statemachine.c, ll_i_statemachine.c).    *)
(*                                                                         *)
(* A byte is the set of its bits that are 1, so that an exclusive or is a  *)
(* symmetric difference.                                                   *)
(***************************************************************************)
EXTENDS Naturals, Sequences, SequencesExt

Byte == SUBSET (0..7)

Xor(x, y) == (x \ y) \cup (y \ x)

FLAG   == {1, 2, 3, 4, 5, 6}        \* 0x7E
ESC    == {0, 2, 3, 4, 5, 6}        \* 0x7D
A_SEND == {0, 1}                    \* 0x03
A_RECV == {0}                       \* 0x01
C_SET  == {0, 1}                    \* 0x03
C_DISC == {0, 1, 3}                 \* 0x0B
C_UA   == {0, 1, 2}                 \* 0x07

C_I(n) == IF n = 1 THEN {6} ELSE {}         \* LL_C: n << 6
RR(n)  == {0, 2} \cup IF n = 1 THEN {7} ELSE {}
REJ(n) == {0} \cup IF n = 1 THEN {7} ELSE {}

Flipped(b, bit) == Xor(b, {bit})

-----------------------------------------------------------------------------
(* Building a frame *)

\* ll_bcc: the exclusive or of all bytes has the bits that an odd number of them has.
BCC(s) == {bit \in 0..7 : Cardinality({i \in DOMAIN s : bit \in s[i]}) % 2 = 1}

\* ESC itself is not escaped.
MutEscaped(b) == IF b = FLAG THEN <<ESC, Flipped(b, 5)>> ELSE <<b>>

\* A byte is stuffed: ll_stuffing.
Escaped(b) == IF b \in {FLAG, ESC} THEN <<ESC, Flipped(b, 5)>> ELSE <<b>>

Stuffed(s) == FlattenSeq([i \in DOMAIN s |-> Escaped(s[i])])

Header(a, c) == <<FLAG, a, c, BCC(<<a, c>>)>>

\* ll_send_SET, _DISC, _UA, _RR, _REJ.
Supervisory(a, c) == Header(a, c) \o <<FLAG>>

\* ll_send_I.
Information(n, payload) ==
    Header(A_SEND, C_I(n)) \o Stuffed(payload) \o Stuffed(<<BCC(payload)>>) \o <<FLAG>>

-----------------------------------------------------------------------------
(* Taking the data of an I-frame apart *)

NothingRead == [out |-> <<>>, escape |-> "no"]

\* What the loop of ll_destuffing has written, and whether it has come to an ESC
\* of which it takes the next byte.
DestuffedByte(to, b) ==
    IF to.escape = "yes" THEN [out |-> Append(to.out, Flipped(b, 5)), escape |-> "no"]
    ELSE IF b = ESC THEN [to EXCEPT !.escape = "yes"]
    ELSE [to EXCEPT !.out = Append(@, b)]

\* ll_destuffing.  When the data end in ESC it reads one byte further, where it
\* finds whatever is in the memory: stale.
Destuffed(s, stale) ==
    LET to[i \in 0..Len(s)] ==
            IF i = 0 THEN NothingRead ELSE DestuffedByte(to[i - 1], s[i])
        end == to[Len(s)]
    IN IF end.escape = "yes" THEN DestuffedByte(end, stale).out ELSE end.out

\* BCC2 is not compared.
MutValid(s) == s # <<>>

\* The checks of ll_expect_Iframe on the destuffed data, of which the last byte
\* is BCC2.  A payload of length 0 is an error to llread.
Valid(s) == Len(s) > 1 /\ Last(s) = BCC(Front(s))

Payload(s) == Front(s)

-----------------------------------------------------------------------------
(* The automata.  Each is a record: its state, the address and control bytes *)
(* it keeps, and the data.  seq is sequence_number.                           *)

Start == [state |-> "START", a |-> {}, c |-> {}, data |-> <<>>]

\* The loop of ll_expect_Uframe does not end at an unexpected DISC.
MutStops == {"STOP", "STOP_RR"}

\* The states in which the loops of ll_expect_Sframe, _Uframe and _Iframe end.
Stops == {"STOP", "STOP_RR", "STOP_DISC"}

NextSeq(seq) == (seq + 1) % 2

SControls(seq) == {C_SET, C_DISC, RR(NextSeq(seq)), REJ(NextSeq(seq))}

\* BCC is not compared.
MutSGoto(seq, m, b) ==
    CASE m.state = "FLAG_RCV" /\ b \in {A_SEND, A_RECV}          -> "A_RCV"
      [] m.state = "A_RCV" /\ b \in SControls(seq)               -> "C_RCV"
      [] m.state = "A_RCV" /\ b \in {C_I(0), C_I(1)}             -> "C_I_RCV"
      [] m.state = "C_RCV" /\ b # FLAG                           -> "BCC_OK"
      [] m.state = "BCC_OK" /\ b = FLAG                          -> "STOP"
      [] m.state = "C_I_RCV"           -> IF b = FLAG THEN "STOP_RR" ELSE "C_I_RCV"
      [] OTHER                         -> IF b = FLAG THEN "FLAG_RCV" ELSE "START"

\* ll_s_state_update.
SGoto(seq, m, b) ==
    CASE m.state = "FLAG_RCV" /\ b \in {A_SEND, A_RECV}          -> "A_RCV"
      [] m.state = "A_RCV" /\ b \in SControls(seq)               -> "C_RCV"
      [] m.state = "A_RCV" /\ b \in {C_I(0), C_I(1)}             -> "C_I_RCV"
      [] m.state = "C_RCV" /\ b # FLAG /\ b = Xor(m.a, m.c)      -> "BCC_OK"
      [] m.state = "BCC_OK" /\ b = FLAG                          -> "STOP"
      [] m.state = "C_I_RCV"           -> IF b = FLAG THEN "STOP_RR" ELSE "C_I_RCV"
      [] OTHER                         -> IF b = FLAG THEN "FLAG_RCV" ELSE "START"

\* ll_u_state_update.
UGoto(m, b) ==
    CASE m.state = "FLAG_RCV" /\ b \in {A_SEND, A_RECV}          -> "A_RCV"
      [] m.state = "A_RCV" /\ b = C_UA                           -> "C_RCV"
      [] m.state = "A_RCV" /\ b = C_DISC                         -> "C_DISC_RCV"
      [] m.state = "C_RCV" /\ b # FLAG /\ b = Xor(m.a, m.c)      -> "BCC_OK"
      [] m.state = "BCC_OK" /\ b = FLAG                          -> "STOP"
      [] m.state = "C_DISC_RCV"        -> IF b = FLAG THEN "STOP_DISC" ELSE "C_DISC_RCV"
      [] OTHER                         -> IF b = FLAG THEN "FLAG_RCV" ELSE "START"

\* ll_i_state_update.  It starts at the address, so that the FLAG that ends a
\* frame may also begin the next one.
IGoto(seq, m, b) ==
    CASE m.state = "START" /\ b = A_SEND                         -> "A_RCV"
      [] m.state = "A_RCV" /\ b = C_I(NextSeq(seq))                -> "C_RCV"
      [] m.state = "A_RCV" /\ b = C_I(seq)                       -> "C_UNXP_RCV"
      [] m.state = "A_RCV" /\ b = C_SET                          -> "C_SET_RCV"
      [] m.state = "C_RCV" /\ b = Xor(A_SEND, C_I(NextSeq(seq)))   -> "DATA"
      [] m.state = "DATA"              -> IF b = FLAG THEN "STOP" ELSE "DATA"
      [] m.state = "C_UNXP_RCV"        -> IF b = FLAG THEN "STOP_RR" ELSE "C_UNXP_RCV"
      [] m.state = "C_SET_RCV"         -> IF b = FLAG THEN "STOP_UA" ELSE "C_SET_RCV"
      [] OTHER                         -> "START"

\* What the S and U automata keep of a byte that takes them to next.
Kept(m, b, next) ==
    [state |-> next,
     a     |-> IF m.state = "FLAG_RCV" /\ next = "A_RCV" THEN b ELSE m.a,
     c     |-> IF m.state = "A_RCV" /\ next \in {"C_RCV", "C_I_RCV", "C_DISC_RCV"} THEN b ELSE m.c,
     data  |-> m.data]

SUpdate(seq, m, b) == Kept(m, b, SGoto(seq, m, b))
UUpdate(m, b)      == Kept(m, b, UGoto(m, b))

\* The I automaton keeps the data.
IUpdate(seq, m, b) ==
    [m EXCEPT !.state = IGoto(seq, m, b),
              !.data  = IF m.state = "DATA" /\ b # FLAG THEN Append(@, b) ELSE @]

=============================================================================

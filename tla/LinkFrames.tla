----------------------------- MODULE LinkFrames -----------------------------
(***************************************************************************)
(* The frames of the link layer, as its calls see them: what is sent, what *)
(* noise makes of it, and what the reception automata make of that.  A     *)
(* frame is a record: address a, control code c, sequence bit n (N_s of an *)
(* I-frame, N_r of RR and REJ), the packet d an I-frame carries (0 when it *)
(* carries none), and what the line did to it.  Reception checks these     *)
(* definitions against the bytes of the frames.                            *)
(***************************************************************************)
EXTENDS Naturals

CONSTANT N      \* packets the application transfers, numbered 1..N

MutFlip(b) == b + 1                             \* % 2 forgotten

Flip(b) == (b + 1) % 2

Frames == [a : {"SEND", "RECV"},
           c : {"SET", "UA", "DISC", "I", "RR", "REJ"},
           n : {0, 1},
           d : 0..N,
           damage : {"none", "payload", "header"}]

Frame(a, c, n, d) == [a |-> a, c |-> c, n |-> n, d |-> d, damage |-> "none"]

\* Commands carry the address of the end that issues them, responses the
\* address of the end they answer.
TxSET     == Frame("SEND", "SET", 0, 0)
TxI(n, d) == Frame("SEND", "I", n, d)
TxDISC    == Frame("SEND", "DISC", 0, 0)
TxUA      == Frame("RECV", "UA", 0, 0)
TxRR(n)   == Frame("RECV", "RR", n, 0)
RxUA      == Frame("SEND", "UA", 0, 0)
RxRR(n)   == Frame("SEND", "RR", n, 0)
RxREJ(n)  == Frame("SEND", "REJ", n, 0)
RxDISC    == Frame("RECV", "DISC", 0, 0)

\* What noise may make of a frame, when it is not lost.  The stuffed data or BCC2
\* of an I-frame is wrong, or its header looks like another one; and the header
\* of a REJ looks like that of an I-frame.
Damaged(f) ==
    CASE f.c = "I" -> {[f EXCEPT !.damage = "payload", !.d = 0],
                       [f EXCEPT !.damage = "header", !.n = Flip(@)],
                       [f EXCEPT !.damage = "header", !.c = "SET"]}
      [] f.c = "REJ" /\ f.n = 0 -> {[f EXCEPT !.damage = "header", !.c = "I"]}
      [] OTHER -> {}

(* What the reception automata make of a whole frame, when this end's      *)
(* sequence_number is seq:                                                 *)
(*   "stop"    the caller gets the frame        "skip"   nothing happens   *)
(*   "resend"  answered with RR, wait goes on   "disc"   a DISC for the U  *)
(*   "data"    the packet is accepted           "bad"    BCC2 is wrong     *)
(*   "set"     a SET where an I-frame is expected                          *)

SOutcome(seq, f) ==
    CASE f.c \in {"SET", "DISC"} /\ f.damage = "none"  -> "stop"
      [] f.c \in {"RR", "REJ"} /\ f.n = Flip(seq)      -> "stop"
      [] f.c = "I"                                     -> "resend"
      [] OTHER                                         -> "skip"

UOutcome(f) ==
    CASE f.c = "UA"   -> "stop"
      [] f.c = "DISC" -> "disc"
      [] OTHER        -> "skip"

\* The sequence number of an I-frame is not compared.
MutIOutcomeAnyNumber(seq, f) ==
    CASE f.a = "SEND" /\ f.c = "SET"                         -> "set"
      [] f.a = "SEND" /\ f.c = "I" /\ f.damage = "none"      -> "data"
      [] f.a = "SEND" /\ f.c = "I" /\ f.damage = "payload"   -> "bad"
      [] OTHER                                               -> "skip"

\* BCC2 is not checked.
MutIOutcomeNoBCC2(seq, f) ==
    CASE f.a = "SEND" /\ f.c = "SET"                         -> "set"
      [] f.a = "SEND" /\ f.c = "I" /\ f.n = seq              -> "resend"
      [] f.a = "SEND" /\ f.c = "I" /\ f.n = Flip(seq)
            /\ f.damage # "header"                           -> "data"
      [] OTHER                                               -> "skip"

\* BCC1 is checked on the frame that is expected and on no other, so that a
\* damaged header may be taken for a duplicate or for a SET.
IOutcome(seq, f) ==
    CASE f.a = "SEND" /\ f.c = "SET"                     -> "set"
      [] f.a = "SEND" /\ f.c = "I" /\ f.n = seq          -> "resend"
      [] f.a = "SEND" /\ f.c = "I" /\ f.n = Flip(seq)
            /\ f.damage = "none"                         -> "data"
      [] f.a = "SEND" /\ f.c = "I" /\ f.n = Flip(seq)
            /\ f.damage = "payload"                      -> "bad"
      [] OTHER                                           -> "skip"

=============================================================================

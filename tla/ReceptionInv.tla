---------------------------- MODULE ReceptionInv ----------------------------
(***************************************************************************)
(* The inductive invariant behind Reception: how far an automaton has got  *)
(* in the frame on the line, and why one whole frame is enough to bring an *)
(* automaton that noise has left in any state back in step.                *)
(***************************************************************************)
EXTENDS Reception

\* A frame is FLAG, an address, a control byte, BCC1, Body(f) and FLAG.
ControlByte(f) == IF f.c = "I" THEN C_I(f.n) ELSE Control(f)

Body(f) ==
    IF f.c = "I" THEN Stuffed(Payloads[f.d]) \o Stuffed(<<BCC(Payloads[f.d])>>) ELSE <<>>

-----------------------------------------------------------------------------
\* What every automaton keeps to, whatever it reads: it is in one of its own
\* states, has data in DATA only, and a control byte that it recognises.
AutomatonInv ==
    /\ m.data # <<>> => m.state = "DATA"
    /\ auto = "S" =>
          /\ m.state \in {"START", "FLAG_RCV", "A_RCV", "C_RCV", "BCC_OK", "C_I_RCV"}
          /\ m.state \in {"C_RCV", "BCC_OK"} => m.c \in SControls(seq)
    /\ auto = "U" =>
          /\ m.state \in {"START", "FLAG_RCV", "A_RCV", "C_RCV", "BCC_OK", "C_DISC_RCV"}
          /\ m.state \in {"C_RCV", "BCC_OK"} => m.c = C_UA
    /\ auto = "I" =>
          m.state \in {"START", "A_RCV", "C_RCV", "DATA", "C_UNXP_RCV", "C_SET_RCV", "STOP_UA"}

\* The automaton is between two frames.
Resting == m.state \in IF auto = "I" THEN {"START", "STOP_UA"} ELSE {"START", "FLAG_RCV"}

\* What it is when it has read k bytes of f, and had rested before; the rest of
\* the frame is but the last FLAG away from what LinkFrames says of it.
InFrame(f, k) ==
    CASE k = 0 -> Resting
      [] k = 1 -> m.state = IF auto = "I" THEN "START" ELSE "FLAG_RCV"
      [] k = 2 -> IF auto = "I"
                  THEN m.state = IF Verdict(f) = "skip" THEN "START" ELSE "A_RCV"
                  ELSE m.state = "A_RCV" /\ m.a = Address(f)
      [] k > 2 ->
           CASE Verdict(f) = "skip"   -> m.state = "START"
             [] Verdict(f) = "stop"   -> /\ m.state = IF k = 3 THEN "C_RCV" ELSE "BCC_OK"
                                         /\ m.a = Address(f) /\ m.c = Control(f)
             [] Verdict(f) = "resend" -> m.state = IF auto = "S" THEN "C_I_RCV" ELSE "C_UNXP_RCV"
             [] Verdict(f) = "disc"   -> m.state = "C_DISC_RCV"
             [] Verdict(f) = "set"    -> m.state = "C_SET_RCV"
             [] Verdict(f) = "data"   -> IF k = 3 THEN m.state = "C_RCV"
                                         ELSE m.state = "DATA" /\ m.data = SubSeq(Body(f), 1, k - 4)
             [] Verdict(f) = "bad"    -> FALSE

\* The last whole frame is on the line, but for the k bytes that have been read.
\* The automaton is in step with it; or else it is the first after noise, and with
\* its end the automaton comes to rest.
LineInv ==
    LET f == Last(whole)
        n == Len(Bytes(f))
    IN \E k \in 0..n :
          /\ wire = SubSeq(Bytes(f), k + 1, n)
          /\ k = n => Resting /\ HeardAre(whole)
          /\ k # n =>
                \/ InFrame(f, k) /\ HeardAre(Front(whole))
                \/ faults > 0 /\ Len(whole) = 1 /\ Len(heard) <= IF k = 0 THEN 0 ELSE 1

\* The inductive invariant of the specification.
ReceptionInv ==
    /\ TypeOK /\ AutomatonInv
    /\ \A i \in 1..Len(whole) : CanMeet(whole[i])
    /\ whole = <<>> => heard = <<>> /\ (faults = 0 => wire = <<>> /\ Resting)
    /\ whole # <<>> => LineInv

-----------------------------------------------------------------------------
(* What one fault leaves on the line for the I automaton *)

\* The data with which a FLAG may come to the automaton: what llread accepts of them,
\* if it accepts anything, is the payload of one of the frames or a part of it.
Accounted(frames, h) ==
    {d \in Seq(Byte) : \A stale \in StaleBytes :
        LET s == Destuffed(d, stale)
        IN Valid(s) => Traced(frames, h, TRUE, Payload(s))}

\* D has what becomes of the data d when the bytes of w come, up to a FLAG in them.
AccountedWith(D, d, w) ==
    \A k \in 0..Len(w) :
        /\ \A i \in 1..k : w[i] # FLAG
        /\ k < Len(w) => w[k + 1] = FLAG
        => d \o SubSeq(w, 1, k) \in D

Behind(w, k) == SubSeq(w, k + 1, Len(w))

HeaderAt(h, w, k) == \A i \in 1..3 : w[(k - 3) + i] = h[i]

\* D has what comes behind the headers h in w; where the automaton is passing over
\* bytes, of those only that have a FLAG in front of them.
HeadersAccounted(D, h, w, passing) ==
    \A k \in 3..Len(w) :
        HeaderAt(h, w, k) /\ (passing => \E i \in 1..k - 3 : w[i] = FLAG)
            => AccountedWith(D, <<>>, Behind(w, k))

\* Of the I-frame f, hit behind its header, w is to come: the rest of the header,
\* of which k bytes have been read, and what is left of the data.
HeaderAhead(D, h, f, k, w) ==
    /\ \A i \in 1..Len(w) : i + k <= 4 => w[i] = Bytes(f)[i + k]
    /\ AccountedWith(D, <<>>, Behind(w, 4 - k))
    /\ HeadersAccounted(D, h, Behind(w, 4 - k), TRUE)

HeaderComes(D, h) ==
    LET f == Last(sent)
    IN f.c = "I" /\ CanMeet(f) /\ \E k \in 0..3 : InFrame(f, k) /\ HeaderAhead(D, h, f, k, wire)

\* Wherever the automaton x is when w comes, it comes to no data but those in D.
DataComes(D, h, x, w) ==
    /\ x.state = "DATA" => AccountedWith(D, x.data, w)
    /\ x.state = "A_RCV" /\ Len(w) > 1 /\ w[1] = h[2] /\ w[2] = h[3] =>
          AccountedWith(D, <<>>, Behind(w, 2))
    /\ x.state = "C_RCV" /\ Len(w) > 0 /\ w[1] = h[3] => AccountedWith(D, <<>>, Behind(w, 1))
    /\ HeadersAccounted(D, h, w, x.state \in {"DATA", "C_UNXP_RCV", "C_SET_RCV"})

\* The inductive invariant behind NoiseOnlyCuts, together with ReceptionInv.
NoiseInv ==
    LET h == IHeader(NextSeq(seq))
        D == Accounted(ToSet(sent), h)
    IN /\ NoiseOnlyCuts
       /\ faults = 0 => sent = whole
       /\ auto = "I" /\ faults = 1 => /\ sent # <<>>
                                      /\ HeaderComes(D, h) \/ DataComes(D, h, m, wire)

=============================================================================

---------------------------- MODULE LinkLayerInv ----------------------------
(***************************************************************************)
(* The inductive invariant behind the safety of LinkLayer: why one         *)
(* sequence bit is enough although frames are retransmitted at any time,   *)
(* answers arrive late, and llclose answers duplicates with the wrong bit. *)
(***************************************************************************)
EXTENDS LinkLayer

Count == Len(delivered)

\* An I-frame the receiver may accept, and the bit the I-frame of packet d has.
Intact(f) == f.c = "I" /\ f.damage = "none"
Bit(d)    == (d + 1) % 2

\* What types alone do not say: llwrite is called for packets 1..N only.
TypeInv ==
    /\ TypeOK
    /\ tpc = "write" => written < N
    /\ \A i \in 1..Len(tr) : Intact(tr[i]) => tr[i].d \in 1..N

\* The sequence numbers of the two ends follow what each has transferred.
SeqInv ==
    /\ tpc = "write" => tseq = Bit(written + 1)
    /\ tpc \in {"open", "ready"} => tseq = Bit(written)
    /\ rpc = "read" => rseq = Bit(Count) /\ Count < N
    /\ rpc \in {"open", "ready"} => rseq = Bit(Count + 1)
    /\ rpc \in {"close", "ua"} => Count = N

\* Until it has sent UA the receiver has done nothing the transmitter can see,
\* and until it has got UA the transmitter has sent SET only.
OpenInv ==
    /\ rpc \in {"idle", "open"} =>
          /\ tpc \in {"idle", "open", "fail"}
          /\ rt = <<>> /\ delivered = <<>>
          /\ \A i \in 1..Len(tr) : tr[i] = TxSET
    /\ tpc \in {"idle", "open"} =>
          /\ written = 0 /\ delivered = <<>>
          /\ \A i \in 1..Len(tr) : tr[i] = TxSET

\* The transmitter sends DISC when everything is written, and UA when done; the
\* receiver sends DISC when it has got one.
CloseInv ==
    /\ tpc \in {"close", "ok"} => written = N
    /\ \A i \in 1..Len(tr) :
          /\ tr[i].c = "DISC" => tpc \in {"close", "ok", "fail"} /\ written = N
          /\ tr[i].c = "UA" => tpc = "ok"
    /\ \A i \in 1..Len(rt) : rt[i].c = "DISC" => rpc \in {"ua", "ok", "lost"}
    /\ rpc \in {"ua", "lost"} => tpc \in {"close", "ok", "fail"} /\ written = N
    /\ tpc = "ok" => rpc \in {"ua", "ok", "lost"}
    /\ rpc = "ok" => tpc = "ok"

\* Intact I-frames carry the last packet delivered or the one being written,
\* with its bit, and the older packet's are ahead of the newer one's.
DataInv ==
    /\ written <= Count /\ Count <= written + 1
    /\ \A i \in 1..Len(tr) : Intact(tr[i]) =>
          /\ Count <= tr[i].d /\ tr[i].d <= written + 1
          /\ tr[i].n = Bit(tr[i].d)
    /\ \A i, j \in 1..Len(tr) :
          i < j /\ Intact(tr[i]) /\ Intact(tr[j]) => tr[i].d <= tr[j].d

\* An RR acknowledges the last packet delivered or the one before, and the
\* older acknowledgements are ahead of the newer.  Once the last packet is
\* delivered the answers of llclose may break this, and nobody minds: no
\* packet is left for them to acknowledge.
AckInv ==
    /\ Count = written /\ Count < N =>
          \A i \in 1..Len(rt) : rt[i].c = "RR" => rt[i].n = Bit(Count + 1)
    /\ Count = written + 1 /\ Count < N =>
          \A i, j \in 1..Len(rt) :
             /\ i < j /\ rt[i].c = "RR" /\ rt[j].c = "RR"
             /\ rt[i].n = Bit(Count + 1)
             => rt[j].n = Bit(Count + 1)

\* The answers of RR and REJ that would end a wait of llclose.
Final(f) == f.c \in {"RR", "REJ"} /\ f.n = Bit(N + 1)

\* Of the answers that carry the number of the last acknowledgement none comes
\* after it: what the receiver's llclose answers has the other one.  Only DISC
\* has the receiver's address, and only noise makes an I-frame of an answer.
AnswerInv ==
    /\ tpc = "close" => tseq = Bit(N)
    /\ rpc = "close" => rseq = Bit(N + 1)
    /\ \A i \in 1..Len(rt) :
          /\ rt[i].c = "DISC" <=> rt[i].a = "RECV"
          /\ rt[i].c # "SET" /\ ~Intact(rt[i])
    /\ Count = N =>
          /\ \A i, j \in 1..Len(rt) :
                i < j /\ rt[i].c = "RR" /\ Final(rt[i]) => ~Final(rt[j])
          /\ written = N => \A i \in 1..Len(rt) : ~Final(rt[i])

\* The inductive invariant of the specification.
LinkInv ==
    /\ TypeInv /\ SeqInv /\ OpenInv /\ CloseInv
    /\ DataInv /\ AckInv /\ AnswerInv /\ DeliveredInOrder

=============================================================================

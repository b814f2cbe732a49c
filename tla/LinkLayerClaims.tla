-------------------------- MODULE LinkLayerClaims --------------------------
(***************************************************************************)
(* What the repository's report and header comments say of the link layer  *)
(* and its code does not do.  Each is checked by a run of its own, which   *)
(* TLC refutes.                                                            *)
(***************************************************************************)
EXTENDS LinkLayer

\* The receiver takes f off the line (and the line does not lose it).
Takes(f) == tr # <<>> /\ f = Head(tr) /\ tr' = Tail(tr) /\ faults' = faults

\* The receiver sends a frame with control code c, and returns which.
Sends(c) == Len(rt') > Len(rt) /\ rt'[Len(rt')].c = c
Sent     == rt'[Len(rt')]

\* "when N_s = 0 the response must have N_r = 1, and when N_s = 1, N_r = 0"
\* (report.tex:415), for the RR that answers an intact I-frame.  In llclose
\* ll_send_RR_resend() answers the retransmission of the last one with the
\* other number, as sequence_number has not moved on to a next packet.
RRNumber ==
    [][\A f \in Frames :
          Takes(f) /\ f.c = "I" /\ f.damage = "none" /\ Sends("RR")
              => Sent.n = Flip(f.n)]_vars

\* A SET retransmitted to a receiver that expects an I-frame "Must respond
\* with UA" (report.tex:820): LL_I_STOP_UA is left by sending it.
SetAnswered == [][rauto = "STOP_UA" /\ rauto' = "run" => Sends("UA")]_vars

\* A DISC retransmitted to a receiver that expects UA "Must send DISC"
\* (report.tex:741), and is one of the frames the wait "must be ready to
\* handle" (report.tex:738): it does not end the wait.
DiscAgainHandled ==
    [][\A f \in Frames : rpc = "ua" /\ Takes(f) /\ f = TxDISC => rpc' = "ua"]_vars

\* A frame found to be inconsistent is asked for again (report.tex:313): the
\* receiver answers a damaged I-frame it expects with REJ.
DamagedRejected ==
    [][\A f \in Frames :
          rpc = "read" /\ rauto = "run" /\ Takes(f) /\ IOutcome(rseq, f) = "bad"
              => Sends("REJ")]_vars

\* A frame nobody answers is retransmitted when timeout has passed, until
\* the transmitter gives up (report.tex:268-269), whenever the alarm arrives.
UnansweredCallEnds == TxWaits ~> ~TxWaits

=============================================================================

----------------------------- MODULE AppClaims -----------------------------
(***************************************************************************)
(* What the repository's report says of the application's packets and its  *)
(* code does not do, refuted by a run.                                     *)
(***************************************************************************)
EXTENDS AppTransfer

\* The number of a data packet is the "Sequence number of the data chunk,
\* modulo 255" (report.tex:510): the receiver, rnum packets into the file,
\* takes the packet that has that number.
NumberIsModular ==
    [][/\ rapp = "data" /\ RxRead
       /\ Incoming.ctrl = "DATA" /\ Incoming.len <= rsize
       /\ Incoming.num = rnum % SeqModulus
       => rapp' # "quit"]_vars

=============================================================================

---- MODULE MCReception ----
(* The instance of Reception that TLC checks. *)
EXTENDS ReceptionInv

\* An innocent payload, with bytes to be stuffed and an address in it; and one with a
\* header, of which the beginning and the end may be accepted.
MCPayloads == <<<<FLAG, A_SEND, ESC>>, IHeader(1) \o <<ESC>>>>
====

---------------------------- MODULE MCEmailSender ----------------------------
(* Instances of EmailSender for TLC. *)
EXTENDS EmailSender

CONSTANTS m1, m2, m3, m4, A, B

\* The fourth mail uses another outlet; one mail has attachments, another
\* answers a message.
TwoOutlets == [m \in Mails |-> IF m = m4 THEN B ELSE A]
TwoFiles   == [m \in Mails |-> IF m = m2 THEN 2 ELSE 0]
NoFiles    == [m \in Mails |-> 0]
=============================================================================

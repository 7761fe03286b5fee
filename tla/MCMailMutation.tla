--------------------------- MODULE MCMailMutation ---------------------------
(* Two mails in every state of the mailbox, under every plan. *)
EXTENDS MailMutation
CONSTANTS u1, u2
=============================================================================

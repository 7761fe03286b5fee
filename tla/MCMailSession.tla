---------------------------- MODULE MCMailSession ----------------------------
(* The body of a mail twice, the second time with refresh, an attachment   *)
(* and a mutation, all of one account.                                     *)
EXTENDS MailSession, BodyPage, TLC
CONSTANTS body, again, save, write, A, k1, k2, k3
Rs == {body, again, save, write}
OneAccount == [r \in Rs |-> A]
Kinds == (body :> "read") @@ (again :> "read")
         @@ (save :> "attachment") @@ (write :> "write")
PartLists == (body :> <<k1, k2>>) @@ (again :> <<k1>>)
             @@ (save :> <<k3>>) @@ (write :> <<>>)
Some == {[bytes |-> 1, text |-> "text"], [bytes |-> 2, text |-> "empty"], [bytes |-> 1, text |-> "blank"]}

\* The pages of a text are together the text (body.ts:128-139, 170-179).
ASSUME PagesAreTheText ==
  \A n \in 0..5 : \A text \in [1..n -> Units] : \A maxChars \in 1..3 : FromOffset(text, 0, maxChars) = text
=============================================================================

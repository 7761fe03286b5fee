------------------------------- MODULE SerialLine -------------------------------
(***************************************************************************)
(* What the chains of promises in email/imap-session.ts (of an account)    *)
(* and email/smtp.ts (of an outlet) are for: who comes waits for all who   *)
(* are there, nobody overtakes, one at a time uses the resource, and       *)
(* whoever leaves, from wherever, is waited for no more. MailSession and   *)
(* EmailSender implement it.                                               *)
(***************************************************************************)
CONSTANTS Users, ResourceOf
VARIABLES st,      \* user |-> "new", "waiting", "using" or "gone"
          ahead    \* user |-> those it still waits for

vars == <<st, ahead>>

Here       == {u \in Users : st[u] \in {"waiting", "using"}}
Present(o) == {u \in Here : ResourceOf[u] = o}
Goes(u, s) == st' = [st EXCEPT ![u] = s]

Init == st = [u \in Users |-> "new"] /\ ahead = [u \in Users |-> {}]

Refuse(u) == st[u] = "new" /\ Goes(u, "gone") /\ UNCHANGED ahead

Join(u) ==
  LET there == Present(ResourceOf[u]) IN
  /\ st[u] = "new" /\ ahead' = [ahead EXCEPT ![u] = there]
  /\ Goes(u, "waiting") \/ (there = {} /\ Goes(u, "using"))

Enter(u) == st[u] = "waiting" /\ ahead[u] = {} /\ Goes(u, "using") /\ UNCHANGED ahead

\* Any number leave at once: cancelled, disposed of, or done.
Leave(us) ==
  /\ st' = [u \in Users |-> IF u \in us THEN "gone" ELSE st[u]]
  /\ ahead' = [u \in Users |-> IF u \in us THEN {} ELSE ahead[u] \ us]

Next ==
  \/ \E u \in Users : Refuse(u) \/ Join(u) \/ Enter(u)
  \/ \E us \in SUBSET Here : Leave(us)

Spec == Init /\ [][Next]_vars

\* Of two who are there one waits for the other; who uses the resource waits for nobody.
\* So one at a time uses it, and it goes to them in the order in which they came.
InTurn ==
  /\ \A u \in Users : ahead[u] \subseteq Present(ResourceOf[u]) \ {u}
  /\ \A u \in Users : u \notin Here => ahead[u] = {}
  /\ \A u, v \in Here :
       ResourceOf[u] = ResourceOf[v] /\ u # v => (u \in ahead[v] <=> v \notin ahead[u])
  /\ \A u \in Users : st[u] = "using" => ahead[u] = {}
=============================================================================

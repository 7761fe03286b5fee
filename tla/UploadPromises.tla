----------------------------- MODULE UploadPromises -----------------------------
(***************************************************************************)
(* What the tool tsgw_upload_local_file promises with the field "uploaded" *)
(* of its answer (upload/index.ts, upload/uploader.ts:15-17): "yes" only   *)
(* of an object that is whole, "no" only when nothing this call has begun  *)
(* can make an object whole any more, "unknown" at any time. An answer is  *)
(* final.                                                                  *)
(***************************************************************************)
CONSTANTS Calls, Keys
VARIABLES said,    \* call |-> <<"pending">>, <<"unknown">>, <<"no">> or <<"yes", the key>>
          whole,   \* the keys of whole objects
          made     \* the calls that made an object whole

vars == <<said, whole, made>>

Init == said = [c \in Calls |-> <<"pending">>] /\ whole = {} /\ made = {}

\* The work of a call makes an object whole, maybe long after the call gave up.
Make(c, k) ==
  /\ said[c] # <<"no">>
  /\ made' = made \union {c} /\ whole' = whole \union {k}
  /\ UNCHANGED said

Say(c, answer) ==
  /\ said[c] = <<"pending">>
  /\ said' = [said EXCEPT ![c] = answer]
  /\ UNCHANGED <<whole, made>>

Yes(c) == \E k \in whole : Say(c, <<"yes", k>>)
No(c)  == c \notin made /\ Say(c, <<"no">>)

Next == \E c \in Calls : Yes(c) \/ No(c) \/ Say(c, <<"unknown">>) \/ \E k \in Keys : Make(c, k)

Spec == Init /\ [][Next]_vars
=============================================================================

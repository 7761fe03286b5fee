--------------------------- MODULE CatalogPromises ---------------------------
(***************************************************************************)
(* What provider/catalog-coordinator.ts promises its callers, without      *)
(* jobs, queues or the host: every call of request() returns a promise,    *)
(* the promise is settled at most once, the calls settled by one round all *)
(* get the same outcome, and a round that answers a local "restore" never  *)
(* answers a network request as well.                                      *)
(***************************************************************************)
CONSTANT Requests            \* the calls of request()

VARIABLES
  want,                      \* request |-> the kind it asked for
  st                         \* request |-> the state of its promise

Kinds    == {"restore", "normal", "force"}
Outcomes == {"aborted", "errors", "net", "local"}
Waiting(r) == st[r] = "waiting"

PromisesInit ==
  /\ want = [r \in Requests |-> "normal"]
  /\ st   = [r \in Requests |-> "new"]

\* A caller asks for a refresh of kind k; S are those turned away or settled.
Ask(r, k) ==
  /\ st[r] = "new"
  /\ want' = [want EXCEPT ![r] = k]
  /\ st'   = [st EXCEPT ![r] = "waiting"]

Refuse(r, k) ==
  /\ st[r] = "new"
  /\ want' = [want EXCEPT ![r] = k]
  /\ st'   = [st EXCEPT ![r] = "rejected"]

Settle(S, o) ==
  /\ \A r \in S : Waiting(r)
  /\ st' = [r \in Requests |-> IF r \in S THEN o ELSE st[r]]
  /\ UNCHANGED want

Reject(S) == Settle(S, "rejected")

Resolve(S, o) ==
  /\ Settle(S, o)
  /\ \A r, q \in S : want[r] = "restore" => want[q] = "restore"

PromisesNext ==
  \/ \E r \in Requests, k \in Kinds : Ask(r, k) \/ Refuse(r, k)
  \/ \E S \in SUBSET Requests : Reject(S)
  \/ \E S \in SUBSET Requests, o \in Outcomes : Resolve(S, o)

PromisesSpec == PromisesInit /\ [][PromisesNext]_<<want, st>>
=============================================================================

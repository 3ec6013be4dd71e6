--------------------------- MODULE RequestService ---------------------------
(***************************************************************************)
(* What every verb of the canopen API promises to the application          *)
(* framework, whatever the verb does: a request that reached a handler is  *)
(* answered, once, and the binding drops its last reference on the request *)
(* only after the answer (REQFAIL / afb_req_reply* / afb_req_addref /      *)
(* afb_req_unref).                                                         *)
(***************************************************************************)
EXTENDS Naturals

CONSTANT Requests       \* the requests clients may send

VARIABLES
  accepted,             \* requests given to a handler
  replies,              \* how many answers each request got
  released              \* requests the binding holds no reference on any more

rsvars == <<accepted, replies, released>>

Init ==
  /\ accepted = {}
  /\ replies  = [r \in Requests |-> 0]
  /\ released = {}

\* The framework hands the request to the handler of its verb.
Accept(r) ==
  /\ r \notin accepted
  /\ accepted' = accepted \cup {r}
  /\ UNCHANGED <<replies, released>>

\* One answer, success or error, while the binding still holds the request.
Answer(r) ==
  /\ r \in accepted \ released
  /\ replies[r] = 0
  /\ replies' = [replies EXCEPT ![r] = 1]
  /\ UNCHANGED <<accepted, released>>

\* The last reference goes away, never before the answer.
Release(r) ==
  /\ r \in accepted \ released
  /\ replies[r] = 1
  /\ released' = released \cup {r}
  /\ UNCHANGED <<accepted, replies>>

Next == \E r \in Requests : Accept(r) \/ Answer(r) \/ Release(r)

SafeSpec == Init /\ [][Next]_rsvars

Fairness == \A r \in Requests : WF_rsvars(Answer(r)) /\ WF_rsvars(Release(r))

Spec == SafeSpec /\ Fairness
=============================================================================

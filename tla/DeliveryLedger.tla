-------------------------- MODULE DeliveryLedger ---------------------------
(***************************************************************************)
(* What the sender service promises about a job, without saying how: it is *)
(* accepted once, its message may reach Telegram while it is open, and it  *)
(* is decided once, "sent" only if the message got there.                  *)
(***************************************************************************)
EXTENDS Naturals

CONSTANT Jobs   \* the jobs there can be

VARIABLES
  verdict,      \* [Jobs -> {"absent", "open", "sent", "failed"}]
  delivered     \* [Jobs -> Nat]: how often the message was accepted

vars == <<verdict, delivered>>

Init ==
  /\ verdict   = [j \in Jobs |-> "absent"]
  /\ delivered = [j \in Jobs |-> 0]

Accept(j) ==
  /\ verdict[j] = "absent"
  /\ verdict' = [verdict EXCEPT ![j] = "open"]
  /\ UNCHANGED delivered

Deliver(j) ==
  /\ verdict[j] = "open"
  /\ delivered' = [delivered EXCEPT ![j] = @ + 1]
  /\ UNCHANGED verdict

Decide(j, v) ==
  /\ verdict[j] = "open"
  /\ v = "sent" => delivered[j] > 0
  /\ verdict' = [verdict EXCEPT ![j] = v]
  /\ UNCHANGED delivered

Next == \E j \in Jobs :
  Accept(j) \/ Deliver(j) \/ \E v \in {"sent", "failed"} : Decide(j, v)

Spec == Init /\ [][Next]_vars
============================================================================

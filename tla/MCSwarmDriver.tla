--------------------------- MODULE MCSwarmDriver ---------------------------
(***************************************************************************)
(* Instances of SwarmDriver: a plain handoff h1 and a strict one, h2, that  *)
(* needs an artifact and a review and waits for h1.                        *)
(***************************************************************************)
EXTENDS SwarmDriver, TLC

CONSTANTS h1, h2, engineer, reviewer, targetedDaemon, roamingDaemon

AgentSet == {engineer, reviewer}
Order    == <<engineer, reviewer>>

Strict == [receiver |-> engineer, artifacts |-> 1, review |-> TRUE]
Plain  == [receiver |-> engineer, artifacts |-> 0, review |-> FALSE]

BothKinds     == (h1 :> Plain) @@ (h2 :> Strict)
BothReviewers == (h1 :> NoActor) @@ (h2 :> reviewer)
H2AfterH1     == (h1 :> {}) @@ (h2 :> {h1})
OneKind       == (h2 :> Strict)
OneReviewer   == (h2 :> reviewer)
Independent   == (h2 :> {})

Says(status, artifacts, decision) ==
  [status |-> status, artifacts |-> artifacts, decision |-> decision]

Finished(artifacts) == Says("completed", artifacts, "none")
GaveUp              == Says("failed", 0, "none")
Judged(decision)    == Says("completed", 0, decision)

SomeReplies == [execute |-> {Finished(1)},
                review  |-> {Judged("approved"), Judged("revision_required")}]
RaceReplies == [SomeReplies EXCEPT !.execute = @ \cup {GaveUp}]

\* The engineer over MCP, the orchestrator's dispatch, an operator that gives a
\* handoff up.
Dispatch == [By("transport_requested", NoActor) EXCEPT !.producer = Orchestrator]
OutsideEvents == {By("received", engineer), By("claimed", engineer), By("failed", engineer),
                  Dispatch}
============================================================================

---------------------------- MODULE MCTruthPlane ----------------------------
(***************************************************************************)
(* Small instances of TruthPlane for TLC: a worker w (the receiver), a     *)
(* reviewer rev and a bystander x, and one handoff h1.                     *)
(***************************************************************************)
EXTENDS TruthPlane, TLC

CONSTANTS w, rev, x, h1

\* An event an actor reports on itself.
Own(type, a) == [type |-> type, subject |-> a, producer |-> a, artifacts |-> 0,
                 decision |-> "none"]
Submitted(a, n) == [Own("submitted", a) EXCEPT !.artifacts = n]
Reviewed(a, d)  == [Own("reviewed", a) EXCEPT !.decision = d]

Work(a) == {Own(t, a) : t \in {"received", "claimed", "started", "checkpointed",
                               "completed", "failed"}}

\* Handoffs with and without artifacts and review.
Strict == [receiver |-> w, artifacts |-> 1, review |-> TRUE]
Plain  == [receiver |-> w, artifacts |-> 0, review |-> FALSE]

MCStrict   == [h \in Handoffs |-> Strict]
MCPlain    == [h \in Handoffs |-> Plain]
MCReviewer == [h \in Handoffs |-> rev]
MCNoDependencies == [h \in Handoffs |-> {}]

\* The worker's and the reviewer's actions, and some they may not take.
MCRequests ==
  Work(w) \cup {Submitted(w, 0), Submitted(w, 1)}
  \cup {Reviewed(rev, d) : d \in {"approved", "revision_required", "rejected"}}
  \cup {Reviewed(w, "approved"), Own("completed", x)}
MCPlainRequests == Work(w)

\* Events no protocol action stands for.
MCReports   == {Own("expired", Watchdog), Own("claimed", x)}
MCExpired   == {Own("expired", Watchdog)}
MCBackfills == {Own("received", w), Own("claimed", w), Own("completed", w),
                Own("transport_accepted", Adapter)}

Symmetry == Permutations(Callers)
=============================================================================

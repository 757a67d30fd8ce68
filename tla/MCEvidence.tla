----------------------------- MODULE MCEvidence -----------------------------
EXTENDS Evidence

AllKinds == Extracted \cup Smoked \cup {"external"}
============================================================================

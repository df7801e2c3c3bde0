------------------------------ MODULE MCProxy ------------------------------
(* Instances of Proxy: two attempts a request, a window of one outcome, a  *)
(* budget of one token that time gives back.                               *)
EXTENDS Proxy, TLC

MCRetryBudget == [rate |-> 1, burst |-> 1]
MCRetryableCodes == {"unavailable", "resource_exhausted"}
MCFailureCodes == {"unavailable", "resource_exhausted", "deadline_exceeded"}
MCUpstreamCodes == {"ok", "unavailable", "not_found"}
MCLiveBudget == [rate |-> 0, burst |-> 1]
MCLiveCodes == {"ok", "unavailable"}
MCSymmetry == Permutations(Requests) \cup Permutations(Endpoints)
=============================================================================

-------------------------- MODULE AbstractBreaker --------------------------
(***************************************************************************)
(* What a circuit breaker promises its callers, with no ring buffer, no    *)
(* generations and no counters.  A closed breaker lets everybody through   *)
(* and opens when the last WindowSize outcomes of calls admitted since it  *)
(* closed are bad enough.  An open one lets nobody through until it has    *)
(* cooled.  Then HalfOpenMaxRequests probes are admitted: one failure      *)
(* opens the breaker again, and only the success of all of them closes it. *)
(* A call admitted in an earlier period no longer has a say.               *)
(***************************************************************************)
EXTENDS Integers, Sequences, FiniteSets

CONSTANTS Callers, WindowSize, MinimumRequests, RateNum, RateDen,
          HalfOpenMaxRequests

VARIABLES mode,      \* closed, open or half-open
          cooled,    \* an open breaker's cooldown is over
          recent,    \* the outcomes that count, oldest first; TRUE = failure
          voters,    \* callers admitted in this period and not yet finished
          passed     \* probes of this period that succeeded

vars == <<mode, cooled, recent, voters, passed>>

Init ==
  /\ mode = "closed"
  /\ cooled = TRUE
  /\ recent = <<>>
  /\ voters = {}
  /\ passed = 0

Cool ==
  /\ cooled' = TRUE
  /\ UNCHANGED <<mode, recent, voters, passed>>

AdmitWhenClosed(c) ==
  /\ mode = "closed"
  /\ c \notin voters
  /\ voters' = voters \cup {c}
  /\ UNCHANGED <<mode, cooled, recent, passed>>

FirstProbe(c) ==
  /\ mode = "open"
  /\ cooled
  /\ mode' = "half-open"
  /\ voters' = {c}
  /\ passed' = 0
  /\ UNCHANGED <<cooled, recent>>

NextProbe(c) ==
  /\ mode = "half-open"
  /\ c \notin voters
  /\ Cardinality(voters) + passed < HalfOpenMaxRequests
  /\ voters' = voters \cup {c}
  /\ UNCHANGED <<mode, cooled, recent, passed>>

Failures(outcomes) == Cardinality({i \in DOMAIN outcomes : outcomes[i]})

Slide(outcomes, failure) ==
  Append(IF Len(outcomes) = WindowSize THEN Tail(outcomes) ELSE outcomes, failure)

TooManyFailures(outcomes) ==
  /\ Len(outcomes) >= MinimumRequests
  /\ Failures(outcomes) * RateDen >= RateNum * Len(outcomes)

Open ==
  /\ mode' = "open"
  /\ cooled' = FALSE
  /\ voters' = {}
  /\ passed' = 0

FinishWhenClosed(c, success) ==
  /\ mode = "closed"
  /\ c \in voters
  /\ recent' = Slide(recent, ~success)
  /\ IF TooManyFailures(recent')
     THEN Open
     ELSE voters' = voters \ {c} /\ UNCHANGED <<mode, cooled, passed>>

ProbeFails(c) ==
  /\ mode = "half-open"
  /\ c \in voters
  /\ Open
  /\ UNCHANGED recent

ProbeSucceeds(c) ==
  /\ mode = "half-open"
  /\ c \in voters
  /\ IF passed + 1 = HalfOpenMaxRequests
     THEN /\ mode' = "closed"
          /\ recent' = <<>>
          /\ voters' = {}
          /\ passed' = 0
     ELSE /\ passed' = passed + 1
          /\ voters' = voters \ {c}
          /\ UNCHANGED <<mode, recent>>
  /\ UNCHANGED cooled

Next ==
  \/ Cool
  \/ \E c \in Callers :
       \/ AdmitWhenClosed(c)
       \/ FirstProbe(c)
       \/ NextProbe(c)
       \/ \E success \in BOOLEAN : FinishWhenClosed(c, success)
       \/ ProbeFails(c)
       \/ ProbeSucceeds(c)

Spec == Init /\ [][Next]_vars
=============================================================================

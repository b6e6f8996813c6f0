----------------------------- MODULE Experiment -----------------------------
(***************************************************************************)
(* What a launch of the benchmark promises about its run, with no loop,    *)
(* connection, call or fault in sight.  The run is announced; then the     *)
(* outcomes of its probes are entered one at a time, each at most once and *)
(* never changed, in the order in which the probes take turns; once the    *)
(* run is completed nothing more is entered.  An outcome may be missing: a *)
(* report can get lost, and it is not sent again.  Lab implements this for *)
(* launches that have run ids of their own.                                *)
(***************************************************************************)
EXTENDS Integers

CONSTANTS
  Launches,   \* how often the client is launched
  Endpoints,  \* the three endpoints in the order of the configuration
  Probes,     \* the measured probes, each named like the connection it makes
  Absent

VARIABLES
  announced,  \* launches whose run exists
  completed,  \* launches whose run is complete
  outcome     \* of each probe, or Absent

vars == <<announced, completed, outcome>>

(* The first endpoint of an iteration moves on by one each time, so that   *)
(* in three iterations every endpoint comes first, second and third once.  *)
Place(c) == ((CHOOSE k \in 1..3 : Endpoints[k] = c.mode) - c.seq) % 3

Turn(c) == 3 * (c.seq - 1) + Place(c)

Init ==
  /\ announced = {} /\ completed = {}
  /\ outcome = [c \in Probes |-> Absent]

Announce(l) ==
  /\ announced' = announced \cup {l}
  /\ UNCHANGED <<completed, outcome>>

Enter(c) ==
  /\ c.launch \in announced \ completed
  /\ \A d \in Probes : d.launch = c.launch /\ Turn(d) >= Turn(c) => outcome[d] = Absent
  /\ \E good \in BOOLEAN : outcome' = [outcome EXCEPT ![c] = [conn |-> c, ok |-> good]]
  /\ UNCHANGED <<announced, completed>>

Complete(l) ==
  /\ l \in announced
  /\ completed' = completed \cup {l}
  /\ UNCHANGED <<announced, outcome>>

Next ==
  \/ \E l \in 1..Launches : Announce(l) \/ Complete(l)
  \/ \E c \in Probes : Enter(c)

Spec == Init /\ [][Next]_vars
=============================================================================

------------------------------- MODULE Ledger -------------------------------
(***************************************************************************)
(* What the dashboard's store promises its callers, with no thread,        *)
(* transaction, lock or crash in sight: a ledger with two columns per      *)
(* sample.  One step enters one half of one sample; a half can be entered  *)
(* again but never taken out; a sample stays with the run it was first     *)
(* entered for; the verdict is the client's once there is one and success  *)
(* until then.  Repository, Lab and DashboardRead implement this ledger.   *)
(***************************************************************************)
CONSTANTS Runs, Samples, Conns, ClientHalf, Absent

VARIABLES
  known,      \* runs that exist
  announced,  \* runs created by their client
  completed,  \* runs their client has completed
  home,       \* the run of each sample, or Absent
  server,     \* the server half of each sample, or Absent
  client,     \* the client half of each sample, or Absent
  verdict     \* does the sample count as a success

runVars == <<known, announced, completed>>
sampleVars == <<home, server, client, verdict>>
vars == <<runVars, sampleVars>>

Init ==
  /\ known = {} /\ announced = {} /\ completed = {}
  /\ home = [s \in Samples |-> Absent]
  /\ server = [s \in Samples |-> Absent]
  /\ client = [s \in Samples |-> Absent]
  /\ verdict = [s \in Samples |-> FALSE]

Announce(r) ==
  /\ known' = known \cup {r}
  /\ announced' = announced \cup {r}
  /\ UNCHANGED <<completed, sampleVars>>

Complete(r) ==
  /\ known' = known \cup {r}
  /\ completed' = completed \cup {r}
  /\ UNCHANGED <<announced, sampleVars>>

Enter(s, r) ==
  /\ known' = known \cup {r}
  /\ home' = [home EXCEPT ![s] = IF home[s] = Absent THEN r ELSE home[s]]
  /\ UNCHANGED <<announced, completed>>

EnterServer(s, c) ==
  /\ server' = [server EXCEPT ![s] = c]
  /\ verdict' = [verdict EXCEPT ![s] = IF client[s] = Absent THEN TRUE ELSE verdict[s]]
  /\ UNCHANGED client

EnterClient(s, h) ==
  /\ client' = [client EXCEPT ![s] = h]
  /\ verdict' = [verdict EXCEPT ![s] = h.ok]
  /\ UNCHANGED server

Next ==
  \/ \E r \in Runs : Announce(r) \/ Complete(r)
  \/ \E s \in Samples, r \in Runs :
       /\ Enter(s, r)
       /\ \/ \E c \in Conns : EnterServer(s, c)
          \/ \E h \in ClientHalf : EnterClient(s, h)

Spec == Init /\ [][Next]_vars
=============================================================================

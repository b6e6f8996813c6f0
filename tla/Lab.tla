--------------------------------- MODULE Lab ---------------------------------
(***************************************************************************)
(* The whole lab: the benchmark client, the three TLS servers and the      *)
(* dashboard that both report to.  The dashboard answers a call in one     *)
(* step on the committed database: Repository, which has the threads and   *)
(* transactions, implements Ledger, whose steps are those.  A call whose   *)
(* caller dies may still be executed, at any later time.                   *)
(***************************************************************************)
EXTENDS TlsServer, BenchmarkClient, StoreLedger, FiniteSets

VARIABLE orphans   \* requests in the dashboard whose caller has died

dashboardVars == <<db, orphans>>

vars == <<wireVars, at, clientVars, dashboardVars>>

ASSUME LabAssumption ==
  /\ \A l \in 1..Launches, m \in Modes, i \in 1..(Warmup + Iterations), b \in BOOLEAN :
       [launch |-> l, mode |-> m, seq |-> i, rec |-> b] \in Conns
  /\ \A l \in 1..Launches, m \in Modes, i \in 1..Iterations :
       <<RunIdOf[l], m, i>> \in Samples

TypeOK ==
  /\ WireTypeOK
  /\ ServerTypeOK
  /\ ClientTypeOK
  /\ db \in Database
  /\ orphans \subseteq Post

Init ==
  /\ WireInit
  /\ ServerInit
  /\ ClientInit
  /\ db = EmptyDatabase
  /\ orphans = {}

-----------------------------------------------------------------------------
(* The dashboard. *)
Accepted(q) == Valid(q) /\ ModeCheck(q)

Handled(q) == IF Accepted(q) THEN Apply(db, q) ELSE db

Waiting(p) == call[p] # Absent /\ call[p].reply = "none"

Reply(p, r) == call' = [call EXCEPT ![p].reply = r]

Elsewhere == UNCHANGED <<up, backlog, inbox, at, clientVars>>

HandleCall(p) ==
  /\ Waiting(p)
  /\ db' = Handled(call[p].req)
  /\ Reply(p, IF Accepted(call[p].req) THEN "ok" ELSE "failed")
  /\ Elsewhere /\ UNCHANGED <<orphans, faults>>

(* Not reachable, busy for 10 s, an error in SQLite, a restart before the  *)
(* commit.                                                                 *)
CallFails(p) ==
  /\ Waiting(p)
  /\ Fault("dashboard")
  /\ Reply(p, "failed")
  /\ Elsewhere /\ UNCHANGED dashboardVars

(* A restart after the commit. *)
ReplyLost(p) ==
  /\ Waiting(p)
  /\ Fault("reply")
  /\ db' = Handled(call[p].req)
  /\ Reply(p, "failed")
  /\ Elsewhere /\ UNCHANGED orphans

HandleOrphan(q) ==
  /\ db' = Handled(q)
  /\ orphans' = orphans \ {q}
  /\ Elsewhere /\ UNCHANGED <<call, faults>>

DropOrphan(q) ==
  /\ orphans' = orphans \ {q}
  /\ Elsewhere /\ UNCHANGED <<db, call, faults>>

(* The process behind p dies; what it has asked for may still happen. *)
Abandon(p) ==
  orphans' = orphans \cup (IF Waiting(p) THEN {call[p].req} ELSE {})

-----------------------------------------------------------------------------
ServerNext ==
  \/ \E m \in Modes : Serves(m) /\ UNCHANGED <<clientVars, dashboardVars>>
  \/ \E m \in Modes :
       ServerDies(m) /\ Abandon(m) /\ UNCHANGED <<clientVars, db>>

ClientNext ==
  \/ ClientStep /\ UNCHANGED <<at, dashboardVars>>
  \/ ClientDies /\ Abandon("client") /\ UNCHANGED <<at, db>>

DashboardNext ==
  \/ \E p \in Callers : HandleCall(p) \/ CallFails(p) \/ ReplyLost(p)
  \/ \E q \in orphans : HandleOrphan(q) \/ DropOrphan(q)

(* Every launch has ended and nothing is left to be done. *)
Quiet ==
  /\ pc \in Ended /\ launch = Launches
  /\ \A m \in Modes : at[m] = "accept" /\ backlog[m] = <<>>
  /\ \A p \in Callers : call[p] = Absent
  /\ orphans = {}

Rest == Quiet /\ UNCHANGED vars

Next == ServerNext \/ ClientNext \/ DashboardNext \/ Rest

Spec == Init /\ [][Next]_vars

(* Nothing but a fault keeps the lab from its next step: while a program,  *)
(* a server that Docker has restarted or the dashboard can do something,   *)
(* one of them does.  Which of them, and how often, is left open.          *)
Progress ==
  \/ ClientStep /\ UNCHANGED <<at, dashboardVars>>
  \/ \E m \in Modes : Serves(m) /\ UNCHANGED <<clientVars, dashboardVars>>
  \/ \E p \in Callers : HandleCall(p)
  \/ \E q \in orphans : HandleOrphan(q) \/ DropOrphan(q)

FairSpec == Spec /\ WF_vars(Progress)

-----------------------------------------------------------------------------
(* The two halves of a row were measured on one connection: the sample id  *)
(* built by probe() and copied out of the request by the server joins what *)
(* belongs together, whatever is lost, late or restarted.                  *)
PairedHalves ==
  \A s \in Rows(db) :
    db.rows[s].server # Absent /\ db.rows[s].client # Absent =>
      db.rows[s].server = db.rows[s].client.conn

(* A warmup leaves no trace, although it uses the sample id of a measured  *)
(* probe and the server handles its connection in the same way.            *)
WarmupsUnrecorded ==
  \A s \in Rows(db) :
    /\ db.rows[s].server # Absent => db.rows[s].server.rec
    /\ db.rows[s].client # Absent => db.rows[s].client.conn.rec

(* There is no measurement for a run whose client could not announce it:   *)
(* _ensure_run never has to invent a run for these programs.               *)
RunsAnnounced ==
  \A s \in Rows(db) : db.runs[db.rows[s].run].announced

(* When the client is done every measured probe of a storable mode, failed *)
(* or not, has its client half, unless a call to the dashboard went wrong  *)
(* or the probe was too slow.                                              *)
EveryProbeReported ==
  pc = "done" /\ Faults \cap {"dashboard", "reply", "slow"} = {} =>
    \A m \in StoredModes, i \in 1..Iterations :
      /\ <<RunId, m, i>> \in Rows(db)
      /\ db.rows[<<RunId, m, i>>].client # Absent

(* The database never holds more failed probes of the run than the client  *)
(* has counted for its exit status.                                        *)
FailedRows ==
  {s \in RowsOf(db, RunId) : db.rows[s].client # Absent /\ ~db.rows[s].client.ok}

FailuresCounted ==
  pc = "done" => Cardinality(FailedRows) <= failures

(* Once a run is completed its client halves are final: the client posts   *)
(* them one after the other and completes the run after the last.          *)
ClientHalvesFinal ==
  [][\A s \in Samples :
       s \in Rows(db) /\ db.runs[db.rows[s].run].completed =>
         db'.rows[s].client = db.rows[s].client]_vars

(* When nothing has gone wrong, only the last measurement of a server can  *)
(* still arrive after the run is completed: a server posts before it       *)
(* accepts its next connection.                                            *)
OnlyLastServerHalfIsLate ==
  [][\A s \in Samples :
       db'.rows[s] # db.rows[s] /\ faults = 0
         /\ KnownRuns(db) # {} /\ db.runs[db'.rows[s].run].completed =>
           db'.rows[s].server # Absent /\ db'.rows[s].server.seq = Iterations]_vars

(* Without a fault the lab comes to rest with every measured probe of a    *)
(* storable mode recorded by both sides and a success.                     *)
Recorded(m, i) ==
  /\ <<RunId, m, i>> \in Rows(db)
  /\ db.rows[<<RunId, m, i>>].server # Absent
  /\ db.rows[<<RunId, m, i>>].client # Absent
  /\ db.rows[<<RunId, m, i>>].success

FaultlessRunIsRecorded ==
  Quiet /\ faults = 0 =>
    failures = 0 /\ \A m \in StoredModes, i \in 1..Iterations : Recorded(m, i)

(* Every launch ends and every late measurement is dealt with: no program  *)
(* waits for another one forever, whichever of them die.                   *)
ComesToRest == <>Quiet

(* The client's side of the database, read as experiments. *)
Probes == [launch : 1..Launches, mode : Modes, seq : 1..Iterations, rec : {TRUE}]

Started == {l \in 1..Launches : RunIdOf[l] \in KnownRuns(db)}

E == INSTANCE Experiment WITH
  announced <- {l \in Started : db.runs[RunIdOf[l]].announced},
  completed <- {l \in Started : db.runs[RunIdOf[l]].completed},
  outcome   <- [c \in Probes |-> IF db.rows[SampleId(c)] = Absent THEN Absent
                                 ELSE db.rows[SampleId(c)].client]

(* Whatever is lost or late, and whoever dies: a probe is reported at most *)
(* once and never reported over, and the reports of a launch arrive in the *)
(* rotating order of its probes, between the announcement of its run and   *)
(* the completion.                                                         *)
FollowsExperiment == E!Spec

-----------------------------------------------------------------------------
(* README: "10 unrecorded warmups followed by 100 recorded fresh           *)
(* connections per mode", for all three modes schemas.py accepts.          *)
RecordedPerMode ==
  Quiet /\ faults = 0 =>
    \A m \in Modes, i \in 1..Iterations : <<RunId, m, i>> \in Rows(db)

(* README: "The dashboard reports ... failures".  Once the dashboard has   *)
(* answered the call about a failed probe, the failure is in the table.    *)
FailuresReported ==
  pc = "recording" /\ Answered("client") /\ ~ok /\ Conn.mode \in StoredModes =>
    SampleId(Conn) \in FailedRows
=============================================================================

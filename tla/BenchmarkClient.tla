--------------------------- MODULE BenchmarkClient ---------------------------
(***************************************************************************)
(* tls/tls_benchmark.c: create the run, probe every endpoint Warmup times  *)
(* without recording and Iterations times with, in rotating order, post    *)
(* each recorded probe, complete the run.  The program is launched         *)
(* Launches times, one launch after the other.                             *)
(***************************************************************************)
EXTENDS Wire

CONSTANTS Warmup, Iterations

ASSUME ClientAssumption == Warmup \in Nat /\ Iterations \in Nat \ {0}

VARIABLES
  pc,        \* where the client is
  launch,    \* which launch it is
  rec,       \* the record argument of probe(): measured phase or warmup
  index,     \* the iteration
  g,         \* the position in the iteration, 0..2
  ok,        \* success of the probe that has just finished
  failures   \* failed measured probes so far

clientVars == <<pc, launch, rec, index, g, ok, failures>>

Ended == {"done", "aborted", "killed"}

ClientLabels == {"create", "creating", "connect", "handshake", "write", "read",
                 "finished", "recording", "complete", "completing"} \cup Ended

ClientTypeOK ==
  /\ pc \in ClientLabels
  /\ launch \in 1..Launches
  /\ rec \in BOOLEAN /\ ok \in BOOLEAN
  /\ index \in 1..(IF rec THEN Iterations ELSE Warmup + 1)
  /\ g \in 0..2
  /\ failures \in 0..3 * Iterations

ClientInit ==
  /\ pc = "create" /\ launch = 1
  /\ rec = (Warmup = 0) /\ index = 1 /\ g = 0
  /\ ok = FALSE /\ failures = 0

-----------------------------------------------------------------------------
(* Mutant of Slot: every iteration starts with the first endpoint. *)
SlotInOrder(recorded, i, pos) == pos

(* Which endpoint is probed: the measured iterations start one further     *)
(* each time, the warmups do not.                                          *)
Slot(recorded, i, pos) == IF recorded THEN (((i - 1) % 3) + pos) % 3 ELSE pos

RunId == RunIdOf[launch]

Conn == [launch |-> launch, mode |-> Endpoints[Slot(rec, index, g) + 1],
         seq |-> index, rec |-> rec]

(* Mutants of Advance: g <= group_count; index < options.iterations.       *)
AdvanceTooFar ==
  IF g < 3
  THEN g' = g + 1 /\ pc' = "connect" /\ UNCHANGED <<index, rec>>
  ELSE g' = 0 /\ pc' = "complete" /\ UNCHANGED <<index, rec>>

AdvanceTooShort ==
  IF g < 2
  THEN g' = g + 1 /\ pc' = "connect" /\ UNCHANGED <<index, rec>>
  ELSE /\ g' = 0
       /\ \/ /\ ~rec
             /\ index' = 1 /\ rec' = TRUE /\ pc' = "connect"
          \/ /\ rec
             /\ pc' = "complete" /\ UNCHANGED <<index, rec>>

(* The loops of main() after a probe. *)
Advance ==
  IF g < 2
  THEN g' = g + 1 /\ pc' = "connect" /\ UNCHANGED <<index, rec>>
  ELSE /\ g' = 0
       /\ \/ /\ ~rec /\ index < Warmup
             /\ index' = index + 1 /\ pc' = "connect" /\ UNCHANGED rec
          \/ /\ ~rec /\ index = Warmup
             /\ index' = 1 /\ rec' = TRUE /\ pc' = "connect"
          \/ /\ rec /\ index < Iterations
             /\ index' = index + 1 /\ pc' = "connect" /\ UNCHANGED rec
          \/ /\ rec /\ index = Iterations
             /\ pc' = "complete" /\ UNCHANGED <<index, rec>>

-----------------------------------------------------------------------------
CreateRunCall ==
  /\ pc = "create"
  /\ Send("client", [kind |-> "run", run |-> RunId, inRange |-> TRUE])
  /\ pc' = "creating"
  /\ UNCHANGED <<launch, rec, index, g, ok, failures, up, backlog, inbox, faults>>

(* Mutant of CreateReturns: the answer is ignored, as everywhere else. *)
CreateIgnored ==
  /\ pc = "creating"
  /\ Answered("client")
  /\ pc' = "connect"
  /\ Hangup("client")
  /\ UNCHANGED <<launch, rec, index, g, ok, failures, up, backlog, inbox, faults>>

(* Without a run the client aborts "so measurements are not lost". *)
CreateReturns ==
  /\ pc = "creating"
  /\ Answered("client")
  /\ pc' = IF call["client"].reply = "ok" THEN "connect" ELSE "aborted"
  /\ Hangup("client")
  /\ UNCHANGED <<launch, rec, index, g, ok, failures, up, backlog, inbox, faults>>

Connect ==
  /\ pc = "connect"
  /\ Conn.mode \in up
  /\ backlog' = [backlog EXCEPT ![Conn.mode] =
                   Append(@, [conn |-> Conn, stage |-> "queued", open |-> TRUE])]
  /\ inbox' = FALSE
  /\ pc' = "handshake"
  /\ UNCHANGED <<launch, rec, index, g, ok, failures, up, call, faults>>

(* goto finished with success = 0 *)
Fail ==
  /\ pc' = "finished"
  /\ ok' = FALSE
  /\ CloseEnd(Conn)
  /\ UNCHANGED <<launch, rec, index, g, failures, up, inbox, call>>

ConnectFails ==
  /\ pc = "connect"
  /\ \/ Conn.mode \notin up /\ UNCHANGED faults
     \/ Fault("connect")
  /\ Fail

(* SSL_connect returns 1, which needs the server's side of the handshake. *)
Handshake ==
  /\ pc = "handshake"
  /\ Connected(Conn) /\ Stage(Conn) = "accepted"
  /\ SetStage(Conn, "shook")
  /\ pc' = "write"
  /\ UNCHANGED <<launch, rec, index, g, ok, failures, up, inbox, call, faults>>

WriteRequest ==
  /\ pc = "write"
  /\ SetStage(Conn, "sent")
  /\ pc' = "read"
  /\ UNCHANGED <<launch, rec, index, g, ok, failures, up, inbox, call, faults>>

(* The handshake, the group check, the write or the read fails. *)
ProbeFails ==
  /\ pc \in {"handshake", "write", "read"}
  /\ \/ ~Connected(Conn) /\ ~inbox /\ UNCHANGED faults
     \/ Fault("tls")
  /\ Fail

(* Read until the server closes; 200 OK is a success. *)
ReadResponse ==
  /\ pc = "read"
  /\ inbox /\ ~Connected(Conn)
  /\ ok' = TRUE
  /\ pc' = "finished"
  /\ UNCHANGED <<launch, rec, index, g, failures, wireVars>>

ClientReport(slow) ==
  [kind |-> "client", sample |-> SampleId(Conn), run |-> RunId,
   mode |-> Conn.mode, group |-> Group, half |-> [conn |-> Conn, ok |-> ok],
   inRange |-> ~slow]

(* Mutant of SkipRecord: a failed probe is not recorded either. *)
SkipFailed ==
  /\ pc = "finished"
  /\ ~rec \/ ~ok
  /\ Advance
  /\ UNCHANGED <<launch, ok, failures, wireVars>>

(* A warmup is not recorded. *)
SkipRecord ==
  /\ pc = "finished"
  /\ ~rec
  /\ Advance
  /\ UNCHANGED <<launch, ok, failures, wireVars>>

RecordProbe ==
  /\ pc = "finished"
  /\ rec
  /\ \/ Send("client", ClientReport(FALSE)) /\ UNCHANGED faults
     \/ Send("client", ClientReport(TRUE)) /\ Fault("slow")
  /\ pc' = "recording"
  /\ UNCHANGED <<launch, rec, index, g, ok, failures, up, backlog, inbox>>

(* Mutant of RecordReturns: a failure is counted when it was recorded. *)
RecordReturnsCounted ==
  /\ pc = "recording"
  /\ Answered("client")
  /\ Hangup("client")
  /\ failures' = IF ~ok /\ call["client"].reply = "ok" THEN failures + 1 ELSE failures
  /\ Advance
  /\ UNCHANGED <<launch, ok, up, backlog, inbox, faults>>

(* record_client's result is ignored; the probe's own is counted. *)
RecordReturns ==
  /\ pc = "recording"
  /\ Answered("client")
  /\ Hangup("client")
  /\ failures' = IF ok THEN failures ELSE failures + 1
  /\ Advance
  /\ UNCHANGED <<launch, ok, up, backlog, inbox, faults>>

CompleteCall ==
  /\ pc = "complete"
  /\ Send("client", [kind |-> "complete", run |-> RunId])
  /\ pc' = "completing"
  /\ UNCHANGED <<launch, rec, index, g, ok, failures, up, backlog, inbox, faults>>

CompleteReturns ==
  /\ pc = "completing"
  /\ Answered("client")
  /\ Hangup("client")
  /\ pc' = "done"
  /\ UNCHANGED <<launch, rec, index, g, ok, failures, up, backlog, inbox, faults>>

(* Killed: its connections are closed, its call is abandoned. *)
ClientDies ==
  /\ pc \notin Ended
  /\ Fault("client")
  /\ pc' = "killed"
  /\ CloseEnd(Conn)
  /\ Hangup("client")
  /\ UNCHANGED <<launch, rec, index, g, ok, failures, up, inbox>>

(* docker compose run benchmark-client, once more. *)
LaunchAgain ==
  /\ pc \in Ended
  /\ launch < Launches
  /\ launch' = launch + 1
  /\ pc' = "create"
  /\ rec' = (Warmup = 0) /\ index' = 1 /\ g' = 0
  /\ ok' = FALSE /\ failures' = 0
  /\ UNCHANGED wireVars

(* One step of the client, its death apart. *)
ClientStep ==
  \/ CreateRunCall \/ CreateReturns
  \/ Connect \/ ConnectFails
  \/ Handshake \/ WriteRequest \/ ProbeFails \/ ReadResponse
  \/ SkipRecord \/ RecordProbe \/ RecordReturns
  \/ CompleteCall \/ CompleteReturns
  \/ LaunchAgain
=============================================================================

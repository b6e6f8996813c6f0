-------------------------------- MODULE Wire --------------------------------
(***************************************************************************)
(* What the benchmark client, the three TLS servers and the dashboard      *)
(* share: the TCP backlog of each server with the state of the TLS         *)
(* connections in it, and the HTTP calls to the dashboard under way        *)
(* (post_json of tls/common.c: one connection per call, no timeout, the    *)
(* caller waits for the first bytes of the answer).                        *)
(*                                                                         *)
(* A connection is named by the launch of the client that made it, the     *)
(* endpoint, the sequence number and whether it is recorded; a sample by   *)
(* what probe() prints into sample_id: run id, mode and sequence number.   *)
(***************************************************************************)
EXTENDS Store, Naturals, Sequences

CONSTANTS
  Launches,    \* how often the client is launched, one launch after another
  RunIdOf,     \* the run id of each launch: --run-id, or default_run_id()
  Group,       \* the text posted as negotiated_group, never NULL: one value for
               \* all of them, the empty text of a failed handshake included
  Faults,      \* the kinds of fault that may happen, out of FaultKinds
  MaxFaults    \* bound: how many of them in one behaviour

Endpoints == <<"classical", "hybrid", "hybrid_p256">>

FaultKinds == {
  "connect",    \* tcp_connect_host fails although the server listens
  "tls",        \* a connection breaks, or the group is not the one expected
  "slow",       \* a probe takes longer than the 120 s schemas.py accepts
  "server",     \* a TLS server process dies (restart: unless-stopped)
  "dashboard",  \* a call is not answered 200/201 and has changed nothing
  "reply",      \* a call is committed but its answer is lost
  "client"}     \* the client is killed

ASSUME WireAssumption ==
  /\ Launches \in Nat \ {0}
  /\ RunIdOf \in [1..Launches -> Runs]
  /\ Modes = {Endpoints[i] : i \in 1..3}
  /\ Group \in Groups
  /\ Faults \subseteq FaultKinds
  /\ MaxFaults \in Nat

VARIABLES
  up,       \* endpoints whose server process is there to be connected to
  backlog,  \* the connections each server has before it, the first in service
  inbox,    \* has a response arrived on the client's connection
  call,     \* the call each program waits for, or Absent
  faults    \* how many faults have happened

wireVars == <<up, backlog, inbox, call, faults>>

Callers == Modes \cup {"client"}

Stages == {"queued", "accepted", "shook", "sent"}

Link == [conn : Conns, stage : Stages, open : BOOLEAN]

Call == [req : Post, reply : {"none", "ok", "failed"}]

ASSUME CallAssumption == Absent \notin Call

WireTypeOK ==
  /\ up \subseteq Modes
  /\ backlog \in [Modes -> Seq(Link)]
  /\ inbox \in BOOLEAN
  /\ call \in [Callers -> Call \cup {Absent}]
  /\ faults \in 0..MaxFaults

WireInit ==
  /\ up = Modes
  /\ backlog = [m \in Modes |-> <<>>]
  /\ inbox = FALSE
  /\ call = [p \in Callers |-> Absent]
  /\ faults = 0

-----------------------------------------------------------------------------
(* Mutant of SampleId: the run id is made once and kept. *)
SampleIdOfFirstRun(c) == <<RunIdOf[1], c.mode, c.seq>>

SampleId(c) == <<RunIdOf[c.launch], c.mode, c.seq>>

Fault(kind) ==
  /\ kind \in Faults
  /\ faults < MaxFaults
  /\ faults' = faults + 1

(* post_json: the caller p sends q and waits. *)
Send(p, q) == call' = [call EXCEPT ![p] = [req |-> q, reply |-> "none"]]

(* The call of p has been answered, or its connection has broken. *)
Answered(p) == call[p] # Absent /\ call[p].reply # "none"

Hangup(p) == call' = [call EXCEPT ![p] = Absent]

(* The place of connection c in the backlog of its server, if it is there. *)
Place(c) == {i \in DOMAIN backlog[c.mode] : backlog[c.mode][i].conn = c}

Connected(c) == Place(c) # {}

Stage(c) == backlog[c.mode][CHOOSE i \in Place(c) : TRUE].stage

(* The client's end of c moves on; nothing if the server's end is gone. *)
SetStage(c, s) ==
  backlog' = [backlog EXCEPT ![c.mode] =
    [i \in DOMAIN @ |-> IF @[i].conn = c THEN [@[i] EXCEPT !.stage = s] ELSE @[i]]]

CloseEnd(c) ==
  backlog' = [backlog EXCEPT ![c.mode] =
    [i \in DOMAIN @ |-> IF @[i].conn = c THEN [@[i] EXCEPT !.open = FALSE] ELSE @[i]]]
=============================================================================

------------------------------ MODULE TlsServer ------------------------------
(***************************************************************************)
(* tls/tls_server.c, one process per endpoint m: a single thread that      *)
(* accepts, shakes hands, reads a request, responds, closes, and only then *)
(* posts its measurement and waits for the dashboard before the next       *)
(* accept.  A connection is served from the head of the backlog.           *)
(***************************************************************************)
EXTENDS Wire

VARIABLE at   \* where the thread of each server is

ServerLabels == {"accept", "handshake", "read", "posting", "down"}

ServerTypeOK == at \in [Modes -> ServerLabels]

ServerInit == at = [m \in Modes |-> "accept"]

Goto(m, label) == at' = [at EXCEPT ![m] = label]

Served(m) == Head(backlog[m])

(* close(client_fd) *)
Release(m) == backlog' = [backlog EXCEPT ![m] = Tail(backlog[m])]

-----------------------------------------------------------------------------
Accept(m) ==
  /\ at[m] = "accept"
  /\ backlog[m] # <<>>
  /\ backlog' = [backlog EXCEPT ![m][1].stage =
                   IF @ = "queued" THEN "accepted" ELSE @]
  /\ Goto(m, "handshake")
  /\ UNCHANGED <<up, inbox, call, faults>>

(* SSL_accept returns 1: in TLS 1.3 the client has finished before. *)
ShakeHands(m) ==
  /\ at[m] = "handshake"
  /\ Served(m).stage \in {"shook", "sent"}
  /\ Goto(m, "read")
  /\ UNCHANGED wireVars

(* SSL_accept fails, or SSL_read gets nothing: the peer is gone.  What a   *)
(* peer wrote before it closed may be lost (a reset) or still be read.     *)
GiveUp(m) ==
  /\ at[m] \in {"handshake", "read"}
  /\ ~Served(m).open
  /\ Release(m)
  /\ Goto(m, "accept")
  /\ UNCHANGED <<up, inbox, call, faults>>

ServerReport(c) ==
  [kind |-> "server", sample |-> SampleId(c), run |-> RunIdOf[c.launch],
   mode |-> c.mode, group |-> Group, half |-> c, inRange |-> TRUE]

(* Mutant of Serve: record=1 is not looked for. *)
ServeAndRecordAll(m) ==
  LET c == Served(m).conn IN
  /\ at[m] = "read"
  /\ Served(m).stage = "sent"
  /\ inbox' = (inbox \/ Served(m).open)
  /\ Release(m)
  /\ Send(m, ServerReport(c)) /\ Goto(m, "posting")
  /\ UNCHANGED <<up, faults>>

(* SSL_read to close: the response is on its way before the measurement    *)
(* is, and only a request with record=1 is measured.                       *)
Serve(m) ==
  LET c == Served(m).conn IN
  /\ at[m] = "read"
  /\ Served(m).stage = "sent"
  /\ inbox' = (inbox \/ Served(m).open)
  /\ Release(m)
  /\ IF c.rec
     THEN Send(m, ServerReport(c)) /\ Goto(m, "posting")
     ELSE UNCHANGED call /\ Goto(m, "accept")
  /\ UNCHANGED <<up, faults>>

(* Mutant of PostReturns: the server retries until it is accepted. *)
PostInsists(m) ==
  /\ at[m] = "posting"
  /\ Answered(m) /\ call[m].reply = "ok"
  /\ Hangup(m)
  /\ Goto(m, "accept")
  /\ UNCHANGED <<up, backlog, inbox, faults>>

(* post_json returns; its result is ignored. *)
PostReturns(m) ==
  /\ at[m] = "posting"
  /\ Answered(m)
  /\ Hangup(m)
  /\ Goto(m, "accept")
  /\ UNCHANGED <<up, backlog, inbox, faults>>

(* The process dies, or is stopped: the signal interrupts what blocks and  *)
(* the loop of main ends.  Its connections are reset, its call abandoned.  *)
ServerDies(m) ==
  /\ at[m] # "down"
  /\ Fault("server")
  /\ Goto(m, "down")
  /\ up' = up \ {m}
  /\ backlog' = [backlog EXCEPT ![m] = <<>>]
  /\ Hangup(m)
  /\ UNCHANGED inbox

(* restart: unless-stopped *)
ServerRestarts(m) ==
  /\ at[m] = "down"
  /\ Goto(m, "accept")
  /\ up' = up \cup {m}
  /\ UNCHANGED <<backlog, inbox, call, faults>>

(* One step of the server m. *)
Serves(m) ==
  \/ Accept(m)
  \/ ShakeHands(m)
  \/ GiveUp(m)
  \/ Serve(m)
  \/ PostReturns(m)
  \/ ServerRestarts(m)
=============================================================================

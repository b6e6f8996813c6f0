-------------------------------- MODULE Store --------------------------------
(***************************************************************************)
(* The two SQLite tables of dashboard/app/db.py and the statements each    *)
(* BenchmarkRepository method runs inside one transaction, as functions    *)
(* from a database to a database.  Transactions, threads and crashes are   *)
(* in Repository; the programs that post are in Lab.                       *)
(*                                                                         *)
(* A measurement row has two halves.  The server half stands for           *)
(* server_handshake_us and server_recorded_at; the client half for         *)
(* client_tcp_us .. bytes_received, error and client_recorded_at, which    *)
(* record_client always writes together.  What is measured is a value that *)
(* names the connection it was measured on.  negotiated_group stands for   *)
(* itself, tls_version and cipher, which the code treats alike.            *)
(***************************************************************************)

CONSTANTS
  Runs,         \* run identifiers
  Samples,      \* sample identifiers
  Modes,        \* schemas.Mode, the modes the API accepts
  StoredModes,  \* the modes of the CHECK constraint on measurements.mode
  Groups,       \* negotiated_group values, SQL NULL apart
  Conns,        \* the connections a measurement can have been made on
  Absent        \* SQL NULL, and the row that is not there

ClientHalf == [conn : Conns, ok : BOOLEAN]   \* ok is the success field posted

RunRow == [announced : BOOLEAN, completed : BOOLEAN]

Row == [run : Runs, mode : Modes, group : Groups \cup {Absent},
        server : Conns \cup {Absent}, client : ClientHalf \cup {Absent},
        success : BOOLEAN]

ASSUME StoreAssumption ==
  /\ StoredModes \subseteq Modes
  /\ Absent \notin Runs \cup Groups \cup Conns \cup ClientHalf \cup RunRow \cup Row

Database == [runs : [Runs -> RunRow \cup {Absent}],
             rows : [Samples -> Row \cup {Absent}]]

EmptyDatabase == [runs |-> [r \in Runs |-> Absent],
                  rows |-> [s \in Samples |-> Absent]]

-----------------------------------------------------------------------------
(* The four requests that write, one per POST route of main.py.  inRange   *)
(* is FALSE when a field is outside the bounds of schemas.py (an interval  *)
(* above 120 s, an identifier that is too long).                           *)

RunPost == [kind : {"run"}, run : Runs, inRange : BOOLEAN]

CompletePost == [kind : {"complete"}, run : Runs]

ServerPost == [kind : {"server"}, sample : Samples, run : Runs, mode : Modes,
               group : Groups \cup {Absent}, half : Conns, inRange : BOOLEAN]

ClientPost == [kind : {"client"}, sample : Samples, run : Runs, mode : Modes,
               group : Groups \cup {Absent}, half : ClientHalf,
               inRange : BOOLEAN]

Post == RunPost \cup CompletePost \cup ServerPost \cup ClientPost

IsMeasurement(q) == q.kind \in {"server", "client"}

(* The pydantic models; the route that completes a run has none. *)
Valid(q) == q.kind = "complete" \/ q.inRange

(* CHECK(mode IN (...)): tried on every INSERT, before ON CONFLICT. *)
ModeCheck(q) == IsMeasurement(q) => q.mode \in StoredModes

-----------------------------------------------------------------------------
EnsureRun(db, r) ==
  IF db.runs[r] # Absent THEN db
  ELSE [db EXCEPT !.runs[r] = [announced |-> FALSE, completed |-> FALSE]]

(* ON CONFLICT(id): the row keeps its started_at and its completed_at. *)
CreateRun(db, q) ==
  [db EXCEPT !.runs[q.run] =
     [announced |-> TRUE,
      completed |-> db.runs[q.run] # Absent /\ db.runs[q.run].completed]]

(* Mutant of CompleteRun: the UPDATE alone, without _ensure_run. *)
CompleteRunUpdates(db, q) ==
  IF db.runs[q.run] = Absent THEN db ELSE [db EXCEPT !.runs[q.run].completed = TRUE]

CompleteRun(db, q) ==
  [db EXCEPT !.runs[q.run] =
     [announced |-> EnsureRun(db, q.run).runs[q.run].announced,
      completed |-> TRUE]]

(* Mutants of ServerUpsert: the server's success=1 also on conflict; an    *)
(* INSERT OR REPLACE in place of the upsert.                               *)
ServerUpsertOverrules(row, q) ==
  IF row = Absent
  THEN [run |-> q.run, mode |-> q.mode, group |-> q.group,
        server |-> q.half, client |-> Absent, success |-> TRUE]
  ELSE [row EXCEPT !.group = q.group, !.server = q.half, !.success = TRUE]

ServerUpsertReplaces(row, q) ==
  [run |-> q.run, mode |-> q.mode, group |-> q.group,
   server |-> q.half, client |-> Absent, success |-> TRUE]

(* The row after record_server's INSERT ... ON CONFLICT(sample_id). *)
ServerUpsert(row, q) ==
  IF row = Absent
  THEN [run |-> q.run, mode |-> q.mode, group |-> q.group,
        server |-> q.half, client |-> Absent, success |-> TRUE]
  ELSE [row EXCEPT !.group = q.group, !.server = q.half]

(* Mutant of ClientUpsert: no success = excluded.success on conflict.      *)
ClientUpsertKeeps(row, q) ==
  IF row = Absent
  THEN [run |-> q.run, mode |-> q.mode, group |-> q.group,
        server |-> Absent, client |-> q.half, success |-> q.half.ok]
  ELSE [row EXCEPT !.group = IF q.group = Absent THEN row.group ELSE q.group,
                   !.client = q.half]

(* The row after record_client's INSERT ... ON CONFLICT(sample_id). *)
ClientUpsert(row, q) ==
  IF row = Absent
  THEN [run |-> q.run, mode |-> q.mode, group |-> q.group,
        server |-> Absent, client |-> q.half, success |-> q.half.ok]
  ELSE [row EXCEPT !.group = IF q.group = Absent THEN row.group ELSE q.group,
                   !.client = q.half, !.success = q.half.ok]

RecordServer(db, q) ==
  [EnsureRun(db, q.run) EXCEPT
     !.rows[q.sample] = ServerUpsert(db.rows[q.sample], q)]

RecordClient(db, q) ==
  [EnsureRun(db, q.run) EXCEPT
     !.rows[q.sample] = ClientUpsert(db.rows[q.sample], q)]

(* The statements of the method behind the route of q, up to the commit. *)
Apply(db, q) ==
  CASE q.kind = "run"      -> CreateRun(db, q)
    [] q.kind = "complete" -> CompleteRun(db, q)
    [] q.kind = "server"   -> RecordServer(db, q)
    [] q.kind = "client"   -> RecordClient(db, q)

(* What has been executed when the mode check makes the INSERT fail. *)
ApplyUpToCheck(db, q) == EnsureRun(db, q.run)

-----------------------------------------------------------------------------
Rows(db) == {s \in Samples : db.rows[s] # Absent}

RowsOf(db, r) == {s \in Rows(db) : db.rows[s].run = r}

KnownRuns(db) == {r \in Runs : db.runs[r] # Absent}

(* What an answered q must have left in the database for good. *)
Holds(db, q) ==
  /\ q.run \in KnownRuns(db)
  /\ q.kind = "run"      => db.runs[q.run].announced
  /\ q.kind = "complete" => db.runs[q.run].completed
  /\ q.kind = "server"   => q.sample \in Rows(db) /\ db.rows[q.sample].server # Absent
  /\ q.kind = "client"   => q.sample \in Rows(db) /\ db.rows[q.sample].client # Absent
=============================================================================

---------------------------- MODULE StoreProofs ----------------------------
(***************************************************************************)
(* What the SQL of db.py does to the two tables, for every database and    *)
(* every request: the facts the theorems about Repository rest on.         *)
(***************************************************************************)
EXTENDS StoreLedger, TLAPS

(* The four shapes of a request. *)
LEMMA PostKinds ==
  ASSUME NEW q \in Post
  PROVE  /\ q.run \in Runs
         /\ \/ q.kind = "run" /\ q \in RunPost
            \/ q.kind = "complete" /\ q \in CompletePost
            \/ q.kind = "server" /\ q \in ServerPost
            \/ q.kind = "client" /\ q \in ClientPost
  BY DEF Post, RunPost, CompletePost, ServerPost, ClientPost

(* _ensure_run adds the run and changes nothing else. *)
LEMMA EnsureRunEffect ==
  ASSUME NEW d \in Database, NEW r \in Runs
  PROVE  /\ EnsureRun(d, r) \in Database
         /\ EnsureRun(d, r).rows = d.rows
         /\ EnsureRun(d, r).runs[r] # Absent
         /\ d.runs[r] # Absent => EnsureRun(d, r).runs[r] = d.runs[r]
         /\ \A x \in Runs \ {r} : EnsureRun(d, r).runs[x] = d.runs[x]
  <1>1. [announced |-> FALSE, completed |-> FALSE] \in RunRow
    BY DEF RunRow
  <1>2. [announced |-> FALSE, completed |-> FALSE] # Absent
    BY <1>1, StoreAssumption
  <1>3. QED
    BY <1>1, <1>2 DEF EnsureRun, Database

(* record_server and record_client write well-formed rows. *)
LEMMA UpsertTypes ==
  ASSUME NEW row \in Row \cup {Absent}
  PROVE  /\ \A q \in ServerPost : ServerUpsert(row, q) \in Row
         /\ \A q \in ClientPost : ClientUpsert(row, q) \in Row
  <1>1. ASSUME NEW q \in ServerPost PROVE ServerUpsert(row, q) \in Row
    BY <1>1 DEF ServerUpsert, ServerPost, Row, ClientHalf
  <1>2. ASSUME NEW q \in ClientPost PROVE ClientUpsert(row, q) \in Row
    BY <1>2 DEF ClientUpsert, ClientPost, Row, ClientHalf
  <1>3. QED
    BY <1>1, <1>2

(* Apply, run by run: the request's run exists afterwards, with the flag   *)
(* the request sets; no run loses a flag, and no other run is touched.     *)
LEMMA ApplyRuns ==
  ASSUME NEW d \in Database, NEW q \in Post
  PROVE  /\ Apply(d, q).runs \in [Runs -> RunRow \cup {Absent}]
         /\ Apply(d, q).runs[q.run] # Absent
         /\ q.kind = "run" => Apply(d, q).runs[q.run].announced
         /\ q.kind = "complete" => Apply(d, q).runs[q.run].completed
         /\ d.runs[q.run] # Absent =>
              /\ Apply(d, q).runs[q.run].announced
                   <=> d.runs[q.run].announced \/ q.kind = "run"
              /\ Apply(d, q).runs[q.run].completed
                   <=> d.runs[q.run].completed \/ q.kind = "complete"
         /\ d.runs[q.run] = Absent =>
              /\ Apply(d, q).runs[q.run].announced <=> q.kind = "run"
              /\ Apply(d, q).runs[q.run].completed <=> q.kind = "complete"
         /\ \A x \in Runs \ {q.run} : Apply(d, q).runs[x] = d.runs[x]
  <1> DEFINE e == EnsureRun(d, q.run)
  <1>1. /\ q.run \in Runs
        /\ e \in Database
        /\ e.runs[q.run] # Absent
        /\ d.runs[q.run] # Absent => e.runs[q.run] = d.runs[q.run]
        /\ \A x \in Runs \ {q.run} : e.runs[x] = d.runs[x]
    BY PostKinds, EnsureRunEffect
  <1>2. d.runs[q.run] = Absent =>
          e.runs[q.run] = [announced |-> FALSE, completed |-> FALSE]
    BY <1>1 DEF EnsureRun, Database
  <1>3. \A x \in RunRow : x # Absent
    BY StoreAssumption
  <1>4. CASE q.kind = "run"
    <2> DEFINE new == [announced |-> TRUE,
                       completed |-> d.runs[q.run] # Absent /\ d.runs[q.run].completed]
    <2>1. Apply(d, q).runs = [d.runs EXCEPT ![q.run] = new]
      BY <1>4 DEF Apply, CreateRun, Database
    <2>2. new \in RunRow /\ new # Absent
      BY <1>1, <1>3 DEF Database, RunRow
    <2>3. /\ new.announced
          /\ d.runs[q.run] = Absent => ~new.completed
          /\ d.runs[q.run] # Absent => (new.completed <=> d.runs[q.run].completed)
      OBVIOUS
    <2> HIDE DEF new
    <2>4. QED
      BY <1>1, <1>4, <2>1, <2>2, <2>3 DEF Database
  <1>5. CASE q.kind = "complete"
    <2> DEFINE new == [announced |-> e.runs[q.run].announced, completed |-> TRUE]
    <2>1. Apply(d, q).runs = [d.runs EXCEPT ![q.run] = new]
      BY <1>5 DEF Apply, CompleteRun, Database
    <2>2. new \in RunRow /\ new # Absent
      BY <1>1, <1>3 DEF Database, RunRow
    <2>3. /\ new.completed
          /\ d.runs[q.run] = Absent => ~new.announced
          /\ d.runs[q.run] # Absent => (new.announced <=> d.runs[q.run].announced)
      BY <1>1, <1>2
    <2> HIDE DEF new
    <2>4. QED
      BY <1>1, <1>5, <2>1, <2>2, <2>3 DEF Database
  <1>6. CASE q.kind \in {"server", "client"}
    <2>1. Apply(d, q).runs = e.runs
      BY <1>6 DEF Apply, RecordServer, RecordClient
    <2>2. QED
      BY <1>1, <1>2, <1>3, <1>6, <2>1 DEF Database, RunRow
  <1>7. QED
    BY <1>4, <1>5, <1>6, PostKinds

(* Apply, sample by sample: the request's row becomes the upserted one and *)
(* no other row changes.                                                   *)
LEMMA ApplyRows ==
  ASSUME NEW d \in Database, NEW q \in Post
  PROVE  /\ Apply(d, q) \in Database
         /\ q.kind \in {"run", "complete"} => Apply(d, q).rows = d.rows
         /\ q.kind = "server" =>
              /\ q.sample \in Samples
              /\ Apply(d, q).rows
                   = [d.rows EXCEPT ![q.sample] = ServerUpsert(d.rows[q.sample], q)]
              /\ ServerUpsert(d.rows[q.sample], q) \in Row
         /\ q.kind = "client" =>
              /\ q.sample \in Samples
              /\ Apply(d, q).rows
                   = [d.rows EXCEPT ![q.sample] = ClientUpsert(d.rows[q.sample], q)]
              /\ ClientUpsert(d.rows[q.sample], q) \in Row
  <1> DEFINE e == EnsureRun(d, q.run)
  <1>1. q.run \in Runs /\ e \in Database /\ e.rows = d.rows
    BY PostKinds, EnsureRunEffect
  <1>2. Apply(d, q).runs \in [Runs -> RunRow \cup {Absent}]
    BY ApplyRuns
  <1>3. CASE q.kind = "run"
    BY <1>1, <1>2, <1>3 DEF Apply, CreateRun, Database
  <1>4. CASE q.kind = "complete"
    BY <1>1, <1>2, <1>4 DEF Apply, CompleteRun, Database
  <1>5. CASE q.kind = "server"
    <2>1. q \in ServerPost /\ q.sample \in Samples
      BY <1>5, PostKinds DEF ServerPost
    <2>2. ServerUpsert(d.rows[q.sample], q) \in Row
      BY <2>1, UpsertTypes DEF Database
    <2>3. Apply(d, q) = RecordServer(d, q)
      BY <1>5 DEF Apply
    <2>4. QED
      BY <1>1, <1>2, <1>5, <2>1, <2>2, <2>3 DEF RecordServer, Database
  <1>6. CASE q.kind = "client"
    <2>1. q \in ClientPost /\ q.sample \in Samples
      BY <1>6, PostKinds DEF ClientPost
    <2>2. ClientUpsert(d.rows[q.sample], q) \in Row
      BY <2>1, UpsertTypes DEF Database
    <2>3. Apply(d, q) = RecordClient(d, q)
      BY <1>6 DEF Apply
    <2>4. QED
      BY <1>1, <1>2, <1>6, <2>1, <2>2, <2>3 DEF RecordClient, Database
  <1>7. QED
    BY <1>3, <1>4, <1>5, <1>6, PostKinds

(* Each upsert writes its own half and keeps the other one and the run of  *)
(* a row that is there.                                                    *)
LEMMA ServerUpsertEffect ==
  ASSUME NEW row \in Row \cup {Absent}, NEW q \in ServerPost
  PROVE  /\ ServerUpsert(row, q).server = q.half
         /\ row = Absent => /\ ServerUpsert(row, q).client = Absent
                            /\ ServerUpsert(row, q).run = q.run
         /\ row # Absent => /\ ServerUpsert(row, q).client = row.client
                            /\ ServerUpsert(row, q).run = row.run
  BY DEF ServerUpsert, Row

LEMMA ClientUpsertEffect ==
  ASSUME NEW row \in Row \cup {Absent}, NEW q \in ClientPost
  PROVE  /\ ClientUpsert(row, q).client = q.half
         /\ row = Absent => /\ ClientUpsert(row, q).server = Absent
                            /\ ClientUpsert(row, q).run = q.run
         /\ row # Absent => /\ ClientUpsert(row, q).server = row.server
                            /\ ClientUpsert(row, q).run = row.run
  BY DEF ClientUpsert, Row

(* The server's upsert lets a verdict stand, the client's replaces it.     *)
LEMMA UpsertVerdict ==
  ASSUME NEW row \in Row \cup {Absent}
  PROVE  /\ \A q \in ServerPost :
              row # Absent => ServerUpsert(row, q).success = row.success
         /\ \A q \in ClientPost : ClientUpsert(row, q).success = q.half.ok
  BY DEF ServerUpsert, ClientUpsert, Row

(* Exactly the run of the request becomes known.                           *)
LEMMA ApplyKnown ==
  ASSUME NEW d \in Database, NEW q \in Post
  PROVE  KnownRuns(Apply(d, q)) = KnownRuns(d) \cup {q.run}
  BY ApplyRuns, PostKinds DEF KnownRuns

(* A measurement upserts its own row and leaves the others alone.          *)
LEMMA ApplyUpsert ==
  ASSUME NEW d \in Database, NEW q \in Post, IsMeasurement(q)
  PROVE  /\ q.sample \in Samples
         /\ \A s \in Samples \ {q.sample} : Apply(d, q).rows[s] = d.rows[s]
         /\ \/ /\ q.kind = "server" /\ q \in ServerPost
               /\ Apply(d, q).rows[q.sample] = ServerUpsert(d.rows[q.sample], q)
            \/ /\ q.kind = "client" /\ q \in ClientPost
               /\ Apply(d, q).rows[q.sample] = ClientUpsert(d.rows[q.sample], q)
         /\ Apply(d, q).rows[q.sample] # Absent
  <1>1. \A x \in Row : x # Absent
    BY StoreAssumption
  <1>2. CASE q.kind = "server"
    <2> DEFINE new == ServerUpsert(d.rows[q.sample], q)
    <2>1. /\ q \in ServerPost /\ q.sample \in Samples
          /\ Apply(d, q).rows = [d.rows EXCEPT ![q.sample] = new]
          /\ new # Absent
      BY <1>1, <1>2, ApplyRows, PostKinds
    <2>2. \A s \in Samples \ {q.sample} : Apply(d, q).rows[s] = d.rows[s]
      BY <2>1 DEF Database
    <2>3. Apply(d, q).rows[q.sample] = new
      BY <2>1 DEF Database
    <2>4. QED
      BY <1>2, <2>1, <2>2, <2>3
  <1>3. CASE q.kind = "client"
    <2> DEFINE new == ClientUpsert(d.rows[q.sample], q)
    <2>1. /\ q \in ClientPost /\ q.sample \in Samples
          /\ Apply(d, q).rows = [d.rows EXCEPT ![q.sample] = new]
          /\ new # Absent
      BY <1>1, <1>3, ApplyRows, PostKinds
    <2>2. \A s \in Samples \ {q.sample} : Apply(d, q).rows[s] = d.rows[s]
      BY <2>1 DEF Database
    <2>3. Apply(d, q).rows[q.sample] = new
      BY <2>1 DEF Database
    <2>4. QED
      BY <1>3, <2>1, <2>2, <2>3
  <1>4. QED
    BY <1>2, <1>3 DEF IsMeasurement

(* What the request makes of one row: nothing, or one of the two upserts.  *)
LEMMA ApplyRow ==
  ASSUME NEW d \in Database, NEW q \in Post, NEW s \in Samples
  PROVE  \/ Apply(d, q).rows[s] = d.rows[s]
         \/ q \in ServerPost /\ Apply(d, q).rows[s] = ServerUpsert(d.rows[s], q)
         \/ q \in ClientPost /\ Apply(d, q).rows[s] = ClientUpsert(d.rows[s], q)
  <1>1. CASE IsMeasurement(q)
    BY <1>1, ApplyUpsert
  <1>2. CASE ~IsMeasurement(q)
    BY <1>2, ApplyRows, PostKinds DEF IsMeasurement
  <1>3. QED
    BY <1>1, <1>2

(* No row disappears, changes its run or loses a half.                     *)
LEMMA ApplyKeepsRows ==
  ASSUME NEW d \in Database, NEW q \in Post, NEW s \in Rows(d)
  PROVE  /\ s \in Rows(Apply(d, q))
         /\ Apply(d, q).rows[s].run = d.rows[s].run
         /\ d.rows[s].server # Absent => Apply(d, q).rows[s].server # Absent
         /\ d.rows[s].client # Absent => Apply(d, q).rows[s].client # Absent
  <1>1. s \in Samples /\ d.rows[s] \in Row /\ d.rows[s] # Absent
    BY DEF Rows, Database
  <1>2. CASE Apply(d, q).rows[s] = d.rows[s]
    BY <1>1, <1>2 DEF Rows
  <1>3. CASE q \in ServerPost /\ Apply(d, q).rows[s] = ServerUpsert(d.rows[s], q)
    <2>1. q.half # Absent /\ ServerUpsert(d.rows[s], q) # Absent
      BY <1>1, <1>3, StoreAssumption, UpsertTypes DEF ServerPost
    <2>2. QED
      BY <1>1, <1>3, <2>1, ServerUpsertEffect DEF Rows
  <1>4. CASE q \in ClientPost /\ Apply(d, q).rows[s] = ClientUpsert(d.rows[s], q)
    <2>1. q.half # Absent /\ ClientUpsert(d.rows[s], q) # Absent
      BY <1>1, <1>4, StoreAssumption, UpsertTypes DEF ClientPost
    <2>2. QED
      BY <1>1, <1>4, <2>1, ClientUpsertEffect DEF Rows
  <1>5. QED
    BY <1>1, <1>2, <1>3, <1>4, ApplyRow

(* A request that has been executed is in the database.                    *)
LEMMA ApplyHolds ==
  ASSUME NEW d \in Database, NEW q \in Post
  PROVE  Holds(Apply(d, q), q)
  <1>1. q.run \in KnownRuns(Apply(d, q))
    BY ApplyKnown
  <1>2. ASSUME q.kind = "server"
        PROVE  /\ q.sample \in Rows(Apply(d, q))
               /\ Apply(d, q).rows[q.sample].server # Absent
    <2>1. /\ q.sample \in Samples /\ Apply(d, q).rows[q.sample] # Absent
          /\ q \in ServerPost
          /\ Apply(d, q).rows[q.sample] = ServerUpsert(d.rows[q.sample], q)
          /\ d.rows[q.sample] \in Row \cup {Absent}
      BY <1>2, ApplyUpsert DEF IsMeasurement, Database
    <2>2. q.half # Absent
      BY <2>1, StoreAssumption DEF ServerPost
    <2>3. QED
      BY <2>1, <2>2, ServerUpsertEffect DEF Rows
  <1>3. ASSUME q.kind = "client"
        PROVE  /\ q.sample \in Rows(Apply(d, q))
               /\ Apply(d, q).rows[q.sample].client # Absent
    <2>1. /\ q.sample \in Samples /\ Apply(d, q).rows[q.sample] # Absent
          /\ q \in ClientPost
          /\ Apply(d, q).rows[q.sample] = ClientUpsert(d.rows[q.sample], q)
          /\ d.rows[q.sample] \in Row \cup {Absent}
      BY <1>3, ApplyUpsert DEF IsMeasurement, Database
    <2>2. q.half # Absent
      BY <2>1, StoreAssumption DEF ClientPost
    <2>3. QED
      BY <2>1, <2>2, ClientUpsertEffect DEF Rows
  <1>4. QED
    BY <1>1, <1>2, <1>3, ApplyRuns DEF Holds

(* What one request put into the database, no other request takes out.     *)
LEMMA ApplyKeeps ==
  ASSUME NEW d \in Database, NEW q \in Post, NEW p \in Post, Holds(d, p)
  PROVE  Holds(Apply(d, q), p)
  <1>1. p.run \in KnownRuns(Apply(d, q))
    BY ApplyKnown DEF Holds
  <1>2. p.kind = "run" => Apply(d, q).runs[p.run].announced
    BY ApplyRuns DEF Holds, KnownRuns
  <1>3. p.kind = "complete" => Apply(d, q).runs[p.run].completed
    BY ApplyRuns DEF Holds, KnownRuns
  <1>4. QED
    BY <1>1, <1>2, <1>3, ApplyKeepsRows DEF Holds

(* The rows of a run only grow.                                            *)
LEMMA ApplyGrows ==
  ASSUME NEW d \in Database, NEW q \in Post, NEW r \in Runs
  PROVE  RowsOf(d, r) \subseteq RowsOf(Apply(d, q), r)
  BY ApplyKeepsRows DEF RowsOf

(* The client's verdict stays the verdict when the request is executed.    *)
LEMMA ApplyVerdict ==
  ASSUME NEW d \in Database, NEW q \in Post,
         \A s \in Rows(d) :
           d.rows[s].client # Absent => d.rows[s].success = d.rows[s].client.ok
  PROVE  \A s \in Rows(Apply(d, q)) :
           Apply(d, q).rows[s].client # Absent =>
             Apply(d, q).rows[s].success = Apply(d, q).rows[s].client.ok
  <1> SUFFICES ASSUME NEW s \in Rows(Apply(d, q)),
                      Apply(d, q).rows[s].client # Absent
               PROVE  Apply(d, q).rows[s].success = Apply(d, q).rows[s].client.ok
    OBVIOUS
  <1>1. s \in Samples /\ d.rows[s] \in Row \cup {Absent}
    BY DEF Rows, Database
  <1>2. \/ Apply(d, q).rows[s] = d.rows[s]
        \/ q \in ServerPost /\ Apply(d, q).rows[s] = ServerUpsert(d.rows[s], q)
        \/ q \in ClientPost /\ Apply(d, q).rows[s] = ClientUpsert(d.rows[s], q)
    BY <1>1, ApplyRow
  <1>3. CASE Apply(d, q).rows[s] = d.rows[s]
    BY <1>1, <1>3 DEF Rows
  <1>4. CASE q \in ServerPost /\ Apply(d, q).rows[s] = ServerUpsert(d.rows[s], q)
    <2>1. d.rows[s] # Absent
      BY <1>1, <1>4, ServerUpsertEffect
    <2>2. Apply(d, q).rows[s].client = d.rows[s].client
      BY <1>1, <1>4, <2>1, ServerUpsertEffect
    <2>3. Apply(d, q).rows[s].success = d.rows[s].success
      BY <1>1, <1>4, <2>1, UpsertVerdict, Zenon
    <2>4. s \in Rows(d)
      BY <1>1, <2>1 DEF Rows
    <2>5. QED
      BY <2>2, <2>3, <2>4, Zenon
  <1>5. CASE q \in ClientPost /\ Apply(d, q).rows[s] = ClientUpsert(d.rows[s], q)
    <2>1. Apply(d, q).rows[s].client = q.half
      BY <1>1, <1>5, ClientUpsertEffect
    <2>2. Apply(d, q).rows[s].success = q.half.ok
      BY <1>1, <1>5, UpsertVerdict, Zenon
    <2>3. QED
      BY <2>1, <2>2, Zenon
  <1>6. QED
    BY <1>2, <1>3, <1>4, <1>5

(* A row only the server has reported counts as a success, before and      *)
(* after the request.                                                      *)
LEMMA ApplyOptimistic ==
  ASSUME NEW d \in Database, NEW q \in Post,
         \A s \in Rows(d) : d.rows[s].client = Absent => d.rows[s].success
  PROVE  \A s \in Rows(Apply(d, q)) :
           Apply(d, q).rows[s].client = Absent => Apply(d, q).rows[s].success
  <1> SUFFICES ASSUME NEW s \in Rows(Apply(d, q)),
                      Apply(d, q).rows[s].client = Absent
               PROVE  Apply(d, q).rows[s].success
    OBVIOUS
  <1>1. s \in Samples /\ d.rows[s] \in Row \cup {Absent}
    BY DEF Rows, Database
  <1>2. CASE Apply(d, q).rows[s] = d.rows[s]
    BY <1>1, <1>2 DEF Rows
  <1>3. CASE q \in ServerPost /\ Apply(d, q).rows[s] = ServerUpsert(d.rows[s], q)
    <2>1. CASE d.rows[s] = Absent
      BY <1>3, <2>1 DEF ServerUpsert
    <2>2. CASE d.rows[s] # Absent
      <3>1. s \in Rows(d) /\ d.rows[s].client = Absent
        BY <1>1, <1>3, <2>2, ServerUpsertEffect DEF Rows
      <3>2. ServerUpsert(d.rows[s], q).success = d.rows[s].success
        BY <1>1, <1>3, <2>2, UpsertVerdict, Zenon
      <3>3. QED
        BY <1>3, <3>1, <3>2, Zenon
    <2>3. QED
      BY <2>1, <2>2
  <1>4. CASE q \in ClientPost /\ Apply(d, q).rows[s] = ClientUpsert(d.rows[s], q)
    <2>1. q.half # Absent
      BY <1>4, StoreAssumption DEF ClientPost
    <2>2. QED
      BY <1>1, <1>4, <2>1, ClientUpsertEffect
  <1>5. QED
    BY <1>1, <1>2, <1>3, <1>4, ApplyRow

-----------------------------------------------------------------------------
(* The database read as a ledger: executing a request is the ledger's step *)
(* of that request, whoever executes it.                                   *)

(* A row the client has not reported yet counts as a success.              *)
SuccessUntilClient ==
  \A s \in Rows(db) : db.rows[s].client = Absent => db.rows[s].success

(* The flags of the runs after a request: those of before and the one the  *)
(* request sets.                                                           *)
LEMMA RunsMapped ==
  ASSUME NEW d \in Database, NEW q \in Post
  PROVE  LET e == Apply(d, q) IN
         /\ {r \in KnownRuns(e) : e.runs[r].announced}
              = {r \in KnownRuns(d) : d.runs[r].announced}
                  \cup {r \in {q.run} : q.kind = "run"}
         /\ {r \in KnownRuns(e) : e.runs[r].completed}
              = {r \in KnownRuns(d) : d.runs[r].completed}
                  \cup {r \in {q.run} : q.kind = "complete"}
  <1> DEFINE e == Apply(d, q)
  <1>1. q.run \in Runs /\ KnownRuns(e) = KnownRuns(d) \cup {q.run}
    BY PostKinds, ApplyKnown
  <1>2. \A r \in KnownRuns(d) \ {q.run} : e.runs[r] = d.runs[r]
    BY ApplyRuns DEF KnownRuns
  <1>3. /\ e.runs[q.run].announced
             <=> (q.run \in KnownRuns(d) /\ d.runs[q.run].announced) \/ q.kind = "run"
        /\ e.runs[q.run].completed
             <=> (q.run \in KnownRuns(d) /\ d.runs[q.run].completed) \/ q.kind = "complete"
    BY <1>1, ApplyRuns DEF KnownRuns
  <1> HIDE DEF e
  <1>4. QED
    BY <1>1, <1>2, <1>3 DEF e

(* The commit of a request about a run enters the run in the ledger.       *)
LEMMA RunCommitMapped ==
  ASSUME db \in Database, NEW q \in Post, db' = Apply(db, q),
         q.kind \in {"run", "complete"}
  PROVE  L!Next
  <1>1. /\ q.run \in Runs
        /\ KnownRuns(db') = KnownRuns(db) \cup {q.run}
        /\ db'.rows = db.rows
    BY PostKinds, ApplyKnown, ApplyRows
  <1>2. CASE q.kind = "run"
    <2>1. L!Announce(q.run)
      BY <1>1, <1>2, RunsMapped DEF L!Announce, L!sampleVars
    <2>2. QED
      BY <1>1, <2>1 DEF L!Next
  <1>3. CASE q.kind = "complete"
    <2>1. L!Complete(q.run)
      BY <1>1, <1>3, RunsMapped DEF L!Complete, L!sampleVars
    <2>2. QED
      BY <1>1, <2>1 DEF L!Next
  <1>4. QED
    BY <1>2, <1>3

(* The commit of a measurement enters its run and, if it is new, its home. *)
LEMMA SampleEntered ==
  ASSUME db \in Database, NEW q \in Post, db' = Apply(db, q),
         IsMeasurement(q)
  PROVE  L!Enter(q.sample, q.run)
  <1>1. /\ q.run \in Runs /\ q.sample \in Samples
        /\ q.kind # "run" /\ q.kind # "complete"
        /\ KnownRuns(db') = KnownRuns(db) \cup {q.run}
        /\ \A s \in Samples \ {q.sample} : db'.rows[s] = db.rows[s]
        /\ db'.rows[q.sample] # Absent
    BY PostKinds, ApplyKnown, ApplyUpsert DEF IsMeasurement
  <1>2. db'.rows[q.sample].run
          = IF db.rows[q.sample] = Absent THEN q.run ELSE db.rows[q.sample].run
    <2>1. db.rows[q.sample] \in Row \cup {Absent}
      BY <1>1 DEF Database
    <2>2. CASE q.kind = "server"
      <3>1. q \in ServerPost /\ db'.rows[q.sample] = ServerUpsert(db.rows[q.sample], q)
        BY <2>2, ApplyUpsert
      <3>2. QED
        BY <2>1, <3>1, ServerUpsertEffect
    <2>3. CASE q.kind = "client"
      <3>1. q \in ClientPost /\ db'.rows[q.sample] = ClientUpsert(db.rows[q.sample], q)
        BY <2>3, ApplyUpsert
      <3>2. QED
        BY <2>1, <3>1, ClientUpsertEffect
    <2>4. QED
      BY <2>2, <2>3 DEF IsMeasurement
  <1>3. db.rows[q.sample] # Absent => db.rows[q.sample].run # Absent
    BY <1>1, StoreAssumption DEF Database, Row
  <1>4. /\ {r \in KnownRuns(db') : db'.runs[r].announced}
             = {r \in KnownRuns(db) : db.runs[r].announced}
        /\ {r \in KnownRuns(db') : db'.runs[r].completed}
             = {r \in KnownRuns(db) : db.runs[r].completed}
    BY <1>1, RunsMapped
  <1>5. QED
    BY <1>1, <1>2, <1>3, <1>4 DEF L!Enter

(* The commit of a server's measurement enters the server's half.          *)
LEMMA ServerCommitMapped ==
  ASSUME db \in Database, SuccessUntilClient, NEW q \in Post,
         db' = Apply(db, q), q.kind = "server"
  PROVE  L!Next
  <1> DEFINE old == db.rows[q.sample]
             new == db'.rows[q.sample]
  <1>1. /\ q \in ServerPost /\ q.sample \in Samples /\ q.run \in Runs
        /\ q.half \in Conns
        /\ new = ServerUpsert(old, q) /\ new # Absent
        /\ \A s \in Samples \ {q.sample} : db'.rows[s] = db.rows[s]
        /\ old \in Row \cup {Absent}
    BY PostKinds, ApplyUpsert DEF IsMeasurement, ServerPost, Database
  <1>2. /\ new.server = q.half
        /\ new.client = IF old = Absent THEN Absent ELSE old.client
    BY <1>1, ServerUpsertEffect
  <1>3. new.success <=> IF old = Absent \/ old.client = Absent THEN TRUE ELSE old.success
    <2>1. CASE old = Absent
      BY <1>1, <2>1 DEF ServerUpsert
    <2>2. CASE old # Absent
      <3>1. new.success = old.success
        BY <1>1, <2>2, UpsertVerdict, Zenon
      <3>2. old.client = Absent => old.success
        BY <1>1, <2>2 DEF SuccessUntilClient, Rows
      <3>3. QED
        BY <2>2, <3>1, <3>2
    <2>3. QED
      BY <2>1, <2>2
  <1>4. L!Enter(q.sample, q.run)
    BY SampleEntered DEF IsMeasurement
  <1> HIDE DEF old, new
  <1>5. L!EnterServer(q.sample, q.half)
    BY <1>1, <1>2, <1>3, ZenonT(30) DEF L!EnterServer, old, new
  <1>6. QED
    BY <1>1, <1>4, <1>5 DEF L!Next

(* The commit of a client's measurement enters the client's half.          *)
LEMMA ClientCommitMapped ==
  ASSUME db \in Database, NEW q \in Post, db' = Apply(db, q), q.kind = "client"
  PROVE  L!Next
  <1> DEFINE old == db.rows[q.sample]
             new == db'.rows[q.sample]
  <1>1. /\ q \in ClientPost /\ q.sample \in Samples /\ q.run \in Runs
        /\ q.half \in ClientHalf
        /\ new = ClientUpsert(old, q) /\ new # Absent
        /\ \A s \in Samples \ {q.sample} : db'.rows[s] = db.rows[s]
        /\ old \in Row \cup {Absent}
    BY PostKinds, ApplyUpsert DEF IsMeasurement, ClientPost, Database
  <1>2. /\ new.client = q.half
        /\ new.server = IF old = Absent THEN Absent ELSE old.server
    BY <1>1, ClientUpsertEffect
  <1>3. new.success = q.half.ok
    BY <1>1, UpsertVerdict, Zenon
  <1>4. L!Enter(q.sample, q.run)
    BY SampleEntered DEF IsMeasurement
  <1> HIDE DEF old, new
  <1>5. L!EnterClient(q.sample, q.half)
    <2> DEFINE verdict(d) == [s \in Samples |-> d.rows[s] # Absent /\ d.rows[s].success]
    <2>1. (new # Absent /\ new.success) = q.half.ok
      <3>1. q.half.ok \in BOOLEAN
        BY <1>1 DEF ClientHalf
      <3>2. new.success <=> q.half.ok
        BY <1>3
      <3>3. QED
        BY <1>1, <3>1, <3>2
    <2>2. verdict(db') = [verdict(db) EXCEPT ![q.sample] = q.half.ok]
      BY <1>1, <2>1 DEF new
    <2>3. QED
      BY <1>1, <1>2, <2>2, ZenonT(30) DEF L!EnterClient, old, new
  <1>6. QED
    BY <1>1, <1>4, <1>5 DEF L!Next

(* The step of any request that changes the tables, an empty database and  *)
(* a step that leaves them alone.                                          *)
LEMMA RequestMapped ==
  ASSUME db \in Database, SuccessUntilClient, NEW q \in Post, db' = Apply(db, q)
  PROVE  L!Next
  BY PostKinds, RunCommitMapped, ServerCommitMapped, ClientCommitMapped

LEMMA EmptyMapped ==
  ASSUME db = EmptyDatabase
  PROVE  L!Init
  <1>1. KnownRuns(db) = {} /\ \A s \in Samples : db.rows[s] = Absent
    BY DEF EmptyDatabase, KnownRuns
  <1>2. QED
    BY <1>1 DEF L!Init

LEMMA StutterMapped ==
  ASSUME db' = db
  PROVE  UNCHANGED L!vars
  BY DEF L!vars, L!runVars, L!sampleVars
=============================================================================

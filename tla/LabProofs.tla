------------------------------ MODULE LabProofs ------------------------------
(***************************************************************************)
(* What holds of the client, the servers and the dashboard together for    *)
(* every number of launches, warmups, iterations and faults.  All of it    *)
(* rests on one invariant: whatever is on its way to the database, and     *)
(* whatever has arrived there, is a measured connection under the id that  *)
(* probe() made for it, of a run that was announced before.                *)
(***************************************************************************)
EXTENDS Lab, StoreProofs, SequenceTheorems, FiniteSetTheorems

Announced(d, r) == d.runs[r] # Absent /\ d.runs[r].announced

(* The connections the client can have made, given the database.           *)
Known(d) ==
  {c \in [launch : 1..Launches, mode : Modes,
          seq : 1..(Warmup + Iterations), rec : BOOLEAN] :
     /\ c.rec => c.seq <= Iterations
     /\ Announced(d, RunIdOf[c.launch])}

Measured(d) == {c \in Known(d) : c.rec}

Links(d) == [conn : Known(d), stage : Stages, open : BOOLEAN]

(* The requests that can be on their way.                                  *)
Genuine(d) ==
  {q \in Post :
     /\ q.kind # "run" => Announced(d, q.run)
     /\ q.kind = "server" =>
          /\ q.half \in Measured(d)
          /\ q.sample = SampleId(q.half) /\ q.run = RunIdOf[q.half.launch]
     /\ q.kind = "client" =>
          /\ q.half.conn \in Measured(d)
          /\ q.sample = SampleId(q.half.conn)
          /\ q.run = RunIdOf[q.half.conn.launch]}

Calls(d) == [req : Genuine(d), reply : {"none", "ok", "failed"}]

GenuineRow(d, s) ==
  /\ d.rows[s].run = s[1] /\ Announced(d, d.rows[s].run)
  /\ d.rows[s].server # Absent =>
       d.rows[s].server \in Measured(d) /\ s = SampleId(d.rows[s].server)
  /\ d.rows[s].client # Absent =>
       /\ d.rows[s].client.conn \in Measured(d)
       /\ s = SampleId(d.rows[s].client.conn)

RowsGenuine == \A s \in Rows(db) : GenuineRow(db, s)

(* main() is past create_run.                                              *)
Running == pc \notin {"create", "creating"} \cup Ended

(* Probes of this launch that have been counted or could have been.        *)
FailuresBounded ==
  pc \notin {"complete", "completing"} \cup Ended =>
    failures <= IF rec THEN 3 * (index - 1) + g ELSE 0

RecordsMeasured == pc = "recording" => rec

(* A server that shakes hands or reads has a connection to do it on.       *)
ServerBusy ==
  \A m \in Modes : at[m] \in {"handshake", "read"} => backlog[m] # <<>>

CreateAsked ==
  pc = "creating" /\ call["client"] # Absent =>
    /\ call["client"].req = [kind |-> "run", run |-> RunId, inRange |-> TRUE]
    /\ call["client"].reply = "ok" => Announced(db, RunId)

LabInv ==
  /\ ClientTypeOK /\ FailuresBounded /\ RecordsMeasured
  /\ ServerTypeOK /\ ServerBusy
  /\ up \subseteq Modes /\ inbox \in BOOLEAN /\ faults \in 0..MaxFaults
  /\ backlog \in [Modes -> Seq(Links(db))]
  /\ call \in [Callers -> Calls(db) \cup {Absent}]
  /\ orphans \subseteq Genuine(db)
  /\ db \in Database /\ RowsGenuine
  /\ Running => Announced(db, RunId)
  /\ CreateAsked

-----------------------------------------------------------------------------
(* Facts about the state alone.                                            *)

LEMMA ModesAre == Modes = {"classical", "hybrid", "hybrid_p256"}
<1>1. {Endpoints[i] : i \in 1..3} = {Endpoints[1], Endpoints[2], Endpoints[3]}
  OBVIOUS
<1>2. /\ Endpoints[1] = "classical" /\ Endpoints[2] = "hybrid"
      /\ Endpoints[3] = "hybrid_p256"
  BY DEF Endpoints
<1> QED BY <1>1, <1>2, WireAssumption

(* "client" is the name of the client's caller, never of an endpoint.      *)
LEMMA ClientIsNoServer == "client" \notin Modes
  BY ModesAre

(* The rotation stays inside the table of endpoints, for every iteration.  *)
LEMMA SlotRange ==
  ASSUME NEW b \in BOOLEAN, NEW i \in Nat \ {0}, NEW k \in 0..2
  PROVE  Endpoints[Slot(b, i, k) + 1] \in Modes
<1>1. Slot(b, i, k) \in 0..2
  BY DEF Slot
<1> QED BY <1>1, WireAssumption

(* The connection of the current probe.                                    *)
LEMMA ConnKnown ==
  ASSUME ClientTypeOK, Announced(db, RunId)
  PROVE  Conn \in Known(db)
<1>1. /\ launch \in 1..Launches /\ rec \in BOOLEAN /\ g \in 0..2
      /\ index \in Nat \ {0} /\ index \in 1..(Warmup + Iterations)
      /\ rec => index <= Iterations
  BY ClientAssumption DEF ClientTypeOK
<1>2. Endpoints[Slot(rec, index, g) + 1] \in Modes
  BY <1>1, SlotRange
<1> QED BY <1>1, <1>2 DEF Conn, Known, RunId

(* What a measured connection is known by is well formed.                  *)
LEMMA MeasuredTyped ==
  ASSUME NEW d, NEW c \in Measured(d)
  PROVE  /\ c \in Conns /\ c.mode \in Modes
         /\ RunIdOf[c.launch] \in Runs
         /\ SampleId(c) \in Samples
         /\ SampleId(c)[1] = RunIdOf[c.launch]
<1>1. /\ c.launch \in 1..Launches /\ c.mode \in Modes /\ c.seq \in 1..Iterations
      /\ c.seq \in 1..(Warmup + Iterations) /\ c.rec \in BOOLEAN
      /\ c = [launch |-> c.launch, mode |-> c.mode, seq |-> c.seq, rec |-> c.rec]
  BY ClientAssumption DEF Measured, Known
<1> QED BY <1>1, LabAssumption, WireAssumption DEF SampleId

(* Two measured connections with one sample id are one connection, when    *)
(* every launch has a run id of its own.                                   *)
LEMMA SampleIdsJoin ==
  ASSUME \A i, j \in 1..Launches : RunIdOf[i] = RunIdOf[j] => i = j,
         NEW d, NEW c \in Measured(d), NEW e \in Measured(d),
         SampleId(c) = SampleId(e)
  PROVE  c = e
<1>1. /\ c.launch \in 1..Launches /\ e.launch \in 1..Launches /\ c.rec = e.rec
      /\ c = [launch |-> c.launch, mode |-> c.mode, seq |-> c.seq, rec |-> c.rec]
      /\ e = [launch |-> e.launch, mode |-> e.mode, seq |-> e.seq, rec |-> e.rec]
  BY DEF Measured, Known
<1>2. RunIdOf[c.launch] = RunIdOf[e.launch] /\ c.mode = e.mode /\ c.seq = e.seq
  BY DEF SampleId
<1> QED BY <1>1, <1>2

-----------------------------------------------------------------------------
(* What a handled request does to them: an announced run stays announced,  *)
(* so what was known or genuine stays so.                                  *)
LEMMA AnnouncedStays ==
  ASSUME NEW d \in Database, NEW q \in Post, NEW r \in Runs, Announced(d, r)
  PROVE  Announced(Apply(d, q), r)
  BY ApplyRuns, PostKinds DEF Announced

(* Where more runs are announced, more connections, links and requests     *)
(* are known.                                                              *)
LEMMA KnownGrows ==
  ASSUME NEW d, NEW e, \A r \in Runs : Announced(d, r) => Announced(e, r)
  PROVE  /\ Known(d) \subseteq Known(e)
         /\ Measured(d) \subseteq Measured(e)
         /\ Links(d) \subseteq Links(e)
         /\ Genuine(d) \subseteq Genuine(e)
         /\ Calls(d) \subseteq Calls(e)
<1>1. Known(d) \subseteq Known(e)
  BY WireAssumption DEF Known
<1>2. Measured(d) \subseteq Measured(e)
  BY <1>1 DEF Measured
<1>3. Links(d) \subseteq Links(e)
  BY <1>1 DEF Links
<1>4. Genuine(d) \subseteq Genuine(e)
  BY <1>2, PostKinds DEF Genuine
<1>5. Calls(d) \subseteq Calls(e)
  BY <1>4 DEF Calls
<1> QED BY <1>1, <1>2, <1>3, <1>4, <1>5

(* A genuine measurement leaves a genuine row, and no other row changes.   *)
LEMMA ApplyGenuine ==
  ASSUME NEW d \in Database, NEW q \in Genuine(d),
         \A s \in Rows(d) : GenuineRow(d, s)
  PROVE  \A s \in Rows(Apply(d, q)) : GenuineRow(Apply(d, q), s)
<1> DEFINE e == Apply(d, q)
<1>1. q \in Post
  BY DEF Genuine
<1>2. \A r \in Runs : Announced(d, r) => Announced(e, r)
  BY <1>1, AnnouncedStays
<1>3. Measured(d) \subseteq Measured(e)
  BY <1>2, KnownGrows
<1>4. \A c : c \in Measured(d) => SampleId(c)[1] = RunIdOf[c.launch]
  BY MeasuredTyped
<1> SUFFICES ASSUME NEW s \in Rows(e) PROVE GenuineRow(e, s)
  OBVIOUS
<1>5. s \in Samples /\ e.rows[s] # Absent /\ d.rows[s] \in Row \cup {Absent}
  BY DEF Rows, Database
<1>6. d.rows[s] # Absent =>
        /\ d.rows[s].run = s[1] /\ Announced(e, d.rows[s].run)
        /\ d.rows[s].server # Absent =>
             d.rows[s].server \in Measured(e) /\ s = SampleId(d.rows[s].server)
        /\ d.rows[s].client # Absent =>
             /\ d.rows[s].client.conn \in Measured(e)
             /\ s = SampleId(d.rows[s].client.conn)
  BY <1>2, <1>3, <1>5 DEF Rows, GenuineRow, Row
<1>7. CASE e.rows[s] = d.rows[s]
  BY <1>5, <1>6, <1>7 DEF GenuineRow
<1>8. ASSUME q \in ServerPost, e.rows[s] = ServerUpsert(d.rows[s], q),
             e.rows[s] # d.rows[s]
      PROVE  GenuineRow(e, s)
  <2>1. /\ q.kind = "server" /\ q.run \in Runs /\ q.sample = s
    BY <1>1, <1>5, <1>8, ApplyUpsert, PostKinds DEF ServerPost, IsMeasurement
  <2>2. /\ q.half \in Measured(d) /\ s = SampleId(q.half)
        /\ q.run = RunIdOf[q.half.launch] /\ Announced(d, q.run)
    BY <2>1 DEF Genuine
  <2>3. q.run = s[1] /\ Announced(e, q.run) /\ q.half \in Measured(e)
    BY <1>2, <1>3, <1>4, <2>1, <2>2
  <2>4. CASE d.rows[s] = Absent
    BY <1>5, <1>8, <2>2, <2>3, <2>4, ServerUpsertEffect DEF GenuineRow
  <2>5. CASE d.rows[s] # Absent
    BY <1>5, <1>6, <1>8, <2>2, <2>3, <2>5, ServerUpsertEffect DEF GenuineRow
  <2> QED BY <2>4, <2>5
<1>9. ASSUME q \in ClientPost, e.rows[s] = ClientUpsert(d.rows[s], q),
             e.rows[s] # d.rows[s]
      PROVE  GenuineRow(e, s)
  <2>1. /\ q.kind = "client" /\ q.run \in Runs /\ q.sample = s
    BY <1>1, <1>5, <1>9, ApplyUpsert, PostKinds DEF ClientPost, IsMeasurement
  <2>2. /\ q.half.conn \in Measured(d) /\ s = SampleId(q.half.conn)
        /\ q.run = RunIdOf[q.half.conn.launch] /\ Announced(d, q.run)
    BY <2>1 DEF Genuine
  <2>3. q.run = s[1] /\ Announced(e, q.run) /\ q.half.conn \in Measured(e)
    BY <1>2, <1>3, <1>4, <2>1, <2>2
  <2>4. CASE d.rows[s] = Absent
    BY <1>5, <1>9, <2>2, <2>3, <2>4, ClientUpsertEffect DEF GenuineRow
  <2>5. CASE d.rows[s] # Absent
    BY <1>5, <1>6, <1>9, <2>2, <2>3, <2>5, ClientUpsertEffect DEF GenuineRow
  <2> QED BY <2>4, <2>5
<1> QED BY <1>1, <1>5, <1>7, <1>8, <1>9, ApplyRow

-----------------------------------------------------------------------------
(* What one step does to each part of the state.                           *)

(* The connections before the servers: a step shortens a backlog, changes  *)
(* a link in it or adds the connection of the current probe.               *)
LEMMA LinksReplaced ==
  ASSUME NEW S, NEW b \in [Modes -> Seq(S)], NEW m \in Modes,
         NEW f \in [DOMAIN b[m] -> S]
  PROVE  /\ [b EXCEPT ![m] = f] \in [Modes -> Seq(S)]
         /\ \A k \in Modes : b[k] # <<>> => [b EXCEPT ![m] = f][k] # <<>>
<1>1. /\ Len(b[m]) \in Nat /\ DOMAIN b[m] = 1..Len(b[m]) /\ b[m] \in Seq(S)
  BY LenProperties
<1>2. f \in Seq(S) /\ Len(f) = Len(b[m])
  BY <1>1
<1>3. b[m] # <<>> => f # <<>>
  BY <1>1, <1>2, EmptySeq
<1> QED BY <1>2, <1>3

(* An edit of one connection's ends keeps the types of the backlogs and    *)
(* empties none.                                                           *)
LEMMA EndsEdited ==
  ASSUME NEW D, backlog \in [Modes -> Seq(Links(D))], NEW c, c.mode \in Modes,
         CloseEnd(c) \/ \E s \in Stages : SetStage(c, s)
  PROVE  /\ backlog' \in [Modes -> Seq(Links(D))]
         /\ \A k \in Modes : backlog[k] # <<>> => backlog'[k] # <<>>
<1> DEFINE b == backlog[c.mode]
<1>1. b \in Seq(Links(D)) /\ \A i \in DOMAIN b : b[i] \in Links(D)
  BY LenProperties, ElementOfSeq
<1>2. CASE CloseEnd(c)
  <2> DEFINE f == [i \in DOMAIN b |-> IF b[i].conn = c THEN [b[i] EXCEPT !.open = FALSE] ELSE b[i]]
  <2>1. f \in [DOMAIN b -> Links(D)]
    BY <1>1 DEF Links
  <2>2. backlog' = [backlog EXCEPT ![c.mode] = f]
    BY <1>2 DEF CloseEnd
  <2> HIDE DEF f
  <2> QED BY <2>1, <2>2, LinksReplaced
<1>3. ASSUME NEW s \in Stages, SetStage(c, s)
      PROVE  /\ backlog' \in [Modes -> Seq(Links(D))]
             /\ \A k \in Modes : backlog[k] # <<>> => backlog'[k] # <<>>
  <2> DEFINE f == [i \in DOMAIN b |-> IF b[i].conn = c THEN [b[i] EXCEPT !.stage = s] ELSE b[i]]
  <2>1. f \in [DOMAIN b -> Links(D)]
    BY <1>1 DEF Links
  <2>2. backlog' = [backlog EXCEPT ![c.mode] = f]
    BY <1>3 DEF SetStage
  <2> HIDE DEF f
  <2> QED BY <2>1, <2>2, LinksReplaced
<1> QED BY <1>2, <1>3

(* Every step keeps the backlogs typed, and a server at work has a         *)
(* connection.                                                             *)
LEMMA BacklogStep ==
  ASSUME LabInv, [Next]_vars
  PROVE  backlog' \in [Modes -> Seq(Links(db))] /\ ServerBusy'
<1> DEFINE Goal == backlog' \in [Modes -> Seq(Links(db))] /\ ServerBusy'
<1>1. /\ backlog \in [Modes -> Seq(Links(db))] /\ at \in [Modes -> ServerLabels]
      /\ \A m \in Modes : at[m] \in {"handshake", "read"} => backlog[m] # <<>>
      /\ ClientTypeOK /\ (Running => Announced(db, RunId))
  BY DEF LabInv, ServerTypeOK, ServerBusy
<1>2. Conn.mode \in Modes
  BY <1>1, SlotRange, ClientAssumption DEF Conn, ClientTypeOK
<1>3. ASSUME UNCHANGED backlog,
             \/ UNCHANGED at
             \/ \E m \in Modes, l \in {"accept", "posting", "down"} : Goto(m, l)
             \/ \E m \in Modes : at[m] = "handshake" /\ Goto(m, "read")
      PROVE  Goal
  BY <1>1, <1>3 DEF ServerBusy, Goto, ServerLabels
<1>4. ASSUME NEW m \in Modes, Accept(m)
      PROVE  Goal
  <2> DEFINE b == backlog[m]
             l == [b[1] EXCEPT !.stage = IF @ = "queued" THEN "accepted" ELSE @]
  <2>1. b # <<>> /\ b \in Seq(Links(db))
    BY <1>1, <1>4 DEF Accept
  <2>2. 1 \in 1..Len(b) /\ b[1] \in Links(db)
    BY <2>1, EmptySeq, ElementOfSeq
  <2>3. l \in Links(db)
    BY <2>2 DEF Links, Stages
  <2>4. [b EXCEPT ![1] = l] \in Seq(Links(db)) /\ [b EXCEPT ![1] = l] # <<>>
    BY <2>1, <2>2, <2>3, ExceptSeq, EmptySeq
  <2>5. backlog' = [backlog EXCEPT ![m] = [b EXCEPT ![1] = l]]
    BY <1>4 DEF Accept
  <2>6. at' = [at EXCEPT ![m] = "handshake"]
    BY <1>4 DEF Accept, Goto
  <2> QED BY <1>1, <2>4, <2>5, <2>6 DEF ServerBusy
<1>5. ASSUME NEW m \in Modes, backlog[m] # <<>>, Release(m),
             NEW l \in {"accept", "posting"}, Goto(m, l)
      PROVE  Goal
  <2>1. Tail(backlog[m]) \in Seq(Links(db))
    BY <1>1, <1>5, HeadTailProperties
  <2> QED BY <1>1, <1>5, <2>1 DEF Release, Goto, ServerBusy, ServerLabels
<1>6. ASSUME NEW m \in Modes, ServerDies(m)
      PROVE  Goal
  BY <1>1, <1>6, EmptySeq DEF ServerDies, Goto, ServerBusy
<1>7. ASSUME CloseEnd(Conn) \/ \E s \in Stages : SetStage(Conn, s), UNCHANGED at
      PROVE  Goal
  BY <1>1, <1>2, <1>7, EndsEdited DEF ServerBusy
<1>8. ASSUME Connect, UNCHANGED at
      PROVE  Goal
  <2> DEFINE l == [conn |-> Conn, stage |-> "queued", open |-> TRUE]
             b == backlog[Conn.mode]
  <2>1. Conn \in Known(db)
    BY <1>1, <1>8, ConnKnown DEF Connect, Running, Ended
  <2>2. l \in Links(db) /\ b \in Seq(Links(db))
    BY <1>1, <1>2, <2>1 DEF Links, Stages
  <2>3. backlog' = [backlog EXCEPT ![Conn.mode] = Append(b, l)]
    BY <1>8 DEF Connect
  <2> HIDE DEF l, b
  <2>4. Append(b, l) \in Seq(Links(db)) /\ Append(b, l) # <<>>
    BY <2>2, AppendProperties
  <2> QED BY <1>1, <1>2, <1>8, <2>3, <2>4 DEF ServerBusy
<1>9. CASE UNCHANGED vars
  BY <1>3, <1>9 DEF vars, wireVars
<1>10. ASSUME NEW m \in Modes, Serves(m) PROVE Goal
  <2>1. CASE ShakeHands(m) \/ PostReturns(m) \/ ServerRestarts(m)
    BY <1>3, <2>1 DEF ShakeHands, PostReturns, ServerRestarts, wireVars
  <2>2. CASE GiveUp(m)
    BY <1>1, <1>5, <2>2 DEF GiveUp
  <2>3. CASE Serve(m)
    BY <1>1, <1>5, <2>3 DEF Serve
  <2> QED BY <1>4, <1>10, <2>1, <2>2, <2>3 DEF Serves
<1>11. ASSUME ClientStep, UNCHANGED at PROVE Goal
  <2>1. CASE \/ CreateRunCall \/ CreateReturns \/ ReadResponse \/ SkipRecord
             \/ RecordProbe \/ RecordReturns \/ CompleteCall \/ CompleteReturns
             \/ LaunchAgain
    BY <1>3, <1>11, <2>1
    DEF CreateRunCall, CreateReturns, ReadResponse, SkipRecord, RecordProbe,
        RecordReturns, CompleteCall, CompleteReturns, LaunchAgain, wireVars
  <2>2. CASE ConnectFails \/ Handshake \/ WriteRequest \/ ProbeFails
    BY <1>7, <1>11, <2>2
    DEF ConnectFails, Handshake, WriteRequest, ProbeFails, Fail, Stages
  <2> QED BY <1>8, <1>11, <2>1, <2>2 DEF ClientStep
<1>12. CASE ClientDies /\ UNCHANGED at
  BY <1>7, <1>12 DEF ClientDies
<1>13. CASE DashboardNext
  BY <1>3, <1>13
  DEF DashboardNext, HandleCall, CallFails, ReplyLost, HandleOrphan, DropOrphan, Elsewhere
<1> QED
  BY <1>6, <1>9, <1>10, <1>11, <1>12, <1>13
  DEF Next, ServerNext, ClientNext, Rest

(* What the programs ask of the dashboard is genuine.                      *)
LEMMA ServerReportGenuine ==
  ASSUME NEW c \in Measured(db)
  PROVE  ServerReport(c) \in Genuine(db)
<1>1. /\ c \in Conns /\ c.mode \in Modes /\ SampleId(c) \in Samples
      /\ RunIdOf[c.launch] \in Runs
  BY MeasuredTyped
<1>2. Announced(db, RunIdOf[c.launch])
  BY DEF Measured, Known
<1>3. ServerReport(c) \in ServerPost
  BY <1>1, WireAssumption DEF ServerReport, ServerPost
<1> QED BY <1>2, <1>3 DEF ServerReport, Genuine, Post

(* The report the client sends of its current connection is a genuine      *)
(* one.                                                                    *)
LEMMA ClientReportGenuine ==
  ASSUME Conn \in Measured(db), ok \in BOOLEAN, NEW slow \in BOOLEAN
  PROVE  ClientReport(slow) \in Genuine(db)
<1> DEFINE c == Conn
<1>1. /\ c \in Conns /\ c.mode \in Modes /\ SampleId(c) \in Samples
      /\ RunIdOf[c.launch] \in Runs
  BY MeasuredTyped
<1>2. Announced(db, RunIdOf[c.launch]) /\ c.launch = launch
  BY DEF Measured, Known, Conn
<1> HIDE DEF c
<1>3. ClientReport(slow) = [kind |-> "client", sample |-> SampleId(c), run |-> RunIdOf[c.launch],
         mode |-> c.mode, group |-> Group, half |-> [conn |-> c, ok |-> ok], inRange |-> ~slow]
  BY <1>2 DEF ClientReport, RunId, c
<1>4. [conn |-> c, ok |-> ok] \in ClientHalf
  BY <1>1 DEF ClientHalf
<1>5. ClientReport(slow) \in ClientPost
  BY <1>1, <1>3, <1>4, WireAssumption DEF ClientPost
<1>6. c \in Measured(db)
  BY DEF c
<1> QED BY <1>2, <1>3, <1>5, <1>6 DEF Genuine, Post

(* So is an announcement, and the completion of an announced run.          *)
LEMMA RunPostsGenuine ==
  ASSUME NEW r \in Runs
  PROVE  /\ [kind |-> "run", run |-> r, inRange |-> TRUE] \in Genuine(db)
         /\ Announced(db, r) => [kind |-> "complete", run |-> r] \in Genuine(db)
<1>1. [kind |-> "run", run |-> r, inRange |-> TRUE] \in RunPost
  BY DEF RunPost
<1>2. [kind |-> "complete", run |-> r] \in CompletePost
  BY DEF CompletePost
<1> QED BY <1>1, <1>2 DEF Genuine, Post

(* Every step leaves only genuine requests on their way, of the living     *)
(* and of the dead.                                                        *)
LEMMA CallsStep ==
  ASSUME LabInv, [Next]_vars
  PROVE  /\ call' \in [Callers -> Calls(db) \cup {Absent}]
         /\ orphans' \subseteq Genuine(db)
<1> DEFINE Goal == /\ call' \in [Callers -> Calls(db) \cup {Absent}]
                   /\ orphans' \subseteq Genuine(db)
<1>1. /\ call \in [Callers -> Calls(db) \cup {Absent}]
      /\ orphans \subseteq Genuine(db)
      /\ backlog \in [Modes -> Seq(Links(db))] /\ ServerBusy
      /\ ClientTypeOK /\ (Running => Announced(db, RunId))
  BY DEF LabInv
<1>2. RunId \in Runs /\ ok \in BOOLEAN
  BY <1>1, WireAssumption DEF RunId, ClientTypeOK
<1>3. CASE UNCHANGED <<call, orphans>>
  BY <1>1, <1>3
<1>4. ASSUME NEW p \in Callers, Hangup(p),
             orphans' \subseteq orphans \/ Abandon(p)
      PROVE  Goal
  <2>1. orphans' \subseteq Genuine(db)
    BY <1>1, <1>4 DEF Abandon, Waiting, Calls
  <2> QED BY <1>1, <1>4, <2>1 DEF Hangup
<1>5. ASSUME NEW p \in Callers, NEW q \in Genuine(db), Send(p, q), UNCHANGED orphans
      PROVE  Goal
  BY <1>1, <1>5 DEF Send, Calls
<1>6. ASSUME NEW p \in Callers, Waiting(p), NEW r \in {"ok", "failed"}, Reply(p, r),
             UNCHANGED orphans
      PROVE  Goal
  <2>1. call[p] \in Calls(db)
    BY <1>1, <1>6 DEF Waiting
  <2>2. [call[p] EXCEPT !.reply = r] \in Calls(db)
    BY <2>1 DEF Calls
  <2> QED BY <1>1, <1>6, <2>2 DEF Reply
<1>7. ASSUME NEW m \in Modes, Serves(m), UNCHANGED dashboardVars PROVE Goal
  <2>1. CASE \/ Accept(m) \/ ShakeHands(m) \/ GiveUp(m) \/ ServerRestarts(m)
    BY <1>3, <1>7, <2>1
    DEF Accept, ShakeHands, GiveUp, ServerRestarts, wireVars, dashboardVars
  <2>2. CASE Serve(m)
    <3> DEFINE c == Served(m).conn
    <3>1. Served(m) \in Links(db)
      BY <1>1, <2>2, HeadTailProperties DEF Serve, Served, ServerBusy
    <3>2. c \in Known(db)
      BY <3>1 DEF Links
    <3>3. CASE c.rec
      <4>1. c \in Measured(db)
        BY <3>2, <3>3 DEF Measured
      <4>2. ServerReport(c) \in Genuine(db)
        BY <4>1, ServerReportGenuine
      <4>3. Send(m, ServerReport(c))
        BY <2>2, <3>3 DEF Serve
      <4> HIDE DEF c
      <4> QED BY <1>5, <1>7, <4>2, <4>3 DEF dashboardVars, Callers
    <3>4. CASE ~c.rec
      BY <1>3, <1>7, <2>2, <3>4 DEF Serve, dashboardVars
    <3> QED BY <3>3, <3>4
  <2>3. CASE PostReturns(m)
    BY <1>4, <1>7, <2>3 DEF PostReturns, dashboardVars, Callers
  <2> QED BY <1>7, <2>1, <2>2, <2>3 DEF Serves
<1>8. ASSUME NEW m \in Modes, ServerDies(m), Abandon(m) PROVE Goal
  BY <1>4, <1>8 DEF ServerDies, Callers
<1>9. ASSUME ClientStep, UNCHANGED dashboardVars PROVE Goal
  <2>1. CASE \/ Connect \/ ConnectFails \/ Handshake \/ WriteRequest \/ ProbeFails
             \/ ReadResponse \/ SkipRecord \/ LaunchAgain
    BY <1>3, <1>9, <2>1
    DEF Connect, ConnectFails, Handshake, WriteRequest, ProbeFails, ReadResponse,
        SkipRecord, LaunchAgain, Fail, wireVars, dashboardVars
  <2>2. CASE CreateReturns \/ RecordReturns \/ CompleteReturns
    BY <1>4, <1>9, <2>2
    DEF CreateReturns, RecordReturns, CompleteReturns, dashboardVars, Callers
  <2>3. CASE CreateRunCall
    BY <1>2, <1>5, <1>9, <2>3, RunPostsGenuine DEF CreateRunCall, dashboardVars, Callers
  <2>4. CASE CompleteCall
    BY <1>1, <1>2, <1>5, <1>9, <2>4, RunPostsGenuine
    DEF CompleteCall, Running, Ended, dashboardVars, Callers
  <2>5. CASE RecordProbe
    <3>1. Conn \in Known(db) /\ Conn.rec
      BY <1>1, <2>5, ConnKnown DEF RecordProbe, Running, Ended, Conn
    <3>2. \A slow \in BOOLEAN : ClientReport(slow) \in Genuine(db)
      BY <1>2, <3>1, ClientReportGenuine DEF Measured
    <3> QED BY <1>5, <1>9, <2>5, <3>2 DEF RecordProbe, dashboardVars, Callers
  <2> QED BY <1>9, <2>1, <2>2, <2>3, <2>4, <2>5 DEF ClientStep
<1>10. CASE ClientDies /\ Abandon("client")
  BY <1>4, <1>10 DEF ClientDies, Callers
<1>11. ASSUME NEW p \in Callers, HandleCall(p) \/ CallFails(p) \/ ReplyLost(p)
       PROVE  Goal
  BY <1>6, <1>11 DEF HandleCall, CallFails, ReplyLost, dashboardVars
<1>12. ASSUME NEW q \in orphans, HandleOrphan(q) \/ DropOrphan(q)
       PROVE  Goal
  BY <1>1, <1>12 DEF HandleOrphan, DropOrphan
<1>13. CASE UNCHANGED vars
  BY <1>3, <1>13 DEF vars, wireVars, dashboardVars
<1> QED
  BY <1>7, <1>8, <1>9, <1>10, <1>11, <1>12, <1>13
  DEF Next, ServerNext, ClientNext, DashboardNext, Rest

(* What is asked of the dashboard by a program, or was by one that is dead. *)
Asked == {call[p].req : p \in {x \in Callers : call[x] # Absent}} \cup orphans

(* Every request on its way is genuine.                                    *)
LEMMA AskedGenuine ==
  ASSUME LabInv
  PROVE  Asked \subseteq Genuine(db)
  BY DEF LabInv, Asked, Calls

(* The database changes only by something that was asked for.              *)
LEMMA AskedApplied ==
  ASSUME LabInv, [Next]_vars
  PROVE  db' = db \/ \E q \in Asked : db' = Apply(db, q)
<1>1. ASSUME NEW p \in Callers, HandleCall(p) \/ CallFails(p) \/ ReplyLost(p)
      PROVE  db' = db \/ \E q \in Asked : db' = Apply(db, q)
  <2>1. call[p].req \in Asked
    BY <1>1 DEF HandleCall, CallFails, ReplyLost, Waiting, Asked
  <2> QED
    BY <1>1, <2>1 DEF HandleCall, CallFails, ReplyLost, Handled, dashboardVars
<1>2. ASSUME NEW q \in orphans, HandleOrphan(q) \/ DropOrphan(q)
      PROVE  db' = db \/ \E x \in Asked : db' = Apply(db, x)
  BY <1>2 DEF HandleOrphan, DropOrphan, Handled, Asked
<1> QED
  BY <1>1, <1>2
  DEF Next, ServerNext, ClientNext, DashboardNext, Rest, vars, dashboardVars

(* No run of the database loses its announcement, and what was genuine     *)
(* before the step still is.                                               *)
LEMMA AnnouncedStep ==
  ASSUME LabInv, [Next]_vars
  PROVE  /\ \A r \in Runs : Announced(db, r) => Announced(db', r)
         /\ db' \in Database
         /\ RowsGenuine'
<1>1. db \in Database /\ \A s \in Rows(db) : GenuineRow(db, s)
  BY DEF LabInv, RowsGenuine
<1>2. CASE db' = db
  BY <1>1, <1>2 DEF RowsGenuine
<1>3. ASSUME NEW q \in Asked, db' = Apply(db, q)
      PROVE  /\ \A r \in Runs : Announced(db, r) => Announced(db', r)
             /\ db' \in Database
             /\ RowsGenuine'
  <2>1. q \in Post /\ q \in Genuine(db)
    BY AskedGenuine DEF Genuine
  <2>2. \A s \in Rows(db') : GenuineRow(db', s)
    BY <1>1, <1>3, <2>1, ApplyGenuine
  <2> QED BY <1>1, <1>3, <2>1, <2>2, AnnouncedStays, ApplyRows DEF RowsGenuine
<1> QED BY <1>2, <1>3, AskedApplied

(* The loops of main() stay in their bounds.                               *)
LEMMA LoopsStep ==
  ASSUME LabInv, [Next]_vars
  PROVE  ClientTypeOK' /\ FailuresBounded' /\ RecordsMeasured'
<1> DEFINE Goal == ClientTypeOK' /\ FailuresBounded' /\ RecordsMeasured'
<1>1. ClientTypeOK /\ FailuresBounded /\ RecordsMeasured
  BY DEF LabInv
<1>2. Warmup \in Nat /\ Iterations \in Nat \ {0} /\ Launches \in Nat \ {0}
  BY ClientAssumption, WireAssumption
<1>3. CASE UNCHANGED clientVars
  BY <1>1, <1>3 DEF clientVars, ClientTypeOK, FailuresBounded, RecordsMeasured, Running
<1>4. ASSUME UNCHANGED <<launch, rec, index, g, failures>>,
             ok' = ok \/ ok' = TRUE \/ ok' = FALSE, pc' \in ClientLabels,
             pc' = "recording" => rec,
             \/ pc \notin {"complete", "completing"} \cup Ended
             \/ pc' \in {"complete", "completing"} \cup Ended
      PROVE  Goal
  BY <1>1, <1>4 DEF ClientTypeOK, FailuresBounded, RecordsMeasured
<1>5. CASE CreateRunCall \/ CreateReturns \/ Connect \/ Handshake \/ WriteRequest
  BY <1>4, <1>5
  DEF CreateRunCall, CreateReturns, Connect, Handshake, WriteRequest, ClientLabels, Ended
<1>6. CASE \/ ConnectFails \/ ProbeFails \/ ReadResponse \/ RecordProbe \/ CompleteCall
           \/ CompleteReturns \/ ClientDies
  BY <1>4, <1>6
  DEF ConnectFails, ProbeFails, Fail, ReadResponse, RecordProbe, CompleteCall,
      CompleteReturns, ClientDies, ClientLabels, Ended
<1>11. CASE LaunchAgain
  <2>1. /\ launch' = launch + 1 /\ launch < Launches /\ pc' = "create"
        /\ rec' = (Warmup = 0) /\ index' = 1 /\ g' = 0 /\ ok' = FALSE /\ failures' = 0
    BY <1>11 DEF LaunchAgain
  <2>2. /\ launch' \in 1..Launches /\ g' \in 0..2 /\ failures' \in 0..3 * Iterations
        /\ index' \in 1..Iterations /\ index' \in 1..(Warmup + 1)
        /\ failures' <= 3 * (index' - 1) + g' /\ failures' <= 0
    BY <1>1, <1>2, <2>1 DEF ClientTypeOK
  <2>3. rec' \in BOOLEAN /\ ok' \in BOOLEAN /\ pc' \in ClientLabels /\ pc' # "recording"
    BY <2>1 DEF ClientLabels
  <2> QED
    BY <2>2, <2>3, Zenon DEF ClientTypeOK, FailuresBounded, RecordsMeasured
<1>7. ASSUME Advance, UNCHANGED <<launch, ok>>, pc \in {"finished", "recording"},
             \/ failures' = failures
             \/ rec /\ failures' = failures + 1
      PROVE  Goal
  <2>1. /\ launch \in 1..Launches /\ rec \in BOOLEAN /\ ok \in BOOLEAN
        /\ g \in 0..2 /\ index \in Nat \ {0} /\ failures \in Nat
        /\ rec => index <= Iterations
        /\ ~rec => index <= Warmup + 1
        /\ rec => failures <= 3 * (index - 1) + g
        /\ ~rec => failures = 0
    BY <1>1, <1>2, <1>7 DEF ClientTypeOK, FailuresBounded, Ended
  <2>2. /\ launch' \in 1..Launches /\ ok' \in BOOLEAN /\ pc' \in ClientLabels
        /\ pc' # "recording"
    BY <1>7, <2>1 DEF Advance, ClientLabels
  <2>3. ASSUME rec' \in BOOLEAN, g' \in 0..2, failures' \in 0..3 * Iterations,
               rec' => index' \in 1..Iterations,
               ~rec' => index' \in 1..(Warmup + 1),
               \/ pc' = "complete"
               \/ /\ rec' => failures' <= 3 * (index' - 1) + g'
                  /\ ~rec' => failures' <= 0
        PROVE  Goal
    <3>1. ClientTypeOK'
      BY <2>2, <2>3 DEF ClientTypeOK
    <3>2. FailuresBounded'
      BY <2>3 DEF FailuresBounded
    <3> QED BY <2>2, <3>1, <3>2 DEF RecordsMeasured
  <2>4. \/ g < 2 /\ g' = g + 1 /\ index' = index /\ rec' = rec
        \/ ~(g < 2) /\ ~rec /\ index < Warmup
             /\ g' = 0 /\ index' = index + 1 /\ rec' = rec
        \/ ~(g < 2) /\ ~rec /\ g' = 0 /\ index' = 1 /\ rec' = TRUE
        \/ ~(g < 2) /\ rec /\ index < Iterations
             /\ g' = 0 /\ index' = index + 1 /\ rec' = rec
        \/ ~(g < 2) /\ rec /\ index = Iterations
             /\ g' = 0 /\ index' = index /\ rec' = rec /\ pc' = "complete"
    BY <1>7, Zenon DEF Advance
  <2>5. CASE rec
    <3>1. /\ index \in 1..Iterations /\ failures' \in Nat
          /\ failures' <= 3 * (index - 1) + g + 1
      BY <1>2, <1>7, <2>1, <2>5
    <3>2. CASE g < 2 /\ g' = g + 1 /\ index' = index /\ rec' = rec
      <4>1. /\ g' \in 0..2 /\ failures' <= 3 * (index' - 1) + g'
            /\ failures' \in 0..3 * Iterations
        BY <1>2, <2>1, <3>1, <3>2
      <4> QED BY <2>1, <2>3, <2>5, <3>1, <3>2, <4>1, Zenon
    <3>3. CASE ~(g < 2) /\ index < Iterations
               /\ g' = 0 /\ index' = index + 1 /\ rec' = rec
      <4>1. /\ g' \in 0..2 /\ failures' <= 3 * (index' - 1) + g'
            /\ failures' \in 0..3 * Iterations /\ index' \in 1..Iterations
        BY <1>2, <2>1, <3>1, <3>3
      <4> QED BY <2>1, <2>3, <2>5, <3>3, <4>1, Zenon
    <3>4. CASE ~(g < 2) /\ index = Iterations
               /\ g' = 0 /\ index' = index /\ rec' = rec /\ pc' = "complete"
      <4>1. g' \in 0..2 /\ failures' \in 0..3 * Iterations
        BY <1>2, <2>1, <3>1, <3>4
      <4> QED BY <2>1, <2>3, <2>5, <3>1, <3>4, <4>1, Zenon
    <3> QED BY <2>4, <2>5, <3>2, <3>3, <3>4, Zenon
  <2>6. CASE ~rec
    <3>1. failures' = 0 /\ failures' \in 0..3 * Iterations
      BY <1>2, <1>7, <2>1, <2>6
    <3>2. CASE g < 2 /\ g' = g + 1 /\ index' = index /\ rec' = rec
      <4>1. g' \in 0..2 /\ index' \in 1..(Warmup + 1) /\ failures' <= 0
        BY <1>2, <2>1, <2>6, <3>1, <3>2
      <4> QED BY <2>1, <2>3, <2>6, <3>1, <3>2, <4>1, Zenon
    <3>3. CASE index < Warmup /\ g' = 0 /\ index' = index + 1 /\ rec' = rec
      <4>1. g' \in 0..2 /\ index' \in 1..(Warmup + 1) /\ failures' <= 0
        BY <1>2, <2>1, <3>1, <3>3
      <4> QED BY <2>1, <2>3, <2>6, <3>1, <3>3, <4>1, Zenon
    <3>4. CASE g' = 0 /\ index' = 1 /\ rec' = TRUE
      <4>1. /\ g' \in 0..2 /\ index' \in 1..Iterations
            /\ failures' <= 3 * (index' - 1) + g'
        BY <1>2, <3>1, <3>4
      <4> QED BY <2>3, <3>1, <3>4, <4>1, Zenon
    <3> QED BY <2>4, <2>6, <3>2, <3>3, <3>4, Zenon
  <2> QED BY <2>5, <2>6
<1>8. CASE SkipRecord
  BY <1>7, <1>8 DEF SkipRecord
<1>9. CASE RecordReturns
  BY <1>1, <1>7, <1>9 DEF RecordReturns, RecordsMeasured
<1>10. CASE DashboardNext \/ UNCHANGED vars
  BY <1>3, <1>10
  DEF DashboardNext, HandleCall, CallFails, ReplyLost, HandleOrphan, DropOrphan,
      Elsewhere, vars
<1> QED
  BY <1>3, <1>5, <1>6, <1>8, <1>9, <1>10, <1>11
  DEF Next, ServerNext, ClientNext, ClientStep, Rest

(* Places, counters and flags of the servers and the wire.                 *)
LEMMA ServersStep ==
  ASSUME LabInv, [Next]_vars
  PROVE  ServerTypeOK' /\ (up \subseteq Modes)' /\ (inbox \in BOOLEAN)'
         /\ (faults \in 0..MaxFaults)'
<1> DEFINE Goal == /\ ServerTypeOK' /\ (up \subseteq Modes)' /\ (inbox \in BOOLEAN)'
                   /\ (faults \in 0..MaxFaults)'
<1>1. /\ at \in [Modes -> ServerLabels] /\ up \subseteq Modes /\ inbox \in BOOLEAN
      /\ faults \in 0..MaxFaults /\ MaxFaults \in Nat
      /\ backlog \in [Modes -> Seq(Links(db))] /\ ServerBusy
  BY WireAssumption DEF LabInv, ServerTypeOK
<1>2. ASSUME UNCHANGED <<at, up>>, inbox' = inbox \/ inbox' = FALSE,
             \/ UNCHANGED faults
             \/ \E k \in FaultKinds : Fault(k)
      PROVE  Goal
  <2>1. faults' \in 0..MaxFaults
    BY <1>1, <1>2 DEF Fault
  <2> QED BY <1>1, <1>2, <2>1 DEF ServerTypeOK
<1>3. ASSUME NEW m \in Modes, Serves(m) PROVE Goal
  <2>1. CASE \/ Accept(m) \/ ShakeHands(m) \/ GiveUp(m) \/ PostReturns(m)
             \/ ServerRestarts(m)
    BY <1>1, <2>1
    DEF Accept, ShakeHands, GiveUp, PostReturns, ServerRestarts, Goto, ServerTypeOK,
        ServerLabels, wireVars
  <2>2. CASE Serve(m)
    BY <1>1, <2>2 DEF Serve, Goto, ServerTypeOK, ServerLabels
  <2> QED BY <1>3, <2>1, <2>2 DEF Serves
<1>4. ASSUME NEW m \in Modes, ServerDies(m) PROVE Goal
  BY <1>1, <1>4 DEF ServerDies, Goto, Fault, ServerTypeOK, ServerLabels
<1>5. ASSUME ClientStep, UNCHANGED at PROVE Goal
  <2>1. CASE \/ CreateRunCall \/ CreateReturns \/ Connect \/ Handshake
             \/ WriteRequest \/ ReadResponse \/ SkipRecord \/ RecordReturns
             \/ CompleteCall \/ CompleteReturns \/ LaunchAgain
    BY <1>2, <1>5, <2>1
    DEF CreateRunCall, CreateReturns, Connect, Handshake, WriteRequest, ReadResponse,
        SkipRecord, RecordReturns, CompleteCall, CompleteReturns, LaunchAgain, wireVars
  <2>2. CASE ConnectFails \/ ProbeFails \/ RecordProbe
    BY <1>2, <1>5, <2>2 DEF ConnectFails, ProbeFails, RecordProbe, Fail, FaultKinds
  <2> QED BY <1>5, <2>1, <2>2 DEF ClientStep
<1>6. CASE ClientDies /\ UNCHANGED at
  BY <1>2, <1>6 DEF ClientDies, FaultKinds
<1>7. CASE DashboardNext
  BY <1>2, <1>7
  DEF DashboardNext, HandleCall, CallFails, ReplyLost, HandleOrphan, DropOrphan,
      Elsewhere, FaultKinds
<1>8. CASE UNCHANGED vars
  BY <1>2, <1>8 DEF vars, wireVars
<1> QED
  BY <1>3, <1>4, <1>5, <1>6, <1>7, <1>8 DEF Next, ServerNext, ClientNext, Rest

(* The client goes on only with a run that the dashboard has announced:    *)
(* its answer "ok" to create_run is the proof.                             *)
LEMMA CreateStep ==
  ASSUME LabInv, [Next]_vars
  PROVE  (Running => Announced(db, RunId))' /\ CreateAsked'
<1> DEFINE Goal == (Running => Announced(db, RunId))' /\ CreateAsked'
<1>1. /\ Running => Announced(db, RunId)
      /\ CreateAsked /\ RunId \in Runs /\ db \in Database
      /\ call \in [Callers -> Calls(db) \cup {Absent}]
      /\ \A r \in Runs : Announced(db, r) => Announced(db', r)
  BY AnnouncedStep, WireAssumption DEF LabInv, RunId, ClientTypeOK
<1>2. ASSUME UNCHANGED <<pc, launch, call>> PROVE Goal
  BY <1>1, <1>2 DEF Running, CreateAsked, RunId
<1>3. ASSUME UNCHANGED launch, pc' = pc \/ Running, pc' # "creating" PROVE Goal
  BY <1>1, <1>3 DEF Running, CreateAsked, RunId
<1>4. ASSUME pc' \in {"create"} \cup Ended PROVE Goal
  BY <1>4 DEF Running, CreateAsked, Ended
<1>5. ASSUME NEW m \in Modes, UNCHANGED clientVars,
             call'["client"] = call["client"] PROVE Goal
  BY <1>1, <1>5 DEF Running, CreateAsked, RunId, clientVars
<1>6. ASSUME NEW m \in Modes, Serves(m), UNCHANGED clientVars PROVE Goal
  <2>1. call'["client"] = call["client"]
    BY <1>1, <1>6, ClientIsNoServer
    DEF Serves, Accept, ShakeHands, GiveUp, Serve, PostReturns, ServerRestarts,
        Send, Hangup, Callers, wireVars
  <2> QED BY <1>5, <1>6, <2>1
<1>7. ASSUME NEW m \in Modes, ServerDies(m), UNCHANGED clientVars PROVE Goal
  <2>1. call'["client"] = call["client"]
    BY <1>1, <1>7, ClientIsNoServer DEF ServerDies, Hangup, Callers
  <2> QED BY <1>5, <1>7, <2>1
<1>8. CASE CreateRunCall
  BY <1>1, <1>8 DEF CreateRunCall, Send, Running, CreateAsked, RunId, Callers
<1>9. CASE CreateReturns
  BY <1>1, <1>9 DEF CreateReturns, Answered, Running, CreateAsked, RunId, Ended
<1>10. CASE \/ Connect \/ ConnectFails \/ Handshake \/ WriteRequest \/ ProbeFails
            \/ ReadResponse \/ RecordProbe \/ CompleteCall
  BY <1>3, <1>10
  DEF Connect, ConnectFails, Handshake, WriteRequest, ProbeFails, Fail, ReadResponse,
      RecordProbe, CompleteCall, Running, Ended
<1>11. CASE SkipRecord \/ RecordReturns
  <2>1. UNCHANGED launch /\ Running
    BY <1>11 DEF SkipRecord, RecordReturns, Running, Ended
  <2>2. Advance
    BY <1>11 DEF SkipRecord, RecordReturns
  <2>3. pc' # "creating"
    BY <2>2 DEF Advance
  <2> QED BY <1>3, <2>1, <2>3
<1>12. CASE LaunchAgain \/ CompleteReturns \/ ClientDies
  BY <1>4, <1>12 DEF LaunchAgain, CompleteReturns, ClientDies, Ended
<1>13. ASSUME NEW p \in Callers, HandleCall(p) \/ CallFails(p) \/ ReplyLost(p)
       PROVE  Goal
  <2>1. UNCHANGED <<pc, launch>> /\ RunId' = RunId
    BY <1>13 DEF HandleCall, CallFails, ReplyLost, Elsewhere, clientVars, RunId
  <2>2. (Running => Announced(db, RunId))'
    BY <1>1, <2>1 DEF Running
  <2>3. CASE p # "client"
    <3>1. call'["client"] = call["client"]
      BY <1>1, <1>13, <2>3 DEF HandleCall, CallFails, ReplyLost, Reply, Callers
    <3> QED BY <1>1, <2>1, <2>2, <3>1 DEF CreateAsked
  <2>4. ASSUME p = "client", pc = "creating" PROVE CreateAsked'
    <3> DEFINE q == [kind |-> "run", run |-> RunId, inRange |-> TRUE]
    <3>1. /\ Waiting(p) /\ call[p].req = q /\ call[p] \in Calls(db)
      BY <1>1, <1>13, <2>4
      DEF HandleCall, CallFails, ReplyLost, Waiting, CreateAsked
    <3>2. q \in Post /\ Accepted(q) /\ q.kind = "run" /\ q.run = RunId
      BY <1>1 DEF Post, RunPost, Accepted, Valid, ModeCheck, IsMeasurement
    <3>3. Announced(Apply(db, q), RunId)
      BY <1>1, <3>2, ApplyRuns DEF Announced
    <3> HIDE DEF q
    <3>4. \E r \in {"ok", "failed"} :
             /\ call' = [call EXCEPT ![p].reply = r]
             /\ r = "ok" => HandleCall(p)
      BY <1>13 DEF HandleCall, CallFails, ReplyLost, Reply
    <3>5. call'[p].req = q /\ (call'[p].reply = "ok" => HandleCall(p))
      BY <1>1, <3>1, <3>4 DEF Calls
    <3>6. HandleCall(p) => db' = Apply(db, q)
      BY <3>1, <3>2 DEF HandleCall, Handled
    <3> QED BY <2>1, <2>4, <3>3, <3>5, <3>6 DEF CreateAsked, q
  <2>5. CASE pc # "creating"
    BY <2>1, <2>2, <2>5 DEF CreateAsked
  <2> QED BY <2>2, <2>3, <2>4, <2>5
<1>14. ASSUME NEW q \in orphans, HandleOrphan(q) \/ DropOrphan(q) PROVE Goal
  BY <1>2, <1>14 DEF HandleOrphan, DropOrphan, Elsewhere, clientVars
<1>15. CASE UNCHANGED vars
  BY <1>2, <1>15 DEF vars, wireVars, clientVars
<1> QED
  BY <1>6, <1>7, <1>8, <1>9, <1>10, <1>11, <1>12, <1>13, <1>14, <1>15
  DEF Next, ServerNext, ClientNext, ClientStep, DashboardNext, Rest

-----------------------------------------------------------------------------
(* The invariant.                                                          *)
LEMMA InitLabInv == Init => LabInv
<1> SUFFICES ASSUME Init PROVE LabInv
  OBVIOUS
<1>1. /\ ClientTypeOK /\ FailuresBounded /\ RecordsMeasured /\ ~Running /\ CreateAsked
  <2>1. /\ pc = "create" /\ launch = 1 /\ g = 0 /\ ok = FALSE
        /\ failures = 0 /\ index = 1 /\ rec = (Warmup = 0)
    BY DEF Init, ClientInit
  <2>2. /\ launch \in 1..Launches /\ g \in 0..2 /\ failures \in 0..3 * Iterations
        /\ index \in 1..Iterations /\ index \in 1..(Warmup + 1)
        /\ failures <= 3 * (index - 1) + g /\ failures <= 0
    BY <2>1, ClientAssumption, WireAssumption
  <2>3. rec \in BOOLEAN /\ ok \in BOOLEAN /\ pc \in ClientLabels
    BY <2>1 DEF ClientLabels
  <2>4. ClientTypeOK /\ FailuresBounded
    BY <2>2, <2>3, Zenon DEF ClientTypeOK, FailuresBounded
  <2> QED BY <2>1, <2>4 DEF RecordsMeasured, Running, CreateAsked
<1>2. ServerTypeOK /\ ServerBusy
  BY DEF Init, ServerInit, ServerTypeOK, ServerBusy, ServerLabels
<1>3. up \subseteq Modes /\ inbox \in BOOLEAN /\ faults \in 0..MaxFaults
  <2>1. up = Modes /\ inbox = FALSE /\ faults = 0 /\ MaxFaults \in Nat
    BY WireAssumption DEF Init, WireInit
  <2>2. faults \in 0..MaxFaults
    BY <2>1
  <2> QED BY <2>1, <2>2
<1>6. /\ call \in [Callers -> Calls(db) \cup {Absent}]
      /\ orphans \subseteq Genuine(db)
  BY DEF Init, WireInit
<1>4. backlog \in [Modes -> Seq(Links(db))]
  BY EmptySeq DEF Init, WireInit
<1>5. db \in Database /\ RowsGenuine
  BY DEF Init, EmptyDatabase, Database, RowsGenuine, Rows
<1> QED BY <1>1, <1>2, <1>3, <1>4, <1>5, <1>6 DEF LabInv

(* LabInv is inductive.                                                    *)
LEMMA StepLabInv == LabInv /\ [Next]_vars => LabInv'
<1> SUFFICES ASSUME LabInv, [Next]_vars PROVE LabInv'
  OBVIOUS
<1>1. /\ \A r \in Runs : Announced(db, r) => Announced(db', r)
      /\ db' \in Database /\ RowsGenuine'
  BY AnnouncedStep
<1>2. /\ Links(db) \subseteq Links(db') /\ Genuine(db) \subseteq Genuine(db')
      /\ Calls(db) \subseteq Calls(db')
  BY <1>1, KnownGrows
<1>3. backlog' \in [Modes -> Seq(Links(db'))] /\ ServerBusy'
  <2>1. backlog' \in [Modes -> Seq(Links(db))] /\ ServerBusy'
    BY BacklogStep
  <2>2. \A b \in Seq(Links(db)) : b \in Seq(Links(db'))
    BY <1>2, SeqMonotonic
  <2> QED BY <2>1, <2>2
<1>4. /\ call' \in [Callers -> Calls(db') \cup {Absent}]
      /\ orphans' \subseteq Genuine(db')
  BY <1>2, CallsStep
<1> QED
  BY <1>1, <1>3, <1>4, LoopsStep, ServersStep, CreateStep DEF LabInv

(* LabInv holds in every state of the lab: the types of all programs, the  *)
(* genuineness of every row and report, and what the labels of the         *)
(* servers and of the client say of the network.                           *)
THEOREM LabInvariance == Spec => []LabInv
  BY InitLabInv, StepLabInv, PTL DEF Spec

(* Every part of the state keeps to its type: in particular the client's   *)
(* loops never leave the array of endpoints, and no report carries a       *)
(* sample, a run or a connection that does not exist.                      *)
THEOREM LabTypeCorrect == Spec => []TypeOK
<1>1. LabInv => TypeOK
  <2> SUFFICES ASSUME LabInv PROVE TypeOK
    OBVIOUS
  <2>1. Known(db) \subseteq Conns
    <3> SUFFICES ASSUME NEW c \in Known(db) PROVE c \in Conns
      OBVIOUS
    <3>1. /\ c.launch \in 1..Launches /\ c.mode \in Modes
          /\ c.seq \in 1..(Warmup + Iterations) /\ c.rec \in BOOLEAN
          /\ c = [launch |-> c.launch, mode |-> c.mode, seq |-> c.seq, rec |-> c.rec]
      BY DEF Known
    <3> QED BY <3>1, LabAssumption
  <2>2. Links(db) \subseteq Link
    BY <2>1 DEF Links, Link
  <2>3. backlog \in [Modes -> Seq(Link)]
    <3>1. \A b \in Seq(Links(db)) : b \in Seq(Link)
      BY <2>2, SeqMonotonic
    <3> QED BY <3>1 DEF LabInv
  <2>4. Genuine(db) \subseteq Post /\ Calls(db) \subseteq Call
    BY DEF Genuine, Calls, Call
  <2> QED BY <2>3, <2>4 DEF LabInv, TypeOK, WireTypeOK
<1> QED BY <1>1, LabInvariance, PTL

(* A warmup leaves no trace in the database: probe() posts nothing for it, *)
(* and a server only what carries record=1.                                *)
THEOREM WarmupsLeaveNoTrace == Spec => []WarmupsUnrecorded
<1>1. LabInv => WarmupsUnrecorded
  BY DEF LabInv, RowsGenuine, GenuineRow, WarmupsUnrecorded, Measured
<1> QED BY <1>1, LabInvariance, PTL

(* Rows exist only for runs that the client has announced: it aborts when  *)
(* create_run() is not answered 200 or 201.                                *)
THEOREM OnlyAnnouncedRuns == Spec => []RunsAnnounced
<1>1. LabInv => RunsAnnounced
  BY DEF LabInv, RowsGenuine, GenuineRow, RunsAnnounced, Announced
<1> QED BY <1>1, LabInvariance, PTL

-----------------------------------------------------------------------------
(* The dashboard of Lab handles a call in one step.  What it writes is     *)
(* what Ledger promises, whoever has asked for it and whoever is gone      *)
(* since: with the theorem about Repository, the two dashboards make the   *)
(* same promise.                                                           *)
LEMMA OptimisticStep ==
  ASSUME LabInv, SuccessUntilClient, [Next]_vars
  PROVE  SuccessUntilClient'
<1>1. CASE db' = db
  BY <1>1 DEF SuccessUntilClient, Rows
<1>2. ASSUME NEW q \in Asked, db' = Apply(db, q) PROVE SuccessUntilClient'
  <2>1. q \in Post /\ db \in Database
    BY AskedGenuine DEF Genuine, LabInv
  <2>2. \A s \in Rows(db') : db'.rows[s].client = Absent => db'.rows[s].success
    BY <1>2, <2>1, ApplyOptimistic DEF SuccessUntilClient
  <2> QED BY <2>2 DEF SuccessUntilClient, Rows
<1> QED BY <1>1, <1>2, AskedApplied

(* Every call that is handled, every orphan and every call whose answer is *)
(* lost is one step of the ledger; everything else the lab does, a dying   *)
(* process included, is none.                                              *)
THEOREM LabRefinement == Spec => ImplementsLedger
<1> DEFINE Inv == LabInv /\ SuccessUntilClient
<1>1. Init => Inv /\ L!Init
  <2>1. Init => db = EmptyDatabase
    BY DEF Init
  <2>2. Init => SuccessUntilClient
    BY <2>1 DEF SuccessUntilClient, Rows, EmptyDatabase
  <2>3. Init => L!Init
    BY <2>1, EmptyMapped
  <2> QED BY <2>2, <2>3, InitLabInv
<1>2. Inv /\ [Next]_vars => Inv'
  BY StepLabInv, OptimisticStep
<1>3. Inv /\ [Next]_vars => [L!Next]_L!vars
  <2> SUFFICES ASSUME LabInv, SuccessUntilClient, [Next]_vars PROVE [L!Next]_L!vars
    OBVIOUS
  <2>1. CASE db' = db
    BY <2>1, StutterMapped
  <2>2. ASSUME NEW q \in Asked, db' = Apply(db, q) PROVE L!Next
    <3>1. q \in Post /\ db \in Database
      BY AskedGenuine DEF Genuine, LabInv
    <3> QED BY <2>2, <3>1, RequestMapped
  <2> QED BY <2>1, <2>2, AskedApplied
<1> QED BY <1>1, <1>2, <1>3, PTL DEF Spec, ImplementsLedger, L!Spec

-----------------------------------------------------------------------------
(* The remaining two theorems need what default_run_id() is meant to give: *)
(* every launch has a run id of its own.                                   *)
DistinctRunIds ==
  \A i, j \in 1..Launches : RunIdOf[i] = RunIdOf[j] => i = j

(* The two halves of a row were measured on one connection, whatever is    *)
(* lost, late or restarted: a shared run id is the only way to mix them.   *)
THEOREM HalvesBelongTogether ==
  ASSUME DistinctRunIds
  PROVE  Spec => []PairedHalves
<1>1. LabInv => PairedHalves
  <2> SUFFICES ASSUME LabInv, NEW s \in Rows(db),
                      db.rows[s].server # Absent, db.rows[s].client # Absent
               PROVE  db.rows[s].server = db.rows[s].client.conn
    BY DEF PairedHalves
  <2>1. /\ db.rows[s].server \in Measured(db)
        /\ db.rows[s].client.conn \in Measured(db)
        /\ SampleId(db.rows[s].server) = SampleId(db.rows[s].client.conn)
    BY DEF LabInv, RowsGenuine, GenuineRow
  <2> QED BY <2>1, SampleIdsJoin DEF DistinctRunIds
<1> QED BY <1>1, LabInvariance, PTL

-----------------------------------------------------------------------------
(* Why a completed run has final client halves: what each program can have *)
(* asked for, and that nothing about a run is asked for by the client once *)
(* its completion is.                                                      *)
PostedInv ==
  /\ \A m \in Modes : call[m] # Absent => call[m].req.kind = "server"
  /\ call["client"] # Absent =>
       /\ pc \in {"creating", "recording", "completing"}
       /\ pc = "creating" => call["client"].req.kind = "run"
       /\ pc = "completing" => call["client"].req.kind = "complete"
       /\ pc = "recording" => /\ call["client"].req.kind = "client"
                              /\ call["client"].req.half.conn.launch = launch
  /\ \A q \in orphans :
       q.kind = "client" =>
         \/ q.half.conn.launch < launch
         \/ q.half.conn.launch = launch /\ pc = "killed"

Completed(r) == db.runs[r] # Absent /\ db.runs[r].completed

Closed(r) ==
  Completed(r) \/ \E q \in Asked : q.kind = "complete" /\ q.run = r

ClosedInv ==
  \A r \in Runs : Closed(r) =>
    /\ \A q \in Asked : q.kind = "client" => q.run # r
    /\ \E l \in 1..launch :
         RunIdOf[l] = r /\ (l = launch => pc \in {"completing"} \cup Ended)

(* A step asks for at most one thing more, and what a dying program has    *)
(* asked for stays asked for.                                              *)
NewRequest(q) ==
  \/ q.kind = "server" /\ UNCHANGED clientVars
  \/ q = [kind |-> "run", run |-> RunId, inRange |-> TRUE] /\ CreateRunCall
  \/ q = [kind |-> "complete", run |-> RunId] /\ CompleteCall
  \/ (\E slow \in BOOLEAN : q = ClientReport(slow)) /\ RecordProbe

(* A step adds at most one request to those on their way, sent by the      *)
(* program whose code says so.                                             *)
LEMMA AskedStep ==
  ASSUME LabInv, [Next]_vars
  PROVE  \/ Asked' \subseteq Asked
         \/ \E q : Asked' \subseteq Asked \cup {q} /\ NewRequest(q)
<1> DEFINE Goal == \/ Asked' \subseteq Asked
                   \/ \E q : Asked' \subseteq Asked \cup {q} /\ NewRequest(q)
<1>1. call \in [Callers -> Calls(db) \cup {Absent}]
  BY DEF LabInv
<1>2. ASSUME UNCHANGED <<call, orphans>> PROVE Goal
  BY <1>2 DEF Asked
<1>3. ASSUME NEW p \in Callers, Hangup(p), orphans' \subseteq orphans \/ Abandon(p)
      PROVE  Goal
  BY <1>1, <1>3 DEF Hangup, Abandon, Waiting, Asked
<1>4. ASSUME NEW p \in Callers, NEW q, Send(p, q), UNCHANGED orphans, NewRequest(q)
      PROVE  Goal
  <2>1. Asked' \subseteq Asked \cup {q}
    BY <1>1, <1>4 DEF Send, Asked
  <2> QED BY <1>4, <2>1
<1>5. ASSUME NEW p \in Callers, Waiting(p), NEW r, Reply(p, r), UNCHANGED orphans
      PROVE  Goal
  <2>1. \A x \in Callers : call'[x] # Absent =>
          call[x] # Absent /\ call'[x].req = call[x].req
    BY <1>1, <1>5 DEF Waiting, Reply, Calls
  <2> QED BY <1>5, <2>1 DEF Asked
<1>6. ASSUME NEW q \in orphans, UNCHANGED call, orphans' = orphans \ {q}
      PROVE  Goal
  BY <1>6 DEF Asked
<1> HIDE DEF Goal
<1>7. ASSUME NEW m \in Modes, Serves(m), UNCHANGED <<clientVars, dashboardVars>> PROVE Goal
  <2>1. CASE \/ Accept(m) \/ ShakeHands(m) \/ GiveUp(m) \/ ServerRestarts(m)
    BY <1>2, <1>7, <2>1
    DEF Accept, ShakeHands, GiveUp, ServerRestarts, wireVars, dashboardVars
  <2>2. CASE Serve(m)
    <3> DEFINE q == ServerReport(Served(m).conn)
    <3>1. \/ Send(m, q) \/ UNCHANGED call
      BY <2>2 DEF Serve
    <3>2. NewRequest(q)
      BY <1>7 DEF ServerReport, NewRequest
    <3> HIDE DEF q
    <3> QED BY <1>2, <1>4, <1>7, <3>1, <3>2 DEF dashboardVars, Callers
  <2>3. CASE PostReturns(m)
    BY <1>3, <1>7, <2>3 DEF PostReturns, dashboardVars, Callers
  <2> QED BY <1>7, <2>1, <2>2, <2>3 DEF Serves
<1>8. ASSUME NEW m \in Modes, ServerDies(m), Abandon(m) PROVE Goal
  BY <1>3, <1>8 DEF ServerDies, Callers
<1>9. ASSUME ClientStep, UNCHANGED dashboardVars PROVE Goal
  <2>1. CASE \/ Connect \/ ConnectFails \/ Handshake \/ WriteRequest \/ ProbeFails
             \/ ReadResponse \/ SkipRecord \/ LaunchAgain
    BY <1>2, <1>9, <2>1
    DEF Connect, ConnectFails, Handshake, WriteRequest, ProbeFails, ReadResponse,
        SkipRecord, LaunchAgain, Fail, wireVars, dashboardVars
  <2>2. CASE CreateReturns \/ RecordReturns \/ CompleteReturns
    BY <1>3, <1>9, <2>2
    DEF CreateReturns, RecordReturns, CompleteReturns, dashboardVars, Callers
  <2>3. CASE CreateRunCall
    <3> DEFINE q == [kind |-> "run", run |-> RunId, inRange |-> TRUE]
    <3>1. Send("client", q) /\ NewRequest(q)
      BY <2>3 DEF CreateRunCall, NewRequest
    <3> HIDE DEF q
    <3> QED BY <1>4, <1>9, <3>1 DEF dashboardVars, Callers
  <2>4. CASE CompleteCall
    <3> DEFINE q == [kind |-> "complete", run |-> RunId]
    <3>1. Send("client", q) /\ NewRequest(q)
      BY <2>4 DEF CompleteCall, NewRequest
    <3> HIDE DEF q
    <3> QED BY <1>4, <1>9, <3>1 DEF dashboardVars, Callers
  <2>5. CASE RecordProbe
    <3>1. PICK slow \in BOOLEAN : Send("client", ClientReport(slow))
      BY <2>5 DEF RecordProbe
    <3> DEFINE q == ClientReport(slow)
    <3>2. Send("client", q) /\ NewRequest(q)
      BY <2>5, <3>1 DEF NewRequest
    <3> HIDE DEF q
    <3> QED BY <1>4, <1>9, <3>2 DEF dashboardVars, Callers
  <2> QED BY <1>9, <2>1, <2>2, <2>3, <2>4, <2>5 DEF ClientStep
<1>10. ASSUME ClientDies, Abandon("client") PROVE Goal
  BY <1>3, <1>10 DEF ClientDies, Callers
<1>11. ASSUME NEW p \in Callers, HandleCall(p) \/ CallFails(p) \/ ReplyLost(p)
       PROVE  Goal
  BY <1>5, <1>11 DEF HandleCall, CallFails, ReplyLost, dashboardVars
<1>12. ASSUME NEW q \in orphans, HandleOrphan(q) \/ DropOrphan(q)
       PROVE  Goal
  BY <1>6, <1>12 DEF HandleOrphan, DropOrphan
<1>13. ASSUME UNCHANGED vars PROVE Goal
  BY <1>2, <1>13 DEF vars, wireVars, dashboardVars
<1>14. Goal
  BY <1>7, <1>8, <1>9, <1>10, <1>11, <1>12, <1>13
  DEF Next, ServerNext, ClientNext, DashboardNext, Rest
<1> QED BY <1>14 DEF Goal

(* PostedInv is inductive beside LabInv.                                   *)
LEMMA PostedStep ==
  ASSUME LabInv, PostedInv, [Next]_vars
  PROVE  PostedInv'
<1> DEFINE Late(q) == \/ q.half.conn.launch < launch
                      \/ q.half.conn.launch = launch /\ pc = "killed"
<1>1. /\ call \in [Callers -> Calls(db) \cup {Absent}] /\ launch \in Nat
      /\ \A m \in Modes : call[m] # Absent => call[m].req.kind = "server"
      /\ call["client"] # Absent =>
           /\ pc \in {"creating", "recording", "completing"}
           /\ pc = "creating" => call["client"].req.kind = "run"
           /\ pc = "completing" => call["client"].req.kind = "complete"
           /\ pc = "recording" => /\ call["client"].req.kind = "client"
                                  /\ call["client"].req.half.conn.launch = launch
      /\ \A q \in orphans : q.kind = "client" => Late(q)
  BY DEF LabInv, PostedInv, ClientTypeOK
<1>2. "client" \notin Modes /\ Callers = Modes \cup {"client"}
  BY ClientIsNoServer DEF Callers
<1>3. ASSUME UNCHANGED <<pc, launch>>,
             \A q \in orphans' : q.kind = "client" => q \in orphans,
             \A x \in Callers : call'[x] # Absent =>
               call[x] # Absent /\ call'[x].req = call[x].req
      PROVE  PostedInv'
  BY <1>1, <1>2, <1>3 DEF PostedInv
<1>4. ASSUME UNCHANGED <<launch, orphans>>, pc \notin Ended,
             call' = [call EXCEPT !["client"] = Absent] \/ UNCHANGED call,
             pc \in {"creating", "recording", "completing"}
               => call' = [call EXCEPT !["client"] = Absent]
      PROVE  PostedInv'
  <2>1. call'["client"] = Absent /\ \A m \in Modes : call'[m] = call[m]
    BY <1>1, <1>2, <1>4
  <2>2. \A q \in orphans : q.kind = "client" => q.half.conn.launch < launch
    BY <1>1, <1>4 DEF Ended
  <2> QED BY <1>1, <1>4, <2>1, <2>2 DEF PostedInv
<1>5. ASSUME NEW q, Send("client", q), UNCHANGED <<launch, orphans>>, pc \notin Ended,
             \/ pc' = "creating" /\ q.kind = "run"
             \/ pc' = "completing" /\ q.kind = "complete"
             \/ pc' = "recording" /\ q.kind = "client" /\ q.half.conn.launch = launch
      PROVE  PostedInv'
  <2>1. call'["client"].req = q /\ \A m \in Modes : call'[m] = call[m]
    BY <1>1, <1>2, <1>5 DEF Send
  <2>2. \A x \in orphans : x.kind = "client" => x.half.conn.launch < launch
    BY <1>1, <1>5 DEF Ended
  <2> QED BY <1>1, <1>5, <2>1, <2>2 DEF PostedInv
<1>6. ASSUME NEW m \in Modes, Serves(m), UNCHANGED <<clientVars, dashboardVars>>
      PROVE  PostedInv'
  <2>1. CASE \/ Accept(m) \/ ShakeHands(m) \/ GiveUp(m) \/ ServerRestarts(m)
    BY <1>3, <1>6, <2>1
    DEF Accept, ShakeHands, GiveUp, ServerRestarts, wireVars, dashboardVars, clientVars
  <2>2. CASE Serve(m)
    <3> DEFINE q == ServerReport(Served(m).conn)
    <3>1. \/ Send(m, q) \/ UNCHANGED call
      BY <2>2 DEF Serve
    <3>2. q.kind = "server"
      BY DEF ServerReport
    <3> HIDE DEF q
    <3>3. CASE Send(m, q)
      <4>1. /\ call'[m].req = q
            /\ \A x \in Callers \ {m} : call'[x] = call[x]
        BY <1>1, <1>2, <3>3 DEF Send
      <4> QED BY <1>1, <1>2, <1>6, <3>2, <4>1 DEF PostedInv, clientVars, dashboardVars
    <3>4. CASE UNCHANGED call
      BY <1>3, <1>6, <3>4 DEF dashboardVars, clientVars
    <3> QED BY <3>1, <3>3, <3>4
  <2>3. CASE PostReturns(m)
    BY <1>1, <1>2, <1>3, <1>6, <2>3 DEF PostReturns, Hangup, dashboardVars, clientVars
  <2> QED BY <1>6, <2>1, <2>2, <2>3 DEF Serves
<1>7. ASSUME NEW m \in Modes, ServerDies(m), Abandon(m), UNCHANGED clientVars
      PROVE  PostedInv'
  <2>1. \A q \in orphans' : q.kind = "client" => q \in orphans
    BY <1>1, <1>7 DEF Abandon, Waiting
  <2> QED BY <1>1, <1>2, <1>3, <1>7, <2>1 DEF ServerDies, Hangup, clientVars
<1>8. ASSUME ClientStep, UNCHANGED dashboardVars PROVE PostedInv'
  <2>1. CASE \/ Connect \/ ConnectFails \/ Handshake \/ WriteRequest \/ ProbeFails
             \/ ReadResponse \/ SkipRecord
    BY <1>4, <1>8, <2>1
    DEF Connect, ConnectFails, Handshake, WriteRequest, ProbeFails, ReadResponse,
        SkipRecord, Fail, wireVars, dashboardVars, Ended
  <2>2. CASE CreateReturns \/ RecordReturns \/ CompleteReturns
    BY <1>4, <1>8, <2>2
    DEF CreateReturns, RecordReturns, CompleteReturns, Hangup, dashboardVars, Ended
  <2>3. CASE CreateRunCall
    <3> DEFINE q == [kind |-> "run", run |-> RunId, inRange |-> TRUE]
    <3>1. Send("client", q) /\ q.kind = "run"
      BY <2>3 DEF CreateRunCall
    <3> HIDE DEF q
    <3> QED BY <1>5, <1>8, <2>3, <3>1 DEF CreateRunCall, dashboardVars, Ended
  <2>4. CASE CompleteCall
    <3> DEFINE q == [kind |-> "complete", run |-> RunId]
    <3>1. Send("client", q) /\ q.kind = "complete"
      BY <2>4 DEF CompleteCall
    <3> HIDE DEF q
    <3> QED BY <1>5, <1>8, <2>4, <3>1 DEF CompleteCall, dashboardVars, Ended
  <2>5. CASE RecordProbe
    <3>1. PICK slow \in BOOLEAN : Send("client", ClientReport(slow))
      BY <2>5 DEF RecordProbe
    <3> DEFINE q == ClientReport(slow)
    <3>2. q.kind = "client" /\ q.half.conn.launch = launch /\ Send("client", q)
      BY <3>1 DEF ClientReport, Conn
    <3> HIDE DEF q
    <3> QED BY <1>5, <1>8, <2>5, <3>2 DEF RecordProbe, dashboardVars, Ended
  <2>6. CASE LaunchAgain
    <3>1. /\ launch' = launch + 1 /\ pc \in Ended
          /\ UNCHANGED call /\ UNCHANGED orphans
      BY <1>8, <2>6 DEF LaunchAgain, wireVars, dashboardVars
    <3>2. call["client"] = Absent
      BY <1>1, <3>1 DEF Ended
    <3>3. \A q \in orphans : q.kind = "client" => q.half.conn.launch \in Nat
      BY DEF LabInv, Genuine, Measured, Known
    <3>4. \A q \in orphans : q.kind = "client" => q.half.conn.launch < launch'
      BY <1>1, <3>1, <3>3
    <3> QED BY <1>1, <3>1, <3>2, <3>4 DEF PostedInv
  <2> QED BY <1>8, <2>1, <2>2, <2>3, <2>4, <2>5, <2>6 DEF ClientStep
<1>9. ASSUME ClientDies, Abandon("client") PROVE PostedInv'
  <2>1. /\ call'["client"] = Absent /\ \A m \in Modes : call'[m] = call[m]
        /\ pc' = "killed" /\ launch' = launch
    BY <1>1, <1>2, <1>9 DEF ClientDies, Hangup
  <2>2. \A q \in orphans' : q.kind = "client" =>
          q.half.conn.launch < launch \/ q.half.conn.launch = launch
    BY <1>1, <1>9 DEF Abandon, Waiting
  <2> QED BY <1>1, <2>1, <2>2 DEF PostedInv
<1>10. ASSUME NEW p \in Callers, Waiting(p), NEW r, Reply(p, r),
              UNCHANGED <<orphans, clientVars>>
       PROVE  PostedInv'
  <2>1. \A x \in Callers : call'[x] # Absent =>
          call[x] # Absent /\ call'[x].req = call[x].req
    BY <1>1, <1>10 DEF Waiting, Reply, Calls
  <2> QED BY <1>3, <1>10, <2>1 DEF clientVars
<1>11. ASSUME NEW p \in Callers, HandleCall(p) \/ CallFails(p) \/ ReplyLost(p)
       PROVE  PostedInv'
  BY <1>10, <1>11 DEF HandleCall, CallFails, ReplyLost, Elsewhere, dashboardVars
<1>12. ASSUME NEW q \in orphans, HandleOrphan(q) \/ DropOrphan(q)
       PROVE  PostedInv'
  BY <1>3, <1>12 DEF HandleOrphan, DropOrphan, Elsewhere, clientVars
<1>13. CASE UNCHANGED vars
  BY <1>3, <1>13 DEF vars, wireVars, dashboardVars, clientVars
<1> QED
  BY <1>6, <1>7, <1>8, <1>9, <1>11, <1>12, <1>13
  DEF Next, ServerNext, ClientNext, DashboardNext, Rest

(* Nothing but a request to complete a run completes it.                   *)
LEMMA CompletedStep ==
  ASSUME LabInv, [Next]_vars, NEW r \in Runs, Completed(r)'
  PROVE  Closed(r)
<1>1. CASE db' = db
  BY <1>1 DEF Completed, Closed
<1>2. ASSUME NEW q \in Asked, db' = Apply(db, q)
      PROVE  Closed(r)
  <2>1. q \in Post /\ db \in Database /\ q.run \in Runs
    BY AskedGenuine, PostKinds DEF LabInv, Genuine
  <2>2. CASE r # q.run
    BY <1>2, <2>1, <2>2, ApplyRuns DEF Completed, Closed
  <2>3. CASE r = q.run /\ q.kind = "complete"
    BY <2>3 DEF Closed
  <2>4. CASE r = q.run /\ q.kind # "complete"
    <3>1. Apply(db, q).runs[r].completed
      BY <1>2 DEF Completed
    <3> QED BY <2>1, <2>4, <3>1, ApplyRuns DEF Completed, Closed
  <2> QED BY <2>2, <2>3, <2>4
<1> QED BY <1>1, <1>2, AskedApplied

(* Where the client goes from a launch that has completed, or is about to: *)
(* to its end, and from there to the next launch.                          *)
LEMMA StaysClosed ==
  ASSUME LabInv, [Next]_vars
  PROVE  /\ launch' \in {launch, launch + 1}
         /\ pc \in {"completing"} \cup Ended /\ launch' = launch
              => pc' \in {"completing"} \cup Ended
         /\ launch' = launch + 1 => pc \in Ended
<1>1. launch \in Nat
  BY DEF LabInv, ClientTypeOK
<1>2. CASE UNCHANGED clientVars
  BY <1>1, <1>2 DEF clientVars
<1>3. CASE ClientStep
  <2>1. CASE LaunchAgain \/ CompleteReturns
    BY <1>1, <2>1 DEF LaunchAgain, CompleteReturns, Ended
  <2>2. ASSUME ~LaunchAgain, ~CompleteReturns
        PROVE  UNCHANGED launch /\ pc \notin {"completing"} \cup Ended
    BY <1>3, <2>2
    DEF ClientStep, CreateRunCall, CreateReturns, Connect, ConnectFails, Handshake,
        WriteRequest, ProbeFails, Fail, ReadResponse, SkipRecord, RecordProbe,
        RecordReturns, CompleteCall, Ended
  <2> QED BY <1>1, <2>1, <2>2
<1>4. CASE ClientDies
  BY <1>1, <1>4 DEF ClientDies, Ended
<1>5. CASE DashboardNext \/ UNCHANGED vars
  BY <1>2, <1>5
  DEF DashboardNext, HandleCall, CallFails, ReplyLost, HandleOrphan, DropOrphan,
      Elsewhere, vars
<1> QED
  BY <1>2, <1>3, <1>4, <1>5 DEF Next, ServerNext, ClientNext, Rest

(* ClosedInv is inductive beside LabInv and PostedInv.                     *)
LEMMA ClosedStep ==
  ASSUME DistinctRunIds, LabInv, PostedInv, ClosedInv, [Next]_vars
  PROVE  ClosedInv'
<1> SUFFICES ASSUME NEW r \in Runs, Closed(r)'
             PROVE  /\ \A q \in Asked' : q.kind = "client" => q.run # r
                    /\ \E l \in 1..launch' :
                         RunIdOf[l] = r
                           /\ (l = launch' => pc' \in {"completing"} \cup Ended)
  BY DEF ClosedInv
<1> DEFINE Goal == /\ \A q \in Asked' : q.kind = "client" => q.run # r
                   /\ \E l \in 1..launch' :
                        RunIdOf[l] = r
                          /\ (l = launch' => pc' \in {"completing"} \cup Ended)
<1>1. /\ launch \in Nat /\ launch \in 1..Launches /\ launch' \in {launch, launch + 1}
      /\ pc \in {"completing"} \cup Ended /\ launch' = launch
            => pc' \in {"completing"} \cup Ended
      /\ \A l \in 1..launch : l \in 1..Launches
  BY StaysClosed, WireAssumption DEF LabInv, ClientTypeOK
<1>2. ASSUME Closed(r),
             \A q \in Asked' : q.kind = "client" /\ q.run = r => q \in Asked
      PROVE  Goal
  <2>1. PICK l \in 1..launch :
          RunIdOf[l] = r /\ (l = launch => pc \in {"completing"} \cup Ended)
    BY <1>2 DEF ClosedInv
  <2>2. l \in 1..launch' /\ (l = launch' => pc' \in {"completing"} \cup Ended)
    BY <1>1, <2>1
  <2>3. \A q \in Asked' : q.kind = "client" => q.run # r
    BY <1>2 DEF ClosedInv
  <2> QED BY <2>1, <2>2, <2>3
<1>3. CASE Asked' \subseteq Asked
  <2>1. Closed(r)
    BY <1>3, CompletedStep DEF Closed
  <2> QED BY <1>2, <1>3, <2>1
<1>4. ASSUME NEW q, Asked' \subseteq Asked \cup {q}, q.kind \in {"server", "run"}
      PROVE  Goal
  <2>1. Closed(r)
    BY <1>4, CompletedStep DEF Closed
  <2> QED BY <1>2, <1>4, <2>1
<1>5. ASSUME NEW q, Asked' \subseteq Asked \cup {q}, q.kind = "client", q.run = RunId,
             RecordProbe
      PROVE  Goal
  <2>1. Closed(r)
    BY <1>5, CompletedStep DEF Closed
  <2>2. r # RunId
    BY <1>1, <1>5, <2>1 DEF ClosedInv, DistinctRunIds, RunId, RecordProbe, Ended
  <2> QED BY <1>2, <1>5, <2>1, <2>2
<1>6. ASSUME Asked' \subseteq Asked \cup {[kind |-> "complete", run |-> RunId]},
             CompleteCall
      PROVE  Goal
  <2>1. CASE Closed(r)
    BY <1>2, <1>6, <2>1
  <2>2. CASE ~Closed(r)
    <3>1. r = RunId
      BY <1>6, <2>2, CompletedStep DEF Closed
    <3>2. /\ pc = "complete" /\ pc' = "completing" /\ launch' = launch
      BY <1>6 DEF CompleteCall
    <3>3. call["client"] = Absent
      BY <3>2 DEF PostedInv
    <3>4. ASSUME NEW q \in Asked, q.kind = "client" PROVE q.run # RunId
      <4>1. q \in orphans
        BY <3>3, <3>4 DEF Asked, PostedInv, Callers
      <4>2. q.half.conn.launch < launch
        BY <3>2, <3>4, <4>1 DEF PostedInv
      <4>3. /\ q.half.conn.launch \in 1..Launches
            /\ q.run = RunIdOf[q.half.conn.launch]
        BY <3>4, AskedGenuine DEF Genuine, Measured, Known
      <4> QED BY <1>1, <4>2, <4>3 DEF DistinctRunIds, RunId
    <3>5. \A q \in Asked' : q.kind = "client" => q.run # r
      BY <1>6, <3>1, <3>4
    <3>6. launch \in 1..launch' /\ RunIdOf[launch] = r
      BY <1>1, <3>1, <3>2 DEF RunId
    <3> QED BY <3>2, <3>5, <3>6
  <2> QED BY <2>1, <2>2
<1> HIDE DEF Goal
<1>7. ASSUME NEW q, Asked' \subseteq Asked \cup {q}, NewRequest(q)
      PROVE  Goal
  <2>1. ASSUME NEW slow \in BOOLEAN, q = ClientReport(slow)
        PROVE  q.kind = "client" /\ q.run = RunId
    BY <2>1 DEF ClientReport
  <2> QED BY <1>4, <1>5, <1>6, <1>7, <2>1 DEF NewRequest
<1>8. Goal
  BY <1>3, <1>7, AskedStep DEF Goal
<1> QED BY <1>8 DEF Goal

(* Both hold at the start, where nothing is on its way and no run is       *)
(* complete.                                                               *)
LEMMA InitFinal == Init => PostedInv /\ ClosedInv
  BY DEF Init, WireInit, PostedInv, ClosedInv, Closed, Completed, Asked, EmptyDatabase, Callers

(* Once a run is completed its client halves are final: the client posts   *)
(* them one after the other and completes the run last, and what a killed  *)
(* client has left under way belongs to a run that is never completed.     *)
THEOREM ClientHalvesStay ==
  ASSUME DistinctRunIds
  PROVE  Spec => ClientHalvesFinal
<1> DEFINE Inv == LabInv /\ PostedInv /\ ClosedInv
<1>1. Init => Inv
  BY InitLabInv, InitFinal
<1>2. Inv /\ [Next]_vars => Inv'
  BY StepLabInv, PostedStep, ClosedStep
<1>3. Inv /\ [Next]_vars =>
        [\A s \in Samples :
           s \in Rows(db) /\ db.runs[db.rows[s].run].completed =>
             db'.rows[s].client = db.rows[s].client]_vars
  <2> SUFFICES ASSUME Inv, Next, NEW s \in Rows(db), db.runs[db.rows[s].run].completed
               PROVE  db'.rows[s].client = db.rows[s].client
    BY DEF vars, wireVars, clientVars, dashboardVars
  <2> DEFINE row == db.rows[s]
  <2>1. /\ s \in Samples /\ row # Absent /\ db \in Database /\ row \in Row
        /\ row.run = s[1] /\ Announced(db, row.run) /\ row.run \in Runs
    BY DEF LabInv, RowsGenuine, GenuineRow, Rows, Database, Row
  <2>2. Closed(row.run)
    BY <2>1 DEF Closed, Completed, Announced
  <2>3. ASSUME NEW q \in Asked, db' = Apply(db, q)
        PROVE  db'.rows[s].client = row.client
    <3>1. q \in Post /\ q \in Genuine(db)
      BY AskedGenuine DEF Genuine
    <3>2. ASSUME q.kind = "client" PROVE q.sample # s
      <4>1. q.run # row.run
        BY <2>1, <2>2, <3>2 DEF ClosedInv
      <4>2. q.half.conn \in Measured(db) /\ q.sample = SampleId(q.half.conn)
            /\ q.run = RunIdOf[q.half.conn.launch]
        BY <3>1, <3>2 DEF Genuine
      <4> QED BY <2>1, <4>1, <4>2, MeasuredTyped
    <3>3. CASE q \in ClientPost
      <4>1. q.kind = "client"
        BY <3>3 DEF ClientPost
      <4> QED BY <2>1, <2>3, <3>1, <3>2, <4>1, ApplyUpsert DEF IsMeasurement
    <3>4. CASE q \notin ClientPost
      <4>1. \/ Apply(db, q).rows[s] = row
            \/ q \in ServerPost /\ Apply(db, q).rows[s] = ServerUpsert(row, q)
        BY <2>1, <3>1, <3>4, ApplyRow
      <4> QED BY <2>1, <2>3, <4>1, ServerUpsertEffect
    <3> QED BY <3>3, <3>4
  <2> QED BY <2>3, AskedApplied
<1> QED BY <1>1, <1>2, <1>3, PTL DEF Spec, ClientHalvesFinal

-----------------------------------------------------------------------------
(* Why every measured probe is reported: the loops of main() pass each     *)
(* endpoint of each iteration once, and they go on from a probe only when  *)
(* the dashboard has answered.                                             *)
NoReportFaults == Faults \cap {"dashboard", "reply", "slow"} = {}

At(i, k) == Endpoints[Slot(TRUE, i, k) + 1]

Passed(i, k) ==
  \/ pc \in {"complete", "completing", "done"}
  \/ i < index
  \/ i = index /\ k < g

HasClient(d, s) == d.rows[s] # Absent /\ d.rows[s].client # Absent

ReportInv ==
  /\ pc \in {"complete", "completing", "done"} => rec
  /\ pc \in {"create", "creating"} => index = 1 /\ g = 0
  /\ pc \notin {"create", "creating", "killed", "aborted"} /\ rec =>
       \A i \in 1..Iterations, k \in 0..2 :
         Passed(i, k) /\ At(i, k) \in StoredModes =>
           HasClient(db, <<RunId, At(i, k), i>>)
  /\ pc = "recording" /\ call["client"] # Absent =>
       /\ call["client"].req = ClientReport(FALSE)
       /\ call["client"].reply # "none" /\ Conn.mode \in StoredModes =>
            HasClient(db, <<RunId, Conn.mode, index>>)

(* The rotation leaves out no endpoint.                                    *)
LEMMA RotationCovers ==
  ASSUME NEW m \in Modes, NEW i \in Nat \ {0}
  PROVE  \E k \in 0..2 : At(i, k) = m
<1>1. PICK j \in 0..2 : m = Endpoints[j + 1]
  <2>1. PICK x \in 1..3 : m = Endpoints[x]
    BY WireAssumption
  <2>2. x - 1 \in 0..2 /\ (x - 1) + 1 = x
    OBVIOUS
  <2> QED BY <2>1, <2>2
<1>2. (i - 1) % 3 \in 0..2
  OBVIOUS
<1>3. \E k \in 0..2 : (((i - 1) % 3) + k) % 3 = j
  <2> DEFINE a == (i - 1) % 3
  <2>1. a \in {0, 1, 2} /\ j \in {0, 1, 2}
    BY <1>2
  <2> HIDE DEF a
  <2>2. CASE j >= a
    <3>1. j - a \in 0..2 /\ (a + (j - a)) % 3 = j
      BY <2>1, <2>2
    <3> QED BY <3>1 DEF a
  <2>3. CASE j < a
    <3>1. j - a + 3 \in 0..2 /\ (a + (j - a + 3)) % 3 = j
      BY <2>1, <2>3
    <3> QED BY <3>1 DEF a
  <2> QED BY <2>1, <2>2, <2>3
<1>4. PICK k \in 0..2 : (((i - 1) % 3) + k) % 3 = j
  BY <1>3
<1>5. At(i, k) = Endpoints[j + 1]
  BY <1>4 DEF At, Slot
<1> QED BY <1>1, <1>5

(* No row loses its client half.                                           *)
LEMMA ClientHalfStays ==
  ASSUME LabInv, [Next]_vars, NEW s \in Samples, HasClient(db, s)
  PROVE  HasClient(db', s)
<1>1. CASE db' = db
  BY <1>1
<1>2. ASSUME NEW q \in Asked, db' = Apply(db, q)
      PROVE  HasClient(db', s)
  <2>1. q \in Post /\ db \in Database /\ s \in Rows(db)
    BY AskedGenuine DEF LabInv, Genuine, HasClient, Rows
  <2> QED BY <1>2, <2>1, ApplyKeepsRows DEF HasClient, Rows
<1> QED BY <1>1, <1>2, AskedApplied

(* A sample of the measured phase has an id.                               *)
LEMMA AtTyped ==
  ASSUME LabInv, NEW i \in 1..Iterations, NEW k \in 0..2
  PROVE  <<RunId, At(i, k), i>> \in Samples
<1>1. i \in Nat \ {0} /\ TRUE \in BOOLEAN
  BY ClientAssumption
<1>2. At(i, k) \in Modes
  BY <1>1, SlotRange DEF At
<1> QED BY <1>2, LabAssumption DEF RunId, LabInv, ClientTypeOK

(* From a measured probe the loops go on to the next one.                  *)
LEMMA LoopsPass ==
  ASSUME LabInv, RecordReturns,
         NEW i \in 1..Iterations, NEW k \in 0..2, Passed(i, k)'
  PROVE  Passed(i, k) \/ (i = index /\ k = g)
<1>1. /\ pc = "recording" /\ rec /\ Advance
      /\ g \in 0..2 /\ index \in 1..Iterations /\ Iterations \in Nat
  BY ClientAssumption DEF RecordReturns, LabInv, RecordsMeasured, ClientTypeOK
<1>2. \/ pc' = "connect" /\ g' = g + 1 /\ index' = index
      \/ pc' = "connect" /\ ~(g < 2) /\ g' = 0 /\ index' = index + 1
      \/ pc' = "complete" /\ ~(g < 2) /\ index = Iterations
  BY <1>1, Zenon DEF Advance
<1>3. ~(g < 2) => g = 2
  BY <1>1
<1>4. CASE pc' = "connect" /\ g' = g + 1 /\ index' = index
  <2>1. i < index \/ (i = index /\ k < g + 1)
    BY <1>4 DEF Passed
  <2> QED BY <1>1, <2>1 DEF Passed
<1>5. CASE pc' = "connect" /\ g = 2 /\ g' = 0 /\ index' = index + 1
  <2>1. i < index + 1 \/ k < 0
    BY <1>5 DEF Passed
  <2> QED BY <1>1, <1>5, <2>1 DEF Passed
<1>6. CASE g = 2 /\ index = Iterations
  BY <1>1, <1>6 DEF Passed
<1> QED BY <1>2, <1>3, <1>4, <1>5, <1>6

(* ReportInv is inductive while every report is answered.                  *)
LEMMA ReportStep ==
  ASSUME \A k \in {"dashboard", "reply", "slow"} : ~Fault(k),
         LabInv, PostedInv, ReportInv, [Next]_vars
  PROVE  ReportInv'
<1>1. /\ index \in Nat \ {0} /\ rec \in BOOLEAN /\ g \in 0..2 /\ launch \in 1..Launches
      /\ Iterations \in Nat \ {0}
      /\ call \in [Callers -> Calls(db) \cup {Absent}]
      /\ rec => index \in 1..Iterations
      /\ pc = "recording" => rec
      /\ db \in Database
  BY ClientAssumption DEF LabInv, ClientTypeOK, RecordsMeasured
<1>2. ASSUME NEW i \in 1..Iterations, NEW k \in 0..2,
             HasClient(db, <<RunId, At(i, k), i>>)
      PROVE  HasClient(db', <<RunId, At(i, k), i>>)
  BY <1>2, AtTyped, ClientHalfStays
<1>3. rec => Conn.mode = At(index, g)
  BY <1>1 DEF Conn, At, Slot
<1>4. "client" \notin Modes /\ Callers = Modes \cup {"client"}
  BY ClientIsNoServer DEF Callers
<1>5. ~Fault("dashboard") /\ ~Fault("reply") /\ ~Fault("slow")
  OBVIOUS
<1> DEFINE Behind == \A i \in 1..Iterations, k \in 0..2 :
             Passed(i, k) /\ At(i, k) \in StoredModes =>
               HasClient(db', <<RunId, At(i, k), i>>)
<1>6. pc \notin {"create", "creating", "killed", "aborted"} /\ rec => Behind
  BY <1>2 DEF ReportInv
(* The client stands still, and so does its call, or it is answered.       *)
<1>7. ASSUME UNCHANGED clientVars,
             call'["client"] = call["client"]
      PROVE  ReportInv'
  <2>1. RunId' = RunId /\ Conn' = Conn /\ ClientReport(FALSE)' = ClientReport(FALSE)
    BY <1>7 DEF clientVars, RunId, Conn, ClientReport
  <2>2. pc = "recording" /\ HasClient(db, <<RunId, Conn.mode, index>>) =>
          HasClient(db', <<RunId, Conn.mode, index>>)
    BY <1>1, <1>2, <1>3
  <2> QED BY <1>6, <1>7, <2>1, <2>2 DEF ReportInv, clientVars, Passed
<1>8. ASSUME HandleCall("client") PROVE ReportInv'
  <2> DEFINE q == ClientReport(FALSE)
  <2>1. /\ UNCHANGED clientVars /\ call["client"] # Absent /\ RunId' = RunId
        /\ Conn' = Conn /\ ClientReport(FALSE)' = q
        /\ call'["client"].req = call["client"].req
    BY <1>1, <1>4, <1>8
    DEF HandleCall, Elsewhere, Waiting, Reply, clientVars, RunId, Conn, ClientReport, Calls
  <2>2. ASSUME pc = "recording", Conn.mode \in StoredModes
        PROVE  HasClient(db', <<RunId, Conn.mode, index>>)
    <3>1. call["client"].req = q /\ q \in Post
      BY <1>1, <1>4, <2>1, <2>2 DEF ReportInv, Calls, Genuine
    <3>2. /\ q.kind = "client" /\ q.mode = Conn.mode /\ q.inRange = TRUE
          /\ q.sample = <<RunId, Conn.mode, index>>
      BY DEF ClientReport, SampleId, Conn, RunId
    <3> HIDE DEF q
    <3>3. Accepted(q)
      BY <2>2, <3>2 DEF Accepted, Valid, ModeCheck
    <3>4. db' = Apply(db, q)
      BY <1>8, <3>1, <3>3 DEF HandleCall, Handled
    <3>5. Holds(db', q)
      BY <1>1, <3>1, <3>4, ApplyHolds
    <3> QED BY <3>2, <3>5 DEF Holds, HasClient, Rows
  <2>3. /\ pc' = pc /\ rec' = rec /\ index' = index /\ g' = g
    BY <2>1 DEF clientVars
  <2>4. pc = "recording" => call'["client"].req = q
    BY <2>1 DEF ReportInv
  <2> HIDE DEF q
  <2> QED BY <1>6, <2>1, <2>2, <2>3, <2>4 DEF ReportInv, Passed
(* The client moves on within a probe.                                     *)
<1>9. ASSUME UNCHANGED <<launch, rec, index, g>>, pc' # "recording",
             \/ pc \notin {"create", "creating", "killed", "aborted"}
             \/ pc = "creating",
             pc' \in {"complete", "completing", "done"}
                => pc \in {"complete", "completing", "done"},
             pc' \notin {"create", "creating"}
      PROVE  ReportInv'
  <2>1. RunId' = RunId
    BY <1>9 DEF RunId
  <2>2. CASE pc \notin {"create", "creating", "killed", "aborted"}
    BY <1>6, <1>9, <2>1, <2>2 DEF ReportInv, Passed
  <2>3. CASE pc = "creating"
    <3>1. \A i \in 1..Iterations, k \in 0..2 : ~Passed(i, k)'
      BY <1>1, <1>9, <2>3 DEF ReportInv, Passed
    <3> QED BY <1>9, <2>3, <3>1 DEF ReportInv
  <2> QED BY <1>9, <2>2, <2>3
<1>10. CASE CreateRunCall
  BY <1>10 DEF CreateRunCall, ReportInv
<1>11. CASE \/ CreateReturns \/ Connect \/ ConnectFails \/ Handshake \/ WriteRequest
            \/ ProbeFails \/ ReadResponse \/ CompleteCall \/ CompleteReturns
  BY <1>9, <1>11
  DEF CreateReturns, Connect, ConnectFails, Handshake, WriteRequest, ProbeFails, Fail,
      ReadResponse, CompleteCall, CompleteReturns
<1>12. CASE RecordProbe
  <2>1. /\ pc = "finished" /\ pc' = "recording" /\ UNCHANGED <<launch, rec, index, g, ok>>
        /\ Send("client", ClientReport(FALSE))
    BY <1>5, <1>12 DEF RecordProbe
  <2>2. RunId' = RunId /\ Conn' = Conn /\ ClientReport(FALSE)' = ClientReport(FALSE)
    BY <2>1 DEF RunId, Conn, ClientReport
  <2>3. call'["client"].req = ClientReport(FALSE) /\ call'["client"].reply = "none"
    BY <1>1, <1>4, <2>1 DEF Send
  <2> QED BY <1>6, <2>1, <2>2, <2>3 DEF ReportInv, Passed
<1>13. CASE SkipRecord
  <2>1. ~rec /\ UNCHANGED launch /\ Advance
    BY <1>13 DEF SkipRecord
  <2>2. /\ pc' = "connect"
        /\ rec' => g' = 0 /\ index' = 1
    BY <1>1, <2>1 DEF Advance
  <2>3. rec' => \A i \in 1..Iterations, k \in 0..2 : ~Passed(i, k)'
    BY <2>2 DEF Passed
  <2> QED BY <2>2, <2>3 DEF ReportInv
<1>14. CASE RecordReturns
  <2>1. /\ pc = "recording" /\ rec /\ UNCHANGED launch /\ Advance
        /\ call["client"] # Absent /\ call["client"].reply # "none"
    BY <1>1, <1>14 DEF RecordReturns, Answered
  <2>2. At(index, g) \in StoredModes => HasClient(db', <<RunId, At(index, g), index>>)
    BY <1>1, <1>2, <1>3, <2>1 DEF ReportInv
  <2>3. pc' \in {"connect", "complete"}
    BY <2>1 DEF Advance
  <2>4. rec' = rec
    BY <2>1 DEF Advance
  <2>5. \A i \in 1..Iterations, k \in 0..2 :
          Passed(i, k)' => Passed(i, k) \/ (i = index /\ k = g)
    BY <1>14, LoopsPass
  <2>6. Behind
    BY <1>6, <2>1
  <2>7. \A i \in 1..Iterations, k \in 0..2 :
          Passed(i, k)' /\ At(i, k) \in StoredModes =>
            HasClient(db', <<RunId, At(i, k), i>>)
    BY <2>2, <2>5, <2>6
  <2>8. RunId' = RunId
    BY <2>1 DEF RunId
  <2>9. pc' \in {"connect", "complete"} /\ rec'
    BY <2>1, <2>3, <2>4
  <2>10. (\A i \in 1..Iterations, k \in 0..2 :
            Passed(i, k) /\ At(i, k) \in StoredModes =>
              HasClient(db, <<RunId, At(i, k), i>>))'
    BY <2>7, <2>8 DEF Passed
  <2> QED BY <2>9, <2>10 DEF ReportInv
<1>15. CASE LaunchAgain \/ ClientDies
  BY <1>15 DEF LaunchAgain, ClientDies, ReportInv
<1>16. ASSUME NEW m \in Modes, Serves(m), UNCHANGED clientVars PROVE ReportInv'
  <2>1. call'["client"] = call["client"]
    BY <1>1, <1>4, <1>16
    DEF Serves, Accept, ShakeHands, GiveUp, Serve, PostReturns, ServerRestarts,
        Send, Hangup, wireVars
  <2> QED BY <1>7, <1>16, <2>1
<1>17. ASSUME NEW m \in Modes, ServerDies(m), UNCHANGED clientVars PROVE ReportInv'
  BY <1>1, <1>4, <1>7, <1>17 DEF ServerDies, Hangup
<1>18. ASSUME NEW p \in Callers, HandleCall(p) \/ CallFails(p) \/ ReplyLost(p)
       PROVE  ReportInv'
  <2>1. HandleCall(p)
    BY <1>5, <1>18 DEF CallFails, ReplyLost
  <2>2. CASE p # "client"
    BY <1>1, <1>4, <1>7, <2>1, <2>2 DEF HandleCall, Reply, Elsewhere
  <2> QED BY <1>8, <2>1, <2>2
<1>19. ASSUME NEW q \in orphans, HandleOrphan(q) \/ DropOrphan(q) PROVE ReportInv'
  BY <1>7, <1>19 DEF HandleOrphan, DropOrphan, Elsewhere
<1>20. CASE UNCHANGED vars
  BY <1>7, <1>20 DEF vars, wireVars
<1> QED
  BY <1>10, <1>11, <1>12, <1>13, <1>14, <1>15, <1>16, <1>17, <1>18, <1>19, <1>20
  DEF Next, ServerNext, ClientNext, ClientStep, DashboardNext, Rest

(* When a client ends with "done", each of its measured probes of a        *)
(* storable mode has its client half in the database, failed or not, if no *)
(* call to the dashboard can go wrong and no probe is too slow: the two    *)
(* loops leave out no endpoint of any iteration.                           *)
THEOREM ProbesAreReported == Spec => []EveryProbeReported
<1> DEFINE Inv == LabInv /\ PostedInv /\ (NoReportFaults => ReportInv)
<1>1. Init => Inv
  <2>1. Init => ReportInv
    BY DEF Init, ClientInit, ReportInv
  <2> QED BY <2>1, InitLabInv, InitFinal
<1>2. Inv /\ [Next]_vars => Inv'
  <2>1. NoReportFaults => \A k \in {"dashboard", "reply", "slow"} : ~Fault(k)
    BY DEF NoReportFaults, Fault
  <2> QED BY <2>1, StepLabInv, PostedStep, ReportStep DEF NoReportFaults
<1>3. Inv => EveryProbeReported
  <2> SUFFICES ASSUME Inv, pc = "done", NoReportFaults,
                      NEW m \in StoredModes, NEW i \in 1..Iterations
               PROVE  /\ <<RunId, m, i>> \in Rows(db)
                      /\ db.rows[<<RunId, m, i>>].client # Absent
    BY DEF EveryProbeReported, NoReportFaults
  <2>1. PICK k \in 0..2 : At(i, k) = m
    BY StoreAssumption, ClientAssumption, RotationCovers
  <2>2. HasClient(db, <<RunId, m, i>>)
    BY <2>1 DEF ReportInv, Passed
  <2>3. <<RunId, m, i>> \in Samples
    BY <2>1, AtTyped
  <2> QED BY <2>2, <2>3 DEF HasClient, Rows
<1> QED BY <1>1, <1>2, <1>3, PTL DEF Spec

-----------------------------------------------------------------------------
(* Why the exit status counts every failure the database shows: a failed   *)
(* probe is counted when its report returns, and no other launch has       *)
(* failures under this run id.                                             *)
FreshInv ==
  \A l \in 1..Launches : l > launch =>
    /\ ~Announced(db, RunIdOf[l])
    /\ \A q \in Asked : q.kind = "run" => q.run # RunIdOf[l]

FailedSamples ==
  {s \in Samples :
     \/ s \in FailedRows
     \/ \E q \in Asked : /\ q.kind = "client" /\ q.run = RunId
                         /\ q.sample = s /\ ~q.half.ok}

CountInv ==
  pc # "killed" =>
    /\ IsFiniteSet(FailedSamples)
    /\ Cardinality(FailedSamples)
         <= IF pc = "recording" /\ ~ok THEN failures + 1 ELSE failures

(* A run is announced by its request only.                                 *)
LEMMA AnnouncedByRequest ==
  ASSUME LabInv, [Next]_vars, NEW r \in Runs, Announced(db', r)
  PROVE  Announced(db, r) \/ \E q \in Asked : q.kind = "run" /\ q.run = r
<1>1. CASE db' = db
  BY <1>1
<1>2. ASSUME NEW q \in Asked, db' = Apply(db, q)
      PROVE  Announced(db, r) \/ \E x \in Asked : x.kind = "run" /\ x.run = r
  <2>1. q \in Post /\ db \in Database /\ q.run \in Runs
    BY AskedGenuine, PostKinds DEF LabInv, Genuine
  <2>2. CASE r # q.run
    BY <1>2, <2>1, <2>2, ApplyRuns DEF Announced
  <2>3. CASE r = q.run /\ q.kind # "run"
    <3>1. Apply(db, q).runs[r].announced
      BY <1>2 DEF Announced
    <3> QED BY <2>1, <2>3, <3>1, ApplyRuns DEF Announced
  <2> QED BY <2>2, <2>3
<1> QED BY <1>1, <1>2, AskedApplied

(* FreshInv is inductive where no run id is used twice.                    *)
LEMMA FreshStep ==
  ASSUME DistinctRunIds, LabInv, FreshInv, [Next]_vars
  PROVE  FreshInv'
<1> SUFFICES ASSUME NEW l \in 1..Launches, l > launch'
             PROVE  /\ ~Announced(db', RunIdOf[l])
                    /\ \A q \in Asked' : q.kind = "run" => q.run # RunIdOf[l]
  BY DEF FreshInv
<1>1. /\ launch \in 1..Launches /\ launch' \in {launch, launch + 1} /\ l > launch
      /\ RunIdOf[l] \in Runs /\ RunIdOf[l] # RunId
  BY StaysClosed, WireAssumption DEF LabInv, ClientTypeOK, DistinctRunIds, RunId
<1>2. /\ ~Announced(db, RunIdOf[l])
      /\ \A q \in Asked : q.kind = "run" => q.run # RunIdOf[l]
  BY <1>1 DEF FreshInv
<1>3. ~Announced(db', RunIdOf[l])
  BY <1>1, <1>2, AnnouncedByRequest
<1>4. ASSUME NEW q \in Asked', q.kind = "run" PROVE q \in Asked \/ q.run = RunId
  <2>1. CASE Asked' \subseteq Asked
    BY <2>1
  <2>2. ASSUME NEW x, Asked' \subseteq Asked \cup {x}, NewRequest(x), q = x
        PROVE  q.run = RunId
    BY <1>4, <2>2 DEF NewRequest, ClientReport
  <2> QED BY <2>1, <2>2, AskedStep
<1> QED BY <1>1, <1>2, <1>3, <1>4

(* What can be a failed sample after a step of one launch.                 *)
LEMMA FailedStep ==
  ASSUME LabInv, [Next]_vars, launch' = launch
  PROVE  \/ FailedSamples' \subseteq FailedSamples
         \/ /\ RecordProbe /\ ~ok
            /\ FailedSamples' \subseteq FailedSamples \cup {SampleId(Conn)}
<1>1. RunId' = RunId /\ db \in Database
  BY DEF RunId, LabInv
<1>2. ASSUME NEW s \in Samples, s \in FailedRows' PROVE s \in FailedSamples
  <2>1. /\ db'.rows[s] # Absent /\ db'.rows[s].run = RunId
        /\ db'.rows[s].client # Absent /\ ~db'.rows[s].client.ok
    BY <1>1, <1>2 DEF FailedRows, RowsOf, Rows
  <2>2. CASE db'.rows[s] = db.rows[s]
    BY <2>1, <2>2 DEF FailedSamples, FailedRows, RowsOf, Rows
  <2>3. CASE db'.rows[s] # db.rows[s]
    <3>1. PICK q \in Asked : db' = Apply(db, q)
      BY <2>3, AskedApplied
    <3>2. q \in Genuine(db) /\ q \in Post /\ db.rows[s] \in Row \cup {Absent}
      BY <1>1, AskedGenuine DEF Genuine, Database
    <3>3. CASE q \in ServerPost /\ db'.rows[s] = ServerUpsert(db.rows[s], q)
      <4>1. /\ db.rows[s] # Absent /\ db'.rows[s].client = db.rows[s].client
            /\ db'.rows[s].run = db.rows[s].run
        BY <2>1, <3>2, <3>3, ServerUpsertEffect
      <4> QED BY <2>1, <4>1 DEF FailedSamples, FailedRows, RowsOf, Rows
    <3>4. CASE q \in ClientPost /\ db'.rows[s] = ClientUpsert(db.rows[s], q)
      <4>1. q.kind = "client" /\ db'.rows[s].client = q.half
        BY <3>2, <3>4, ClientUpsertEffect DEF ClientPost
      <4>2. q.sample = s
        BY <1>1, <2>3, <3>1, <3>2, <4>1, ApplyUpsert DEF IsMeasurement
      <4>3. db'.rows[s].run = s[1]
        BY <2>1, AnnouncedStep DEF RowsGenuine, GenuineRow, Rows
      <4>4. q.run = s[1]
        BY <3>2, <4>1, <4>2, MeasuredTyped DEF Genuine
      <4> QED BY <2>1, <4>1, <4>2, <4>3, <4>4 DEF FailedSamples
    <3> QED BY <1>1, <2>3, <3>1, <3>2, <3>3, <3>4, ApplyRow
  <2> QED BY <2>2, <2>3
<1>3. CASE \A q \in Asked' : q.kind = "client" => q \in Asked
  BY <1>1, <1>2, <1>3 DEF FailedSamples
<1>4. ASSUME RecordProbe, NEW slow \in BOOLEAN,
             Asked' \subseteq Asked \cup {ClientReport(slow)}
      PROVE  \/ FailedSamples' \subseteq FailedSamples
             \/ /\ RecordProbe /\ ~ok
                /\ FailedSamples' \subseteq FailedSamples \cup {SampleId(Conn)}
  <2> DEFINE x == ClientReport(slow)
  <2>1. x.sample = SampleId(Conn) /\ x.half.ok = ok
    BY DEF ClientReport
  <2> HIDE DEF x
  <2>2. Asked' \subseteq Asked \cup {x}
    BY <1>4 DEF x
  <2>3. CASE ok
    BY <1>1, <1>2, <2>1, <2>2, <2>3 DEF FailedSamples
  <2>4. CASE ~ok
    BY <1>1, <1>2, <1>4, <2>1, <2>2, <2>4 DEF FailedSamples
  <2> QED BY <2>3, <2>4
<1>5. CASE Asked' \subseteq Asked
  BY <1>3, <1>5
<1>6. ASSUME NEW q, Asked' \subseteq Asked \cup {q}, NewRequest(q)
      PROVE  \/ FailedSamples' \subseteq FailedSamples
             \/ /\ RecordProbe /\ ~ok
                /\ FailedSamples' \subseteq FailedSamples \cup {SampleId(Conn)}
  <2>1. CASE q.kind # "client"
    BY <1>3, <1>6, <2>1
  <2>2. CASE q.kind = "client"
    BY <1>4, <1>6, <2>2 DEF NewRequest
  <2> QED BY <2>1, <2>2
<1> QED BY <1>5, <1>6, AskedStep

(* A launch starts with no failures of its run anywhere.                   *)
LEMMA LaunchIsClean ==
  ASSUME LabInv, FreshInv, LaunchAgain, UNCHANGED dashboardVars
  PROVE  FailedSamples' = {}
<1>1. /\ launch' \in 1..Launches /\ launch' > launch /\ RunId' = RunIdOf[launch']
      /\ UNCHANGED <<db, call, orphans>>
  BY WireAssumption DEF LabInv, ClientTypeOK, LaunchAgain, RunId, wireVars, dashboardVars
<1>2. ~Announced(db, RunId')
  BY <1>1 DEF FreshInv
<1>3. Asked' = Asked /\ Asked \subseteq Genuine(db)
  BY <1>1, AskedGenuine DEF Asked
<1>4. \A s \in Rows(db) : db.rows[s].run # RunId'
  BY <1>2 DEF LabInv, RowsGenuine, GenuineRow
<1>5. \A q \in Asked : q.kind = "client" => q.run # RunId'
  BY <1>2, <1>3 DEF Genuine
<1> QED BY <1>1, <1>3, <1>4, <1>5 DEF FailedSamples, FailedRows, RowsOf, Rows

(* CountInv is inductive beside FreshInv.                                  *)
LEMMA CountStep ==
  ASSUME LabInv, FreshInv, CountInv, [Next]_vars
  PROVE  CountInv'
<1>1. failures \in Nat /\ launch \in Nat /\ ok \in BOOLEAN
  BY DEF LabInv, ClientTypeOK
<1>2. CASE LaunchAgain /\ UNCHANGED dashboardVars
  <2>1. FailedSamples' = {} /\ pc' = "create" /\ failures' = 0
    BY <1>2, LaunchIsClean DEF LaunchAgain
  <2>2. IsFiniteSet(FailedSamples') /\ Cardinality(FailedSamples') = 0
    BY <2>1, FS_EmptySet
  <2> QED BY <2>1, <2>2 DEF CountInv
<1>3. ASSUME launch' = launch, pc # "killed",
             FailedSamples' \subseteq FailedSamples,
             \/ UNCHANGED <<failures, ok>> /\ (pc = "recording" => pc' = "recording")
             \/ pc # "recording" /\ UNCHANGED failures
             \/ pc' # "recording" /\ failures' = (IF ok THEN failures ELSE failures + 1)
      PROVE  CountInv'
  <2>1. /\ IsFiniteSet(FailedSamples')
        /\ Cardinality(FailedSamples') <= Cardinality(FailedSamples)
        /\ Cardinality(FailedSamples') \in Nat /\ Cardinality(FailedSamples) \in Nat
    BY <1>3, FS_Subset, FS_CardinalityType DEF CountInv
  <2> QED BY <1>1, <1>3, <2>1 DEF CountInv
<1>4. CASE RecordProbe /\ FailedSamples' \subseteq FailedSamples \cup {SampleId(Conn)} /\ ~ok
  <2>1. pc = "finished" /\ pc' = "recording" /\ UNCHANGED <<failures, ok>>
    BY <1>4 DEF RecordProbe
  <2>2. IsFiniteSet(FailedSamples) /\ Cardinality(FailedSamples) <= failures
    BY <2>1 DEF CountInv
  <2>3. /\ IsFiniteSet(FailedSamples')
        /\ Cardinality(FailedSamples') <= Cardinality(FailedSamples) + 1
    <3> DEFINE T == FailedSamples \cup {SampleId(Conn)}
    <3>1. /\ IsFiniteSet(T) /\ Cardinality(FailedSamples) \in Nat
          /\ Cardinality(T) <= Cardinality(FailedSamples) + 1 /\ Cardinality(T) \in Nat
      BY <2>2, FS_AddElement, FS_CardinalityType
    <3>2. FailedSamples' \subseteq T
      BY <1>4
    <3> HIDE DEF T
    <3>3. /\ IsFiniteSet(FailedSamples') /\ Cardinality(FailedSamples') <= Cardinality(T)
          /\ Cardinality(FailedSamples') \in Nat
      BY <3>1, <3>2, FS_Subset, FS_CardinalityType
    <3> QED BY <3>1, <3>3
  <2>4. Cardinality(FailedSamples') \in Nat /\ Cardinality(FailedSamples) \in Nat
    BY <2>2, <2>3, FS_CardinalityType
  <2>5. Cardinality(FailedSamples') <= failures' + 1
    BY <1>1, <2>1, <2>2, <2>3, <2>4
  <2> QED BY <1>4, <2>1, <2>3, <2>5 DEF CountInv
<1>5. ASSUME pc' = "killed" PROVE CountInv'
  BY <1>5 DEF CountInv
(* What the steps of the client do to pc and failures.                     *)
<1>6. \/ LaunchAgain /\ UNCHANGED dashboardVars
      \/ pc' = "killed"
      \/ /\ launch' = launch /\ pc # "killed"
         /\ \/ UNCHANGED <<failures, ok>> /\ (pc = "recording" => pc' = "recording")
            \/ pc # "recording" /\ UNCHANGED failures
            \/ pc' # "recording" /\ failures' = (IF ok THEN failures ELSE failures + 1)
  <2>1. CASE UNCHANGED clientVars
    BY <2>1 DEF clientVars
  <2>2. CASE ClientStep /\ UNCHANGED dashboardVars
    <3>1. CASE RecordReturns
      BY <3>1 DEF RecordReturns, Advance
    <3>2. CASE ~RecordReturns /\ ~LaunchAgain
      BY <2>2, <3>2
      DEF ClientStep, CreateRunCall, CreateReturns, Connect, ConnectFails, Handshake,
          WriteRequest, ProbeFails, Fail, ReadResponse, SkipRecord, RecordProbe,
          CompleteCall, CompleteReturns
    <3> QED BY <2>2, <3>1, <3>2
  <2>3. CASE ClientDies
    BY <2>3 DEF ClientDies
  <2>4. CASE DashboardNext \/ UNCHANGED vars
    BY <2>1, <2>4
    DEF DashboardNext, HandleCall, CallFails, ReplyLost, HandleOrphan, DropOrphan,
        Elsewhere, vars
  <2> QED BY <2>1, <2>2, <2>3, <2>4 DEF Next, ServerNext, ClientNext, Rest
<1> QED BY <1>2, <1>3, <1>4, <1>5, <1>6, FailedStep

(* The database never shows more failed probes of a finished run than the  *)
(* client has counted for its exit status.                                 *)
THEOREM FailuresAreCounted ==
  ASSUME DistinctRunIds
  PROVE  Spec => []FailuresCounted
<1> DEFINE Inv == LabInv /\ FreshInv /\ CountInv
<1>1. Init => Inv
  <2> SUFFICES ASSUME Init PROVE FreshInv /\ CountInv
    BY InitLabInv
  <2>1. /\ db = EmptyDatabase /\ Asked = {} /\ pc = "create" /\ failures = 0
    BY DEF Init, WireInit, ClientInit, Asked
  <2>2. FreshInv
    BY <2>1, WireAssumption DEF FreshInv, Announced, EmptyDatabase
  <2>3. FailedSamples = {}
    BY <2>1 DEF FailedSamples, FailedRows, RowsOf, Rows, EmptyDatabase
  <2>4. CountInv
    BY <2>1, <2>3, FS_EmptySet DEF CountInv
  <2> QED BY <2>2, <2>4
<1>2. Inv /\ [Next]_vars => Inv'
  BY StepLabInv, FreshStep, CountStep
<1>3. Inv => FailuresCounted
  <2> SUFFICES ASSUME Inv, pc = "done" PROVE Cardinality(FailedRows) <= failures
    BY DEF FailuresCounted
  <2>1. FailedRows \subseteq FailedSamples
    BY DEF FailedSamples, FailedRows, RowsOf, Rows
  <2>2. /\ IsFiniteSet(FailedSamples) /\ Cardinality(FailedSamples) <= failures
    BY DEF CountInv
  <2>3. /\ Cardinality(FailedRows) <= Cardinality(FailedSamples)
        /\ Cardinality(FailedRows) \in Nat /\ Cardinality(FailedSamples) \in Nat
    BY <2>1, <2>2, FS_Subset, FS_CardinalityType
  <2>4. failures \in Nat
    BY DEF LabInv, ClientTypeOK
  <2> QED BY <2>2, <2>3, <2>4
<1> QED BY <1>1, <1>2, <1>3, PTL DEF Spec

-----------------------------------------------------------------------------
(* Why an experiment is followed in the order of its probes: what of the   *)
(* client's side is in the database, what can still get there, and how far *)
(* the loops of main() have come.                                          *)
Entered == {db.rows[s].client.conn : s \in {s \in Rows(db) : db.rows[s].client # Absent}}

Pending ==
  {q \in Asked : /\ q.kind = "client"
                 /\ q \in orphans \/ (Waiting("client") /\ q = call["client"].req)}

Looping == pc \notin {"complete", "completing"} \cup Ended

(* The probes whose turn it has been, the one being recorded included. *)
Reach == 3 * (index - 1) + g + (IF pc = "recording" THEN 1 ELSE 0)

Behind(c) ==
  /\ c.launch <= launch
  /\ c.launch = launch /\ Looping => rec /\ E!Turn(c) < Reach

OrderInv ==
  /\ \A c \in Entered : Behind(c)
  /\ \A q \in Pending : Behind(q.half.conn)
  /\ \A q, x \in Pending : q.half.conn.launch = x.half.conn.launch => q = x
  /\ \A q \in Pending, c \in Entered :
       c.launch = q.half.conn.launch => E!Turn(c) < E!Turn(q.half.conn)

(* The three endpoints in the order of the table of main().                *)
LEMMA EndpointsAre ==
  /\ Endpoints[1] = "classical" /\ Endpoints[2] = "hybrid"
  /\ Endpoints[3] = "hybrid_p256"
  BY DEF Endpoints

(* The place of the endpoint that the loops of main() have come to.        *)
LEMMA PlaceIs ==
  ASSUME NEW i \in Nat \ {0}, NEW k \in 0..2, NEW c,
         c.mode = Endpoints[Slot(TRUE, i, k) + 1], c.seq = i
  PROVE  E!Place(c) = k
<1> DEFINE j == Slot(TRUE, i, k) + 1
<1>1. j \in 1..3
  BY DEF Slot
<1>2. (CHOOSE x \in 1..3 : Endpoints[x] = c.mode) = j
  <2> HIDE DEF j
  <2>1. \A x \in 1..3 : Endpoints[x] = Endpoints[j] => x = j
    BY <1>1, EndpointsAre
  <2>2. c.mode = Endpoints[j]
    BY DEF j
  <2> QED BY <1>1, <2>1, <2>2
<1>3. E!Place(c) = (j - i) % 3
  BY <1>2 DEF E!Place
<1>4. (j - i) % 3 = k
  <2> DEFINE a == (i - 1) % 3
             b == (i - 1) \div 3
  <2>1. a \in {0, 1, 2} /\ b \in Nat /\ i = 3 * b + a + 1
    OBVIOUS
  <2>2. j = ((a + k) % 3) + 1
    BY DEF Slot
  <2> HIDE DEF a, b, j
  <2>3. (a + k) % 3 \in {a + k, a + k - 3} /\ k \in {0, 1, 2}
    BY <2>1
  <2>4. j - i \in {k - 3 * b, k - 3 * b - 3}
    BY <2>1, <2>2, <2>3
  <2> QED BY <2>1, <2>3, <2>4
<1> QED BY <1>3, <1>4

(* The turn of the probe that the loops of main() have come to.            *)
LEMMA TurnOfConn ==
  ASSUME ClientTypeOK, rec
  PROVE  E!Turn(Conn) = 3 * (index - 1) + g
<1>1. /\ index \in Nat \ {0} /\ g \in 0..2 /\ rec = TRUE
  BY ClientAssumption DEF ClientTypeOK
<1>2. /\ Conn.mode = Endpoints[Slot(TRUE, index, g) + 1] /\ Conn.seq = index
  BY <1>1 DEF Conn
<1> QED BY <1>1, <1>2, PlaceIs DEF E!Turn

(* Every measured connection of the protocol has a turn of its launch.     *)
LEMMA TurnTyped ==
  ASSUME NEW d, NEW c \in Measured(d)
  PROVE  E!Turn(c) \in Nat
<1>1. c.seq \in Nat \ {0} /\ c.mode \in {Endpoints[k] : k \in 1..3}
  BY ClientAssumption, WireAssumption DEF Measured, Known
<1>2. (CHOOSE k \in 1..3 : Endpoints[k] = c.mode) \in 1..3
  BY <1>1
<1>3. E!Place(c) \in 0..2
  BY <1>1, <1>2 DEF E!Place
<1> QED BY <1>1, <1>3 DEF E!Turn

-----------------------------------------------------------------------------
(* How a step changes what is pending: nothing new and no writing, a new   *)
(* report, or the execution of a request that is gone afterwards.          *)
LEMMA PendingIs ==
  ASSUME LabInv, PostedInv
  PROVE  /\ call["client"] = Absent \/ call["client"].reply # "none" =>
              Pending = {q \in orphans : q.kind = "client"}
         /\ Waiting("client") =>
              Pending = {q \in orphans \cup {call["client"].req} : q.kind = "client"}
         /\ \A q \in Pending : Waiting("client") /\ q \notin orphans => q = call["client"].req
  BY DEF Pending, Waiting, Asked, Callers

(* What a step does to the reports of outcomes on their way: none is new,  *)
(* or the client makes one, or the dashboard applies one.                  *)
LEMMA PendingStep ==
  ASSUME LabInv, PostedInv, [Next]_vars
  PROVE  \/ db' = db /\ Pending' \subseteq Pending
         \/ /\ db' = db /\ RecordProbe
            /\ \E slow \in BOOLEAN : Pending' \subseteq Pending \cup {ClientReport(slow)}
         \/ /\ UNCHANGED clientVars
            /\ \E q \in Asked : /\ db' = Apply(db, q)
                                /\ Pending' \subseteq Pending \ {q}
                                /\ q.kind = "client" => q \in Pending
<1> DEFINE Goal ==
      \/ db' = db /\ Pending' \subseteq Pending
      \/ /\ db' = db /\ RecordProbe
         /\ \E slow \in BOOLEAN : Pending' \subseteq Pending \cup {ClientReport(slow)}
      \/ /\ UNCHANGED clientVars
         /\ \E q \in Asked : /\ db' = Apply(db, q)
                             /\ Pending' \subseteq Pending \ {q}
                             /\ q.kind = "client" => q \in Pending
<1>1. /\ call \in [Callers -> Calls(db) \cup {Absent}]
      /\ "client" \in Callers /\ launch \in Nat
      /\ \A m \in Modes : call[m] # Absent => call[m].req.kind = "server"
      /\ call["client"] # Absent /\ call["client"].req.kind = "client" =>
           pc = "recording" /\ call["client"].req.half.conn.launch = launch
      /\ \A q \in orphans : q.kind = "client" =>
           \/ q.half.conn.launch < launch
           \/ q.half.conn.launch = launch /\ pc = "killed"
  BY DEF LabInv, ClientTypeOK, PostedInv, Callers
(* The client does not wait for a report that an orphan repeats.           *)
<1>2. ASSUME Waiting("client"), call["client"].req.kind = "client"
      PROVE  call["client"].req \notin orphans
  <2>1. /\ pc # "killed" /\ ~(launch < launch)
    BY <1>1, <1>2 DEF Waiting
  <2> QED BY <1>1, <1>2, <2>1 DEF Waiting
<1>3. ASSUME UNCHANGED db, orphans' \subseteq orphans \cup (IF Waiting("client") THEN {call["client"].req} ELSE {}) \cup {q \in Post : q.kind = "server"},
             Waiting("client")' => Waiting("client") /\ call'["client"].req = call["client"].req
      PROVE  Goal
  <2>1. ASSUME NEW q \in Pending' PROVE q \in Pending
    <3>1. /\ q.kind = "client"
          /\ q \in orphans' \/ (Waiting("client")' /\ q = call'["client"].req)
      BY DEF Pending
    <3>2. q \in orphans \/ (Waiting("client") /\ q = call["client"].req)
      BY <1>3, <3>1
    <3> QED BY <1>1, <3>1, <3>2 DEF Pending, Asked, Waiting
  <2> QED BY <1>3, <2>1
<1>4. ASSUME NEW q \in Asked, db' = db \/ db' = Apply(db, q), UNCHANGED clientVars,
             orphans' \subseteq orphans,
             q.kind = "client" => q \in Pending /\ q \notin orphans',
             Waiting("client")' =>
               /\ Waiting("client") /\ call'["client"].req = call["client"].req
               /\ q.kind = "client" => call["client"].req # q
      PROVE  Goal
  <2>1. ASSUME NEW x \in Pending' PROVE x \in Pending /\ x # q
    <3>1. /\ x.kind = "client"
          /\ x \in orphans' \/ (Waiting("client")' /\ x = call'["client"].req)
      BY DEF Pending
    <3>2. x \in orphans \/ (Waiting("client") /\ x = call["client"].req)
      BY <1>4, <3>1
    <3>3. x # q
      BY <1>4, <3>1
    <3> QED BY <1>1, <3>1, <3>2, <3>3 DEF Pending, Asked, Waiting
  <2> QED BY <1>4, <2>1
<1> HIDE DEF Goal
<1>5. ASSUME NEW p \in Callers, HandleCall(p) \/ CallFails(p) \/ ReplyLost(p) PROVE Goal
  <2> DEFINE q == call[p].req
  <2>1. /\ Waiting(p) /\ UNCHANGED <<clientVars, orphans>>
        /\ \E r : call' = [call EXCEPT ![p].reply = r] /\ r # "none"
        /\ db' = db \/ db' = Apply(db, q)
    BY <1>5
    DEF HandleCall, CallFails, ReplyLost, Reply, Elsewhere, Handled, dashboardVars
  <2>2. q \in Asked /\ call[p] # Absent /\ call[p].reply = "none"
    BY <2>1 DEF Asked, Waiting
  <2>3. CASE p = "client"
    <3>1. ~Waiting("client")'
      BY <1>1, <2>1, <2>2, <2>3 DEF Waiting, Calls
    <3>2. q.kind = "client" => q \in Pending /\ q \notin orphans'
      BY <1>2, <2>1, <2>2, <2>3 DEF Pending
    <3> HIDE DEF q
    <3> QED BY <1>4, <2>1, <2>2, <3>1, <3>2
  <2>4. CASE p # "client"
    <3>1. call'["client"] = call["client"]
      BY <1>1, <2>1, <2>4
    <3>2. q.kind # "client"
      BY <1>1, <2>2, <2>4 DEF Callers
    <3>3. Waiting("client")' => Waiting("client") /\ call'["client"].req = call["client"].req
      BY <3>1 DEF Waiting
    <3> HIDE DEF q
    <3> QED BY <1>4, <2>1, <2>2, <3>2, <3>3
  <2> QED BY <2>3, <2>4
<1>6. ASSUME NEW q \in orphans, HandleOrphan(q) \/ DropOrphan(q) PROVE Goal
  <2>1. /\ UNCHANGED <<clientVars, call>> /\ orphans' = orphans \ {q}
        /\ db' = db \/ db' = Apply(db, q)
    BY <1>6 DEF HandleOrphan, DropOrphan, Elsewhere, Handled
  <2>2. q \in Asked /\ (q.kind = "client" => q \in Pending)
    BY DEF Asked, Pending
  <2>3. Waiting("client")' =>
          /\ Waiting("client") /\ call'["client"].req = call["client"].req
          /\ q.kind = "client" => call["client"].req # q
    BY <1>2, <2>1 DEF Waiting
  <2> QED BY <1>4, <2>1, <2>2, <2>3
<1>7. ASSUME UNCHANGED db, orphans' \subseteq orphans,
             UNCHANGED call \/ (\E p \in Callers : Hangup(p))
      PROVE  Goal
  <2>1. Waiting("client")' => Waiting("client") /\ call'["client"].req = call["client"].req
    BY <1>1, <1>7 DEF Hangup, Waiting
  <2> QED BY <1>3, <1>7, <2>1
<1>8. ASSUME NEW m \in Modes, Serves(m), UNCHANGED <<clientVars, dashboardVars>> PROVE Goal
  <2>1. CASE \/ Accept(m) \/ ShakeHands(m) \/ GiveUp(m) \/ ServerRestarts(m) \/ PostReturns(m)
    BY <1>7, <1>8, <2>1
    DEF Accept, ShakeHands, GiveUp, ServerRestarts, PostReturns, wireVars, dashboardVars, Callers
  <2>2. CASE Serve(m)
    <3>1. UNCHANGED call \/ \E q : Send(m, q)
      BY <2>2 DEF Serve
    <3>2. call'["client"] = call["client"]
      BY <1>1, <3>1, ClientIsNoServer DEF Send
    <3> QED BY <1>3, <1>8, <3>2 DEF Waiting, dashboardVars
  <2> QED BY <1>8, <2>1, <2>2 DEF Serves
<1>9. ASSUME NEW m \in Modes, ServerDies(m), Abandon(m), UNCHANGED <<clientVars, db>> PROVE Goal
  <2>1. call'["client"] = call["client"]
    BY <1>1, <1>9, ClientIsNoServer DEF ServerDies, Hangup
  <2>2. Waiting(m) => call[m].req \in {q \in Post : q.kind = "server"}
    BY <1>1 DEF Waiting, Calls, Genuine, Callers
  <2>3. orphans' \subseteq orphans \cup {q \in Post : q.kind = "server"}
    BY <1>9, <2>2 DEF Abandon
  <2> QED BY <1>3, <1>9, <2>1, <2>3 DEF Waiting
<1>10. ASSUME ClientStep, UNCHANGED <<at, dashboardVars>> PROVE Goal
  <2>1. CASE \/ Connect \/ ConnectFails \/ Handshake \/ WriteRequest \/ ProbeFails
             \/ ReadResponse \/ SkipRecord \/ LaunchAgain
    BY <1>7, <1>10, <2>1
    DEF Connect, ConnectFails, Handshake, WriteRequest, ProbeFails, ReadResponse,
        SkipRecord, LaunchAgain, Fail, wireVars, dashboardVars
  <2>2. CASE CreateReturns \/ RecordReturns \/ CompleteReturns
    BY <1>1, <1>7, <1>10, <2>2
    DEF CreateReturns, RecordReturns, CompleteReturns, dashboardVars
  <2>3. ASSUME NEW q, Send("client", q), UNCHANGED <<db, orphans>> 
        PROVE  Pending' \subseteq Pending \cup {x \in {q} : x.kind = "client"}
    <3>1. call'["client"] = [req |-> q, reply |-> "none"]
      BY <1>1, <2>3 DEF Send
    <3>2. ASSUME NEW x \in Pending' PROVE x \in Pending \cup {y \in {q} : y.kind = "client"}
      <4>1. x.kind = "client" /\ (x \in orphans \/ x = q)
        BY <2>3, <3>1 DEF Pending
      <4> QED BY <4>1 DEF Pending, Asked
    <3> QED BY <3>2
  <2>4. CASE CreateRunCall
    <3> DEFINE q == [kind |-> "run", run |-> RunId, inRange |-> TRUE]
    <3>1. Send("client", q) /\ q.kind # "client"
      BY <2>4 DEF CreateRunCall
    <3> HIDE DEF q
    <3>2. db' = db /\ Pending' \subseteq Pending
      BY <1>10, <2>3, <3>1 DEF dashboardVars
    <3> QED BY <3>2 DEF Goal
  <2>5. CASE CompleteCall
    <3> DEFINE q == [kind |-> "complete", run |-> RunId]
    <3>1. Send("client", q) /\ q.kind # "client"
      BY <2>5 DEF CompleteCall
    <3> HIDE DEF q
    <3>2. db' = db /\ Pending' \subseteq Pending
      BY <1>10, <2>3, <3>1 DEF dashboardVars
    <3> QED BY <3>2 DEF Goal
  <2>6. CASE RecordProbe
    <3>1. PICK slow \in BOOLEAN : Send("client", ClientReport(slow))
      BY <2>6 DEF RecordProbe
    <3>2. db' = db /\ Pending' \subseteq Pending \cup {ClientReport(slow)}
      BY <1>10, <2>3, <3>1 DEF dashboardVars
    <3> QED BY <2>6, <3>2 DEF Goal
  <2> QED BY <1>10, <2>1, <2>2, <2>4, <2>5, <2>6 DEF ClientStep
<1>11. ASSUME ClientDies, Abandon("client"), UNCHANGED <<at, db>> PROVE Goal
  <2>1. ~Waiting("client")'
    BY <1>1, <1>11 DEF ClientDies, Hangup, Waiting
  <2> QED BY <1>3, <1>11, <2>1 DEF Abandon
<1>12. ASSUME UNCHANGED vars PROVE Goal
  BY <1>7, <1>12 DEF vars, wireVars, dashboardVars
<1>13. Goal
  BY <1>5, <1>6, <1>8, <1>9, <1>10, <1>11, <1>12
  DEF Next, ServerNext, ClientNext, DashboardNext, Rest
<1> QED BY <1>13 DEF Goal

(* An executed request enters the outcome it is about, if it has one.      *)
LEMMA EnteredStep ==
  ASSUME LabInv, NEW q \in Asked, db' = Apply(db, q)
  PROVE  \A c \in Entered' : c \in Entered \/ (q.kind = "client" /\ c = q.half.conn)
<1>1. q \in Post /\ db \in Database
  BY AskedGenuine DEF LabInv, Genuine
<1> SUFFICES ASSUME NEW s \in Samples, db'.rows[s] # Absent, db'.rows[s].client # Absent
             PROVE  \/ db'.rows[s].client.conn \in Entered
                    \/ q.kind = "client" /\ db'.rows[s].client.conn = q.half.conn
  BY DEF Entered, Rows
<1>2. db.rows[s] \in Row \cup {Absent}
  BY <1>1 DEF Database
<1>3. CASE db'.rows[s] = db.rows[s]
  BY <1>3 DEF Entered, Rows
<1>4. CASE q \in ServerPost /\ db'.rows[s] = ServerUpsert(db.rows[s], q)
  <2>1. db.rows[s] # Absent /\ db'.rows[s].client = db.rows[s].client
    BY <1>2, <1>4, ServerUpsertEffect
  <2> QED BY <2>1 DEF Entered, Rows
<1>5. CASE q \in ClientPost /\ db'.rows[s] = ClientUpsert(db.rows[s], q)
  <2>1. q.kind = "client" /\ db'.rows[s].client = q.half
    BY <1>2, <1>5, ClientUpsertEffect DEF ClientPost
  <2> QED BY <2>1
<1> QED BY <1>1, <1>3, <1>4, <1>5, ApplyRow

(* What was entered, and what is on its way, is a measured connection.     *)
LEMMA OrderTyped ==
  ASSUME LabInv
  PROVE  /\ \A c \in Entered : c \in Measured(db)
         /\ \A q \in Pending : q.half.conn \in Measured(db)
<1>1. \A q \in Pending : q.half.conn \in Measured(db)
  BY AskedGenuine DEF Pending, Genuine
<1> QED BY <1>1 DEF Entered, LabInv, RowsGenuine, GenuineRow

(* The loops never go back within a launch.                                *)
LEMMA ReachGrows ==
  ASSUME LabInv, [Next]_vars, launch' = launch, Looping'
  PROVE  Looping /\ (rec => rec' /\ Reach <= Reach')
<1>1. /\ index \in Nat /\ index' \in Nat /\ g \in 0..2 /\ g' \in Nat /\ launch \in Nat
  BY StepLabInv, ClientAssumption DEF LabInv, ClientTypeOK
<1> DEFINE Goal == Looping /\ (rec => rec' /\ Reach <= Reach')
<1>2. ASSUME UNCHANGED <<rec, index, g>>, Looping,
             pc = "recording" => pc' = "recording"
      PROVE  Goal
  BY <1>1, <1>2 DEF Reach
<1>3. CASE RecordReturns
  <2>1. /\ pc = "recording" /\ Advance /\ pc' \in {"connect", "complete"}
    BY <1>3 DEF RecordReturns, Advance
  <2>2. pc' = "connect"
    BY <2>1 DEF Looping
  <2>3. \/ g' = g + 1 /\ index' = index /\ rec' = rec
        \/ ~(g < 2) /\ g' = 0 /\ index' = index + 1 /\ rec' = rec
    <3>1. \/ g' = g + 1 /\ index' = index /\ rec' = rec
          \/ ~(g < 2) /\ g' = 0 /\ index' = index + 1 /\ rec' = rec
          \/ pc' = "complete"
          \/ ~rec
      BY <2>1, Zenon DEF Advance
    <3> QED BY <1>3, <2>2, <3>1 DEF RecordReturns, LabInv, RecordsMeasured
  <2>4. CASE g' = g + 1 /\ index' = index /\ rec' = rec
    BY <1>1, <2>1, <2>2, <2>4 DEF Reach, Looping, Ended
  <2>5. CASE ~(g < 2) /\ g' = 0 /\ index' = index + 1 /\ rec' = rec
    <3>1. g = 2
      BY <1>1, <2>5
    <3> QED BY <1>1, <2>1, <2>2, <2>5, <3>1 DEF Reach, Looping, Ended
  <2> QED BY <2>3, <2>4, <2>5
<1>4. CASE ClientStep /\ ~RecordReturns
  <2>1. ~LaunchAgain
    BY <1>1 DEF LaunchAgain
  <2>2. CASE SkipRecord
    BY <2>2 DEF SkipRecord, Looping, Ended
  <2>3. ASSUME ~SkipRecord
        PROVE  /\ UNCHANGED <<rec, index, g>> /\ pc # "recording"
               /\ pc \in {"complete", "completing"} \cup Ended
                    => pc' \in {"completing"} \cup Ended
    BY <1>4, <2>1, <2>3
    DEF ClientStep, CreateRunCall, CreateReturns, Connect, ConnectFails, Handshake,
        WriteRequest, ProbeFails, Fail, ReadResponse, RecordProbe,
        CompleteCall, CompleteReturns, Ended
  <2> QED BY <1>2, <2>2, <2>3 DEF Looping
<1>5. CASE ClientDies
  BY <1>5 DEF ClientDies, Looping, Ended
<1>6. CASE UNCHANGED clientVars
  BY <1>2, <1>6 DEF clientVars, Looping
<1> QED
  BY <1>3, <1>4, <1>5, <1>6
  DEF Next, ServerNext, ClientNext, DashboardNext, Rest, HandleCall, CallFails, ReplyLost,
      HandleOrphan, DropOrphan, Elsewhere, vars

(* Who is behind the loops stays behind them.                              *)
LEMMA BehindStays ==
  ASSUME LabInv, [Next]_vars, NEW c \in Measured(db), Behind(c)
  PROVE  Behind(c)'
<1>1. /\ c.launch \in Nat /\ launch \in Nat /\ E!Turn(c) \in Nat
      /\ Reach \in Int /\ Reach' \in Int
  <2>1. /\ launch \in Nat /\ index \in Int /\ g \in Int
        /\ index' \in Int /\ g' \in Int
    BY StepLabInv, ClientAssumption DEF LabInv, ClientTypeOK
  <2>2. c.launch \in Nat
    BY WireAssumption DEF Measured, Known
  <2> QED BY <2>1, <2>2, TurnTyped DEF Reach
<1>2. launch' \in {launch, launch + 1}
  BY StaysClosed
<1>3. c.launch <= launch'
  BY <1>1, <1>2 DEF Behind
<1>4. ASSUME c.launch = launch', Looping' PROVE rec' /\ E!Turn(c) < Reach'
  <2>1. launch' = launch /\ c.launch = launch
    BY <1>1, <1>2, <1>4 DEF Behind
  <2>2. Looping /\ (rec => rec' /\ Reach <= Reach')
    BY <1>4, <2>1, ReachGrows
  <2>3. rec /\ E!Turn(c) < Reach
    BY <2>1, <2>2 DEF Behind
  <2> QED BY <1>1, <2>2, <2>3
<1>5. E!Turn(c)' = E!Turn(c)
  BY DEF E!Turn, E!Place, Endpoints
<1> QED BY <1>3, <1>4, <1>5 DEF Behind

(* OrderInv is kept by every step: a new report is for the current turn,   *)
(* and an applied one goes from the pending to the entered.                *)
LEMMA OrderStep ==
  ASSUME LabInv, PostedInv, OrderInv, [Next]_vars
  PROVE  OrderInv'
<1>1. /\ \A c \in Entered : c \in Measured(db) /\ Behind(c)'
      /\ \A q \in Pending : q.half.conn \in Measured(db) /\ Behind(q.half.conn)'
  BY OrderTyped, BehindStays DEF OrderInv
<1>2. \A c : E!Turn(c)' = E!Turn(c)
  BY DEF E!Turn, E!Place, Endpoints
<1>3. CASE db' = db /\ Pending' \subseteq Pending
  <2>1. Entered' = Entered
    BY <1>3 DEF Entered, Rows
  <2> QED BY <1>1, <1>2, <1>3, <2>1 DEF OrderInv
<1>4. ASSUME db' = db, RecordProbe, NEW slow \in BOOLEAN,
             Pending' \subseteq Pending \cup {ClientReport(slow)}
      PROVE  OrderInv'
  <2> DEFINE new == ClientReport(slow)
  <2>1. /\ Entered' = Entered
        /\ new.half.conn = Conn /\ Conn.launch = launch
    BY <1>4 DEF Entered, Rows, ClientReport, Conn
  <2>2. /\ pc = "finished" /\ rec /\ Looping /\ pc' = "recording"
        /\ UNCHANGED <<launch, rec, index, g>>
    BY <1>4 DEF RecordProbe, Looping, Ended
  <2>3. /\ E!Turn(Conn) = 3 * (index - 1) + g /\ E!Turn(Conn) = Reach
        /\ Reach' = Reach + 1 /\ Reach \in Nat /\ launch \in Nat
    BY <2>2, TurnOfConn, ClientAssumption DEF LabInv, ClientTypeOK, Reach
  <2>4. ASSUME NEW c, c = Conn PROVE Behind(c)'
    <3>1. /\ E!Turn(c)' = E!Turn(c) /\ c.launch = launch
      BY <1>2, <2>1, <2>4
    <3> QED BY <2>2, <2>3, <2>4, <3>1 DEF Behind
  (* Nothing of this launch is pending, all that is entered is behind.     *)
  <2>5. \A q \in Pending : q.half.conn.launch # launch
    <3>1. call["client"] = Absent
      BY <2>2 DEF PostedInv
    <3>2. \A q \in Pending : q \in orphans /\ q.kind = "client"
      BY <3>1 DEF Pending, Waiting
    <3> QED BY <2>2, <2>3, <3>2 DEF PostedInv
  <2>6. \A c \in Entered : c.launch = launch => E!Turn(c) < E!Turn(Conn)
    BY <2>2, <2>3 DEF OrderInv, Behind
  <2>7. /\ \A c \in Entered' : Behind(c)'
        /\ \A q \in Pending' : Behind(q.half.conn)'
    <3>1. ASSUME NEW q \in Pending' PROVE Behind(q.half.conn)'
      <4>1. CASE q \in Pending
        BY <1>1, <4>1
      <4>2. CASE q = new
        BY <2>1, <2>4, <4>2
      <4> QED BY <1>4, <4>1, <4>2
    <3> QED BY <1>1, <2>1, <3>1
  <2>8. \A q, x \in Pending' : q.half.conn.launch = x.half.conn.launch => q = x
    BY <1>4, <2>1, <2>5 DEF OrderInv, new
  <2>9. \A q \in Pending', c \in Entered' :
          c.launch = q.half.conn.launch => E!Turn(c) < E!Turn(q.half.conn)
    BY <1>4, <2>1, <2>6 DEF OrderInv, new
  <2> QED BY <1>2, <2>7, <2>8, <2>9 DEF OrderInv
<1>5. ASSUME NEW q \in Asked, db' = Apply(db, q), Pending' \subseteq Pending \ {q},
             q.kind = "client" => q \in Pending
      PROVE  OrderInv'
  <2>1. \A c \in Entered' : c \in Entered \/ (q.kind = "client" /\ c = q.half.conn)
    BY <1>5, EnteredStep
  <2>2. /\ \A c \in Entered' : Behind(c)'
        /\ \A x \in Pending' : Behind(x.half.conn)'
    BY <1>1, <1>5, <2>1
  <2>3. \A y, x \in Pending' : y.half.conn.launch = x.half.conn.launch => y = x
    BY <1>5 DEF OrderInv
  <2>4. \A x \in Pending', c \in Entered' :
          c.launch = x.half.conn.launch => E!Turn(c) < E!Turn(x.half.conn)
    <3> SUFFICES ASSUME NEW x \in Pending', NEW c \in Entered',
                        c.launch = x.half.conn.launch
                 PROVE  E!Turn(c) < E!Turn(x.half.conn)
      OBVIOUS
    <3>1. x \in Pending /\ x # q
      BY <1>5
    <3>2. c \in Entered
      BY <1>5, <2>1, <3>1 DEF OrderInv
    <3> QED BY <3>1, <3>2 DEF OrderInv
  <2> QED BY <1>2, <2>2, <2>3, <2>4 DEF OrderInv
<1> QED BY <1>3, <1>4, <1>5, PendingStep

-----------------------------------------------------------------------------
(* What is entered for a probe is about that probe.                        *)
LEMMA OutcomeIs ==
  ASSUME DistinctRunIds, LabInv, NEW c \in Probes,
         db.rows[SampleId(c)] # Absent, db.rows[SampleId(c)].client # Absent
  PROVE  db.rows[SampleId(c)].client.conn = c /\ c \in Entered
<1>1. /\ c.launch \in 1..Launches /\ c.mode \in Modes /\ c.rec = TRUE
      /\ c.seq \in 1..Iterations /\ c.seq \in 1..(Warmup + Iterations)
      /\ c = [launch |-> c.launch, mode |-> c.mode, seq |-> c.seq, rec |-> c.rec]
  <2>1. /\ c.launch \in 1..Launches /\ c.mode \in Modes /\ c.rec = TRUE
        /\ c.seq \in 1..Iterations
        /\ c = [launch |-> c.launch, mode |-> c.mode, seq |-> c.seq, rec |-> c.rec]
    BY DEF Probes
  <2>2. c.seq \in 1..(Warmup + Iterations)
    BY <2>1, ClientAssumption
  <2> QED BY <2>1, <2>2
<1>2. SampleId(c) \in Rows(db) /\ SampleId(c)[1] = RunIdOf[c.launch]
  BY <1>1, LabAssumption DEF Rows, SampleId
<1>3. c \in Measured(db)
  <2>1. Announced(db, RunIdOf[c.launch])
    BY <1>2 DEF LabInv, RowsGenuine, GenuineRow
  <2>2. c \in [launch : 1..Launches, mode : Modes,
               seq : 1..(Warmup + Iterations), rec : BOOLEAN]
    BY <1>1
  <2> QED BY <1>1, <2>1, <2>2 DEF Measured, Known
<1>4. /\ db.rows[SampleId(c)].client.conn \in Measured(db)
      /\ SampleId(c) = SampleId(db.rows[SampleId(c)].client.conn)
  BY <1>2 DEF LabInv, RowsGenuine, GenuineRow
<1>5. db.rows[SampleId(c)].client.conn = c
  BY <1>3, <1>4, SampleIdsJoin DEF DistinctRunIds
<1> QED BY <1>2, <1>5 DEF Entered

(* The outcome of a probe and the launches whose run has a flag, as the    *)
(* refinement reads them off the database.                                 *)
Outcome(d, c) ==
  IF d.rows[SampleId(c)] = Absent THEN Absent ELSE d.rows[SampleId(c)].client

(* A probe belongs to a launch of the lab and has a sample of its own.     *)
LEMMA ProbesAre ==
  ASSUME NEW c \in Probes
  PROVE  /\ c.launch \in 1..Launches /\ RunIdOf[c.launch] \in Runs
         /\ SampleId(c) \in Samples
         /\ c = [launch |-> c.launch, mode |-> c.mode, seq |-> c.seq, rec |-> c.rec]
         /\ c.rec = TRUE
<1>1. /\ c.launch \in 1..Launches /\ c.mode \in Modes /\ c.seq \in 1..Iterations
      /\ c.rec = TRUE
      /\ c = [launch |-> c.launch, mode |-> c.mode, seq |-> c.seq, rec |-> c.rec]
  BY DEF Probes
<1> QED BY <1>1, LabAssumption, WireAssumption DEF SampleId

(* A post announces or completes the launches of its run id, and no        *)
(* other.                                                                  *)
LEMMA LaunchesMapped ==
  ASSUME db \in Database, NEW q \in Post, db' = Apply(db, q)
  PROVE  /\ {l \in Started : db.runs[RunIdOf[l]].announced}'
              = {l \in Started : db.runs[RunIdOf[l]].announced}
                  \cup {l \in 1..Launches : q.kind = "run" /\ RunIdOf[l] = q.run}
         /\ {l \in Started : db.runs[RunIdOf[l]].completed}'
              = {l \in Started : db.runs[RunIdOf[l]].completed}
                  \cup {l \in 1..Launches : q.kind = "complete" /\ RunIdOf[l] = q.run}
<1> DEFINE A(d) == {r \in KnownRuns(d) : d.runs[r].announced}
           C(d) == {r \in KnownRuns(d) : d.runs[r].completed}
<1>1. /\ A(db') = A(db) \cup {r \in {q.run} : q.kind = "run"}
      /\ C(db') = C(db) \cup {r \in {q.run} : q.kind = "complete"}
  BY RunsMapped
<1>2. /\ {l \in Started : db.runs[RunIdOf[l]].announced} = {l \in 1..Launches : RunIdOf[l] \in A(db)}
      /\ {l \in Started : db.runs[RunIdOf[l]].completed} = {l \in 1..Launches : RunIdOf[l] \in C(db)}
      /\ {l \in Started : db.runs[RunIdOf[l]].announced}' = {l \in 1..Launches : RunIdOf[l] \in A(db')}
      /\ {l \in Started : db.runs[RunIdOf[l]].completed}' = {l \in 1..Launches : RunIdOf[l] \in C(db')}
  BY DEF Started
<1> HIDE DEF A, C
<1> QED BY <1>1, <1>2

(* A post that is not a client's report leaves every outcome as it was.    *)
LEMMA OutcomeKept ==
  ASSUME db \in Database, NEW q \in Post, db' = Apply(db, q), q.kind # "client",
         NEW c \in Probes
  PROVE  Outcome(db', c) = Outcome(db, c)
<1>1. SampleId(c) \in Samples /\ db.rows[SampleId(c)] \in Row \cup {Absent}
  BY ProbesAre DEF Database
<1>2. CASE q \in ServerPost /\ db'.rows[SampleId(c)] = ServerUpsert(db.rows[SampleId(c)], q)
  <2>1. ServerUpsert(db.rows[SampleId(c)], q) # Absent
    BY <1>1, <1>2, UpsertTypes, StoreAssumption
  <2> QED BY <1>1, <1>2, <2>1, ServerUpsertEffect DEF Outcome
<1>3. q \notin ClientPost
  BY DEF ClientPost
<1> QED BY <1>1, <1>2, <1>3, ApplyRow DEF Outcome

(* A client's report that is executed is a step of its experiment.         *)
LEMMA ReportMapped ==
  ASSUME DistinctRunIds, LabInv, ClosedInv, OrderInv,
         NEW q \in Pending, db' = Apply(db, q)
  PROVE  E!Next
<1> DEFINE c == q.half.conn
<1>1. /\ q \in Post /\ q.kind = "client" /\ q \in Asked /\ db \in Database
      /\ c \in Measured(db) /\ q.sample = SampleId(c) /\ q.run = RunIdOf[c.launch]
      /\ Announced(db, q.run)
  BY AskedGenuine DEF Pending, Genuine, LabInv
<1>2. c \in Probes /\ q.half = [conn |-> c, ok |-> q.half.ok] /\ q.half.ok \in BOOLEAN
  <2>1. q \in ClientPost
    BY <1>1, ApplyUpsert DEF IsMeasurement
  <2>2. q.half = [conn |-> c, ok |-> q.half.ok] /\ q.half.ok \in BOOLEAN
    BY <2>1 DEF ClientPost, ClientHalf
  <2>3. /\ c.launch \in 1..Launches /\ c.mode \in Modes /\ c.rec = TRUE
        /\ c.seq \in 1..Iterations
        /\ c = [launch |-> c.launch, mode |-> c.mode, seq |-> c.seq, rec |-> c.rec]
    BY <1>1, ClientAssumption DEF Measured, Known
  <2>4. c \in Probes
    BY <2>3 DEF Probes
  <2> QED BY <2>2, <2>4
<1>3. c.launch \in 1..Launches /\ SampleId(c) \in Samples
  BY <1>2, ProbesAre
<1> HIDE DEF c
<1>4. /\ c.launch \in {l \in Started : db.runs[RunIdOf[l]].announced}
      /\ c.launch \notin {l \in Started : db.runs[RunIdOf[l]].completed}
  <2>1. c.launch \in Started /\ db.runs[RunIdOf[c.launch]].announced
    BY <1>1, <1>3, WireAssumption DEF Announced, Started, KnownRuns
  <2>2. ~Closed(RunIdOf[c.launch])
    BY <1>1, <1>3, WireAssumption DEF ClosedInv
  <2> QED BY <2>1, <2>2 DEF Closed, Completed, Started, KnownRuns
<1>5. ASSUME NEW d \in Probes, d.launch = c.launch, E!Turn(d) >= E!Turn(c)
      PROVE  Outcome(db, d) = Absent
  <2> SUFFICES ASSUME Outcome(db, d) # Absent PROVE FALSE
    OBVIOUS
  <2>1. d \in Entered
    BY OutcomeIs DEF Outcome
  <2>2. E!Turn(d) < E!Turn(c)
    BY <1>5, <2>1 DEF OrderInv, c
  <2>3. E!Turn(d) \in Nat /\ E!Turn(c) \in Nat
    BY <1>1, <2>1, OrderTyped, TurnTyped
  <2> QED BY <1>5, <2>2, <2>3
<1>6. Outcome(db', c) = q.half
  <2>1. /\ db'.rows[SampleId(c)] # Absent
        /\ db'.rows[SampleId(c)] = ClientUpsert(db.rows[SampleId(c)], q)
        /\ q \in ClientPost /\ db.rows[SampleId(c)] \in Row \cup {Absent}
    BY <1>1, <1>3, ApplyUpsert DEF IsMeasurement, Database
  <2> QED BY <2>1, ClientUpsertEffect DEF Outcome
<1>7. ASSUME NEW d \in Probes, d # c PROVE Outcome(db', d) = Outcome(db, d)
  <2>1. SampleId(d) # SampleId(c) /\ SampleId(d) \in Samples
    BY <1>2, <1>7, ProbesAre DEF SampleId, DistinctRunIds
  <2> QED BY <1>1, <2>1, ApplyUpsert DEF IsMeasurement, Outcome
<1>8. [d \in Probes |-> Outcome(db', d)] = [[d \in Probes |-> Outcome(db, d)] EXCEPT ![c] = q.half]
  BY <1>2, <1>6, <1>7
<1>9. E!Enter(c)
  <2>1. /\ UNCHANGED {l \in Started : db.runs[RunIdOf[l]].announced}
        /\ UNCHANGED {l \in Started : db.runs[RunIdOf[l]].completed}
    BY <1>1, LaunchesMapped
  <2>2. \E good \in BOOLEAN :
          [d \in Probes |-> Outcome(db', d)]
            = [[d \in Probes |-> Outcome(db, d)] EXCEPT ![c] = [conn |-> c, ok |-> good]]
    BY <1>2, <1>8
  <2>3. \A d \in Probes : d.launch = c.launch /\ E!Turn(d) >= E!Turn(c) =>
          [x \in Probes |-> Outcome(db, x)][d] = Absent
    BY <1>5
  <2> QED BY <1>4, <2>1, <2>2, <2>3 DEF E!Enter, Outcome
<1> QED BY <1>2, <1>9 DEF E!Next

(* The same for every other request: it announces a run, completes one     *)
(* that was announced, or is none of the experiment's business.            *)
LEMMA OtherMapped ==
  ASSUME DistinctRunIds, LabInv, NEW q \in Asked, q.kind # "client", db' = Apply(db, q)
  PROVE  [E!Next]_E!vars
<1>1. /\ q \in Post /\ db \in Database /\ q.run \in Runs
      /\ q.kind # "run" => Announced(db, q.run)
  BY AskedGenuine, PostKinds DEF Genuine, LabInv
<1>2. UNCHANGED [c \in Probes |-> IF db.rows[SampleId(c)] = Absent THEN Absent
                                  ELSE db.rows[SampleId(c)].client]
  BY <1>1, OutcomeKept DEF Outcome
<1>3. CASE \E l \in 1..Launches : RunIdOf[l] = q.run
  <2>1. PICK l \in 1..Launches : RunIdOf[l] = q.run
    BY <1>3
  <2>2. {x \in 1..Launches : RunIdOf[x] = q.run} = {l}
    BY <2>1 DEF DistinctRunIds
  <2>3. CASE q.kind = "run"
    <3>1. E!Announce(l)
      BY <1>1, <1>2, <2>2, <2>3, LaunchesMapped DEF E!Announce
    <3> QED BY <3>1 DEF E!Next
  <2>4. CASE q.kind = "complete"
    <3>1. l \in {x \in Started : db.runs[RunIdOf[x]].announced}
      BY <1>1, <2>1, <2>4 DEF Announced, Started, KnownRuns
    <3>2. E!Complete(l)
      BY <1>1, <1>2, <2>2, <2>4, <3>1, LaunchesMapped DEF E!Complete
    <3> QED BY <3>2 DEF E!Next
  <2>5. CASE q.kind \notin {"run", "complete"}
    BY <1>1, <1>2, <2>5, LaunchesMapped DEF E!vars
  <2> QED BY <2>3, <2>4, <2>5
<1>4. CASE ~\E l \in 1..Launches : RunIdOf[l] = q.run
  BY <1>1, <1>2, <1>4, LaunchesMapped DEF E!vars
<1> QED BY <1>3, <1>4

(* Every launch with a run id of its own is an experiment as the abstract  *)
(* specification has it: whatever is lost or late and whoever dies, probes *)
(* are reported at most once, in their order, and never after the end.     *)
THEOREM ExperimentRefinement ==
  ASSUME DistinctRunIds
  PROVE  Spec => FollowsExperiment
<1> DEFINE Inv == LabInv /\ PostedInv /\ ClosedInv /\ OrderInv
<1>1. Init => Inv /\ E!Init
  <2> SUFFICES ASSUME Init PROVE OrderInv /\ E!Init
    BY InitLabInv, InitFinal
  <2>1. /\ db = EmptyDatabase /\ Asked = {}
        /\ \A r \in Runs : db.runs[r] = Absent
        /\ \A s \in Samples : db.rows[s] = Absent
    BY DEF Init, WireInit, Asked, EmptyDatabase
  <2>2. Entered = {} /\ Pending = {}
    BY <2>1 DEF Entered, Pending, Rows
  <2>3. Started = {}
    BY <2>1, WireAssumption DEF Started, KnownRuns
  <2>4. \A c \in Probes : db.rows[SampleId(c)] = Absent
    BY <2>1, ProbesAre
  <2> QED BY <2>2, <2>3, <2>4 DEF OrderInv, E!Init
<1>2. Inv /\ [Next]_vars => Inv'
  BY StepLabInv, PostedStep, ClosedStep, OrderStep
<1>3. Inv /\ [Next]_vars => [E!Next]_E!vars
  <2> SUFFICES ASSUME Inv, [Next]_vars PROVE [E!Next]_E!vars
    OBVIOUS
  <2>1. CASE db' = db
    BY <2>1 DEF E!vars, Started
  <2>2. ASSUME NEW q \in Asked, db' = Apply(db, q), q.kind = "client" => q \in Pending
        PROVE  [E!Next]_E!vars
    BY <2>2, ReportMapped, OtherMapped
  <2> QED BY <2>1, <2>2, PendingStep
<1> QED BY <1>1, <1>2, <1>3, PTL DEF Spec, FollowsExperiment, E!Spec
=============================================================================

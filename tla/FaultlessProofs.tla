---------------------------- MODULE FaultlessProofs ----------------------------
(***************************************************************************)
(* What a launch of the client leaves behind when no fault has happened:   *)
(* every measured probe of a storable mode, from both sides, a success;    *)
(* and what of it can still arrive after the run has been completed.       *)
(* The argument follows a single connection: no other is open while the    *)
(* client waits for its response, and by the time the response is there    *)
(* the server has its measurement on the way.                              *)
(***************************************************************************)
EXTENDS LabProofs

(* The one connection there is, and its stage.                             *)
Mine(st) == backlog[Conn.mode] = <<[conn |-> Conn, stage |-> st, open |-> TRUE]>>

Probing == pc \in {"handshake", "write", "read"}

OneConnection ==
  /\ \A m \in Modes : ~(Probing /\ m = Conn.mode) => backlog[m] = <<>>
  /\ pc = "handshake" => ~inbox /\ (Mine("queued") \/ Mine("accepted"))
  /\ pc = "write" => ~inbox /\ Mine("shook")
  /\ pc = "read" => \/ ~inbox /\ Mine("sent")
                    \/ inbox /\ backlog[Conn.mode] = <<>>

(* Where a server is tells how far its connection has come.                *)
InStep ==
  \A m \in Modes :
    /\ at[m] # "down"
    /\ at[m] \in {"handshake", "read"} => backlog[m] # <<>> /\ backlog[m][1].stage # "queued"
    /\ at[m] = "read" => backlog[m][1].stage \in {"shook", "sent"}
    /\ at[m] \in {"accept", "posting"} /\ backlog[m] # <<>> => backlog[m][1].stage = "queued"

Undisturbed ==
  /\ up = Modes /\ orphans = {}
  /\ pc \notin {"killed", "aborted"}
  /\ pc \in {"finished", "recording"} => ok
  /\ failures = 0
  /\ \A m \in Modes : at[m] # "posting" => call[m] = Absent

(* Only what the schema or the CHECK refuses is not taken.                 *)
AllWell ==
  /\ \A p \in Callers : call[p] # Absent =>
       /\ call[p].reply = "failed" => ~Accepted(call[p].req)
       /\ call[p].req.kind = "client" => call[p].req.half.ok
  /\ \A s \in Rows(db) : db.rows[s].success

HasServer(d, s) == d.rows[s] # Absent /\ d.rows[s].server # Absent

Reporting(m, s) ==
  /\ call[m] # Absent /\ call[m].reply = "none"
  /\ call[m].req.kind = "server" /\ call[m].req.inRange
  /\ call[m].req.sample = s /\ call[m].req.mode = m

Heard(m, i) == HasServer(db, <<RunId, m, i>>) \/ Reporting(m, <<RunId, m, i>>)

(* The response to the current probe is there.                             *)
Responded == (pc = "read" /\ inbox) \/ pc \in {"finished", "recording"}

Due(i, k) == Passed(i, k) \/ (i = index /\ k = g /\ Responded)

Measuring == pc \notin {"create", "creating"} /\ rec

ServersHeard ==
  Measuring =>
    \A i \in 1..Iterations, k \in 0..2 :
      Due(i, k) /\ At(i, k) \in StoredModes => Heard(At(i, k), i)

Calm == OneConnection /\ InStep /\ Undisturbed /\ AllWell /\ ReportInv /\ ServersHeard

CalmInv == faults = 0 => Calm

-----------------------------------------------------------------------------
(* The one connection.                                                     *)
Link1(st) == [conn |-> Conn, stage |-> st, open |-> TRUE]

LEMMA StateTyped ==
  ASSUME LabInv
  PROVE  /\ Conn.mode \in Modes /\ backlog \in [Modes -> Seq(Links(db))]
         /\ at \in [Modes -> ServerLabels]
         /\ call \in [Callers -> Calls(db) \cup {Absent}]
         /\ Callers = Modes \cup {"client"} /\ "client" \notin Modes
         /\ index \in Nat \ {0} /\ rec \in BOOLEAN /\ g \in 0..2 /\ launch \in 1..Launches
         /\ pc \in ClientLabels /\ faults \in 0..MaxFaults
<1>1. ClientTypeOK
  BY DEF LabInv
<1>2. Conn.mode \in Modes
  BY <1>1, SlotRange, ClientAssumption DEF Conn, ClientTypeOK
<1> QED BY <1>1, <1>2, ClientIsNoServer, ClientAssumption
        DEF LabInv, ClientTypeOK, ServerTypeOK, Callers

(* Whatever is before a server is that connection.                         *)
LEMMA ServedIsMine ==
  ASSUME LabInv, OneConnection, NEW m \in Modes, backlog[m] # <<>>
  PROVE  /\ Probing /\ m = Conn.mode
         /\ \E st \in Stages : Mine(st)
         /\ backlog[m][1].conn = Conn /\ backlog[m][1].open /\ Head(backlog[m]) = backlog[m][1]
         /\ Tail(backlog[m]) = <<>>
<1>1. Probing /\ m = Conn.mode
  BY DEF OneConnection
<1>2. PICK st \in Stages : Mine(st)
  BY <1>1 DEF OneConnection, Probing, Stages
<1>3. backlog[m] = <<Link1(st)>>
  BY <1>1, <1>2 DEF Mine, Link1
<1>4. Head(<<Link1(st)>>) = Link1(st) /\ <<Link1(st)>>[1] = Link1(st) /\ Tail(<<Link1(st)>>) = <<>>
  OBVIOUS
<1>5. Link1(st).conn = Conn /\ Link1(st).open
  BY DEF Link1
<1> QED BY <1>1, <1>2, <1>3, <1>4, <1>5

LEMMA MineIsConnected ==
  ASSUME NEW st, Mine(st)
  PROVE  Connected(Conn) /\ Stage(Conn) = st /\ backlog[Conn.mode] # <<>>
<1>1. backlog[Conn.mode] = <<Link1(st)>> /\ Link1(st).conn = Conn /\ Link1(st).stage = st
  BY DEF Mine, Link1
<1>2. DOMAIN <<Link1(st)>> = {1} /\ <<Link1(st)>>[1] = Link1(st) /\ <<Link1(st)>> # <<>>
  OBVIOUS
<1>3. Place(Conn) = {1}
  BY <1>1, <1>2 DEF Place
<1> QED BY <1>1, <1>2, <1>3 DEF Connected, Stage

LEMMA GoneIsUnconnected ==
  ASSUME backlog[Conn.mode] = <<>>
  PROVE  ~Connected(Conn)
  BY DEF Connected, Place

LEMMA StageEdit ==
  ASSUME NEW st, NEW s
  PROVE  [Link1(st) EXCEPT !.stage = s] = Link1(s)
<1> DEFINE k == Link1(st)
           l == Link1(s)
<1>1. {k, l} \subseteq [conn : {Conn}, stage : {st, s}, open : BOOLEAN]
  BY DEF Link1
<1>2. k.stage = st /\ l.stage = s /\ k.open = TRUE /\ l.open = TRUE
  BY DEF Link1
<1> HIDE DEF k, l
<1>3. [k EXCEPT !.stage = s] = l
  BY <1>1, <1>2
<1> QED BY <1>3 DEF k, l

LEMMA EditMine ==
  ASSUME NEW st, Mine(st), NEW s, SetStage(Conn, s)
  PROVE  backlog' = [backlog EXCEPT ![Conn.mode] = <<Link1(s)>>]
<1>1. backlog[Conn.mode] = <<Link1(st)>> /\ Link1(st).conn = Conn
  BY DEF Mine, Link1
<1>2. [Link1(st) EXCEPT !.stage = s] = Link1(s)
  BY StageEdit
<1> DEFINE f == [i \in DOMAIN <<Link1(st)>> |->
                   IF <<Link1(st)>>[i].conn = Conn THEN [<<Link1(st)>>[i] EXCEPT !.stage = s]
                   ELSE <<Link1(st)>>[i]]
<1>3. backlog' = [backlog EXCEPT ![Conn.mode] = f]
  BY <1>1 DEF SetStage
<1>4. f = <<Link1(s)>>
  <2> DEFINE a == Link1(st)
             b == Link1(s)
  <2>1. a.conn = Conn /\ [a EXCEPT !.stage = s] = b
    BY <1>1, <1>2
  <2> HIDE DEF a, b
  <2>2. [i \in DOMAIN <<a>> |-> IF <<a>>[i].conn = Conn THEN [<<a>>[i] EXCEPT !.stage = s]
                                ELSE <<a>>[i]] = <<b>>
    BY <2>1
  <2> QED BY <2>2 DEF a, b
<1> QED BY <1>3, <1>4

(* The steps that need no fault.                                           *)
CalmClient ==
  \/ CreateRunCall \/ CreateReturns \/ Connect \/ Handshake \/ WriteRequest
  \/ ReadResponse \/ SkipRecord \/ RecordProbe \/ RecordReturns \/ CompleteCall
  \/ CompleteReturns \/ LaunchAgain

CalmServer(m) == Accept(m) \/ ShakeHands(m) \/ Serve(m) \/ PostReturns(m)

NoFault == \A k \in FaultKinds : ~Fault(k)

LEMMA CalmNext ==
  ASSUME LabInv, Calm, [Next]_vars, NoFault
  PROVE  \/ CalmClient /\ UNCHANGED <<at, db, orphans>>
         \/ \E m \in Modes : CalmServer(m) /\ UNCHANGED <<clientVars, db, orphans>>
         \/ \E p \in Callers : HandleCall(p)
         \/ UNCHANGED vars
<1> DEFINE Goal == \/ CalmClient /\ UNCHANGED <<at, db, orphans>>
                   \/ \E m \in Modes : CalmServer(m) /\ UNCHANGED <<clientVars, db, orphans>>
                   \/ \E p \in Callers : HandleCall(p)
                   \/ UNCHANGED vars
<1>1. /\ ~Fault("connect") /\ ~Fault("tls") /\ ~Fault("server") /\ ~Fault("dashboard")
      /\ ~Fault("reply") /\ ~Fault("client")
  BY DEF NoFault, FaultKinds
<1>2. ~ConnectFails
  BY <1>1, StateTyped DEF ConnectFails, Calm, Undisturbed
<1>3. ~ProbeFails
  <2>1. Probing => Connected(Conn) \/ inbox
    BY MineIsConnected DEF Calm, OneConnection, Probing
  <2> QED BY <1>1, <2>1 DEF ProbeFails, Probing
<1>4. \A m \in Modes : ~GiveUp(m)
  BY ServedIsMine DEF GiveUp, Calm, InStep, Served
<1>5. \A m \in Modes : ~ServerRestarts(m) /\ ~ServerDies(m)
  BY <1>1 DEF ServerRestarts, ServerDies, Calm, InStep
<1>6. ~ClientDies /\ \A p \in Callers : ~CallFails(p) /\ ~ReplyLost(p)
  BY <1>1 DEF ClientDies, CallFails, ReplyLost
<1>7. CASE ClientNext
  BY <1>2, <1>3, <1>6, <1>7 DEF ClientNext, ClientStep, CalmClient, dashboardVars
<1>8. CASE ServerNext
  BY <1>4, <1>5, <1>8 DEF ServerNext, Serves, CalmServer, dashboardVars
<1>9. CASE DashboardNext
  BY <1>6, <1>9 DEF DashboardNext, Calm, Undisturbed
<1> QED BY <1>7, <1>8, <1>9 DEF Next, Rest

-----------------------------------------------------------------------------
(* A step keeps client and server in step with each other.                 *)
LEMMA ConnStays ==
  ASSUME UNCHANGED <<launch, rec, index, g>>
  PROVE  Conn' = Conn /\ RunId' = RunId
  BY DEF Conn, RunId

(* What the links are after a step that puts one link, or none, into       *)
(* Conn.mode.                                                              *)
LEMMA LinkStep ==
  ASSUME LabInv, Calm, [Next]_vars, NoFault
  PROVE  OneConnection' /\ InStep'
<1> DEFINE Goal == OneConnection' /\ InStep'
<1> USE DEF Calm
<1>0. /\ OneConnection /\ InStep /\ Conn.mode \in Modes /\ backlog \in [Modes -> Seq(Links(db))]
      /\ at \in [Modes -> ServerLabels]
  BY StateTyped
<1>1. ASSUME ~Probing, pc' \notin {"handshake", "write", "read"}, UNCHANGED <<backlog, at>>
      PROVE  Goal
  BY <1>0, <1>1 DEF OneConnection, InStep, Probing
<1>2. ASSUME UNCHANGED <<clientVars, backlog, inbox>>,
             \/ UNCHANGED at
             \/ \E m \in Modes : at[m] = "posting" /\ Goto(m, "accept")
             \/ \E m \in Modes : /\ at[m] = "handshake" /\ Goto(m, "read")
                                 /\ backlog[m][1].stage \in {"shook", "sent"}
      PROVE  Goal
  <2>1. Conn' = Conn /\ pc' = pc
    BY <1>2, ConnStays DEF clientVars
  <2>2. OneConnection'
    BY <1>0, <1>2, <2>1 DEF OneConnection, Probing, Mine
  <2>3. InStep'
    BY <1>0, <1>2 DEF InStep, Goto
  <2> QED BY <2>2, <2>3
<1>3. ASSUME NEW st \in Stages, NEW l \in ServerLabels,
             backlog' = [backlog EXCEPT ![Conn.mode] = <<Link1(st)>>], UNCHANGED inbox,
             at' = [at EXCEPT ![Conn.mode] = l],
             Probing \/ \A m \in Modes : backlog[m] = <<>>,
             UNCHANGED <<launch, rec, index, g>>, ~inbox,
             \/ pc' = "handshake" /\ st \in {"queued", "accepted"}
             \/ pc' = "write" /\ st = "shook"
             \/ pc' = "read" /\ st = "sent",
             \/ l = "handshake" /\ st # "queued"
             \/ l = "read" /\ st \in {"shook", "sent"}
             \/ l \in {"accept", "posting"} /\ st = "queued"
      PROVE  Goal
  <2>1. Conn' = Conn
    BY <1>3, ConnStays
  <2>2. /\ backlog'[Conn.mode] = <<Link1(st)>>
        /\ \A m \in Modes \ {Conn.mode} : backlog'[m] = <<>>
    BY <1>0, <1>3 DEF OneConnection
  <2>3. <<Link1(st)>>[1] = Link1(st) /\ Link1(st).stage = st /\ <<Link1(st)>> # <<>>
    BY DEF Link1
  <2>4. OneConnection'
    BY <1>3, <2>1, <2>2 DEF OneConnection, Probing, Mine, Link1
  <2>5. ASSUME NEW m \in Modes
        PROVE  /\ at'[m] # "down"
               /\ at'[m] \in {"handshake", "read"} =>
                    backlog'[m] # <<>> /\ backlog'[m][1].stage # "queued"
               /\ at'[m] = "read" => backlog'[m][1].stage \in {"shook", "sent"}
               /\ at'[m] \in {"accept", "posting"} /\ backlog'[m] # <<>> =>
                    backlog'[m][1].stage = "queued"
    <3>1. CASE m = Conn.mode
      BY <1>0, <1>3, <2>2, <2>3, <3>1
    <3>2. CASE m # Conn.mode
      <4>1. at'[m] = at[m] /\ backlog'[m] = <<>> /\ backlog[m] = <<>>
        BY <1>0, <1>3, <2>2, <3>2 DEF OneConnection
      <4> QED BY <1>0, <4>1 DEF InStep
    <3> QED BY <3>1, <3>2
  <2>6. InStep'
    BY <2>5 DEF InStep
  <2> QED BY <2>4, <2>6
<1>4. ASSUME NEW m \in Modes, CalmServer(m), UNCHANGED clientVars PROVE Goal
  <2>1. CASE Accept(m)
    <3>1. backlog[m] # <<>> /\ at[m] = "accept"
      BY <2>1 DEF Accept
    <3>2. m = Conn.mode /\ Probing
      BY <1>0, <3>1, ServedIsMine
    <3>3. Mine("queued") /\ pc = "handshake" /\ ~inbox
      <4>1. PICK st \in Stages : Mine(st)
        BY <1>0, <3>1, ServedIsMine
      <4>2. backlog[m][1].stage = "queued"
        BY <1>0, <3>1 DEF InStep
      <4>3. <<Link1(st)>>[1].stage = st
        BY DEF Link1
      <4>4. st = "queued"
        BY <3>2, <4>1, <4>2, <4>3 DEF Mine, Link1
      <4>5. Stage(Conn) = "queued"
        BY <4>1, <4>4, MineIsConnected
      <4> QED BY <1>0, <3>1, <3>2, <4>1, <4>4, <4>5, MineIsConnected DEF OneConnection, Probing
    <3>4. backlog[m] = <<Link1("queued")>>
      BY <3>2, <3>3 DEF Mine, Link1
    <3> DEFINE b == backlog[m]
               k == [b[1] EXCEPT !.stage = IF @ = "queued" THEN "accepted" ELSE @]
    <3>5. k = Link1("accepted")
      <4>1. b[1] = Link1("queued") /\ b[1].stage = "queued"
        BY <3>4 DEF Link1
      <4>2. k = [b[1] EXCEPT !.stage = "accepted"]
        BY <4>1
      <4> QED BY <4>1, <4>2, StageEdit
    <3>6. backlog' = [backlog EXCEPT ![m] = <<Link1("accepted")>>]
      <4>1. backlog' = [backlog EXCEPT ![m] = [b EXCEPT ![1] = k]]
        BY <2>1 DEF Accept
      <4> HIDE DEF k
      <4>2. [<<Link1("queued")>> EXCEPT ![1] = k] = <<k>>
        OBVIOUS
      <4> QED BY <3>4, <3>5, <4>1, <4>2
    <3>7. at' = [at EXCEPT ![m] = "handshake"] /\ UNCHANGED <<pc, inbox, launch, rec, index, g>>
      BY <1>4, <2>1 DEF Accept, Goto, clientVars
    <3> HIDE DEF b, k
    <3>8. "accepted" \in Stages /\ "handshake" \in ServerLabels
      BY DEF Stages, ServerLabels
    <3> QED BY <1>3, <3>2, <3>3, <3>6, <3>7, <3>8
  <2>2. CASE ShakeHands(m)
    <3>1. at[m] = "handshake" /\ Served(m).stage \in {"shook", "sent"} /\ Goto(m, "read")
      BY <2>2 DEF ShakeHands
    <3>2. backlog[m] # <<>>
      BY <1>0, <3>1 DEF InStep
    <3>3. backlog[m][1].stage \in {"shook", "sent"}
      BY <1>0, <3>1, <3>2, ServedIsMine DEF Served
    <3> QED BY <1>2, <1>4, <2>2, <3>1, <3>3 DEF ShakeHands, wireVars
  <2>3. CASE PostReturns(m)
    BY <1>2, <1>4, <2>3 DEF PostReturns
  <2>4. CASE Serve(m)
    <3>1. at[m] = "read" /\ Served(m).stage = "sent"
      BY <2>4 DEF Serve
    <3>2. backlog[m] # <<>>
      BY <1>0, <3>1 DEF InStep
    <3>3. m = Conn.mode /\ Probing /\ Served(m).open /\ Tail(backlog[m]) = <<>>
      BY <1>0, <3>2, ServedIsMine DEF Served
    <3>4. pc = "read"
      <4>1. PICK st \in Stages : Mine(st)
        BY <1>0, <3>2, ServedIsMine
      <4>2. st = "sent"
        <5>1. Head(<<Link1(st)>>).stage = st
          BY DEF Link1
        <5> QED BY <3>1, <3>3, <4>1, <5>1 DEF Mine, Link1, Served
      <4>3. Stage(Conn) = "sent"
        BY <4>1, <4>2, MineIsConnected
      <4> QED BY <1>0, <3>3, <4>3, MineIsConnected DEF OneConnection, Probing
    <3>5. /\ inbox' = TRUE /\ backlog' = [backlog EXCEPT ![m] = <<>>]
          /\ \E l \in {"accept", "posting"} : at' = [at EXCEPT ![m] = l]
      <4>1. inbox \in BOOLEAN
        BY DEF LabInv
      <4> QED BY <2>4, <3>3, <4>1 DEF Serve, Release, Goto
    <3>6. Conn' = Conn /\ pc' = "read"
      BY <1>4, <3>4, ConnStays DEF clientVars
    <3>7. \A x \in Modes : backlog'[x] = <<>>
      BY <1>0, <3>3, <3>5 DEF OneConnection
    <3>8. OneConnection'
      BY <1>0, <3>5, <3>6, <3>7 DEF OneConnection, Probing
    <3>9. InStep'
      <4> SUFFICES ASSUME NEW x \in Modes
                   PROVE  at'[x] \notin {"down", "handshake", "read"}
        BY <3>7 DEF InStep
      <4>1. CASE x = m
        BY <1>0, <3>5, <4>1
      <4>2. CASE x # m
        BY <1>0, <3>3, <3>5, <4>2 DEF InStep, OneConnection
      <4> QED BY <4>1, <4>2
    <3> QED BY <3>8, <3>9
  <2> QED BY <1>4, <2>1, <2>2, <2>3, <2>4 DEF CalmServer
<1>5. ASSUME CalmClient, UNCHANGED at PROVE Goal
  <2>1. CASE Connect
    <3>1. \A m \in Modes : backlog[m] = <<>>
      BY <1>0, <2>1 DEF Connect, OneConnection, Probing
    <3>2. /\ backlog' = [backlog EXCEPT ![Conn.mode] = <<Link1("queued")>>]
          /\ inbox' = FALSE /\ pc' = "handshake" /\ UNCHANGED <<launch, rec, index, g>>
      <4>1. Append(<<>>, Link1("queued")) = <<Link1("queued")>>
        OBVIOUS
      <4> QED BY <1>0, <2>1, <3>1, <4>1 DEF Connect, Link1
    <3>3. Conn' = Conn
      BY <3>2, ConnStays
    <3>4. /\ backlog'[Conn.mode] = <<Link1("queued")>>
          /\ \A m \in Modes \ {Conn.mode} : backlog'[m] = <<>>
      BY <1>0, <3>1, <3>2
    <3>5. OneConnection'
      BY <3>2, <3>3, <3>4 DEF OneConnection, Probing, Mine, Link1
    <3>6. InStep'
      <4>1. \A m \in Modes : at[m] \notin {"down", "handshake", "read"}
        BY <1>0, <3>1 DEF InStep
      <4>2. <<Link1("queued")>>[1].stage = "queued"
        BY DEF Link1
      <4> QED BY <1>5, <3>4, <4>1, <4>2 DEF InStep
    <3> QED BY <3>5, <3>6
  <2>2. CASE Handshake \/ WriteRequest
    <3>1. PICK st \in Stages : Mine(st) /\ st \in {"accepted", "shook"}
      <4>1. CASE Handshake
        <5>1. Stage(Conn) = "accepted" /\ (Mine("queued") \/ Mine("accepted"))
          BY <1>0, <4>1 DEF Handshake, OneConnection
        <5>2. Mine("accepted")
          BY <5>1, MineIsConnected
        <5> QED BY <5>2 DEF Stages
      <4>2. CASE WriteRequest
        BY <1>0, <4>2 DEF WriteRequest, OneConnection, Stages
      <4> QED BY <2>2, <4>1, <4>2
    <3>2. \E s \in {"shook", "sent"} :
            /\ SetStage(Conn, s)
            /\ pc' = IF s = "shook" THEN "write" ELSE "read"
      BY <2>2 DEF Handshake, WriteRequest
    <3>3. PICK s \in {"shook", "sent"} :
            /\ backlog' = [backlog EXCEPT ![Conn.mode] = <<Link1(s)>>]
            /\ pc' = IF s = "shook" THEN "write" ELSE "read"
      BY <3>1, <3>2, EditMine
    <3>4. Probing /\ ~inbox /\ UNCHANGED <<inbox, launch, rec, index, g>>
      BY <1>0, <2>2 DEF Handshake, WriteRequest, OneConnection, Probing
    <3>5. at[Conn.mode] \in {"handshake", "read"}
      <4>1. <<Link1(st)>>[1].stage = st /\ backlog[Conn.mode] = <<Link1(st)>>
        BY <3>1 DEF Mine, Link1
      <4>2. backlog[Conn.mode] # <<>> /\ backlog[Conn.mode][1].stage # "queued"
        BY <3>1, <4>1, MineIsConnected
      <4> QED BY <1>0, <4>2 DEF InStep, ServerLabels
    <3>6. at' = [at EXCEPT ![Conn.mode] = at[Conn.mode]]
      BY <1>0, <1>5
    <3> DEFINE l == at[Conn.mode]
    <3>7. l \in ServerLabels /\ l \in {"handshake", "read"} /\ s \in Stages
      BY <3>5 DEF ServerLabels, Stages
    <3>8. \/ pc' = "write" /\ s = "shook"
          \/ pc' = "read" /\ s = "sent"
      BY <3>3
    <3> HIDE DEF l
    <3>9. at' = [at EXCEPT ![Conn.mode] = l]
      BY <3>6 DEF l
    <3> QED BY <1>3, <3>3, <3>4, <3>7, <3>8, <3>9
  <2>3. CASE ReadResponse
    <3>1. pc = "read" /\ pc' = "finished" /\ UNCHANGED backlog
      BY <2>3 DEF ReadResponse, wireVars
    <3>2. \A m \in Modes : backlog[m] = <<>>
      BY <1>0, <2>3, <3>1, MineIsConnected DEF ReadResponse, OneConnection
    <3> QED BY <1>0, <1>5, <3>1, <3>2 DEF OneConnection, InStep, Probing
  <2>4. CASE SkipRecord \/ RecordReturns
    <3>1. pc' \in {"connect", "complete"}
      BY <2>4 DEF SkipRecord, RecordReturns, Advance
    <3> QED BY <1>1, <1>5, <2>4, <3>1 DEF SkipRecord, RecordReturns, Probing, wireVars
  <2>5. CASE \/ CreateRunCall \/ CreateReturns \/ RecordProbe \/ CompleteCall
             \/ CompleteReturns \/ LaunchAgain
    BY <1>1, <1>5, <2>5
    DEF CreateRunCall, CreateReturns, RecordProbe, CompleteCall, CompleteReturns,
        LaunchAgain, Ended, Probing, wireVars
  <2> QED BY <1>5, <2>1, <2>2, <2>3, <2>4, <2>5 DEF CalmClient
<1>6. ASSUME NEW p \in Callers, HandleCall(p) PROVE Goal
  BY <1>2, <1>6 DEF HandleCall, Elsewhere
<1>7. CASE UNCHANGED vars
  BY <1>2, <1>7 DEF vars, wireVars
<1> QED BY <1>4, <1>5, <1>6, <1>7, CalmNext

-----------------------------------------------------------------------------
(* Nothing fails, and only a server that posts has a call.                 *)
LEMMA UndisturbedStep ==
  ASSUME LabInv, Calm, [Next]_vars, NoFault
  PROVE  Undisturbed'
<1> DEFINE Goal == Undisturbed'
<1> USE DEF Calm
<1>0. /\ Undisturbed /\ AllWell /\ OneConnection
      /\ at \in [Modes -> ServerLabels] /\ call \in [Callers -> Calls(db) \cup {Absent}]
      /\ Callers = Modes \cup {"client"} /\ "client" \notin Modes
  BY StateTyped
<1>1. ASSUME UNCHANGED <<up, orphans, pc, ok, failures>>,
             \A m \in Modes : at'[m] # "posting" => call'[m] = Absent
      PROVE  Goal
  BY <1>0, <1>1 DEF Undisturbed
<1>2. ASSUME UNCHANGED <<up, orphans, at, failures>>,
             \A m \in Modes : call'[m] = call[m],
             pc' \notin {"killed", "aborted"},
             pc' \in {"finished", "recording"} => ok'
      PROVE  Goal
  BY <1>0, <1>2 DEF Undisturbed
<1>3. ASSUME CalmClient, UNCHANGED <<at, orphans>> PROVE Goal
  <2>0. \A x : \A m \in Modes : [call EXCEPT !["client"] = x][m] = call[m]
    BY <1>0
  <2>1. CASE CreateReturns
    <3>1. call["client"] \in Calls(db) /\ call["client"].reply # "none" /\ pc = "creating"
      BY <1>0, <2>1 DEF CreateReturns, Answered
    <3>2. call["client"].req = [kind |-> "run", run |-> RunId, inRange |-> TRUE]
      BY <2>1, <3>1 DEF LabInv, CreateAsked, CreateReturns, Answered
    <3>3. Accepted(call["client"].req)
      BY <3>2 DEF Accepted, Valid, ModeCheck, IsMeasurement
    <3>4. call["client"] # Absent
      BY <2>1 DEF CreateReturns, Answered
    <3>5. call["client"].reply = "ok"
      BY <1>0, <3>1, <3>3, <3>4 DEF AllWell, Calls
    <3> QED BY <1>2, <1>3, <2>0, <2>1, <3>5 DEF CreateReturns, Hangup
  <2>2. CASE \/ CreateRunCall \/ Connect \/ Handshake \/ WriteRequest \/ CompleteCall
             \/ CompleteReturns \/ ReadResponse
    BY <1>2, <1>3, <2>0, <2>2
    DEF CreateRunCall, Connect, Handshake, WriteRequest, CompleteCall, CompleteReturns,
        ReadResponse, Send, Hangup, wireVars
  <2>3. CASE RecordProbe
    <3>1. pc = "finished" /\ pc' = "recording" /\ UNCHANGED <<ok, failures, up>>
          /\ \E q : Send("client", q)
      BY <2>3 DEF RecordProbe
    <3>2. ok
      BY <1>0, <3>1 DEF Undisturbed
    <3> QED BY <1>2, <1>3, <2>0, <3>1, <3>2 DEF Send
  <2>4. CASE SkipRecord \/ RecordReturns
    <3>1. pc' \in {"connect", "complete"} /\ UNCHANGED up
      BY <2>4 DEF SkipRecord, RecordReturns, Advance, wireVars
    <3>2. \A m \in Modes : call'[m] = call[m]
      BY <2>0, <2>4 DEF SkipRecord, RecordReturns, Hangup, wireVars
    <3>3. failures' = failures
      <4>1. CASE SkipRecord
        BY <4>1 DEF SkipRecord
      <4>2. CASE RecordReturns
        <5>1. ok
          BY <1>0, <4>2 DEF RecordReturns, Undisturbed
        <5> QED BY <4>2, <5>1 DEF RecordReturns
      <4> QED BY <2>4, <4>1, <4>2
    <3> QED BY <1>2, <1>3, <3>1, <3>2, <3>3
  <2>5. CASE LaunchAgain
    BY <1>0, <1>3, <2>5 DEF LaunchAgain, Undisturbed, wireVars
  <2> QED BY <1>3, <2>1, <2>2, <2>3, <2>4, <2>5 DEF CalmClient
<1>4. ASSUME NEW m \in Modes, CalmServer(m), UNCHANGED <<clientVars, orphans>> PROVE Goal
  <2>1. UNCHANGED <<up, orphans, pc, ok, failures>>
    BY <1>4 DEF CalmServer, Accept, ShakeHands, Serve, PostReturns, wireVars, clientVars
  <2>2. ASSUME NEW x \in Modes, at'[x] # "posting" PROVE call'[x] = Absent
    <3>1. CASE x # m
      <4>1. at'[x] = at[x] /\ call'[x] = call[x]
        BY <1>0, <1>4, <3>1
        DEF CalmServer, Accept, ShakeHands, Serve, PostReturns, Goto, Send, Hangup, wireVars
      <4> QED BY <1>0, <2>2, <4>1 DEF Undisturbed
    <3>2. CASE x = m /\ (Accept(m) \/ ShakeHands(m) \/ Serve(m))
      <4>1. at[m] # "posting"
        BY <3>2 DEF Accept, ShakeHands, Serve
      <4>2. call' = call
        <5>1. Serve(m) => Goto(m, "posting") \/ UNCHANGED call
          BY DEF Serve
        <5>2. ~Goto(m, "posting")
          BY <1>0, <2>2, <3>2 DEF Goto
        <5> QED BY <3>2, <5>1, <5>2 DEF Accept, ShakeHands, wireVars
      <4> QED BY <1>0, <3>2, <4>1, <4>2 DEF Undisturbed
    <3>3. CASE x = m /\ PostReturns(m)
      BY <1>0, <3>3 DEF PostReturns, Hangup
    <3> QED BY <1>4, <3>1, <3>2, <3>3 DEF CalmServer
  <2> QED BY <1>1, <2>1, <2>2
<1>5. ASSUME NEW p \in Callers, HandleCall(p) PROVE Goal
  <2>1. UNCHANGED <<up, orphans, pc, ok, failures, at>> /\ call[p] # Absent
    BY <1>5 DEF HandleCall, Elsewhere, clientVars, Waiting
  <2>2. ASSUME NEW m \in Modes, at'[m] # "posting" PROVE call'[m] = Absent
    <3>1. call[m] = Absent
      BY <1>0, <2>1, <2>2 DEF Undisturbed
    <3> QED BY <1>0, <1>5, <2>1, <3>1 DEF HandleCall, Reply
  <2> QED BY <1>1, <2>1, <2>2
<1>6. CASE UNCHANGED vars
  BY <1>0, <1>6 DEF vars, wireVars, clientVars, dashboardVars, Undisturbed
<1> QED BY <1>3, <1>4, <1>5, <1>6, CalmNext

-----------------------------------------------------------------------------
(* Only what is not accepted fails, and nothing reports a failure.         *)
LEMMA AllWellStep ==
  ASSUME LabInv, Calm, [Next]_vars, NoFault
  PROVE  AllWell'
<1> DEFINE Goal == AllWell'
<1> USE DEF Calm
<1>0. /\ Undisturbed /\ AllWell /\ db \in Database
      /\ call \in [Callers -> Calls(db) \cup {Absent}]
      /\ Callers = Modes \cup {"client"} /\ "client" \notin Modes
  BY StateTyped DEF LabInv
<1>1. ASSUME UNCHANGED db,
             \/ UNCHANGED call
             \/ \E p \in Callers : Hangup(p)
      PROVE  Goal
  BY <1>0, <1>1 DEF AllWell, Hangup
<1>2. ASSUME UNCHANGED db, NEW p \in Callers, NEW q, Send(p, q),
             q.kind = "client" => q.half.ok
      PROVE  Goal
  <2>1. call'[p] = [req |-> q, reply |-> "none"] /\ \A x \in Callers \ {p} : call'[x] = call[x]
    BY <1>0, <1>2 DEF Send
  <2>2. call'[p].req = q /\ call'[p].reply = "none"
    BY <2>1
  <2>3. ASSUME NEW x \in Callers, call'[x] # Absent
        PROVE  /\ call'[x].reply = "failed" => ~Accepted(call'[x].req)
               /\ call'[x].req.kind = "client" => call'[x].req.half.ok
    <3>1. CASE x = p
      BY <1>2, <2>2, <3>1
    <3>2. CASE x # p
      BY <1>0, <2>1, <2>3, <3>2 DEF AllWell
    <3> QED BY <3>1, <3>2
  <2>4. \A s \in Rows(db') : db'.rows[s].success
    BY <1>0, <1>2 DEF AllWell
  <2> QED BY <2>3, <2>4 DEF AllWell, Accepted
<1>3. ASSUME NEW p \in Callers, HandleCall(p) PROVE Goal
  <2> DEFINE q == call[p].req
  <2>1. /\ call[p] # Absent /\ call[p] \in Calls(db) /\ q \in Post
        /\ q.kind = "client" => q.half.ok
    BY <1>0, <1>3 DEF HandleCall, Waiting, Calls, Genuine, AllWell
  <2>2. /\ call' = [call EXCEPT ![p].reply = IF Accepted(q) THEN "ok" ELSE "failed"]
        /\ db' = db \/ db' = Apply(db, q)
    BY <1>3 DEF HandleCall, Reply, Handled
  <2>3. ASSUME NEW x \in Callers, call'[x] # Absent
        PROVE  /\ call'[x].reply = "failed" => ~Accepted(call'[x].req)
               /\ call'[x].req.kind = "client" => call'[x].req.half.ok
    <3>1. CASE x = p
      <4>1. call'[p].req = q /\ (call'[p].reply = "failed" => ~Accepted(q))
        BY <1>0, <2>1, <2>2 DEF Calls
      <4> QED BY <2>1, <3>1, <4>1
    <3>2. CASE x # p
      <4>1. call'[x] = call[x]
        BY <1>0, <2>2, <3>2
      <4> QED BY <1>0, <2>3, <4>1 DEF AllWell
    <3> QED BY <3>1, <3>2
  <2> HIDE DEF q
  <2>4. ASSUME NEW s \in Rows(db') PROVE db'.rows[s].success
    <3>1. s \in Samples /\ db'.rows[s] # Absent /\ db.rows[s] \in Row \cup {Absent}
      BY <1>0 DEF Rows, Database
    <3>2. CASE db'.rows[s] = db.rows[s]
      BY <1>0, <3>1, <3>2 DEF AllWell, Rows
    <3>3. CASE q \in ServerPost /\ db'.rows[s] = ServerUpsert(db.rows[s], q)
      <4>1. CASE db.rows[s] = Absent
        BY <3>3, <4>1 DEF ServerUpsert
      <4>2. CASE db.rows[s] # Absent
        <5>1. db.rows[s].success
          BY <1>0, <3>1, <4>2 DEF AllWell, Rows
        <5>2. ServerUpsert(db.rows[s], q).success = db.rows[s].success
          BY <3>1, <3>3, <4>2, UpsertVerdict, Zenon
        <5> QED BY <3>3, <5>1, <5>2, Zenon
      <4> QED BY <4>1, <4>2
    <3>4. CASE q \in ClientPost /\ db'.rows[s] = ClientUpsert(db.rows[s], q)
      <4>1. q.half.ok
        BY <2>1, <3>4 DEF ClientPost
      <4>2. ClientUpsert(db.rows[s], q).success = q.half.ok
        BY <3>1, <3>4, UpsertVerdict, Zenon
      <4> QED BY <3>4, <4>1, <4>2, Zenon
    <3>5. \/ db'.rows[s] = db.rows[s]
          \/ q \in ServerPost /\ db'.rows[s] = ServerUpsert(db.rows[s], q)
          \/ q \in ClientPost /\ db'.rows[s] = ClientUpsert(db.rows[s], q)
      BY <1>0, <2>1, <2>2, <3>1, ApplyRow
    <3> QED BY <3>2, <3>3, <3>4, <3>5
  <2> QED BY <2>3, <2>4 DEF AllWell, Accepted
<1>4. ASSUME CalmClient, UNCHANGED db PROVE Goal
  <2>1. CASE CreateRunCall \/ CompleteCall
    BY <1>0, <1>2, <1>4, <2>1 DEF CreateRunCall, CompleteCall
  <2>2. CASE RecordProbe
    <3>1. ok
      BY <1>0, <2>2 DEF RecordProbe, Undisturbed
    <3>2. PICK slow \in BOOLEAN : Send("client", ClientReport(slow))
      BY <2>2 DEF RecordProbe
    <3>3. ClientReport(slow).half.ok
      BY <3>1 DEF ClientReport
    <3> QED BY <1>0, <1>2, <1>4, <3>2, <3>3
  <2>3. CASE \/ CreateReturns \/ Connect \/ Handshake \/ WriteRequest \/ ReadResponse
             \/ SkipRecord \/ RecordReturns \/ CompleteReturns \/ LaunchAgain
    BY <1>0, <1>1, <1>4, <2>3
    DEF CreateReturns, Connect, Handshake, WriteRequest, ReadResponse, SkipRecord,
        RecordReturns, CompleteReturns, LaunchAgain, wireVars
  <2> QED BY <1>4, <2>1, <2>2, <2>3 DEF CalmClient
<1>5. ASSUME NEW m \in Modes, CalmServer(m), UNCHANGED db PROVE Goal
  <2>1. CASE Accept(m) \/ ShakeHands(m) \/ PostReturns(m)
    BY <1>0, <1>1, <1>5, <2>1 DEF Accept, ShakeHands, PostReturns, wireVars
  <2>2. CASE Serve(m)
    <3>1. UNCHANGED call \/ Send(m, ServerReport(Served(m).conn))
      BY <2>2 DEF Serve
    <3>2. ServerReport(Served(m).conn).kind # "client"
      BY DEF ServerReport
    <3> QED BY <1>0, <1>1, <1>2, <1>5, <3>1, <3>2
  <2> QED BY <1>5, <2>1, <2>2 DEF CalmServer
<1>6. CASE UNCHANGED vars
  BY <1>1, <1>6 DEF vars, wireVars, dashboardVars
<1> QED BY <1>3, <1>4, <1>5, <1>6, CalmNext

-----------------------------------------------------------------------------
(* What a server has on the way arrives, and no row loses its server half. *)
LEMMA HeardStays ==
  ASSUME LabInv, Calm, [Next]_vars, NoFault, NEW m \in StoredModes, NEW s \in Samples,
         HasServer(db, s) \/ Reporting(m, s)
  PROVE  HasServer(db', s) \/ Reporting(m, s)'
<1>0. /\ m \in Modes /\ m \in Callers /\ m # "client" /\ db \in Database
      /\ call \in [Callers -> Calls(db) \cup {Absent}] /\ "client" \in Callers
  BY StateTyped, StoreAssumption DEF LabInv
<1>1. CASE HasServer(db, s)
  <2>1. CASE db' = db
    BY <1>1, <2>1
  <2>2. ASSUME NEW q \in Asked, db' = Apply(db, q) PROVE HasServer(db', s)
    <3>1. q \in Post /\ s \in Rows(db)
      BY <1>1, AskedGenuine DEF Genuine, HasServer, Rows
    <3> QED BY <1>0, <1>1, <2>2, <3>1, ApplyKeepsRows DEF HasServer, Rows
  <2> QED BY <2>1, <2>2, AskedApplied
<1>2. CASE Reporting(m, s)
  <2>1. CASE call'[m] = call[m]
    BY <1>2, <2>1 DEF Reporting
  <2>2. CASE HandleCall(m)
    <3> DEFINE q == call[m].req
    <3>1. /\ q.kind = "server" /\ q.inRange /\ q.sample = s /\ q.mode = m /\ q \in Post
      BY <1>0, <1>2 DEF Reporting, Calls, Genuine
    <3> HIDE DEF q
    <3>2. Accepted(q)
      BY <3>1 DEF Accepted, Valid, ModeCheck
    <3>3. db' = Apply(db, q)
      BY <2>2, <3>2 DEF HandleCall, Handled, q
    <3>4. Holds(db', q)
      BY <1>0, <3>1, <3>3, ApplyHolds
    <3> QED BY <3>1, <3>4 DEF Holds, HasServer, Rows
  <2>3. ASSUME NEW p \in Callers, HandleCall(p), p # m PROVE call'[m] = call[m]
    BY <1>0, <2>3 DEF HandleCall, Reply
  <2>4. CalmClient => call'[m] = call[m]
    <3>1. CalmClient => \/ UNCHANGED call
                        \/ \E x : call' = [call EXCEPT !["client"] = x]
      BY DEF CalmClient, CreateRunCall, CreateReturns, Connect, Handshake, WriteRequest,
             ReadResponse, SkipRecord, RecordProbe, RecordReturns, CompleteCall,
             CompleteReturns, LaunchAgain, Send, Hangup, wireVars
    <3> QED BY <1>0, <3>1
  <2>5. ASSUME NEW x \in Modes, CalmServer(x) PROVE call'[m] = call[m]
    <3>1. CASE Accept(x) \/ ShakeHands(x)
      BY <3>1 DEF Accept, ShakeHands, wireVars
    <3>2. CASE x # m
      BY <1>0, <2>5, <3>2
      DEF CalmServer, Accept, ShakeHands, Serve, PostReturns, Send, Hangup, wireVars
    <3>3. ~Serve(m)
      BY <1>0, <1>2 DEF Serve, Reporting, Calm, Undisturbed
    <3>4. ~PostReturns(m)
      BY <1>2 DEF PostReturns, Answered, Reporting
    <3> QED BY <2>5, <3>1, <3>2, <3>3, <3>4 DEF CalmServer
  <2>6. CASE UNCHANGED vars
    BY <2>1, <2>6 DEF vars, wireVars
  <2> QED BY <2>1, <2>2, <2>3, <2>4, <2>5, <2>6, CalmNext
<1> QED BY <1>1, <1>2

(* By the time the response is there, the measurement is on its way.       *)
LEMMA ServeReports ==
  ASSUME LabInv, Calm, NEW m \in Modes, Serve(m), UNCHANGED clientVars
  PROVE  /\ pc = "read" /\ m = Conn.mode
         /\ rec => Reporting(m, <<RunId, m, index>>)'
<1>1. at[m] = "read" /\ Served(m).stage = "sent"
  BY DEF Serve
<1>2. backlog[m] # <<>>
  BY <1>1 DEF Calm, InStep
<1>3. m = Conn.mode /\ Probing /\ Served(m).conn = Conn
  BY <1>2, ServedIsMine DEF Served, Calm
<1>4. pc = "read"
  <2>1. PICK st \in Stages : Mine(st)
    BY <1>2, ServedIsMine DEF Calm
  <2>2. st = "sent"
    <3>1. Head(<<Link1(st)>>).stage = st
      BY DEF Link1
    <3> QED BY <1>1, <1>3, <2>1, <3>1 DEF Mine, Link1, Served
  <2>3. Stage(Conn) = "sent"
    BY <2>1, <2>2, MineIsConnected
  <2> QED BY <1>3, <2>3, MineIsConnected DEF Calm, OneConnection, Probing
<1>5. ASSUME rec PROVE Reporting(m, <<RunId, m, index>>)'
  <2> DEFINE q == ServerReport(Conn)
             c == [req |-> q, reply |-> "none"]
  <2>1. Conn.rec /\ RunId' = RunId /\ index' = index
    BY <1>5 DEF Conn, RunId, clientVars
  <2>2. call' = [call EXCEPT ![m] = c]
    BY <1>3, <2>1 DEF Serve, Send
  <2>3. m \in Callers /\ call \in [Callers -> Calls(db) \cup {Absent}] /\ Conn \in Known(db)
    BY <1>4, StateTyped, ConnKnown DEF LabInv, Running, Ended
  <2>4. q \in Post
    <3>1. Conn \in Measured(db)
      BY <2>1, <2>3 DEF Measured
    <3> QED BY <3>1, ServerReportGenuine DEF Genuine
  <2>5. /\ q.kind = "server" /\ q.inRange /\ q.mode = m /\ q.sample = <<RunId, m, index>>
    BY <1>3 DEF ServerReport, SampleId, Conn, RunId
  <2>6. c # Absent
    BY <2>4, CallAssumption DEF Call
  <2>7. c.req = q /\ c.reply = "none"
    OBVIOUS
  <2> HIDE DEF q, c
  <2>8. call'[m] = c
    BY <2>2, <2>3
  <2> QED BY <2>1, <2>5, <2>6, <2>7, <2>8 DEF Reporting
<1> QED BY <1>3, <1>4, <1>5

(* What becomes due is what a server has just responded to.                *)
LEMMA DueStep ==
  ASSUME LabInv, Calm, [Next]_vars, NoFault, Measuring',
         NEW i \in 1..Iterations, NEW k \in 0..2, Due(i, k)'
  PROVE  \/ launch' = launch /\ Measuring /\ Due(i, k)
         \/ \E m \in Modes : /\ Serve(m) /\ UNCHANGED clientVars /\ Measuring
                             /\ i = index /\ k = g /\ m = At(i, k)
<1> USE DEF Calm
<1> DEFINE Goal == \/ launch' = launch /\ Measuring /\ Due(i, k)
                   \/ \E m \in Modes : /\ Serve(m) /\ UNCHANGED clientVars /\ Measuring
                                       /\ i = index /\ k = g /\ m = At(i, k)
<1>0. /\ index \in Nat \ {0} /\ rec \in BOOLEAN /\ g \in 0..2
      /\ pc \notin {"killed", "aborted"} /\ pc' \notin {"killed", "aborted"}
  BY StateTyped, UndisturbedStep DEF Undisturbed
(* Within a probe.                                                         *)
<1>1. ASSUME UNCHANGED <<launch, rec, index, g>>, pc \notin {"create", "creating"},
             pc' \in {"complete", "completing", "done"}
               => pc \in {"complete", "completing", "done"},
             Responded' => Responded
      PROVE  Goal
  BY <1>1 DEF Due, Passed, Measuring
<1>2. CASE CalmClient /\ UNCHANGED at
  <2>1. CASE CreateRunCall \/ LaunchAgain
    BY <2>1 DEF CreateRunCall, LaunchAgain, Measuring
  <2>2. CASE CreateReturns
    <3>1. pc' = "connect" /\ index' = 1 /\ g' = 0
      BY <1>0, <2>2 DEF CreateReturns, ReportInv
    <3> QED BY <3>1 DEF Due, Passed, Responded
  <2>3. CASE Connect \/ Handshake
    BY <1>1, <2>3 DEF Connect, Handshake, Responded
  <2>4. CASE WriteRequest
    BY <1>1, <2>4 DEF WriteRequest, OneConnection, Responded
  <2>5. CASE RecordProbe \/ ReadResponse
    BY <1>1, <2>5 DEF RecordProbe, ReadResponse, Responded
  <2>6. CASE CompleteCall \/ CompleteReturns
    BY <1>1, <2>6 DEF CompleteCall, CompleteReturns, Responded
  <2>7. CASE SkipRecord
    <3>1. ~rec /\ Advance
      BY <2>7 DEF SkipRecord
    <3>2. pc' = "connect" /\ g' = 0 /\ index' = 1
      BY <1>0, <3>1 DEF Advance, Measuring
    <3> QED BY <3>2 DEF Due, Passed, Responded
  <2>8. CASE RecordReturns
    <3>1. /\ pc = "recording" /\ rec /\ launch' = launch /\ pc' \in {"connect", "complete"}
      BY <2>8 DEF RecordReturns, Advance, LabInv, RecordsMeasured
    <3>2. Passed(i, k)'
      BY <3>1 DEF Due, Responded
    <3>3. Passed(i, k) \/ (i = index /\ k = g)
      BY <2>8, <3>2, LoopsPass
    <3> QED BY <3>1, <3>3 DEF Due, Responded, Measuring
  <2> QED BY <1>2, <2>1, <2>2, <2>3, <2>4, <2>5, <2>6, <2>7, <2>8 DEF CalmClient
<1>3. ASSUME UNCHANGED clientVars, UNCHANGED inbox PROVE Goal
  <2>1. pc \notin {"create", "creating"}
    BY <1>3 DEF clientVars, Measuring
  <2> QED BY <1>1, <1>3, <2>1 DEF clientVars, Responded
<1>4. ASSUME NEW m \in Modes, CalmServer(m), UNCHANGED clientVars PROVE Goal
  <2>1. CASE Accept(m) \/ ShakeHands(m) \/ PostReturns(m)
    BY <1>3, <1>4, <2>1 DEF Accept, ShakeHands, PostReturns, wireVars
  <2>2. CASE Serve(m)
    <3>1. m = Conn.mode /\ Measuring /\ launch' = launch
      BY <1>4, <2>2, ServeReports DEF clientVars, Measuring
    <3>2. ~Due(i, k) => i = index /\ k = g
      BY <1>4 DEF Due, Passed, clientVars
    <3>3. Conn.mode = At(index, g)
      BY <1>0, <3>1 DEF Conn, At, Slot, Measuring
    <3> QED BY <1>4, <2>2, <3>1, <3>2, <3>3
  <2> QED BY <1>4, <2>1, <2>2 DEF CalmServer
<1>5. ASSUME NEW p \in Callers, HandleCall(p) PROVE Goal
  BY <1>3, <1>5 DEF HandleCall, Elsewhere
<1>6. CASE UNCHANGED vars
  BY <1>3, <1>6 DEF vars, wireVars
<1> QED BY <1>2, <1>4, <1>5, <1>6, CalmNext

LEMMA HeardStep ==
  ASSUME LabInv, Calm, [Next]_vars, NoFault
  PROVE  ServersHeard'
<1> SUFFICES ASSUME Measuring', NEW i \in 1..Iterations, NEW k \in 0..2,
                    Due(i, k)', At(i, k) \in StoredModes
             PROVE  Heard(At(i, k), i)'
  BY DEF ServersHeard
<1>1. CASE launch' = launch /\ Measuring /\ Due(i, k)
  <2>1. Heard(At(i, k), i) /\ RunId' = RunId
    BY <1>1 DEF Calm, ServersHeard, RunId
  <2>2. <<RunId, At(i, k), i>> \in Samples
    BY AtTyped
  <2> QED BY <2>1, <2>2, HeardStays DEF Heard
<1>2. ASSUME NEW m \in Modes, Serve(m), UNCHANGED clientVars, Measuring,
             i = index, k = g, m = At(i, k)
      PROVE  Heard(At(i, k), i)'
  <2>1. Reporting(m, <<RunId, m, index>>)'
    BY <1>2, ServeReports DEF Measuring
  <2>2. Reporting(At(i, k), <<RunId, At(i, k), i>>)'
    BY <1>2, <2>1 DEF Reporting, clientVars
  <2> QED BY <2>2 DEF Heard
<1> QED BY <1>1, <1>2, DueStep

-----------------------------------------------------------------------------
(* A fault that has happened is counted for good.                          *)
LEMMA FaultCounted ==
  ASSUME LabInv, [Next]_vars, faults' = 0
  PROVE  faults = 0 /\ NoFault
<1>1. faults \in Nat
  BY StateTyped
<1>2. ASSUME NEW k \in FaultKinds, Fault(k) PROVE FALSE
  BY <1>1, <1>2 DEF Fault
<1>3. \/ UNCHANGED faults
      \/ \E k \in FaultKinds : Fault(k)
  <2>1. CASE ServerNext
    BY <2>1
    DEF ServerNext, Serves, Accept, ShakeHands, GiveUp, Serve, PostReturns, ServerRestarts,
        ServerDies, FaultKinds, wireVars
  <2>2. CASE ClientNext
    BY <2>2
    DEF ClientNext, ClientStep, CreateRunCall, CreateReturns, Connect, ConnectFails,
        Handshake, WriteRequest, ProbeFails, ReadResponse, SkipRecord, RecordProbe,
        RecordReturns, CompleteCall, CompleteReturns, LaunchAgain, ClientDies, FaultKinds,
        wireVars
  <2>3. CASE DashboardNext
    BY <2>3
    DEF DashboardNext, HandleCall, CallFails, ReplyLost, HandleOrphan, DropOrphan,
        FaultKinds
  <2>4. CASE UNCHANGED vars
    BY <2>4 DEF vars, wireVars
  <2> QED BY <2>1, <2>2, <2>3, <2>4 DEF Next, Rest
<1> QED BY <1>2, <1>3 DEF NoFault

LEMMA InitCalm == Init => CalmInv
<1> SUFFICES ASSUME Init PROVE Calm
  BY DEF CalmInv
<1>1. /\ pc = "create" /\ index = 1 /\ g = 0 /\ failures = 0
      /\ up = Modes /\ orphans = {} /\ db = EmptyDatabase
      /\ \A m \in Modes : backlog[m] = <<>> /\ at[m] = "accept"
      /\ \A p \in Callers : call[p] = Absent
  BY DEF Init, WireInit, ServerInit, ClientInit
<1>2. OneConnection /\ InStep
  BY <1>1 DEF OneConnection, InStep, Probing
<1>3. Undisturbed
  BY <1>1 DEF Undisturbed, Callers
<1>4. AllWell
  BY <1>1 DEF AllWell, Rows, EmptyDatabase
<1>5. ReportInv /\ ServersHeard
  BY <1>1 DEF ReportInv, ServersHeard, Measuring
<1> QED BY <1>2, <1>3, <1>4, <1>5 DEF Calm

LEMMA CalmStep ==
  ASSUME LabInv, PostedInv, CalmInv, [Next]_vars
  PROVE  CalmInv'
<1> SUFFICES ASSUME faults' = 0 PROVE Calm'
  BY DEF CalmInv
<1>1. Calm /\ NoFault
  BY FaultCounted DEF CalmInv
<1>2. OneConnection' /\ InStep'
  BY <1>1, LinkStep
<1>3. Undisturbed' /\ AllWell'
  BY <1>1, UndisturbedStep, AllWellStep
<1>4. ReportInv'
  BY <1>1, ReportStep DEF NoFault, FaultKinds, Calm
<1>5. ServersHeard'
  BY <1>1, HeardStep
<1> QED BY <1>2, <1>3, <1>4, <1>5 DEF Calm

(* When no fault has happened and the lab has come to rest, the client has *)
(* counted no failure and every measured probe of a storable mode is in    *)
(* the database with both halves and a success: nothing the programs do    *)
(* among themselves, in whatever order, loses or spoils a measurement.     *)
THEOREM FaultlessIsRecorded == Spec => []FaultlessRunIsRecorded
<1> DEFINE Inv == LabInv /\ PostedInv /\ CalmInv
<1>1. Init => Inv
  BY InitLabInv, InitFinal, InitCalm
<1>2. Inv /\ [Next]_vars => Inv'
  BY StepLabInv, PostedStep, CalmStep
<1>3. Inv => FaultlessRunIsRecorded
  <2> SUFFICES ASSUME LabInv, Calm, Quiet
               PROVE  failures = 0 /\ \A m \in StoredModes, i \in 1..Iterations : Recorded(m, i)
    BY DEF FaultlessRunIsRecorded, CalmInv
  <2>1. failures = 0 /\ pc = "done" /\ rec /\ \A p \in Callers : call[p] = Absent
    BY DEF Calm, Undisturbed, ReportInv, Quiet, Ended
  <2>2. ASSUME NEW m \in StoredModes, NEW i \in 1..Iterations PROVE Recorded(m, i)
    <3>1. PICK k \in 0..2 : At(i, k) = m
      BY StoreAssumption, ClientAssumption, RotationCovers
    <3> DEFINE s == <<RunId, m, i>>
    <3>2. s \in Samples
      BY <3>1, AtTyped
    <3>3. Passed(i, k) /\ Due(i, k)
      BY <2>1 DEF Passed, Due
    <3>4. HasClient(db, s)
      BY <2>1, <3>1, <3>3 DEF Calm, ReportInv
    <3>5. Heard(m, i)
      BY <2>1, <3>1, <3>3 DEF Calm, ServersHeard, Measuring
    <3>6. ~Reporting(m, s)
      BY <2>1, StoreAssumption DEF Reporting, Callers
    <3>7. HasServer(db, s)
      BY <3>5, <3>6 DEF Heard
    <3>8. s \in Rows(db)
      BY <3>2, <3>4 DEF HasClient, Rows
    <3>9. db.rows[s].success
      BY <3>8 DEF Calm, AllWell
    <3> QED BY <3>4, <3>7, <3>8, <3>9 DEF Recorded, HasClient, HasServer
  <2> QED BY <2>1, <2>2
<1> QED BY <1>1, <1>2, <1>3, PTL DEF Spec

-----------------------------------------------------------------------------
(* Why only the last measurement of a server can be late: what a server    *)
(* has on the way is from the last connection it has responded to.         *)
Newest(c) ==
  /\ c.launch <= launch
  /\ c.launch < launch => c.seq = Iterations
  /\ c.launch = launch =>
       /\ Measuring
       /\ \A i \in 1..Iterations, k \in 0..2 : Due(i, k) /\ At(i, k) = c.mode => i <= c.seq

ReportsNewest ==
  \A m \in Modes : call[m] # Absent =>
    Newest(call[m].req.half) /\ call[m].req.half.mode = m

(* A server's report is of a measured connection.                          *)
LEMMA ReportMeasured ==
  ASSUME LabInv, PostedInv, NEW m \in Modes, call[m] # Absent
  PROVE  /\ call[m].req \in Genuine(db) /\ call[m].req.kind = "server"
         /\ call[m].req.half \in Measured(db)
         /\ call[m].req.half.launch \in 1..Launches
         /\ call[m].req.half.seq \in 1..Iterations
<1>1. call[m].req \in Genuine(db) /\ call[m].req.kind = "server"
  BY StateTyped DEF Calls, PostedInv
<1>2. call[m].req.half \in Measured(db)
  BY <1>1 DEF Genuine
<1> QED BY <1>1, <1>2, ClientAssumption DEF Measured, Known

(* A report of a launch whose probes have all been passed is of the last   *)
(* iteration.                                                              *)
LEMMA NewestIsLast ==
  ASSUME LabInv, PostedInv, NEW m \in Modes, call[m] # Absent, ReportsNewest,
         pc \in {"complete", "completing", "done"}
  PROVE  call[m].req.half.seq = Iterations
<1> DEFINE c == call[m].req.half
<1>1. c.launch \in Nat /\ c.seq \in 1..Iterations /\ launch \in Nat /\ Iterations \in Nat \ {0}
  BY ReportMeasured, StateTyped, WireAssumption, ClientAssumption
<1>2. Newest(c) /\ c.mode = m
  BY DEF ReportsNewest
<1>3. PICK k \in 0..2 : At(Iterations, k) = m
  BY <1>1, RotationCovers
<1>4. Due(Iterations, k)
  BY DEF Due, Passed
<1> HIDE DEF c
<1>5. c.launch = launch => Iterations <= c.seq
  BY <1>1, <1>2, <1>3, <1>4 DEF Newest
<1>6. c.launch < launch => c.seq = Iterations
  BY <1>2 DEF Newest
<1>7. c.seq = Iterations
  BY <1>1, <1>2, <1>5, <1>6 DEF Newest
<1> QED BY <1>7 DEF c

LEMMA MeasuringStays ==
  ASSUME LabInv, Calm, [Next]_vars, NoFault, Measuring, launch' = launch
  PROVE  Measuring'
<1>1. CASE UNCHANGED clientVars
  BY <1>1 DEF Measuring, clientVars
<1>2. CASE CalmClient
  <2>1. ~CreateRunCall /\ ~SkipRecord /\ ~LaunchAgain
    <3>1. launch' # launch + 1
      BY StateTyped, WireAssumption
    <3> QED BY <3>1 DEF Measuring, CreateRunCall, SkipRecord, LaunchAgain
  <2>2. CASE RecordReturns
    BY <2>2 DEF RecordReturns, Advance, Measuring
  <2>3. CASE ~RecordReturns
    BY <1>2, <2>1, <2>3
    DEF Measuring, CalmClient, CreateReturns, Connect, Handshake, WriteRequest, ReadResponse,
        RecordProbe, CompleteCall, CompleteReturns
  <2> QED BY <2>2, <2>3
<1> QED BY <1>1, <1>2, CalmNext DEF HandleCall, Elsewhere, vars

LEMMA NewestStep ==
  ASSUME LabInv, PostedInv, Calm, ReportsNewest, [Next]_vars, NoFault
  PROVE  ReportsNewest'
<1> SUFFICES ASSUME NEW m \in Modes, call'[m] # Absent, NEW c, c = call'[m].req.half
             PROVE  Newest(c)' /\ c.mode = m
  BY DEF ReportsNewest, Newest
<1>0. /\ call \in [Callers -> Calls(db) \cup {Absent}] /\ m \in Callers /\ m # "client"
      /\ launch \in Nat /\ index \in Nat \ {0} /\ g \in 0..2 /\ rec \in BOOLEAN
  BY StateTyped, WireAssumption
<1>1. CASE Serve(m) /\ UNCHANGED clientVars
  <2>1. pc = "read" /\ m = Conn.mode
    BY <1>1, ServeReports
  <2>2. at[m] = "read"
    BY <1>1 DEF Serve
  <2>3. call[m] = Absent /\ Served(m).conn = Conn
    <3>1. backlog[m] # <<>>
      BY <2>2 DEF Calm, InStep
    <3> QED BY <2>2, <3>1, ServedIsMine DEF Calm, Undisturbed, Served
  <2>4. rec /\ call' = [call EXCEPT ![m] = [req |-> ServerReport(Conn), reply |-> "none"]]
    BY <1>1, <2>3 DEF Serve, Send, Conn
  <2>5. c = Conn
    BY <1>0, <2>4 DEF ServerReport
  <2>6. c.launch = launch /\ c.seq = index /\ c.mode = m
    BY <2>1, <2>5 DEF Conn
  <2>7. UNCHANGED <<launch, index, g, rec, pc>>
    BY <1>1 DEF clientVars
  <2>8. Measuring'
    BY <2>1, <2>4, <2>7 DEF Measuring
  <2>9. \A i \in 1..Iterations, k \in 0..2 : Due(i, k)' => i <= index
    BY <1>0, <2>1, <2>7 DEF Due, Passed
  <2>10. Newest(c)'
    BY <1>0, <2>6, <2>7, <2>8, <2>9 DEF Newest
  <2> QED BY <2>6, <2>10
<1>2. CASE ~(Serve(m) /\ UNCHANGED clientVars)
  <2>1. call[m] # Absent /\ call'[m].req = call[m].req
    <3>1. CASE CalmClient
      <4>1. CalmClient => \/ UNCHANGED call
                          \/ \E x : call' = [call EXCEPT !["client"] = x]
        BY DEF CalmClient, CreateRunCall, CreateReturns, Connect, Handshake, WriteRequest,
               ReadResponse, SkipRecord, RecordProbe, RecordReturns, CompleteCall,
               CompleteReturns, LaunchAgain, Send, Hangup, wireVars
      <4> QED BY <1>0, <3>1, <4>1
    <3>2. ASSUME NEW x \in Modes, CalmServer(x), UNCHANGED clientVars
          PROVE  call[m] # Absent /\ call'[m].req = call[m].req
      <4>1. CASE x # m
        BY <1>0, <3>2, <4>1
        DEF CalmServer, Accept, ShakeHands, Serve, PostReturns, Send, Hangup, wireVars
      <4>2. CASE x = m
        <5>1. ~PostReturns(m)
          BY <1>0 DEF PostReturns, Hangup
        <5> QED BY <1>2, <3>2, <4>2, <5>1 DEF CalmServer, Accept, ShakeHands, wireVars
      <4> QED BY <4>1, <4>2
    <3>3. ASSUME NEW p \in Callers, HandleCall(p)
          PROVE  call[m] # Absent /\ call'[m].req = call[m].req
      BY <1>0, <3>3 DEF HandleCall, Reply, Waiting, Calls
    <3>4. CASE UNCHANGED vars
      BY <3>4 DEF vars, wireVars
    <3> QED BY <3>1, <3>2, <3>3, <3>4, CalmNext
  <2>2. /\ c = call[m].req.half /\ Newest(c) /\ c.mode = m
        /\ c.launch \in Nat /\ c.seq \in 1..Iterations
    BY <2>1, ReportMeasured DEF ReportsNewest
  <2>3. CASE launch' # launch
    <3>1. launch' = launch + 1 /\ pc \in Ended
      BY <2>3, CalmNext
      DEF CalmClient, CreateRunCall, CreateReturns, Connect, Handshake, WriteRequest,
          ReadResponse, SkipRecord, RecordProbe, RecordReturns, CompleteCall,
          CompleteReturns, LaunchAgain, HandleCall, Elsewhere, clientVars, vars
    <3>2. pc = "done"
      BY <3>1 DEF Ended, Calm, Undisturbed
    <3>3. c.seq = Iterations
      BY <2>1, <2>2, <3>2, NewestIsLast
    <3>4. c.launch < launch'
      BY <1>0, <2>2, <3>1 DEF Newest
    <3>5. Newest(c)'
      BY <1>0, <2>2, <3>1, <3>3, <3>4 DEF Newest
    <3> QED BY <2>2, <3>5
  <2>4. CASE launch' = launch
    <3>1. c.launch = launch => Measuring'
      BY <2>2, <2>4, MeasuringStays DEF Newest
    <3>2. ASSUME c.launch = launch, NEW i \in 1..Iterations, NEW k \in 0..2,
                 Due(i, k)', At(i, k) = m
          PROVE  i <= c.seq
      <4>1. ~\E x \in Modes : Serve(x) /\ UNCHANGED clientVars /\ x = At(i, k)
        BY <1>2, <3>2
      <4>2. Due(i, k)
        BY <3>1, <3>2, <4>1, DueStep
      <4> QED BY <2>2, <3>2, <4>2 DEF Newest
    <3>3. Newest(c)'
      BY <2>2, <2>4, <3>1, <3>2 DEF Newest
    <3> QED BY <2>2, <3>3
  <2> QED BY <2>3, <2>4
<1> QED BY <1>1, <1>2

(* As long as no fault happens, what changes a row after its run has been  *)
(* completed is the server's report of the last iteration, when every      *)
(* launch has a run id of its own: a server posts before it accepts the    *)
(* next connection, and the client waits for the response it gets before.  *)
THEOREM OnlyTheLastIsLate ==
  ASSUME DistinctRunIds
  PROVE  Spec => OnlyLastServerHalfIsLate
<1> DEFINE Inv == LabInv /\ PostedInv /\ ClosedInv /\ CalmInv /\ (faults = 0 => ReportsNewest)
           Late == \A s \in Samples :
             db'.rows[s] # db.rows[s] /\ faults = 0
               /\ KnownRuns(db) # {} /\ db.runs[db'.rows[s].run].completed =>
                 db'.rows[s].server # Absent /\ db'.rows[s].server.seq = Iterations
<1>1. Init => Inv
  <2>1. Init => ReportsNewest
    BY DEF Init, WireInit, Callers, ReportsNewest
  <2> QED BY <2>1, InitLabInv, InitFinal, InitCalm
<1>2. Inv /\ [Next]_vars => Inv'
  <2> SUFFICES ASSUME Inv, [Next]_vars
               PROVE  CalmInv' /\ (faults' = 0 => ReportsNewest')
    BY StepLabInv, PostedStep, ClosedStep
  <2> QED BY CalmStep, NewestStep, FaultCounted DEF CalmInv
<1>3. Inv /\ [Next]_vars => [Late]_vars
  <2> SUFFICES ASSUME Inv, [Next]_vars, NEW s \in Samples,
                      db'.rows[s] # db.rows[s], faults = 0,
                      db.runs[db'.rows[s].run].completed
               PROVE  db'.rows[s].server # Absent /\ db'.rows[s].server.seq = Iterations
    BY DEF vars, dashboardVars
  <2>1. Calm /\ ReportsNewest /\ db \in Database
    BY DEF CalmInv, LabInv
  <2>2. PICK q \in Asked : db' = Apply(db, q)
    BY AskedApplied
  <2>3. q \in Genuine(db) /\ q \in Post
    BY AskedGenuine DEF Genuine
  <2>4. /\ q.kind \in {"server", "client"} /\ q.sample = s /\ db'.rows[s] # Absent
        /\ q \in ServerPost \/ q \in ClientPost
        /\ q.kind = "server" => q \in ServerPost /\ db'.rows[s] = ServerUpsert(db.rows[s], q)
    <3>1. IsMeasurement(q)
      BY <2>1, <2>2, <2>3, ApplyRows, PostKinds DEF IsMeasurement
    <3> QED BY <2>1, <2>2, <2>3, <3>1, ApplyUpsert DEF IsMeasurement
  <2>5. db'.rows[s].run = q.run /\ Announced(db, q.run)
    <3>1. db'.rows[s].run = s[1]
      BY <2>4, AnnouncedStep DEF RowsGenuine, GenuineRow, Rows
    <3>2. q.run = s[1] /\ Announced(db, q.run)
      BY <2>3, <2>4, MeasuredTyped DEF Genuine
    <3> QED BY <3>1, <3>2
  <2>6. q.run \in Runs /\ Closed(q.run)
    BY <2>3, <2>5, PostKinds DEF Closed, Completed, Announced
  <2>7. q.kind = "server"
    BY <2>4, <2>6 DEF ClosedInv
  <2>8. PICK m \in Modes : call[m] # Absent /\ call[m].req = q
    BY <2>1, <2>7 DEF Asked, Calm, Undisturbed, Callers, PostedInv
  <2>9. PICK l \in 1..launch : RunIdOf[l] = q.run /\ (l = launch => pc \in {"completing"} \cup Ended)
    BY <2>6 DEF ClosedInv
  <2>10. q.half.launch = l
    <3>1. RunIdOf[q.half.launch] = q.run /\ q.half.launch \in 1..Launches
      BY <2>3, <2>7, <2>8, ReportMeasured DEF Genuine
    <3>2. l \in 1..Launches
      BY StateTyped, WireAssumption
    <3> QED BY <2>9, <3>1, <3>2 DEF DistinctRunIds
  <2>11. q.half.seq = Iterations
    <3>1. CASE l = launch
      <4>1. pc \in {"complete", "completing", "done"}
        BY <2>1, <2>9, <3>1 DEF Ended, Calm, Undisturbed
      <4> QED BY <2>1, <2>8, <4>1, NewestIsLast
    <3>2. CASE l # launch
      <4>1. l < launch
        BY <3>2, StateTyped, WireAssumption
      <4> QED BY <2>1, <2>8, <2>10, <4>1 DEF ReportsNewest, Newest
    <3> QED BY <3>1, <3>2
  <2>12. db'.rows[s].server = q.half /\ q.half # Absent
    <3>1. db.rows[s] \in Row \cup {Absent}
      BY <2>1 DEF Database
    <3>2. q.half \in Conns
      BY <2>4, <2>7 DEF ServerPost
    <3> QED BY <2>4, <2>7, <3>1, <3>2, ServerUpsertEffect, StoreAssumption
  <2> QED BY <2>11, <2>12
<1> QED BY <1>1, <1>2, <1>3, PTL DEF Spec, OnlyLastServerHalfIsLate
=============================================================================

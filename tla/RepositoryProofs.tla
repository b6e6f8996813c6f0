-------------------------- MODULE RepositoryProofs --------------------------
(***************************************************************************)
(* Repository, for any threads, viewers, requests, samples and runs: its   *)
(* invariants, and that it implements Ledger.                              *)
(***************************************************************************)
EXTENDS Repository, StoreProofs

InTransaction == {"execute", "commit", "rollback"}

(* The transaction discipline the safety properties rest on: who is inside *)
(* a transaction holds the lock, works on the committed database, and may  *)
(* only commit the whole effect of a request the checks let through.       *)
Discipline ==
  \A t \in Threads :
    /\ pc[t] \in InTransaction <=> lock = t
    /\ pc[t] # "idle" => job[t] # Absent
    /\ pc[t] \in InTransaction \cup {"begin", "ok"} => Valid(job[t])
    /\ pc[t] = "execute" => work[t] = db
    /\ pc[t] = "commit" => ModeCheck(job[t]) /\ work[t] = Apply(db, job[t])
    /\ pc[t] = "ok" => Holds(db, job[t])

(* What a viewer has listed stays in the table while it goes on reading. *)
ListedStays ==
  \A v \in Viewers :
    view[v] # Absent =>
      /\ view[v].listed \subseteq RowsOf(db, view[v].run)
      /\ view[v].shown # Absent => view[v].listed \subseteq view[v].shown

IInv ==
  /\ TypeOK
  /\ Discipline
  /\ AckedIsStored
  /\ VerdictIsTheClients
  /\ SuccessUntilClient
  /\ ListedStays

-----------------------------------------------------------------------------
(* What a commit installs: the committed database with the whole effect of *)
(* the request of the one thread that holds the lock.                      *)
LEMMA CommitInstalls ==
  ASSUME IInv, NEW t \in Threads, Commit(t)
  PROVE  /\ job[t] \in Posts /\ job[t] \in Post
         /\ Valid(job[t]) /\ ModeCheck(job[t])
         /\ lock = t
         /\ db' = Apply(db, job[t])
         /\ db' \in Database
  <1>1. pc[t] = "commit" /\ db' = work[t]
    BY DEF Commit
  <1>2. job[t] \in Posts /\ job[t] \in Post
    BY <1>1, RepositoryAssumption DEF IInv, Discipline, TypeOK
  <1>3. /\ Valid(job[t]) /\ ModeCheck(job[t])
        /\ lock = t
        /\ work[t] = Apply(db, job[t])
    BY <1>1 DEF IInv, Discipline, InTransaction
  <1>4. Apply(db, job[t]) \in Database
    BY <1>2, ApplyRows DEF IInv, TypeOK
  <1>5. QED
    BY <1>1, <1>2, <1>3, <1>4

(* Only a commit changes the database.                                     *)
LEMMA OnlyCommitWrites ==
  ASSUME Next, db' # db
  PROVE  \E t \in Threads : Commit(t)
  <1>1. \A t \in Threads, q \in Posts : ~Receive(t, q)
    BY DEF Receive
  <1>2. \A t \in Threads : Handle(t) => Commit(t)
    BY DEF Handle, Begin, BeginTimesOut, Execute, StorageFails, Rollback, Reply
  <1>3. \A v \in Viewers : ~Browse(v)
    BY DEF Browse, ListRuns, ReadRows, EndView
  <1>4. ~Crash
    BY DEF Crash
  <1>5. QED
    BY <1>1, <1>2, <1>3, <1>4 DEF Next

-----------------------------------------------------------------------------
LEMMA TypeStep ==
  ASSUME IInv, [Next]_vars
  PROVE  TypeOK'
  <1> USE DEF TypeOK
  <1>0. TypeOK
    BY DEF IInv
  <1>1. ASSUME NEW t \in Threads, NEW q \in Posts, Receive(t, q) PROVE TypeOK'
    BY <1>0, <1>1 DEF Receive, Labels
  <1>2. ASSUME NEW t \in Threads, Begin(t) PROVE TypeOK'
    BY <1>0, <1>2 DEF Begin, Labels
  <1>3. ASSUME NEW t \in Threads, BeginTimesOut(t) PROVE TypeOK'
    BY <1>0, <1>3 DEF BeginTimesOut, Labels
  <1>4. ASSUME NEW t \in Threads, Execute(t) PROVE TypeOK'
    <2>1. job[t] \in Post /\ job[t].run \in Runs
      BY <1>4, RepositoryAssumption, PostKinds DEF Execute, IInv, Discipline
    <2>2. work[t] \in Database
      BY <1>0, <1>4 DEF Execute, IInv, Discipline
    <2>3. Apply(work[t], job[t]) \in Database
      BY <2>1, <2>2, ApplyRows
    <2>4. ApplyUpToCheck(work[t], job[t]) \in Database
      BY <2>1, <2>2, EnsureRunEffect DEF ApplyUpToCheck
    <2>5. QED
      BY <1>0, <1>4, <2>3, <2>4 DEF Execute, Labels
  <1>5. ASSUME NEW t \in Threads, StorageFails(t) PROVE TypeOK'
    BY <1>0, <1>5 DEF StorageFails, Labels
  <1>6. ASSUME NEW t \in Threads, Commit(t) PROVE TypeOK'
    <2>1. db' \in Database
      BY <1>6, CommitInstalls
    <2>2. QED
      BY <1>0, <1>6, <2>1 DEF Commit, EndTransaction, Labels
  <1>7. ASSUME NEW t \in Threads, Rollback(t) PROVE TypeOK'
    BY <1>0, <1>7 DEF Rollback, EndTransaction, Labels
  <1>8. ASSUME NEW t \in Threads, Reply(t) PROVE TypeOK'
    <2>1. pc[t] = "ok" => job[t] \in Posts
      BY <1>0, <1>8 DEF Reply, IInv, Discipline
    <2>2. QED
      BY <1>0, <1>8, <2>1 DEF Reply, Labels
  <1>9. ASSUME NEW v \in Viewers, NEW r \in Runs, ListRuns(v, r) PROVE TypeOK'
    BY <1>0, <1>9 DEF ListRuns, View, RowsOf, Rows
  <1>10. ASSUME NEW v \in Viewers, ReadRows(v) PROVE TypeOK'
    BY <1>0, <1>10 DEF ReadRows, View, RowsOf, Rows
  <1>11. ASSUME NEW v \in Viewers, EndView(v) PROVE TypeOK'
    BY <1>0, <1>11 DEF EndView
  <1>12. CASE Crash
    BY <1>0, <1>12 DEF Crash, Labels
  <1>13. CASE UNCHANGED vars
    BY <1>0, <1>13 DEF vars
  <1>14. QED
    BY <1>1, <1>2, <1>3, <1>4, <1>5, <1>6, <1>7, <1>8, <1>9, <1>10, <1>11,
       <1>12, <1>13 DEF Next, Handle, Browse

-----------------------------------------------------------------------------
(* The transaction discipline is kept by every step.                       *)
LEMMA DisciplineStep ==
  ASSUME IInv, [Next]_vars
  PROVE  Discipline'
  <1> USE DEF InTransaction
  <1>0. TypeOK /\ Discipline
    BY DEF IInv
  <1>1. ASSUME NEW t \in Threads, NEW q \in Posts, Receive(t, q) PROVE Discipline'
    BY <1>0, <1>1, RepositoryAssumption DEF Receive, Discipline, TypeOK
  <1>2. ASSUME NEW t \in Threads, Begin(t) PROVE Discipline'
    BY <1>0, <1>2, RepositoryAssumption DEF Begin, Discipline, TypeOK
  <1>3. ASSUME NEW t \in Threads, BeginTimesOut(t) PROVE Discipline'
    BY <1>0, <1>3 DEF BeginTimesOut, Discipline, TypeOK
  <1>4. ASSUME NEW t \in Threads, Execute(t) PROVE Discipline'
    BY <1>0, <1>4 DEF Execute, Discipline, TypeOK
  <1>5. ASSUME NEW t \in Threads, StorageFails(t) PROVE Discipline'
    BY <1>0, <1>5 DEF StorageFails, Discipline, TypeOK
  <1>6. ASSUME NEW t \in Threads, Commit(t) PROVE Discipline'
    <2>1. Holds(db', job[t])
      BY <1>0, <1>6, CommitInstalls, ApplyHolds DEF TypeOK
    <2>2. \A u \in Threads : pc[u] = "ok" => Holds(db', job[u])
      BY <1>0, <1>6, CommitInstalls, ApplyKeeps, RepositoryAssumption
         DEF Discipline, TypeOK
    <2>3. \A u \in Threads \ {t} : pc[u] \notin InTransaction
      BY <1>0, <1>6, CommitInstalls DEF Discipline
    <2>4. QED
      BY <1>0, <1>6, <2>1, <2>2, <2>3, RepositoryAssumption
         DEF Commit, EndTransaction, Discipline, TypeOK
  <1>7. ASSUME NEW t \in Threads, Rollback(t) PROVE Discipline'
    BY <1>0, <1>7, RepositoryAssumption
       DEF Rollback, EndTransaction, Discipline, TypeOK
  <1>8. ASSUME NEW t \in Threads, Reply(t) PROVE Discipline'
    BY <1>0, <1>8 DEF Reply, Discipline, TypeOK
  <1>9. ASSUME NEW v \in Viewers, Browse(v) PROVE Discipline'
    BY <1>0, <1>9 DEF Browse, ListRuns, ReadRows, EndView, Discipline
  <1>10. CASE Crash
    BY <1>10, RepositoryAssumption DEF Crash, Discipline
  <1>11. CASE UNCHANGED vars
    BY <1>0, <1>11 DEF vars, Discipline
  <1>12. QED
    BY <1>1, <1>2, <1>3, <1>4, <1>5, <1>6, <1>7, <1>8, <1>9, <1>10, <1>11
       DEF Next, Handle

-----------------------------------------------------------------------------
(* The parts of IInv that speak of the database: a commit keeps them       *)
(* because Apply does, and nothing else writes.                            *)
LEMMA DatabaseStep ==
  ASSUME IInv, [Next]_vars
  PROVE  VerdictIsTheClients' /\ SuccessUntilClient'
  <1>1. CASE db' = db
    BY <1>1 DEF IInv, VerdictIsTheClients, SuccessUntilClient
  <1>2. CASE db' # db
    <2>1. PICK t \in Threads : Commit(t)
      BY <1>2, OnlyCommitWrites DEF vars
    <2>2. /\ db \in Database /\ job[t] \in Post /\ job[t] \in Posts
          /\ Valid(job[t]) /\ ModeCheck(job[t])
          /\ db' = Apply(db, job[t])
      BY <2>1, CommitInstalls DEF IInv, TypeOK
    <2>3. VerdictIsTheClients'
      <3>1. \A s \in Rows(Apply(db, job[t])) :
              Apply(db, job[t]).rows[s].client # Absent =>
                Apply(db, job[t]).rows[s].success
                  = Apply(db, job[t]).rows[s].client.ok
        BY <2>2, ApplyVerdict, Zenon DEF IInv, VerdictIsTheClients
      <3>2. QED
        BY <2>2, <3>1, Zenon DEF VerdictIsTheClients
    <2>4. SuccessUntilClient'
      BY <2>2, ApplyOptimistic DEF IInv, SuccessUntilClient
    <2>5. QED
      BY <2>3, <2>4
  <1>3. QED
    BY <1>1, <1>2

(* What was acknowledged stays stored: a commit takes nothing out, and a   *)
(* thread answers ok only after its commit.                                *)
LEMMA AckedStep ==
  ASSUME IInv, [Next]_vars
  PROVE  AckedIsStored'
  <1>0. /\ db \in Database /\ acked \subseteq Post
        /\ \A q \in acked : Holds(db, q)
    BY RepositoryAssumption DEF IInv, TypeOK, AckedIsStored
  <1>1. \A q \in acked : Holds(db', q)
    <2>1. CASE db' = db
      BY <1>0, <2>1
    <2>2. CASE db' # db
      <3>1. PICK t \in Threads : Commit(t)
        BY <2>2, OnlyCommitWrites DEF vars
      <3>2. job[t] \in Post /\ db' = Apply(db, job[t])
        BY <3>1, CommitInstalls
      <3>3. QED
        BY <1>0, <3>2, ApplyKeeps
    <2>3. QED
      BY <2>1, <2>2
  <1>2. CASE acked' = acked
    BY <1>1, <1>2 DEF AckedIsStored
  <1>3. CASE \E t \in Threads : Reply(t)
    <2>1. PICK t \in Threads : Reply(t)
      BY <1>3
    <2>2. acked' = acked \/ (pc[t] = "ok" /\ acked' = acked \cup {job[t]})
      BY <2>1 DEF Reply
    <2>3. pc[t] = "ok" => Holds(db, job[t])
      BY DEF IInv, Discipline
    <2>4. db' = db
      BY <2>1 DEF Reply
    <2>5. QED
      BY <1>1, <2>2, <2>3, <2>4 DEF AckedIsStored
  <1>4. QED
    BY <1>2, <1>3 DEF Next, vars, Receive, Handle, Begin, BeginTimesOut,
      Execute, StorageFails, Commit, Rollback, Browse, ListRuns, ReadRows,
      EndView, Crash

(* No row a viewer has listed leaves the run it was listed for.            *)
LEMMA ListedStep ==
  ASSUME IInv, [Next]_vars
  PROVE  ListedStays'
  <1>0. TypeOK /\ ListedStays
    BY DEF IInv
  <1>1. \A r \in Runs : RowsOf(db, r) \subseteq RowsOf(db', r)
    <2>1. CASE db' = db
      BY <2>1
    <2>2. CASE db' # db
      <3>1. PICK t \in Threads : Commit(t)
        BY <2>2, OnlyCommitWrites DEF vars
      <3>2. job[t] \in Post /\ db' = Apply(db, job[t])
        BY <3>1, CommitInstalls
      <3>3. QED
        BY <1>0, <3>2, ApplyGrows DEF TypeOK
    <2>3. QED
      BY <2>1, <2>2
  <1>2. CASE view' = view
    BY <1>0, <1>1, <1>2 DEF ListedStays, TypeOK, View
  <1>3. ASSUME NEW v \in Viewers, NEW r \in Runs, ListRuns(v, r) PROVE ListedStays'
    BY <1>0, <1>3 DEF ListRuns, ListedStays, TypeOK
  <1>4. ASSUME NEW v \in Viewers, ReadRows(v) PROVE ListedStays'
    BY <1>0, <1>4 DEF ReadRows, ListedStays, TypeOK, View
  <1>5. ASSUME NEW v \in Viewers, EndView(v) PROVE ListedStays'
    BY <1>0, <1>5 DEF EndView, ListedStays, TypeOK
  <1>6. CASE Crash
    BY <1>6 DEF Crash, ListedStays
  <1>7. QED
    BY <1>2, <1>3, <1>4, <1>5, <1>6 DEF Next, vars, Receive, Handle, Begin,
      BeginTimesOut, Execute, StorageFails, Commit, Rollback, Reply, Browse

-----------------------------------------------------------------------------
LEMMA InitIInv ==
  ASSUME Init
  PROVE  IInv
  <1>1. Rows(db) = {} /\ KnownRuns(db) = {} /\ db \in Database
    BY DEF Init, Rows, KnownRuns, EmptyDatabase, Database
  <1>2. TypeOK
    BY <1>1 DEF Init, TypeOK, Labels
  <1>3. Discipline
    BY RepositoryAssumption DEF Init, Discipline, InTransaction
  <1>4. AckedIsStored /\ ListedStays
    BY DEF Init, AckedIsStored, ListedStays
  <1>5. VerdictIsTheClients /\ SuccessUntilClient
    BY <1>1 DEF VerdictIsTheClients, SuccessUntilClient
  <1>6. QED
    BY <1>2, <1>3, <1>4, <1>5 DEF IInv

(* The inductive invariant holds in every reachable state.                 *)
THEOREM Invariance == Spec => []IInv
  <1>1. Init => IInv
    BY InitIInv
  <1>2. IInv /\ [Next]_vars => IInv'
    BY TypeStep, DisciplineStep, DatabaseStep, AckedStep, ListedStep DEF IInv
  <1>3. QED
    BY <1>1, <1>2, PTL DEF Spec

(* Every variable of the service keeps its type.                           *)
THEOREM TypeCorrect == Spec => []TypeOK
  BY Invariance, PTL DEF IInv

(* A request answered 200 or 201 is in the database for good, under any    *)
(* interleaving of any number of threads, with rollbacks and crashes.      *)
THEOREM AckedDurable == Spec => []AckedIsStored
  BY Invariance, PTL DEF IInv

(* The server's half never overrides the client's verdict.                 *)
THEOREM VerdictStands == Spec => []VerdictIsTheClients
  BY Invariance, PTL DEF IInv

(* The run of a request is the only one its commit can add.                *)
LEMMA RunStep ==
  ASSUME IInv, Next, NEW r \in KnownRuns(db'), r \notin KnownRuns(db)
  PROVE  \E t \in Threads : /\ pc[t] \notin {"idle", "ok"} /\ job[t].run = r
                            /\ Valid(job[t]) /\ ModeCheck(job[t])
                            /\ pc'[t] = "ok"
  <1>1. db' # db
    BY DEF KnownRuns
  <1>2. PICK t \in Threads : Commit(t)
    BY <1>1, OnlyCommitWrites
  <1>3. /\ db \in Database /\ job[t] \in Post /\ db' = Apply(db, job[t])
        /\ Valid(job[t]) /\ ModeCheck(job[t])
    BY <1>2, CommitInstalls DEF IInv, TypeOK
  <1>4. job[t].run = r
    BY <1>3, ApplyKnown
  <1>5. pc[t] = "commit" /\ pc'[t] = "ok"
    BY <1>2 DEF Commit, IInv, TypeOK
  <1>6. QED
    BY <1>3, <1>4, <1>5

(* A run enters the database only in the commit of a request that names it *)
(* and that both checks let through; a refused one leaves no run behind.   *)
THEOREM RejectedLeavesNothing == Spec => NoRunFromRejected
  <1>1. IInv /\ [Next]_vars =>
          [\A r \in KnownRuns(db') \ KnownRuns(db) :
             \E t \in Threads : /\ pc[t] \notin {"idle", "ok"} /\ job[t].run = r
                                /\ Valid(job[t]) /\ ModeCheck(job[t])
                                /\ pc'[t] = "ok"]_vars
    BY RunStep
  <1>2. QED
    BY <1>1, Invariance, PTL DEF Spec, NoRunFromRejected

(* The counts a page lists never run ahead of the rows it shows.           *)
THEOREM PagesConsistent == Spec => []ListingNotAhead
  <1>1. IInv => ListingNotAhead
    BY DEF IInv, ListedStays, ListingNotAhead
  <1>2. QED
    BY <1>1, Invariance, PTL

-----------------------------------------------------------------------------
(* Repository implements Ledger: each commit is the ledger's step of its   *)
(* request, every other step a stutter.                                    *)
LEMMA StepMapped ==
  ASSUME IInv, [Next]_vars
  PROVE  [L!Next]_L!vars
  <1>1. CASE db' = db
    BY <1>1, StutterMapped
  <1>2. CASE db' # db
    <2>1. PICK t \in Threads : Commit(t)
      BY <1>2, OnlyCommitWrites DEF vars
    <2>2. db \in Database /\ job[t] \in Post /\ db' = Apply(db, job[t])
      BY <2>1, CommitInstalls DEF IInv, TypeOK
    <2>3. QED
      BY <2>2, RequestMapped DEF IInv
  <1>3. QED
    BY <1>1, <1>2

(* The dashboard's store implements the ledger it promises its callers.    *)
THEOREM Refinement == Spec => ImplementsLedger
  <1>1. Init => L!Init
    BY EmptyMapped DEF Init
  <1>2. QED
    BY <1>1, Invariance, StepMapped, PTL DEF Spec, ImplementsLedger, L!Spec
=============================================================================

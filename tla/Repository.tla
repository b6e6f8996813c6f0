----------------------------- MODULE Repository -----------------------------
(***************************************************************************)
(* The dashboard service: the POST routes of dashboard/app/main.py run in  *)
(* a pool of threads, each inside BenchmarkRepository.transaction() of     *)
(* db.py, and GET /api/dashboard reads two snapshots one after the other.  *)
(* SQLite in WAL mode (external): BEGIN IMMEDIATE takes the one write lock *)
(* or fails after its 10 s timeout, a statement works on the writer's own  *)
(* copy, COMMIT installs it, readers see the last commit.  The process can *)
(* be killed at any time; the database file survives on its volume.        *)
(***************************************************************************)
EXTENDS StoreLedger

CONSTANTS
  Threads,   \* threads of the pool that serve POST requests
  Viewers,   \* threads of the pool that serve GET /api/dashboard
  Posts      \* the requests callers send, each as often as they like

ASSUME RepositoryAssumption ==
  Posts \subseteq Post /\ Absent \notin Posts \cup Threads

VARIABLES
  lock,    \* the thread that holds SQLite's write lock, or Absent
  pc,      \* where each thread is in its handler
  job,     \* the request each thread serves, or Absent
  work,    \* the uncommitted database of the thread's transaction, or Absent
  acked,   \* requests answered 200 or 201 so far
  view     \* what each viewer has read so far, or Absent

vars == <<db, lock, pc, job, work, acked, view>>

Labels == {"idle", "begin", "execute", "commit", "rollback", "ok", "error"}

View == [run : Runs, listed : SUBSET Samples, shown : (SUBSET Samples) \cup {Absent}]

TypeOK ==
  /\ db \in Database
  /\ lock \in Threads \cup {Absent}
  /\ pc \in [Threads -> Labels]
  /\ job \in [Threads -> Posts \cup {Absent}]
  /\ work \in [Threads -> Database \cup {Absent}]
  /\ acked \subseteq Posts
  /\ view \in [Viewers -> View \cup {Absent}]

Init ==
  /\ db = EmptyDatabase
  /\ lock = Absent
  /\ pc = [t \in Threads |-> "idle"]
  /\ job = [t \in Threads |-> Absent]
  /\ work = [t \in Threads |-> Absent]
  /\ acked = {}
  /\ view = [v \in Viewers |-> Absent]

-----------------------------------------------------------------------------
(* The routes: a body that pydantic refuses is answered 422 at once.       *)
Receive(t, q) ==
  /\ pc[t] = "idle"
  /\ job' = [job EXCEPT ![t] = q]
  /\ pc' = [pc EXCEPT ![t] = IF Valid(q) THEN "begin" ELSE "error"]
  /\ UNCHANGED <<db, lock, work, acked, view>>

(* Mutant of Begin: a deferred BEGIN, which takes no lock before it reads. *)
BeginDeferred(t) ==
  /\ pc[t] = "begin"
  /\ lock' = t
  /\ work' = [work EXCEPT ![t] = db]
  /\ pc' = [pc EXCEPT ![t] = "execute"]
  /\ UNCHANGED <<db, job, acked, view>>

(* BEGIN IMMEDIATE gets the write lock. *)
Begin(t) ==
  /\ pc[t] = "begin"
  /\ lock = Absent
  /\ lock' = t
  /\ work' = [work EXCEPT ![t] = db]
  /\ pc' = [pc EXCEPT ![t] = "execute"]
  /\ UNCHANGED <<db, job, acked, view>>

(* Mutant of BeginTimesOut: a connection without a timeout. *)
BeginWaits(t) ==
  /\ pc[t] = "begin"
  /\ lock # Absent
  /\ UNCHANGED vars

(* BEGIN IMMEDIATE: "database is locked" for the 10 s of connect(). *)
BeginTimesOut(t) ==
  /\ pc[t] = "begin"
  /\ lock # Absent
  /\ pc' = [pc EXCEPT ![t] = "error"]
  /\ UNCHANGED <<db, lock, job, work, acked, view>>

(* The body of the with statement; an IntegrityError leaves the run row of *)
(* _ensure_run behind in the open transaction.                             *)
Execute(t) ==
  /\ pc[t] = "execute"
  /\ IF ModeCheck(job[t])
     THEN /\ work' = [work EXCEPT ![t] = Apply(work[t], job[t])]
          /\ pc' = [pc EXCEPT ![t] = "commit"]
     ELSE /\ work' = [work EXCEPT ![t] = ApplyUpToCheck(work[t], job[t])]
          /\ pc' = [pc EXCEPT ![t] = "rollback"]
  /\ UNCHANGED <<db, lock, job, acked, view>>

(* Any statement, the commit included, can raise sqlite3.OperationalError. *)
StorageFails(t) ==
  /\ pc[t] \in {"execute", "commit"}
  /\ pc' = [pc EXCEPT ![t] = "rollback"]
  /\ UNCHANGED <<db, lock, job, work, acked, view>>

(* Mutant of EndTransaction: the connection is not closed. *)
EndTransactionKeepsLock(t) ==
  /\ UNCHANGED lock
  /\ work' = [work EXCEPT ![t] = Absent]

(* Leaving the with statement closes the connection, hence frees the lock. *)
EndTransaction(t) ==
  /\ lock' = Absent
  /\ work' = [work EXCEPT ![t] = Absent]

Commit(t) ==
  /\ pc[t] = "commit"
  /\ db' = work[t]
  /\ EndTransaction(t)
  /\ pc' = [pc EXCEPT ![t] = "ok"]
  /\ UNCHANGED <<job, acked, view>>

(* Mutant of Rollback: what was executed is committed all the same. *)
RollbackCommits(t) ==
  /\ pc[t] = "rollback"
  /\ db' = work[t]
  /\ EndTransaction(t)
  /\ pc' = [pc EXCEPT ![t] = "error"]
  /\ UNCHANGED <<job, acked, view>>

Rollback(t) ==
  /\ pc[t] = "rollback"
  /\ EndTransaction(t)
  /\ pc' = [pc EXCEPT ![t] = "error"]
  /\ UNCHANGED <<db, job, acked, view>>

(* Mutant of Reply: the request is forgotten before it is acknowledged. *)
ReplyForgets(t) ==
  /\ pc[t] \in {"ok", "error"}
  /\ job' = [job EXCEPT ![t] = Absent]
  /\ acked' = IF pc[t] = "ok" THEN acked \cup {job'[t]} ELSE acked
  /\ pc' = [pc EXCEPT ![t] = "idle"]
  /\ UNCHANGED <<db, lock, work, view>>

(* The handler returns: 200/201, or the exception became a 500 (or a 422). *)
Reply(t) ==
  /\ pc[t] \in {"ok", "error"}
  /\ acked' = IF pc[t] = "ok" THEN acked \cup {job[t]} ELSE acked
  /\ pc' = [pc EXCEPT ![t] = "idle"]
  /\ job' = [job EXCEPT ![t] = Absent]
  /\ UNCHANGED <<db, lock, work, view>>

-----------------------------------------------------------------------------
(* dashboard_data(r): runs() counts the samples of every run ...           *)
ListRuns(v, r) ==
  /\ view[v] = Absent
  /\ view' = [view EXCEPT ![v] =
                [run |-> r, listed |-> RowsOf(db, r), shown |-> Absent]]
  /\ UNCHANGED <<db, lock, pc, job, work, acked>>

(* Mutant of ReadRows: measurements() stops at a LIMIT of one row. *)
ReadOneRow(v) ==
  /\ view[v] # Absent
  /\ view[v].shown = Absent
  /\ \E rows \in SUBSET RowsOf(db, view[v].run) :
       /\ \A x, y \in rows : x = y
       /\ view' = [view EXCEPT ![v].shown = rows]
  /\ UNCHANGED <<db, lock, pc, job, work, acked>>

(* ... then measurements(r) reads, on a second connection, the rows that   *)
(* are summarised and shown.                                               *)
ReadRows(v) ==
  /\ view[v] # Absent
  /\ view[v].shown = Absent
  /\ view' = [view EXCEPT ![v].shown = RowsOf(db, view[v].run)]
  /\ UNCHANGED <<db, lock, pc, job, work, acked>>

(* The page is sent. *)
EndView(v) ==
  /\ view[v] # Absent
  /\ view[v].shown # Absent
  /\ view' = [view EXCEPT ![v] = Absent]
  /\ UNCHANGED <<db, lock, pc, job, work, acked>>

(* The process dies and is restarted: connections, locks and uncommitted   *)
(* work are gone, what was committed is read back.                         *)
Crash ==
  /\ lock' = Absent
  /\ pc' = [t \in Threads |-> "idle"]
  /\ job' = [t \in Threads |-> Absent]
  /\ work' = [t \in Threads |-> Absent]
  /\ view' = [v \in Viewers |-> Absent]
  /\ UNCHANGED <<db, acked>>

-----------------------------------------------------------------------------
Handle(t) ==
  \/ Begin(t)
  \/ BeginTimesOut(t)
  \/ Execute(t)
  \/ StorageFails(t)
  \/ Commit(t)
  \/ Rollback(t)
  \/ Reply(t)

Browse(v) ==
  \/ \E r \in Runs : ListRuns(v, r)
  \/ ReadRows(v)
  \/ EndView(v)

Next ==
  \/ \E t \in Threads, q \in Posts : Receive(t, q)
  \/ \E t \in Threads : Handle(t)
  \/ \E v \in Viewers : Browse(v)
  \/ Crash

Spec == Init /\ [][Next]_vars

(* A thread that has started on a request is scheduled until it answers:   *)
(* nothing in a handler waits but BEGIN IMMEDIATE, and that one times out. *)
FairSpec == Spec /\ \A t \in Threads : WF_vars(Handle(t))

-----------------------------------------------------------------------------
(* A request answered 200 or 201 is in the database from then on, whatever *)
(* other threads commit or roll back and however often the process dies:   *)
(* no lost update between two transactions of db.py.                       *)
AckedIsStored == \A q \in acked : Holds(db, q)

(* Once the client has reported, success is the client's verdict, also     *)
(* when the server's half arrives later with its optimistic success=1.     *)
VerdictIsTheClients ==
  \A s \in Rows(db) :
    db.rows[s].client # Absent => db.rows[s].success = db.rows[s].client.ok

(* One response never lists more samples for a run than it summarises,     *)
(* although the two numbers come from two snapshots.                       *)
ListingNotAhead ==
  \A v \in Viewers :
    view[v] # Absent /\ view[v].shown # Absent => view[v].listed \subseteq view[v].shown

(* A run appears in the step in which a request that names it commits, and *)
(* that request has passed both checks: a measurement the CHECK refuses    *)
(* leaves nothing of what _ensure_run inserted before it.                  *)
NoRunFromRejected ==
  [][\A r \in KnownRuns(db') \ KnownRuns(db) :
       \E t \in Threads : /\ pc[t] \notin {"idle", "ok"} /\ job[t].run = r
                          /\ Valid(job[t]) /\ ModeCheck(job[t])
                          /\ pc'[t] = "ok"]_vars

(* The write lock does not stay taken: every transaction ends.             *)
LockIsReleased == (lock # Absent) ~> (lock = Absent)

(* Every request is answered, or the process is restarted.                 *)
EveryPostAnswered == \A t \in Threads : (pc[t] # "idle") ~> (pc[t] = "idle")
=============================================================================

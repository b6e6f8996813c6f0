----------------------------- MODULE StoreLedger -----------------------------
(* The committed database, which Repository, Lab and DashboardRead write   *)
(* to in steps of their own, read as a Ledger: all three implement it.     *)
EXTENDS Store

VARIABLE db   \* the committed database

L == INSTANCE Ledger WITH
  known     <- KnownRuns(db),
  announced <- {r \in KnownRuns(db) : db.runs[r].announced},
  completed <- {r \in KnownRuns(db) : db.runs[r].completed},
  home      <- [s \in Samples |-> IF db.rows[s] = Absent THEN Absent ELSE db.rows[s].run],
  server    <- [s \in Samples |-> IF db.rows[s] = Absent THEN Absent ELSE db.rows[s].server],
  client    <- [s \in Samples |-> IF db.rows[s] = Absent THEN Absent ELSE db.rows[s].client],
  verdict   <- [s \in Samples |-> db.rows[s] # Absent /\ db.rows[s].success]

(* The committed tables behave like the ledger: no commit overwrites what  *)
(* another thread entered, none loses a half or moves a sample to another  *)
(* run, and the server never overrides the client's verdict.               *)
ImplementsLedger == L!Spec
=============================================================================

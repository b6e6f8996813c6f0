------------------------------ MODULE ScanCache ------------------------------
(***************************************************************************)
(* dashboard/app/score.py: GET /score runs load_scored() in a thread of    *)
(* the pool; for each vendor it calls _certs(), which fills the global     *)
(* _CERT_CACHE from the first scan file that yields anything, without a    *)
(* lock.  A step is what one thread does between two uses of the global;   *)
(* the interpreter may switch threads between any two of them.             *)
(***************************************************************************)
EXTENDS Naturals, Sequences

CONSTANTS
  Threads,   \* threads that serve GET /score
  Vendors,   \* the vendors of vendors.csv, all of them rows of the page
  Scans,     \* what the scan files can be, in the order they are tried
  Absent     \* None

(* A file is missing or not JSON ("none"), an object with "results", or a  *)
(* bare list, for which doc.get raises.                                    *)
File == [kind : {"none", "results", "list"}, labels : Seq(Vendors)]

ASSUME ScanAssumption ==
  /\ Scans \subseteq Seq(File)
  /\ Absent \notin [Vendors -> Nat]

VARIABLES
  files,   \* the scan files the image was built with
  cache,   \* _CERT_CACHE: None, or for each vendor the file of its entry (0: none)
  pc,      \* where each thread is
  todo,    \* vendors the thread's page has still to score
  file,    \* the file the thread is reading
  rec,     \* the next record of it
  used     \* for each vendor scored so far, the file its posture came from (0: the CSV)

vars == <<files, cache, pc, todo, file, rec, used>>

Empty == [v \in Vendors |-> 0]

Filling == {"reset", "open", "record", "decide"}

TypeOK ==
  /\ files \in Scans
  /\ cache \in [Vendors -> 0..Len(files)] \cup {Absent}
  /\ pc \in [Threads -> {"idle", "check", "score", "failed"} \cup Filling]
  /\ todo \in [Threads -> SUBSET Vendors]
  /\ file \in [Threads -> 1..Len(files) + 1]
  /\ rec \in [Threads -> Nat \ {0}]
  /\ used \in [Threads -> [Vendors -> (0..Len(files)) \cup {Absent}]]

Init ==
  /\ files \in Scans
  /\ cache = Absent
  /\ pc = [t \in Threads |-> "idle"]
  /\ todo = [t \in Threads |-> {}]
  /\ file = [t \in Threads |-> 1]
  /\ rec = [t \in Threads |-> 1]
  /\ used = [t \in Threads |-> [v \in Vendors |-> Absent]]

Goto(t, label) == pc' = [pc EXCEPT ![t] = label]

-----------------------------------------------------------------------------
Request(t) ==
  /\ pc[t] \in {"idle", "failed"}
  /\ todo' = [todo EXCEPT ![t] = Vendors]
  /\ used' = [used EXCEPT ![t] = [v \in Vendors |-> Absent]]
  /\ Goto(t, "check")
  /\ UNCHANGED <<files, cache, file, rec>>

(* Mutant of Check: the scan is read again for every row. *)
CheckNothing(t) ==
  /\ pc[t] = "check"
  /\ Goto(t, "reset")
  /\ UNCHANGED <<files, cache, todo, file, rec, used>>

(* if _CERT_CACHE is None *)
Check(t) ==
  /\ pc[t] = "check"
  /\ Goto(t, IF cache = Absent THEN "reset" ELSE "score")
  /\ UNCHANGED <<files, cache, todo, file, rec, used>>

Reset(t) ==
  /\ pc[t] = "reset"
  /\ cache' = Empty
  /\ file' = [file EXCEPT ![t] = 1]
  /\ Goto(t, "open")
  /\ UNCHANGED <<files, todo, rec, used>>

(* Mutant of Open: records are counted from 0. *)
OpenAtZero(t) ==
  /\ pc[t] = "open"
  /\ file[t] <= Len(files)
  /\ rec' = [rec EXCEPT ![t] = 0]
  /\ Goto(t, "record")
  /\ UNCHANGED <<files, cache, todo, file, used>>

(* A list raises, which ends the request with a 500. *)
Open(t) ==
  /\ pc[t] = "open"
  /\ \/ /\ file[t] > Len(files)
        /\ Goto(t, "score")
        /\ UNCHANGED <<file, rec>>
     \/ /\ file[t] <= Len(files) /\ files[file[t]].kind = "none"
        /\ file' = [file EXCEPT ![t] = @ + 1]
        /\ UNCHANGED <<pc, rec>>
     \/ /\ file[t] <= Len(files) /\ files[file[t]].kind = "results"
        /\ rec' = [rec EXCEPT ![t] = 1]
        /\ Goto(t, "record")
        /\ UNCHANGED file
     \/ /\ file[t] <= Len(files) /\ files[file[t]].kind = "list"
        /\ Goto(t, "failed")
        /\ UNCHANGED <<file, rec>>
  /\ UNCHANGED <<files, cache, todo, used>>

(* _CERT_CACHE[lab] = ... writes to the dict that is global by now. *)
Record(t) ==
  LET labels == files[file[t]].labels IN
  /\ pc[t] = "record"
  /\ IF rec[t] <= Len(labels)
     THEN /\ cache' = [cache EXCEPT ![labels[rec[t]]] = file[t]]
          /\ rec' = [rec EXCEPT ![t] = @ + 1]
          /\ UNCHANGED pc
     ELSE Goto(t, "decide") /\ UNCHANGED <<cache, rec>>
  /\ UNCHANGED <<files, todo, file, used>>

(* Mutant of Decide: the first file that can be read is the last one. *)
DecideToStop(t) ==
  /\ pc[t] = "decide"
  /\ Goto(t, "score")
  /\ UNCHANGED <<files, cache, todo, file, rec, used>>

(* if _CERT_CACHE: break *)
Decide(t) ==
  /\ pc[t] = "decide"
  /\ IF cache # Empty
     THEN Goto(t, "score") /\ UNCHANGED file
     ELSE Goto(t, "open") /\ file' = [file EXCEPT ![t] = @ + 1]
  /\ UNCHANGED <<files, cache, todo, rec, used>>

(* One row of the page, in any order; after the last one it is sent. *)
Score(t, v) ==
  /\ pc[t] = "score"
  /\ v \in todo[t]
  /\ used' = [used EXCEPT ![t][v] = cache[v]]
  /\ todo' = [todo EXCEPT ![t] = @ \ {v}]
  /\ Goto(t, IF todo[t] = {v} THEN "idle" ELSE "check")
  /\ UNCHANGED <<files, cache, file, rec>>

Next ==
  \E t \in Threads :
    \/ Request(t) \/ Check(t) \/ Reset(t) \/ Open(t) \/ Record(t) \/ Decide(t)
    \/ \E v \in Vendors : Score(t, v)

Spec == Init /\ [][Next]_vars

-----------------------------------------------------------------------------
Scanned(f) == {files[f].labels[i] : i \in DOMAIN files[f].labels}

(* The files that yield entries, up to the first one that raises. *)
Usable == {f \in DOMAIN files :
             /\ files[f].kind = "results" /\ Scanned(f) # {}
             /\ \A e \in 1..f : files[e].kind # "list"}

(* The cache exists and no thread is filling it or about to. *)
Settled == cache # Absent /\ \A t \in Threads : pc[t] \notin Filling

Before(f) == 1..(f - 1)

Covers(f) == \A v \in Scanned(f) : cache[v] # 0

(* However the first requests overlap, the cache they leave behind is not  *)
(* empty if some file is usable, and has an entry for every vendor of the  *)
(* first usable file if only missing files come before it.  After a scan   *)
(* without records a thread asks the shared dict whether to go on, stops   *)
(* if another one has begun to fill it from the next file, and of the      *)
(* entries it had emptied only those still to be written come back.        *)
SettledCoversScan ==
  Settled =>
    /\ Usable # {} => cache # Empty
    /\ \A f \in Usable : (\A e \in Before(f) : files[e].kind = "none") => Covers(f)

(* Once filled, the cache is never emptied again by a late first request.  *)
StaysSettled == [][Settled => Settled']_vars

(* load_scored: "the scan output is authoritative for posture; vendors.csv *)
(* can lag behind": a row of a vendor that was scanned is scored from it.  *)
PostureFromScan ==
  \A t \in Threads, v \in Vendors :
    used[t][v] = 0 => \A f \in DOMAIN files : v \notin Scanned(f)
=============================================================================

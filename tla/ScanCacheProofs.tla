--------------------------- MODULE ScanCacheProofs ---------------------------
(***************************************************************************)
(* What overlapping first requests leave in _CERT_CACHE, for every number  *)
(* of threads, vendors and scan files.                                     *)
(***************************************************************************)
EXTENDS ScanCache, SequenceTheorems, TLAPS

(* A thread that reads or has read a file reads an object with "results";  *)
(* after its reset or a check the global is a dict.                        *)
Reading ==
  \A t \in Threads :
    /\ pc[t] \in {"record", "decide"} =>
         file[t] \in DOMAIN files /\ files[file[t]].kind = "results"
    /\ pc[t] \in {"open", "record", "decide", "score"} => cache # Absent

ScanInv == TypeOK /\ Reading

LEMMA FilesTyped ==
  ASSUME TypeOK
  PROVE  /\ Len(files) \in Nat /\ DOMAIN files = 1..Len(files)
         /\ \A f \in DOMAIN files :
              /\ files[f] \in File /\ files[f].labels \in Seq(Vendors)
              /\ Len(files[f].labels) \in Nat
              /\ DOMAIN files[f].labels = 1..Len(files[f].labels)
              /\ \A i \in 1..Len(files[f].labels) : files[f].labels[i] \in Vendors
<1>1. files \in Seq(File)
  BY ScanAssumption DEF TypeOK
<1>2. Len(files) \in Nat /\ DOMAIN files = 1..Len(files)
  BY <1>1, LenProperties
<1>3. ASSUME NEW f \in DOMAIN files
      PROVE  /\ files[f] \in File /\ files[f].labels \in Seq(Vendors)
             /\ Len(files[f].labels) \in Nat
             /\ DOMAIN files[f].labels = 1..Len(files[f].labels)
             /\ \A i \in 1..Len(files[f].labels) : files[f].labels[i] \in Vendors
  <2>1. files[f] \in File
    BY <1>1, <1>2, <1>3, ElementOfSeq
  <2> DEFINE labels == files[f].labels
  <2>2. labels \in Seq(Vendors)
    BY <2>1 DEF File
  <2> HIDE DEF labels
  <2>3. /\ Len(labels) \in Nat /\ DOMAIN labels = 1..Len(labels)
        /\ \A i \in 1..Len(labels) : labels[i] \in Vendors
    BY <2>2, LenProperties, ElementOfSeq
  <2> QED BY <2>1, <2>2, <2>3 DEF labels
<1> QED BY <1>2, <1>3

LEMMA InitScanInv == Init => ScanInv
<1> SUFFICES ASSUME Init PROVE ScanInv
  OBVIOUS
<1>1. files \in Seq(File)
  BY ScanAssumption DEF Init
<1>2. Len(files) \in Nat
  BY <1>1, LenProperties
<1> QED BY <1>2 DEF Init, ScanInv, TypeOK, Reading

LEMMA StepScanInv == ScanInv /\ [Next]_vars => ScanInv'
<1> SUFFICES ASSUME ScanInv, [Next]_vars PROVE ScanInv'
  OBVIOUS
<1> USE DEF ScanInv, TypeOK, Reading, Filling
<1>1. Len(files) \in Nat /\ DOMAIN files = 1..Len(files)
  BY FilesTyped
<1>2. CASE UNCHANGED vars
  BY <1>2 DEF vars
<1> SUFFICES ASSUME NEW t \in Threads,
                    \/ Request(t) \/ Check(t) \/ Reset(t) \/ Open(t) \/ Record(t)
                    \/ Decide(t) \/ \E v \in Vendors : Score(t, v)
             PROVE  ScanInv'
  BY <1>2 DEF Next
<1>3. CASE Request(t)
  BY <1>3 DEF Request, Goto
<1>4. CASE Check(t)
  BY <1>4 DEF Check, Goto
<1>5. CASE Reset(t)
  <2>1. Empty \in [Vendors -> 0..Len(files)] /\ Empty \in [Vendors -> Nat]
    BY <1>1 DEF Empty
  <2>2. Empty # Absent
    BY <2>1, ScanAssumption
  <2> QED BY <1>1, <1>5, <2>1, <2>2 DEF Reset, Goto
<1>6. CASE Open(t)
  <2>1. /\ pc[t] = "open" /\ UNCHANGED <<files, cache, todo, used>>
        /\ file[t] \in 1..(Len(files) + 1) /\ cache # Absent
    BY <1>6 DEF Open
  <2>2. CASE file[t] > Len(files) /\ Goto(t, "score") /\ UNCHANGED <<file, rec>>
    BY <1>1, <2>1, <2>2 DEF Goto
  <2>3. CASE /\ file[t] <= Len(files) /\ file' = [file EXCEPT ![t] = @ + 1]
             /\ UNCHANGED <<pc, rec>>
    <3>1. file' \in [Threads -> 1..(Len(files) + 1)]
      BY <1>1, <2>1, <2>3
    <3> QED BY <1>1, <2>1, <2>3, <3>1
  <2>4. CASE /\ file[t] <= Len(files) /\ files[file[t]].kind = "results"
             /\ rec' = [rec EXCEPT ![t] = 1]
             /\ Goto(t, "record") /\ UNCHANGED file
    <3>1. file[t] \in DOMAIN files
      BY <1>1, <2>1, <2>4
    <3> QED BY <1>1, <2>1, <2>4, <3>1 DEF Goto
  <2>5. CASE Goto(t, "failed") /\ UNCHANGED <<file, rec>>
    BY <1>1, <2>1, <2>5 DEF Goto
  <2> QED BY <1>6, <2>2, <2>3, <2>4, <2>5 DEF Open
<1>7. CASE Record(t)
  <2> DEFINE labels == files[file[t]].labels
  <2>1. /\ file[t] \in 1..Len(files) /\ cache \in [Vendors -> 0..Len(files)]
        /\ rec[t] \in Nat \ {0} /\ files' = files
    BY <1>1, <1>7 DEF Record
  <2>2. CASE rec[t] <= Len(labels)
    <3>1. labels[rec[t]] \in Vendors
      BY <1>1, <2>1, <2>2, FilesTyped
    <3>2. /\ cache' = [cache EXCEPT ![labels[rec[t]]] = file[t]]
          /\ rec' = [rec EXCEPT ![t] = rec[t] + 1]
          /\ UNCHANGED <<pc, todo, file, used>>
      BY <1>7, <2>2 DEF Record
    <3>3. cache' \in [Vendors -> 0..Len(files)] /\ cache' \in [Vendors -> Nat]
      BY <1>1, <2>1, <3>1, <3>2
    <3>4. cache' # Absent
      BY <3>3, ScanAssumption
    <3>5. rec' \in [Threads -> Nat \ {0}]
      BY <2>1, <3>2
    <3> HIDE DEF labels
    <3> QED BY <2>1, <3>2, <3>3, <3>4, <3>5
  <2>3. CASE ~(rec[t] <= Len(labels))
    BY <1>7, <2>3 DEF Record, Goto
  <2> QED BY <2>2, <2>3
<1>8. CASE Decide(t)
  <2>1. /\ pc[t] = "decide" /\ UNCHANGED <<files, cache, todo, rec, used>>
        /\ file[t] \in 1..Len(files) /\ cache # Absent
    BY <1>1, <1>8 DEF Decide
  <2>2. CASE Goto(t, "score") /\ UNCHANGED file
    BY <1>1, <2>1, <2>2 DEF Goto
  <2>3. CASE Goto(t, "open") /\ file' = [file EXCEPT ![t] = @ + 1]
    <3>1. file' \in [Threads -> 1..(Len(files) + 1)]
      BY <1>1, <2>1, <2>3
    <3> QED BY <1>1, <2>1, <2>3, <3>1 DEF Goto
  <2> QED BY <1>8, <2>2, <2>3 DEF Decide
<1>9. ASSUME NEW v \in Vendors, Score(t, v) PROVE ScanInv'
  BY <1>9 DEF Score, Goto
<1> QED BY <1>3, <1>4, <1>5, <1>6, <1>7, <1>8, <1>9

LEMMA ScanInvariance == Spec => []ScanInv
  BY InitScanInv, StepScanInv, PTL DEF Spec

(* The types: no thread reads a file or a record that is not there, and no *)
(* page is scored from a global that is still None.                        *)
THEOREM ScanTypeCorrect == Spec => []TypeOK
<1>1. ScanInv => TypeOK
  BY DEF ScanInv
<1> QED BY <1>1, ScanInvariance, PTL

(* Once every first request is through, the cache is never emptied again:  *)
(* a thread only resets after it has seen None.                            *)
THEOREM SettledForGood == Spec => StaysSettled
<1>1. ScanInv /\ [Next]_vars => [Settled => Settled']_vars
  <2> SUFFICES ASSUME ScanInv, Settled, Next PROVE Settled'
    BY DEF vars, Settled
  <2>1. PICK t \in Threads :
          \/ Request(t) \/ Check(t) \/ Reset(t) \/ Open(t) \/ Record(t)
          \/ Decide(t) \/ \E v \in Vendors : Score(t, v)
    BY DEF Next
  <2>2. pc[t] \notin Filling /\ cache # Absent /\ pc \in [Threads -> {"idle", "check", "score", "failed"} \cup Filling]
    BY DEF Settled, ScanInv, TypeOK
  <2>3. Request(t) \/ Check(t) \/ \E v \in Vendors : Score(t, v)
    BY <2>1, <2>2 DEF Reset, Open, Record, Decide, Filling
  <2>4. cache' = cache /\ pc' \in {[pc EXCEPT ![t] = l] : l \in {"check", "score", "idle"}}
    BY <2>2, <2>3 DEF Request, Check, Score, Goto
  <2> QED BY <2>2, <2>4 DEF Settled, Filling
<1> QED BY <1>1, ScanInvariance, PTL DEF Spec, StaysSettled

-----------------------------------------------------------------------------
(* Why the cache is complete in the end.  While a vendor of the first      *)
(* usable file has no entry, some thread is still to write it: the last    *)
(* one to empty the dict starts over, and with only missing files before   *)
(* that one it never asks whether the dict is empty.                       *)
Reached(f) ==
  /\ f \in DOMAIN files /\ files[f].kind = "results"
  /\ \A e \in Before(f) : files[e].kind = "none"

Owes(t, f, v) ==
  \/ pc[t] = "reset"
  \/ pc[t] = "open" /\ file[t] <= f
  \/ /\ pc[t] = "record" /\ file[t] = f
     /\ \E i \in DOMAIN files[f].labels : i >= rec[t] /\ files[f].labels[i] = v

Entered(v) == cache # Absent /\ cache[v] # 0

Owed ==
  \A f \in DOMAIN files : Reached(f) =>
    \A v \in Scanned(f) : cache = Absent \/ Entered(v) \/ \E t \in Threads : Owes(t, f, v)

(* Files do not change, so what depends on them alone does not either.     *)
LEMMA FilesStay ==
  ASSUME [Next]_vars
  PROVE  files' = files
  BY DEF Next, vars, Request, Check, Reset, Open, Record, Decide, Score

(* An entry goes only when a thread empties the dict, which then owes all  *)
(* of them.                                                                *)
LEMMA EntryStays ==
  ASSUME ScanInv, NEW t \in Threads, NEW v \in Vendors, Entered(v),
         \/ Request(t) \/ Check(t) \/ Open(t) \/ Record(t)
         \/ Decide(t) \/ \E w \in Vendors : Score(t, w)
  PROVE  Entered(v)'
<1>1. CASE Record(t)
  <2>1. /\ file[t] \in 1..Len(files) /\ cache \in [Vendors -> 0..Len(files)]
        /\ Len(files) \in Nat
    BY <1>1, FilesTyped DEF Record, ScanInv, TypeOK, Reading
  <2>2. \/ cache' = cache
        \/ cache' = [cache EXCEPT ![files[file[t]].labels[rec[t]]] = file[t]]
    BY <1>1 DEF Record
  <2>3. cache' \in [Vendors -> Nat] /\ cache'[v] # 0
    BY <2>1, <2>2 DEF Entered
  <2> QED BY <2>3, ScanAssumption DEF Entered
<1>2. CASE ~Record(t)
  BY <1>2 DEF Entered, Request, Check, Open, Decide, Score
<1> QED BY <1>1, <1>2

(* A thread pays what it owes, or owes it still.                           *)
LEMMA DebtStays ==
  ASSUME ScanInv, [Next]_vars, NEW f \in DOMAIN files, Reached(f), NEW v \in Scanned(f),
         NEW t \in Threads, Owes(t, f, v)
  PROVE  Owes(t, f, v)' \/ Entered(v)'
<1>1. /\ Len(files) \in Nat /\ f \in 1..Len(files) /\ v \in Vendors /\ files' = files
      /\ Len(files[f].labels) \in Nat
      /\ DOMAIN files[f].labels = 1..Len(files[f].labels)
  BY FilesTyped, FilesStay DEF Scanned, ScanInv
<1>2. /\ pc[t] \in {"reset", "open", "record"}
      /\ pc \in [Threads -> {"idle", "check", "score", "failed"} \cup Filling]
      /\ file \in [Threads -> 1..Len(files) + 1] /\ rec \in [Threads -> Nat \ {0}]
  BY DEF Owes, ScanInv, TypeOK
<1> DEFINE Acts == Reset(t) \/ Open(t) \/ Record(t)
<1>3. CASE ~Acts
  <2>1. pc'[t] = pc[t] /\ file'[t] = file[t] /\ rec'[t] = rec[t]
    <3>1. CASE UNCHANGED vars
      BY <3>1 DEF vars
    <3>2. CASE Next
      <4>1. PICK s \in Threads :
              \/ Request(s) \/ Check(s) \/ Reset(s) \/ Open(s) \/ Record(s) \/ Decide(s)
              \/ \E w \in Vendors : Score(s, w)
        BY <3>2 DEF Next
      <4>2. s # t
        BY <1>2, <1>3, <4>1 DEF Request, Check, Decide, Score
      <4> QED
        BY <1>2, <4>1, <4>2 DEF Request, Check, Reset, Open, Record, Decide, Score, Goto
    <3> QED BY <3>1, <3>2
  <2> QED BY <1>1, <2>1 DEF Owes
<1>4. CASE Reset(t)
  BY <1>1, <1>2, <1>4 DEF Reset, Owes, Goto
<1>5. CASE Open(t)
  <2>1. pc[t] = "open" /\ file[t] <= f /\ file[t] \in 1..Len(files) /\ f \in Nat
    BY <1>1, <1>2, <1>5 DEF Open, Owes
  <2>2. CASE file[t] = f
    <3>1. pc'[t] = "record" /\ rec'[t] = 1 /\ file' = file
      BY <1>2, <1>5, <2>1, <2>2 DEF Open, Reached, Goto
    <3> QED BY <1>1, <2>2, <3>1 DEF Owes, Scanned
  <2>3. CASE file[t] # f
    <3>1. file[t] \in Before(f)
      BY <2>1, <2>3 DEF Before
    <3>2. files[file[t]].kind = "none"
      BY <3>1 DEF Reached
    <3>3. pc' = pc /\ file'[t] = file[t] + 1
      BY <1>2, <1>5, <2>1, <3>2 DEF Open
    <3> QED BY <2>1, <2>3, <3>3 DEF Owes
  <2> QED BY <2>2, <2>3
<1>6. CASE Record(t)
  <2> DEFINE labels == files[f].labels
  <2>1. /\ pc[t] = "record" /\ file[t] = f
        /\ \E i \in DOMAIN labels : i >= rec[t] /\ labels[i] = v
    BY <1>6 DEF Record, Owes
  <2>2. PICK i \in 1..Len(labels) : i >= rec[t] /\ labels[i] = v
    BY <1>1, <2>1
  <2>3. rec[t] <= Len(labels) /\ rec[t] \in Nat
    BY <1>1, <1>2, <2>2
  <2>4. /\ cache' = [cache EXCEPT ![labels[rec[t]]] = f]
        /\ rec' = [rec EXCEPT ![t] = rec[t] + 1]
        /\ pc' = pc /\ file' = file
    BY <1>6, <2>1, <2>3 DEF Record
  <2>5. CASE i = rec[t]
    <3>1. cache \in [Vendors -> 0..Len(files)]
      BY <2>1 DEF ScanInv, TypeOK, Reading
    <3>2. cache' \in [Vendors -> Nat] /\ cache'[v] # 0
      BY <1>1, <2>2, <2>4, <2>5, <3>1
    <3> QED BY <3>2, ScanAssumption DEF Entered
  <2>6. CASE i # rec[t]
    <3>1. rec'[t] = rec[t] + 1 /\ i >= rec[t] + 1
      BY <1>2, <2>2, <2>3, <2>4, <2>6
    <3> QED BY <1>1, <2>1, <2>2, <2>4, <3>1 DEF Owes
  <2> QED BY <2>5, <2>6
<1> QED BY <1>3, <1>4, <1>5, <1>6

LEMMA StepOwed ==
  ASSUME ScanInv, Owed, [Next]_vars
  PROVE  Owed'
<1> SUFFICES ASSUME NEW f \in DOMAIN files, Reached(f), NEW v \in Scanned(f),
                    cache' # Absent
             PROVE  Entered(v)' \/ \E t \in Threads : Owes(t, f, v)'
  BY FilesStay DEF Owed, Reached, Scanned, Before
<1>1. v \in Vendors
  BY FilesTyped DEF ScanInv, Scanned
<1>2. CASE UNCHANGED vars
  BY <1>2 DEF Owed, Entered, Owes, vars
<1>3. ASSUME NEW t \in Threads, Reset(t)
      PROVE  Owes(t, f, v)'
  BY <1>3, FilesTyped, FilesStay DEF Reset, Owes, Goto, ScanInv, TypeOK
<1>4. ASSUME NEW t \in Threads,
             \/ Request(t) \/ Check(t) \/ Open(t) \/ Record(t)
             \/ Decide(t) \/ \E w \in Vendors : Score(t, w)
      PROVE  Entered(v)' \/ \E s \in Threads : Owes(s, f, v)'
  <2>1. cache # Absent
    BY <1>4 DEF Request, Check, Open, Record, Decide, Score, ScanInv, Reading
  <2>2. CASE Entered(v)
    BY <1>1, <1>4, <2>2, EntryStays
  <2>3. CASE \E s \in Threads : Owes(s, f, v)
    BY <2>3, DebtStays
  <2> QED BY <2>1, <2>2, <2>3 DEF Owed
<1> QED BY <1>2, <1>3, <1>4 DEF Next

LEMMA OwedInvariance == Spec => [](ScanInv /\ Owed)
<1>1. Init => Owed
  BY DEF Init, Owed
<1>2. ScanInv /\ Owed /\ [Next]_vars => (ScanInv /\ Owed)'
  BY StepScanInv, StepOwed
<1> QED BY <1>1, <1>2, InitScanInv, PTL DEF Spec

-----------------------------------------------------------------------------
(* Why the cache is not empty in the end, whatever comes before the usable *)
(* file: while it is empty, some thread is still to write an entry, since  *)
(* a thread stops before that file only when the dict has one.             *)
OwesSome(t, f) ==
  \/ pc[t] = "reset"
  \/ pc[t] = "open" /\ file[t] <= f
  \/ pc[t] \in {"record", "decide"} /\ file[t] < f
  \/ pc[t] = "record" /\ file[t] = f /\ rec[t] <= Len(files[f].labels)

Filled == cache # Absent /\ cache # Empty

OwedSome ==
  \A f \in Usable : cache = Absent \/ Filled \/ \E t \in Threads : OwesSome(t, f)

LEMMA UsableStays ==
  ASSUME [Next]_vars
  PROVE  Usable' = Usable /\ \A f : Scanned(f)' = Scanned(f)
  BY FilesStay DEF Usable, Scanned

(* Writing an entry fills the dict, and only a reset empties it.           *)
LEMMA FilledStays ==
  ASSUME ScanInv, NEW t \in Threads,
         \/ Request(t) \/ Check(t) \/ Open(t) \/ Record(t)
         \/ Decide(t) \/ \E w \in Vendors : Score(t, w),
         Filled \/ cache' # cache
  PROVE  Filled'
<1>1. CASE cache' = cache
  BY <1>1 DEF Filled, Empty
<1>2. CASE cache' # cache
  <2>1. Record(t)
    BY <1>2 DEF Request, Check, Open, Decide, Score
  <2> DEFINE labels == files[file[t]].labels
  <2>2. /\ rec[t] <= Len(labels)
        /\ cache' = [cache EXCEPT ![labels[rec[t]]] = file[t]]
        /\ file[t] \in 1..Len(files) /\ rec[t] \in Nat \ {0}
        /\ cache \in [Vendors -> 0..Len(files)]
    BY <1>2, <2>1, FilesTyped DEF Record, ScanInv, TypeOK, Reading
  <2>3. labels[rec[t]] \in Vendors /\ Len(files) \in Nat
    BY <2>2, FilesTyped DEF ScanInv
  <2> HIDE DEF labels
  <2>4. cache' \in [Vendors -> Nat] /\ cache'[labels[rec[t]]] # 0
    BY <2>2, <2>3
  <2> QED BY <2>3, <2>4, ScanAssumption DEF Filled, Empty
<1> QED BY <1>1, <1>2

(* A thread fills the dict, or owes an entry still.                        *)
LEMMA SomeDebtStays ==
  ASSUME ScanInv, [Next]_vars, cache = Empty, NEW f \in Usable,
         NEW t \in Threads, OwesSome(t, f)
  PROVE  OwesSome(t, f)' \/ cache' # cache
<1>1. /\ Len(files) \in Nat /\ f \in 1..Len(files) /\ files' = files
      /\ Len(files[f].labels) \in Nat /\ Len(files[f].labels) >= 1
  BY FilesTyped, FilesStay DEF Usable, Scanned, ScanInv
<1>2. /\ pc[t] \in {"reset", "open", "record", "decide"}
      /\ pc \in [Threads -> {"idle", "check", "score", "failed"} \cup Filling]
      /\ file \in [Threads -> 1..Len(files) + 1] /\ rec \in [Threads -> Nat \ {0}]
  BY DEF OwesSome, ScanInv, TypeOK
<1> DEFINE Acts == Reset(t) \/ Open(t) \/ Record(t) \/ Decide(t)
<1>3. CASE ~Acts
  <2>1. pc'[t] = pc[t] /\ file'[t] = file[t] /\ rec'[t] = rec[t]
    <3>1. CASE UNCHANGED vars
      BY <3>1 DEF vars
    <3>2. CASE Next
      <4>1. PICK s \in Threads :
              \/ Request(s) \/ Check(s) \/ Reset(s) \/ Open(s) \/ Record(s) \/ Decide(s)
              \/ \E w \in Vendors : Score(s, w)
        BY <3>2 DEF Next
      <4>2. s # t
        BY <1>2, <1>3, <4>1 DEF Request, Check, Score
      <4> QED
        BY <1>2, <4>1, <4>2 DEF Request, Check, Reset, Open, Record, Decide, Score, Goto
    <3> QED BY <3>1, <3>2
  <2> QED BY <1>1, <2>1 DEF OwesSome
<1>4. CASE Reset(t)
  BY <1>1, <1>2, <1>4 DEF Reset, OwesSome, Goto
<1>5. CASE Open(t)
  <2>1. pc[t] = "open" /\ file[t] <= f /\ file[t] \in 1..Len(files) /\ f \in Nat
    BY <1>1, <1>2, <1>5 DEF Open, OwesSome
  <2>2. files[file[t]].kind # "list" /\ (file[t] = f => files[file[t]].kind = "results")
    BY <1>1, <2>1 DEF Usable
  <2>3. CASE files[file[t]].kind = "results"
    <3>1. pc'[t] = "record" /\ rec'[t] = 1 /\ file'[t] = file[t]
      BY <1>2, <1>5, <2>1, <2>3 DEF Open, Goto
    <3> QED BY <1>1, <2>1, <3>1 DEF OwesSome
  <2>4. CASE files[file[t]].kind # "results"
    <3>1. pc' = pc /\ file'[t] = file[t] + 1 /\ file[t] < f
      BY <1>2, <1>5, <2>1, <2>2, <2>4 DEF Open
    <3> QED BY <2>1, <3>1 DEF OwesSome
  <2> QED BY <2>3, <2>4
<1>6. CASE Record(t)
  <2>1. CASE rec[t] <= Len(files[file[t]].labels)
    <3> DEFINE labels == files[file[t]].labels
    <3>1. /\ cache' = [cache EXCEPT ![labels[rec[t]]] = file[t]]
          /\ file[t] \in 1..Len(files)
      BY <1>6, <2>1, FilesTyped DEF Record, ScanInv, Reading
    <3>2. labels[rec[t]] \in Vendors
      BY <1>2, <2>1, <3>1, FilesTyped DEF ScanInv
    <3> HIDE DEF labels
    <3>3. cache'[labels[rec[t]]] # cache[labels[rec[t]]]
      BY <1>1, <3>1, <3>2 DEF Empty
    <3> QED BY <3>3
  <2>2. CASE ~(rec[t] <= Len(files[file[t]].labels))
    <3>1. pc[t] = "record" /\ file[t] < f
      BY <1>6, <2>2 DEF Record, OwesSome
    <3>2. pc'[t] = "decide" /\ file'[t] = file[t]
      BY <1>2, <1>6, <2>2 DEF Record, Goto
    <3> QED BY <1>1, <3>1, <3>2 DEF OwesSome
  <2> QED BY <2>1, <2>2
<1>7. CASE Decide(t)
  <2>1. pc[t] = "decide" /\ file[t] < f /\ file[t] \in Nat /\ f \in Nat
    BY <1>1, <1>2, <1>7 DEF Decide, OwesSome
  <2>2. pc'[t] = "open" /\ file'[t] = file[t] + 1
    BY <1>2, <1>7 DEF Decide, Goto
  <2> QED BY <2>1, <2>2 DEF OwesSome
<1> QED BY <1>3, <1>4, <1>5, <1>6, <1>7

LEMMA StepOwedSome ==
  ASSUME ScanInv, OwedSome, [Next]_vars
  PROVE  OwedSome'
<1> SUFFICES ASSUME NEW f \in Usable, cache' # Absent
             PROVE  Filled' \/ \E t \in Threads : OwesSome(t, f)'
  BY UsableStays DEF OwedSome
<1>1. CASE UNCHANGED vars
  BY <1>1 DEF OwedSome, Filled, Empty, OwesSome, vars
<1>2. ASSUME NEW t \in Threads, Reset(t)
      PROVE  OwesSome(t, f)'
  <2>1. pc'[t] = "open" /\ file'[t] = 1
    BY <1>2 DEF Reset, Goto, ScanInv, TypeOK
  <2>2. f \in Nat \ {0}
    BY FilesTyped DEF Usable, ScanInv
  <2> QED BY <2>1, <2>2 DEF OwesSome
<1>3. ASSUME NEW t \in Threads,
             \/ Request(t) \/ Check(t) \/ Open(t) \/ Record(t)
             \/ Decide(t) \/ \E w \in Vendors : Score(t, w)
      PROVE  Filled' \/ \E s \in Threads : OwesSome(s, f)'
  <2>1. cache # Absent
    BY <1>3 DEF Request, Check, Open, Record, Decide, Score, ScanInv, Reading
  <2>2. CASE Filled \/ cache' # cache
    BY <1>3, <2>2, FilledStays
  <2>3. CASE cache = Empty /\ cache' = cache
    <3>1. PICK s \in Threads : OwesSome(s, f)
      BY <2>1, <2>3 DEF OwedSome, Filled
    <3> QED BY <2>3, <3>1, SomeDebtStays
  <2> QED BY <2>1, <2>2, <2>3 DEF Filled
<1> QED BY <1>1, <1>2, <1>3 DEF Next

LEMMA OwedSomeInvariance == Spec => [](ScanInv /\ OwedSome)
<1>1. Init => OwedSome
  BY DEF Init, OwedSome
<1>2. ScanInv /\ OwedSome /\ [Next]_vars => (ScanInv /\ OwedSome)'
  BY StepScanInv, StepOwedSome
<1> QED BY <1>1, <1>2, InitScanInv, PTL DEF Spec

(* However many first requests overlap in whatever way, what they leave    *)
(* behind is not empty if a file is usable, and has every vendor of the    *)
(* first usable file if only missing ones come before it: with nobody      *)
(* filling the cache, nobody owes it an entry.                             *)
THEOREM ScanIsCovered == Spec => []SettledCoversScan
<1>1. ScanInv /\ Owed /\ OwedSome => SettledCoversScan
  <2> SUFFICES ASSUME ScanInv, Owed, OwedSome, Settled
               PROVE  SettledCoversScan
    BY DEF SettledCoversScan
  <2>1. ASSUME NEW f \in Usable
        PROVE  cache # Empty
    <3>1. \A t \in Threads : ~OwesSome(t, f)
      BY DEF Settled, Filling, OwesSome
    <3> QED BY <3>1 DEF OwedSome, Filled, Settled
  <2>2. ASSUME NEW f \in Usable, \A e \in Before(f) : files[e].kind = "none",
               NEW v \in Scanned(f)
        PROVE  cache[v] # 0
    <3>1. f \in DOMAIN files /\ Reached(f)
      BY <2>2 DEF Usable, Reached
    <3>2. \A t \in Threads : ~Owes(t, f, v)
      BY DEF Settled, Filling, Owes
    <3> QED BY <3>1, <3>2 DEF Owed, Entered, Settled
  <2> QED BY <2>1, <2>2 DEF SettledCoversScan, Covers
<1> QED BY <1>1, OwedInvariance, OwedSomeInvariance, PTL
=============================================================================

---------------------------- MODULE DashboardRead ----------------------------
(***************************************************************************)
(* What the dashboard answers to GET / and its kin, /api/dashboard and     *)
(* /api/results.csv, over the life of the tables of Store.  Repository has *)
(* the transactions; here a measurement is stored in one step, and the     *)
(* timestamps the answers are ordered by are added: started_at and         *)
(* created_at have milliseconds, so rows stored in one tick are equal, and *)
(* SQL orders equals as it likes: an answer is one of a set.               *)
(*                                                                         *)
(* The connection of a half is the number of microseconds measured on it;  *)
(* server_handshake_us is one metric, the client's intervals and byte      *)
(* counts, which are always set together, are another.                     *)
(***************************************************************************)
EXTENDS StoreLedger, Statistics

CONSTANTS
  Posts,         \* the posts that come in, any of them any number of times
  Blank,         \* ?run_id= with nothing after it
  RunLimit,      \* runs(limit=20)
  RecentLimit,   \* rows[:40]
  MaxClock       \* ticks of the clock

ASSUME ReadAssumption ==
  /\ Posts \subseteq Post
  /\ Conns \subseteq Nat
  /\ Blank \notin Runs \cup {Absent}
  /\ Absent \notin Int
  /\ RunLimit \in Nat /\ RecentLimit \in Nat /\ MaxClock \in Nat

VARIABLES
  started,   \* benchmark_runs.started_at
  created,   \* measurements.created_at
  clock      \* iso_now(), which does not go back

vars == <<db, started, created, clock>>

Times == 0..MaxClock

TypeOK ==
  /\ db \in Database
  /\ started \in [Runs -> Times \cup {Absent}]
  /\ created \in [Samples -> Times \cup {Absent}]
  /\ clock \in Times
  /\ \A r \in Runs : started[r] = Absent <=> r \notin KnownRuns(db)
  /\ \A s \in Samples : created[s] = Absent <=> s \notin Rows(db)

Init ==
  /\ db = EmptyDatabase
  /\ started = [r \in Runs |-> Absent]
  /\ created = [s \in Samples |-> Absent]
  /\ clock = 0

(* Mutant of Stamp: the conflict clause sets the time as well. *)
StampAlways(times, known, touched) ==
  [x \in DOMAIN times |-> IF x \in touched THEN clock ELSE times[x]]

(* The time of a row is that of its INSERT; ON CONFLICT leaves it alone. *)
Stamp(times, known, touched) ==
  [x \in DOMAIN times |-> IF x \in touched \ known THEN clock ELSE times[x]]

StorePost(q) ==
  /\ q \in {p \in Posts : Valid(p) /\ ModeCheck(p)}
  /\ db' = Apply(db, q)
  /\ started' = Stamp(started, KnownRuns(db), {q.run})
  /\ created' = Stamp(created, Rows(db), IF IsMeasurement(q) THEN {q.sample} ELSE {})
  /\ UNCHANGED clock

Tick ==
  /\ clock < MaxClock
  /\ clock' = clock + 1
  /\ UNCHANGED <<db, started, created>>

Next == Tick \/ \E q \in Posts : StorePost(q)

Spec == Init /\ [][Next]_vars

-----------------------------------------------------------------------------
(* The sets ORDER BY time DESC LIMIT limit can return. *)
Newest(set, times, limit) ==
  {top \in SUBSET set :
     /\ Cardinality(top) = Min({Cardinality(set), limit})
     /\ \A x \in top, y \in set \ top : times[x] >= times[y]}

(* runs(): the counts of a listed run. *)
RunListing(r) ==
  [samples |-> Cardinality(RowsOf(db, r)),
   successes |-> Cardinality({s \in RowsOf(db, r) : db.rows[s].success})]

(* The runs the page can show when none is asked for: the first of the     *)
(* listing.                                                                *)
Defaults == UNION Newest(KnownRuns(db), started, Min({1, RunLimit}))

Selected(asked) ==
  IF asked # Absent THEN {asked} ELSE IF Defaults = {} THEN {Absent} ELSE Defaults

(* measurements(run_id): no WHERE for a run that is None or empty. *)
Measurements(run) ==
  IF run \in {Absent, Blank} THEN Rows(db)
  ELSE {s \in Rows(db) : db.rows[s].run = run}

(* The rows dashboard_data summarises: none when nothing is selected. *)
PageRows(selected) == IF selected \in {Absent, Blank} THEN {} ELSE Measurements(selected)

Recent(selected) == Newest(PageRows(selected), created, RecentLimit)

CsvExport(asked) == Measurements(asked)

(* analytics.MODES and summarize(). *)
SummaryModes == {"classical", "hybrid", "hybrid_p256"}

(* The CHECK on measurements.mode stores no mode that is not summarised.   *)
ASSUME SummaryAssumption == StoredModes \subseteq SummaryModes

Metric == {"server", "client"}

Value(s, metric) ==
  IF metric = "server" THEN db.rows[s].server
  ELSE IF db.rows[s].client = Absent THEN Absent
  ELSE db.rows[s].client.conn

ModeSummary(rows, mode) ==
  LET modeRows == {s \in rows : db.rows[s].mode = mode}
      successful == {s \in modeRows : db.rows[s].success}
  IN  [samples |-> Cardinality(modeRows),
       successes |-> Cardinality(successful),
       failures |-> Cardinality(modeRows) - Cardinality(successful),
       metrics |-> [metric \in Metric |->
         Describe([s \in successful |-> Value(s, metric)], Absent)]]

Summarize(rows) == [mode \in SummaryModes |-> ModeSummary(rows, mode)]

Comparison(rows, mode, metric) ==
  Compare(ModeSummary(rows, "classical").metrics[metric].p50,
          ModeSummary(rows, mode).metrics[metric].p50, Absent)

-----------------------------------------------------------------------------
(* The interpolated percentiles are where they should be among the values  *)
(* of the successful rows, counted without sorting: at most the share p of *)
(* them lies below, at most the rest above, and they are in order between  *)
(* the smallest and the largest.                                           *)
Brackets(values, q, p) ==
  LET n == Cardinality(DOMAIN values)
      below == {x \in DOMAIN values : 100 * values[x] < q}
      above == {x \in DOMAIN values : 100 * values[x] > q}
  IN  /\ 100 * Cardinality(below) <= (n - 1) * p + 99
      /\ 100 * Cardinality(above) <= (n - 1) * (100 - p) + 99

PercentilesBracket ==
  \A r \in KnownRuns(db), mode \in SummaryModes, metric \in Metric :
    LET d == ModeSummary(PageRows(r), mode).metrics[metric]
        measured == {s \in RowsOf(db, r) :
          /\ db.rows[s].mode = mode /\ db.rows[s].success
          /\ Value(s, metric) # Absent}
        values == [s \in measured |-> Value(s, metric)]
    IN  /\ d.count = Cardinality(measured)
        /\ d.count > 0 =>
             /\ Brackets(values, d.p50, 50)
             /\ Brackets(values, d.p95, 95)
             /\ Brackets(values, d.p99, 99)
             /\ 100 * d.min <= d.p50 /\ d.p50 <= d.p95
             /\ d.p95 <= d.p99 /\ d.p99 <= 100 * d.max
             /\ d.count * d.min <= d.sum /\ d.sum <= d.count * d.max

(* The three answers about a run are about the same rows: the listing, the *)
(* summary of the page with its recent rows, and the CSV file.  Without a  *)
(* run the page shows one of the latest and the file has them all.         *)
Total(summary, field(_)) ==
  field(summary["classical"]) + field(summary["hybrid"]) + field(summary["hybrid_p256"])

AnswersAgree ==
  \A asked \in Runs \cup {Absent, Blank} : \A run \in Selected(asked) :
    LET rows == PageRows(run)
        summary == Summarize(rows)
    IN  /\ run \in Runs =>
             /\ Total(summary, LAMBDA x : x.samples) = RunListing(run).samples
             /\ Total(summary, LAMBDA x : x.successes) = RunListing(run).successes
             /\ CsvExport(run) = rows
        /\ Total(summary, LAMBDA x : x.failures) =
             Cardinality({s \in rows : db.rows[s].client # Absent /\ ~db.rows[s].client.ok})
        /\ rows \subseteq CsvExport(asked)
        /\ \A recent \in Recent(run) :
             /\ Cardinality(recent) < RecentLimit => recent = rows
             /\ \A s \in rows \ recent, t \in recent : created[s] <= created[t]

(* A comparison is shown for exactly the modes with a median on both       *)
(* sides, and its percentage never divides by zero.                        *)
ComparisonDefined ==
  \A r \in KnownRuns(db), mode \in SummaryModes \ {"classical"}, metric \in Metric :
    LET c == Comparison(PageRows(r), mode, metric)
        measured(m) == ModeSummary(PageRows(r), m).metrics[metric].count > 0
    IN  /\ c.delta # Absent <=> measured("classical") /\ measured(mode)
        /\ c.of # Absent => c.delta # Absent /\ c.of > 0
        /\ c.of = Absent /\ c.delta # Absent => c.delta >= 0

(* What is shown without asking changes only to a run that was not known   *)
(* before: neither a run that is announced again, nor completed, nor       *)
(* measured takes the page back; and no row overtakes another one.         *)
LatestStays ==
  [][/\ \A r \in Defaults' : r \in Defaults \/ r \notin KnownRuns(db)
     /\ \A s, t \in Rows(db) : created[s] < created[t] => created'[s] < created'[t]]_vars

(* Whatever is stored of a probe whose client has reported a failure, that *)
(* report or a server's half that comes after it, takes values out of the  *)
(* statistics of its mode or leaves them, and adds none.                   *)
FailureMeasuresNothing ==
  [][\A s \in Samples, r \in Runs, mode \in SummaryModes, metric \in Metric :
       db'.rows[s] # db.rows[s]
         /\ db'.rows[s].client # Absent /\ ~db'.rows[s].client.ok
         /\ db'.rows[s].run = r /\ db'.rows[s].mode = mode =>
         ModeSummary(PageRows(r), mode)'.metrics[metric].count
           <= ModeSummary(PageRows(r), mode).metrics[metric].count]_vars
=============================================================================

# A verification project for hybrid-tls-lab

The lab compares classical and hybrid post-quantum TLS 1.3 handshakes. A C
client (`tls/tls_benchmark.c`) probes three C servers (`tls/tls_server.c`, one
per key-exchange group); the client and the server each report their half of
every measured connection to a FastAPI dashboard (`dashboard/app/main.py`),
which joins the halves in one SQLite row (`dashboard/app/db.py`). The dashboard
also assesses vendors: it reads a CSV inventory, the inputs of data owners and a
recorded TLS scan, and derives tiers, mandates, exposure, scores and a roadmap.

Here are TLA+ models of that code, TLC configurations that check them on small
instances, and TLAPS proofs for every instance. Paths below are relative to the
repository's `src/`.

## Inventory

| component | state it keeps | operations | interacts with |
|---|---|---|---|
| measurement store (`db.py`) | `benchmark_runs`, `measurements` | `create_run`, `complete_run`, `record_server`, `record_client` | called by the write API, one transaction each |
| write API (`main.py:165-183`) | threads of the pool, SQLite's write lock | four POST routes | called by servers and client over HTTP |
| read API (`db.py:192-247`) | none | `runs`, `measurements`, `dashboard_data`, `csv_export` | reads while others write |
| statistics (`analytics.py`) | none | `percentile`, `describe`, `summarize` | read API |
| schemas (`schemas.py`) | none | bounds of every field | before the write API |
| TLS server (`tls_server.c`) | the one connection it serves | accept, handshake, read, respond, post | client by TLS, dashboard by HTTP |
| benchmark client (`tls_benchmark.c`) | loop indices, failure count | create run, warm up, probe, record, complete | servers by TLS, dashboard by HTTP |
| HTTP helper (`common.c`) | none | `post_json`, `tcp_connect_host` | used by both C programs |
| inventory (`tprm.py`, `qvi.py`, `gen_tprm_rows.py`) | `vendors.csv` | load, derive tier, render rows | every risk page |
| exposure (`hndl.py`) | `hndl_inputs.csv` | load, join, classify | HNDL page, roadmap, score |
| mandates, roadmap, CBOM (`compliance.py`, `roadmap.py`, `cbom.py`) | none | functions of the loaded rows | their pages |
| scores (`score.py:50-143`) | none | score, band, effort, queue, summary | score and queue pages |
| scan cache (`score.py:19-48`) | `_CERT_CACHE`, shared by all threads | `_certs`, from `load_scored` | GET /score in several threads |
| pages, `dashboard.js`, images | none | rendering | not modelled |

What is hard here, and what makes each component correct:

* **store and write API** - several threads upsert the same row; a CHECK can
  fail after a run row was inserted; the process can be killed anywhere. Correct
  when nothing acknowledged is ever lost, a run appears only by the commit of a
  request that was let through, and the order of the two halves does not matter (`AckedIsStored`,
  `NoRunFromRejected`, `VerdictIsTheClients`, `ImplementsLedger`).
* **read API and statistics** - two snapshots make one page (`ListingNotAhead`);
  listing, page and CSV file are three queries about the same rows
  (`AnswersAgree`); rows and runs are ordered by the time of whichever request
  came first (`LatestStays`); a late failure takes values out again
  (`FailureMeasuresNothing`); percentiles are interpolated over few values, and
  a baseline can be 0 or missing (`PercentilesBracket`, `ComparisonDefined`).
* **client, servers, dashboard together** - the server reports *after* it has
  answered, results of reports are ignored, answers get lost, processes die, and
  sample ids are made of names and numbers. Correct when the halves of a row
  belong together, warmups stay out, every probe is reported, and no program
  waits forever (`PairedHalves`, `WarmupsUnrecorded`, `RunsAnnounced`,
  `EveryProbeReported`, `FaultlessRunIsRecorded`, `FailuresCounted`,
  `ClientHalvesFinal`, `FollowsExperiment`, `OnlyLastServerHalfIsLate`,
  `ComesToRest`).
* **risk pages** - the same columns are read by seven modules, two of which hold
  a copy of the same rule, and the files are edited while pages read them.
  Correct when the rules agree (`TierMatchesMandates`, `CbomExplainsTier`,
  `GeneratedRowsAgree`, `WindowAgrees`, `EffortMatchesTier`), the orders survive
  caps, quotients and rounding (`QueueOrder`, `BandsFollowScore`,
  `RoadmapOrder`), the numbers of a page add up (`CardsAgree`) and a remediation
  never makes anything worse (`RemediationHelps`).
* **scan cache** - a global published before it is filled (`StaysSettled`,
  `SettledCoversScan`, `PostureFromScan`).

`PROJECT.json` lists every hazard with its line and the properties for it.

## Modules

    Store <- StoreLedger                          Ledger = what the store promises
      ^        ^  Repository <- MCRepository;          StoreProofs, RepositoryProofs
      |        |  DashboardRead (with Statistics)
      |        |    <- MCDashboardRead;                DashboardReadProofs
      |        |
    Wire <- TlsServer, BenchmarkClient <- Lab <- MCLab;  LabProofs <- FaultlessProofs
                                                  Experiment = what a launch promises

    Posture <- RiskScore <- Assessment <- MCAssessment;  AssessmentProofs
    ScanCache <- MCScanCache;                          ScanCacheProofs
    Counting: sums, minima and cardinalities of finite sets, for the proofs

**Store** holds the two tables as functions and each method's SQL as an operator
from database to database: `EnsureRun`, `CreateRun`, `CompleteRun`,
`RecordServer`, `RecordClient`, with the two `ON CONFLICT` clauses as
`ServerUpsert` and `ClientUpsert`. The server columns are one value (the
connection they were measured on), the client columns another with the posted
`success`; the code always writes each group together. `negotiated_group` is
kept apart because the two clauses treat NULL differently. `Valid` is pydantic's
verdict, `ModeCheck` the CHECK constraint of the table.

**Repository** is the service: each pool thread goes through Receive, Begin (or
BeginTimesOut), Execute, Commit or Rollback, Reply. `db` is the committed
database, `work[t]` the writer's uncommitted copy, `lock` SQLite's write lock.
`Execute` runs a whole method body (one lock holder, nobody sees the
intermediate states); `StorageFails` lets SQLite raise at any statement or at
the commit; `Crash` kills the process and starts it again on the same file.
Viewers run `dashboard_data` as its two reads. SQLite itself is external.

**Ledger** has no threads, locks or crashes: one step enters one half.
**StoreLedger** maps a database to it. Three modules write to the database in
steps of their own, and all three implement Ledger: Repository, where a commit is
one of many steps of a request, and Lab and DashboardRead, where a request is
one step. That is what makes the short cut of the latter two sound.

**DashboardRead** adds to the tables of Store the timestamps the answers are
ordered by, and computes what `/`, `/api/dashboard` and `/api/results.csv`
return in every state. Here a post is one step, and ORDER BY over equal times yields *any* order, so a limited
answer is a member of `Newest`. The connection of a half stands for its measured
microseconds. **Statistics** is `percentile`, `describe` and the comparison of
`analytics.py` on integers; floats are exact hundredths. Its values are a
function from rows, and `Ordered(values, k)`, the k-th of the sorted list, is
characterised by how many values lie below it: no statistic depends on the order
of the rows, and nothing is defined by recursion.

**Wire** is what the programs share: the backlog of each server with the state
of each connection, the HTTP calls under way, the count of faults. **TlsServer**
is `handle_connection` and the accept loop of each server; `Serve` is one step
because SSL_read to close touches nothing anyone else sees but the response.
**BenchmarkClient** is `main` and `probe`: `Advance` is the two nested loops,
`Slot` the rotation, `Fail` every `goto finished`. **Lab** composes them with a
dashboard that handles a call atomically.
A call of a caller that dies becomes an orphan, executed or dropped at any later
time. Faults, each kind allowed or not by `Faults`: a failing connect, a broken
connection or wrong group, a probe above 120 s, a dying server, a call that
fails, a call that succeeds while its answer is lost, a killed client. The
connection of a live caller breaks only with the dashboard's process, so a call
that has failed is not executed later; the call of a dead caller may be.

**Experiment** has no loops, connections or calls: a launch announces its run,
enters the outcomes of its probes at most once and in the rotating order, some
of them perhaps never, and completes the run. Lab reads its database as such
experiments (`FollowsExperiment`).

**Posture** is what one row of `vendors.csv` says: tier and display (`tprm.py`),
the second copy of both (`gen_tprm_rows.py`), the three mandates
(`compliance.py`), the components (`cbom.py`). **RiskScore** joins it with a
record of the scan and the owner's input: exposure (`hndl.py`), the four terms
of the score, its cap, band, effort and ratio (`score.py`), the priority
(`roadmap.py`). A cell is one of the texts the code tells apart: "No", "Yes",
and "Yes (P)", which names a provider. Ratios are exact tenths and priorities
exact hundredths; `Round` is Python's rounding of halves to even. The cost
weights, years and bounds are the code's.

**Assessment** runs one page request at a time over those rules: `ReadTargets`
(the table of the page), `ReadInputs` (`hndl_inputs.csv`), `ReadContext`
(`_page_context`, which opens `vendors.csv` a second time), with `EditVendor`
and `EditInput` between any two reads; requests share nothing but the files and
the scan cache.

**ScanCache** is `_certs()` and the row loop of `load_scored()`; a step is what
one thread does between two uses of the global. Assessment takes the cache as
filled.

## Runs

| run | shows | instance |
|---|---|---|
| `repository` | `TypeOK`, `AckedIsStored`, `VerdictIsTheClients`, `NoRunFromRejected`, `ImplementsLedger` | 2 threads (symmetric), 7 requests |
| `answers` | `LockIsReleased`, `EveryPostAnswered` (liveness), `ListingNotAhead` | 2 threads, 5 requests, 1 viewer |
| `lab` | `TypeOK`, `WarmupsUnrecorded`, `RunsAnnounced`, `FailuresCounted`, `PairedHalves`, `ClientHalvesFinal`, `ComesToRest` (liveness) | 2 launches with own ids, 2 warmups, 1 iteration, any 2 faults of all seven kinds |
| `probes` | `EveryProbeReported`, `FaultlessRunIsRecorded`, `OnlyLastServerHalfIsLate`, `FollowsExperiment`, `ImplementsLedger` | 1 launch, 1 warmup, 2 iterations, 2 faults of probes, servers and the client |
| `dashboard` | `TypeOK`, `PercentilesBracket`, `AnswersAgree`, `ComparisonDefined`, `LatestStays`, `FailureMeasuresNothing` | 2 runs, 4 samples, 11 posts in any order and number, 2 ticks, 2 recent rows |
| `assessment` | `TypeOK`, `TierMatchesMandates`, `CbomExplainsTier`, `GeneratedRowsAgree`, `WindowAgrees`, `QueueOrder`, `BandsFollowScore`, `EffortMatchesTier`, `RoadmapOrder`, `CardsAgree`, `RemediationHelps` | 2 vendors (symmetric), 8 rows, 4 inputs, 4 scans, 1 edit |
| `scan_cache` | `TypeOK`, `StaysSettled`, `SettledCoversScan` | 2 threads, 2 vendors, 5 pairs of files |

Bounds. Two threads are enough for every pairwise interleaving, and the lock
admits one writer at a time. The seven requests are chosen to collide: the same
sample reported by server and client, twice with different verdicts, a client
report without a group, a refused mode for a run nobody announced, announcement
and completion of the run. In the lab, two warmups and one iteration give a
warmup the sample id of a measured probe and one that has none; two iterations
make the rotation and "the next accept" happen; two launches make run ids meet;
two faults make a fault happen while another one is dealt with. Samples are only
those ids that can be made.

In `dashboard`, one sample measures 0 us (a baseline that cannot be divided by),
one is only measured by its server, two are reported with both verdicts, and two
recent rows of four make the limit bite; two ticks of the clock make times equal
and different. The clock does not go back. In `assessment`, the eight rows have
each tier and each gap, with the provider named in the cell, in its column, or
where it means nothing, and one edit of each kind that helps (TLS 1.3, the hybrid
group, static RSA, a weak cipher) leads from one of them to another; the retentions 7, 8, 15 and 25 are on the bounds of
`_f3` and of the window; a scan confirms the CSV, lags behind it or has not seen
the vendor. Two vendors are enough for orders and for a page whose numbers can
disagree; one edit is enough to fall between any two reads. Names of vendors are
distinct, a file is edited in one step, the `scenario` text of an input decides
nothing, and `?scenario=10y`, which reads `hndl_inputs_10y.csv`, is a page with
other inputs. In `scan_cache` the two files are those `score.py` names: both
usable, the first missing, without records, the second a bare list, both
missing.

`Posts` are repeatable without bound in Repository and DashboardRead, whose
state spaces are finite without a counter. The bounds of Lab are `Launches`,
`Warmup`, `Iterations`, `MaxFaults`; of DashboardRead `MaxClock`; of Assessment
`MaxEdits`. Deadlock is checked everywhere; the lab's end is the explicit
stutter `Rest`.

Runs that are expected to fail are disagreements between the code and what the
repository says of it:

| run | property | disagreement |
|---|---|---|
| `reused_id` | `PairedHalves` | README.md:84 promises unique sample ids; `--run-id` given twice repeats them (`tls_benchmark.c:175`) and rows mix two connections |
| `modes` | `RecordedPerMode` | README.md:56 promises recorded connections per mode; the CHECK of `db.py:61` refuses `hybrid_p256`, silently for the client |
| `slow_failures` | `FailuresReported` | README.md:95 promises failures; a failure that took over 120 s is refused (`schemas.py:42`) and not counted |
| `scan_race` | `PostureFromScan` | `score.py:106` calls the scan authoritative; a request that meets the cache half filled uses the CSV, `score.py:26` |
| `provider` | `ScoredAsDisplayed` | `score.py:55` says `load_vendors()` returns "Yes"/"No"; it also returns "Yes (provider)", which `_yes` takes for no, so a vendor shown with hybrid support is scored without |

Not a disagreement, as nothing promises otherwise, but in the model: a page that
reads `vendors.csv` twice (`main.py:32`) shows a table and cards of different files
when it is edited in between. `CardsAgree` and `GeneratedRowsAgree` are about pages
nobody edits under.

Four more disagreements are in the models without a run of their own: the order
of the endpoints over three modes is a rotation, not the alternation of README.md:101
(`Slot`, `tls_benchmark.c:328`), so that one endpoint comes before another in two
iterations of three; the share of tier 1 on the cards is rounded, so from 200
targets on a page can say 100 % while one target is not ready (`CardsAgree`,
`qvi.py:55`; the attempt to prove more found it); a scan file that is a bare list, for which
`score.py:35` has a branch, raises there (`Open`); and `score.py:46` asks the
shared dict whether a file had records (`Decide`), so that overlapping requests
can leave part of the second file out for good when the first one has none:
`SettledCoversScan` says then only that the cache is not empty, and that it is
complete when only missing files come first.

The properties of the passing lab runs are stated for `StoredModes` where `modes`
shows that the third mode is not stored.

## Fairness

`Repository!FairSpec`: weak fairness of each thread's handler. A Python thread
that has started a request is scheduled; the only wait in it is BEGIN IMMEDIATE,
which ends after 10 s (`connect(..., timeout=10)`), so no strong fairness on the
lock is needed. No request has to arrive, no crash to happen.

`Lab!FairSpec`: weak fairness of one action, `Progress`: as long as some program
of the lab (the client, a server that Docker has restarted, the dashboard with a
call or an orphaned request) can take a step, some program takes one. This is
weaker than fairness of each process, and nothing is assumed about faults, which
run out (`MaxFaults`). `post_json`, `SSL_accept` and `SSL_read` have no
timeouts, so `ComesToRest` rests on the dashboard being alive or its connection
breaking, and on peers that close when they end: both are what the lab's own
programs do. A peer from outside that connects and stays silent is not in the
model and would stop a server.

## What is proved

Every invariant and every safety property of a passing run is also a theorem,
for every value of the constants that meets the named assumptions of the
modules: stored modes are modes, and modes of the summary; requests are well
formed; `Absent` is none of the values it is told apart from, calls and integers
included; the sample ids that can be made are in `Samples`; the vendors are
finitely many; files are sequences of files. Where an invariant is not inductive
the proof names what has to be added.

**RepositoryProofs**: `TypeCorrect`, `AckedDurable`, `VerdictStands`,
`RejectedLeavesNothing`, `PagesConsistent`, and `Refinement`, that `Repository`
implements `Ledger`. `RejectedLeavesNothing` is about steps: a run that appears in
one is that of the request the same step commits (`RunStep`). That a commit loses nothing depends on what the committing
thread copied when it began, so `IInv` adds

* `Discipline` - a thread has uncommitted work exactly while it is inside its
  transaction, then holds the lock, and its work is the committed database, or
  the committed database with its request applied;
* `ListedStays` - what a viewer has listed is still in the database;
* `SuccessUntilClient` - a row without a client half counts as a success, needed
  to map `success` to the ledger's verdict.

`CommitInstalls` is the heart: by `Discipline` a commit installs
`Apply(db, job)` for the *current* `db`, so the effect of a transaction is that
of one atomic step, and `OnlyCommitWrites` says nothing else changes `db`. The
lemmas of `StoreProofs` say what `Apply` does: it keeps types, never removes a
run, a row or a half, and keeps the verdict.

**The ledger, three times.** `RequestMapped` of StoreProofs says that
`db' = Apply(db, q)` is a step of Ledger, whoever executes `q`, as long as
`SuccessUntilClient` holds; `StutterMapped` that anything else is a stutter.
`Refinement`, `LabRefinement` and `ReadRefinement` are then what is left to say
about each module: that it writes to the database in this way only
(`AskedApplied` for Lab, whose faults may execute a request of a dead process).
TLC checks the first two on `repository` and `probes` too; the third is proved only.

**LabProofs**: `LabTypeCorrect`, `WarmupsLeaveNoTrace`, `OnlyAnnouncedRuns`,
`HalvesBelongTogether`, `ClientHalvesStay`, `ProbesAreReported`,
`FailuresAreCounted`, for any number of launches, warmups, iterations and
faults. What reaches the database depends on everything that is still on its way
to it, so the invariant `LabInv` says of the backlogs, the calls, the orphans
and the rows alike that they are *genuine*: a request in any of these places is
about a measured connection of an announced run under that connection's own
sample id. A dying process only moves a request from `call` to `orphans`, which
`LabInv` does not tell apart; this is why faults need no case of their own.
On top of it stand

* `PostedInv`, `ClosedInv` - the client has at most one call under way, of the
  kind its `pc` says, and for a completed run nobody is left who could still
  post a client half (`ClientHalvesStay`);
* `ReportInv` - what the loops have passed has its client half, as long as no
  report can fail (`ProbesAreReported`, whose hypothesis on `Faults` is in the
  property);
* `FreshInv`, `CountInv` - the failed samples stored or under way are at most
  the failures counted, one more while a failed probe is being recorded
  (`FailuresAreCounted`).

`ExperimentRefinement` shows that Lab implements Experiment: each probe is
reported at most once, in its turn, between announcement and completion. The
invariant `OrderInv` follows a report from the client to the table:

* what is in the table or can still get there (`Pending`: the call the client
  waits for, the reports dead clients left) is behind the loops of `main()`,
  which never go back (`ReachGrows`);
* at most one report of each launch is pending, and everything of that launch in
  the table had its turn before it.

`PendingStep` says that what is executed is no longer pending: a request is
executed once. `PlaceIs` is the arithmetic of the rotation: the `g`-th probe of
an iteration takes the `g`-th turn, whatever the iteration.

`HalvesBelongTogether`, `ClientHalvesStay`, `FailuresAreCounted` and
`ExperimentRefinement` assume that launches have different run ids; the run
`reused_id` shows that the first of them is false otherwise.

**FaultlessProofs**: `FaultlessIsRecorded` and `OnlyTheLastIsLate` (the latter
again for launches with different run ids). Both are about behaviours in which
no fault has happened yet, so their invariant `CalmInv` holds as long as
`faults = 0`, and `CalmNext` shows which steps that leaves. It follows the one
connection there is:

* `OneConnection`, `InStep` - no other connection is open while the client waits
  for its response, and the stage it has reached fits both ends;
* `Undisturbed`, `AllWell` - all servers are up, only a posting server has a
  call, only a request the schema or the CHECK refuses fails, and every row is a
  success;
* `ServersHeard` - by the time the client has its response, the server's half is
  stored or its report is under way (`ServeReports`), and a report under way is
  not overwritten before it is handled (`HeardStays`).

At rest nothing is under way, so every half is stored. `ReportsNewest` adds that
the report of a server is from the last connection it responded to, because it
posts before it accepts; when the run is completed that is the last iteration.

**DashboardReadProofs**: `ReadTypeCorrect`, `LatestStaysTheorem`, `ReadRefinement`
and the four properties of the answers, for any number of runs, rows and posts.
`NewestOne` characterises the answer to the query for the latest run as a run
whose start no other run exceeds; as a stored run keeps its start (`Stamp`), only
a run that was not stored can come first. The answers rest on `RowsInv`: the rows
are finitely many, of stored modes, and their `success` is the client's verdict,
or TRUE before there is one; without the last part the failures of the summary
would not be the failures reported.

* `AnswersAgreeTheorem` - `ModesAddUp` and `SummaryTotals`: the three modes of the
  summary part the rows of the page, so its totals are those of the listing; this
  is where `StoredModes` has to be among the modes of `analytics.py`.
* `PercentilesBracketTheorem` - `OrderedIs` shows that the k-th of the sorted
  values exists, `PercentileIs` and `Between` that interpolating stays between
  neighbours, `PercentileMonotone` that p50, p95 and p99 are in order, equal and
  few values included; `SumBounds` puts the mean between minimum and maximum.
* `ComparisonDefinedTheorem` - a difference exists exactly when both modes
  measured something, and its divisor is positive.
* `FailureMeasuresNothingTheorem` - `MetricCounts` gives the count as a number of
  rows, which a row whose client has reported a failure cannot join: by `RowsInv`
  its `success` is FALSE.

**Counting** is what these proofs and `CardsTheorem` need of finite sets: least
and greatest elements, that a sum over a finite set exists and lies between its
bounds, that parts add up. Induction over a set is not available with the
provers installed; instead each lemma takes a *smallest* set for which the claim
fails (`SetOfSubsets`, from `LeastNat`) and removes one element from it.

**AssessmentProofs**: `AssessmentTypeOK` (every target and input on a page is
one the loaders make of a row) and ten theorems about rules, orders and sums,
which rest on lemmas about the operators: `MandatesOfTarget`, `CbomOfTarget`,
`WindowOfStub`, `RatioIsOrdered`, `PriorityIsOrdered` (the rounding included,
for every score and cost), `HelpKeepsTier`, `HelpKeepsScore`. `GeneratedTheorem`
and `CardsTheorem` need more than the types: `ReadingsInv` says at which point of
a page which file has been read, and that what was read without an edit since is
still what the file says. On top of it `TiersAddUp`, `MandatesAddUp`,
`ExposureAddsUp` and `ScoresAddUp` count one table each, and `MeanBetween` and
`RoundBetween` keep a rounded mean between the minimum and the maximum.
`ReadyShare` shows what a rounded share can say: 0 to 100, 100 if every target is
ready, and below 200 targets only then. The code rounds a floating-point product
that is for some counts just below an exact half (below 200 targets: 23 of 40, 46
of 80, 69 of 120 and 92 of 160, shown as 57); the lemma is about the exact quotient
that the model rounds.

**ScanCacheProofs**: `ScanTypeCorrect`, `SettledForGood` and `ScanIsCovered`, for
any number of threads, vendors and files. For the last one the invariant `Owed`
says that a vendor of the first usable file without an entry is still *owed* by
some thread: one that is about to empty the dict, that has not reached the file,
or that is in it before a record of that vendor. `DebtStays` shows that a thread
pays or still owes; emptying the dict makes the thread that does it owe
everything. The hypothesis that only missing files come before is where the
argument would fail: a thread in a file without records owes the next
one, but lets go of the debt if the shared dict is not empty. What remains
without the hypothesis is `OwedSome`: while the dict is empty some thread is
still to write an entry, because it lets go only of a dict that has one
(`SomeDebtStays`).

Only model-checked: the liveness properties `LockIsReleased`,
`EveryPostAnswered` and `ComesToRest` (fairness and ENABLED are out of the
prover's reach).

## Not modelled

TLS cryptography and certificates; pydantic's bounds beyond "in range or not";
the health checks (which connect to the TLS servers like a warmup does); partial
sends inside `post_json`; `json_escape`, `valid_identifier`,
`extract_query_value` (the client's requests always fit); the names, curves,
labels, reasons and URLs of the risk pages; formatting of CSV and CBOM;
templates and `dashboard.js`, which no template loads; a CSV file that is read
while it is half written; two vendors of the same name; clocks that go back.

## Plan

Done: Store, Repository, Ledger and its three refinements; Wire, TlsServer,
BenchmarkClient, Lab and proofs, with and without faults; Experiment and its
refinement; ScanCache and proofs; Posture, RiskScore, Assessment and proofs;
Statistics, DashboardRead and proofs. Left:

1. `Common` - `json_escape` never passes its buffer nor ends inside an escape;
   lengths accepted by `valid_identifier`, the servers' buffers and the schemas.
2. A vendor file that is read while it is half written (`tprm.py:4`).

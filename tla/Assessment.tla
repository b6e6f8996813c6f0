----------------------------- MODULE Assessment -----------------------------
(***************************************************************************)
(* The requests of main.py that show the risk of the vendors, on the files *)
(* they read while somebody edits them: docker-compose.yml mounts the data *)
(* directory, and the CSV files are opened again by every request, a page  *)
(* that has a table of its own and the cards of _page_context opening      *)
(* vendors.csv twice.  Requests share nothing but the files and the cached *)
(* scan, so one at a time is followed.                                     *)
(***************************************************************************)
EXTENDS RiskScore, FiniteSetsExt

CONSTANTS
  Vendors,   \* the names that can be in the files
  Rows,      \* the rows of vendors.csv
  Inputs,    \* the rows of hndl_inputs.csv
  Scans,     \* what the scan says of a vendor, for all of them
  MaxEdits   \* how often the files are edited

ASSUME AssessmentAssumption ==
  /\ IsFiniteSet(Vendors)
  /\ Rows \subseteq Row
  /\ Inputs \subseteq Input
  /\ Scans \subseteq [Vendors -> Scan]
  /\ MaxEdits \in Nat
  /\ Absent \notin Target \cup Row \cup Input \cup BOOLEAN \cup Nat

VARIABLES
  vendors,   \* vendors.csv: the row of each vendor in it
  inputs,    \* hndl_inputs.csv
  scans,     \* the cache of score.py, once it is filled
  page,      \* the request in progress, or the page it has ended with
  edits      \* edits so far

vars == <<vendors, inputs, scans, page, edits>>

(* "overview" stands for the five pages that have nothing but the cards    *)
(* and the list of _page_context; "rows" is a run of gen_tprm_rows.py.     *)
OwnTable == {"score", "queue", "hndl", "compliance", "roadmap", "cbom", "rows"}
Routes == OwnTable \cup {"overview"}
Joined == {"score", "queue", "hndl", "roadmap"}     \* with hndl_inputs.csv
Bare == {"cbom", "rows"}                            \* without _page_context

Reading == [Vendors -> Target \cup {Absent}]
Page == [route : Routes, at : {"targets", "inputs", "context", "shown"},
         targets : Reading, stubs : [Vendors -> Stub], context : Reading,
         steady : BOOLEAN]   \* steady: nobody has edited since the request came

Unread == [v \in Vendors |-> Absent]
NoStubs == [v \in Vendors |-> LoadInput(NoInput)]

TypeOK ==
  /\ vendors \in [Vendors -> Row \cup {Absent}]
  /\ inputs \in [Vendors -> Input \cup {Absent}]
  /\ scans \in [Vendors -> Scan]
  /\ page \in Page
  /\ edits \in 0..MaxEdits

Init ==
  /\ vendors \in [Vendors -> Rows \cup {Absent}]
  /\ inputs \in [Vendors -> Inputs \cup {Absent}]
  /\ scans \in Scans
  /\ page = [route |-> "overview", at |-> "shown", targets |-> Unread,
             stubs |-> NoStubs, context |-> Unread, steady |-> FALSE]
  /\ edits = 0

-----------------------------------------------------------------------------
LoadTargets(file) ==
  [v \in Vendors |-> IF file[v] = Absent THEN Absent ELSE LoadTarget(file[v])]

GenerateRows(file) ==
  [v \in Vendors |-> IF file[v] = Absent THEN Absent ELSE RenderRow(file[v])]

(* A vendor without a row has the defaults of build_exposure() and of      *)
(* load_scored(), which are those of an empty row.                         *)
LoadInputs(file) ==
  [v \in Vendors |-> LoadInput(IF file[v] = Absent THEN NoInput ELSE file[v])]

Request(route) ==
  /\ page.at = "shown"
  /\ page' = [route |-> route,
              at |-> IF route \in OwnTable THEN "targets" ELSE "context",
              targets |-> Unread, stubs |-> NoStubs, context |-> Unread,
              steady |-> TRUE]
  /\ UNCHANGED <<vendors, inputs, scans, edits>>

ReadTargets ==
  /\ page.at = "targets"
  /\ page' = [page EXCEPT
       !.targets = IF page.route = "rows" THEN GenerateRows(vendors)
                                          ELSE LoadTargets(vendors),
       !.at = IF page.route \in Joined THEN "inputs"
              ELSE IF page.route \in Bare THEN "shown"
              ELSE "context"]
  /\ UNCHANGED <<vendors, inputs, scans, edits>>

(* ?scenario=10y has another file of the same kind read in its place. *)
ReadInputs ==
  /\ page.at = "inputs"
  /\ page' = [page EXCEPT !.stubs = LoadInputs(inputs), !.at = "context"]
  /\ UNCHANGED <<vendors, inputs, scans, edits>>

(* _page_context *)
ReadContext ==
  /\ page.at = "context"
  /\ page' = [page EXCEPT !.context = LoadTargets(vendors), !.at = "shown"]
  /\ UNCHANGED <<vendors, inputs, scans, edits>>

Edited ==
  /\ edits < MaxEdits
  /\ edits' = edits + 1
  /\ page' = [page EXCEPT !.steady = FALSE]
  /\ UNCHANGED scans

EditVendor(v, row) ==
  /\ Edited
  /\ vendors' = [vendors EXCEPT ![v] = row]
  /\ UNCHANGED inputs

EditInput(v, row) ==
  /\ Edited
  /\ inputs' = [inputs EXCEPT ![v] = row]
  /\ UNCHANGED vendors

Next ==
  \/ \E route \in Routes : Request(route)
  \/ ReadTargets \/ ReadInputs \/ ReadContext
  \/ \E v \in Vendors, row \in Rows \cup {Absent} : EditVendor(v, row)
  \/ \E v \in Vendors, row \in Inputs \cup {Absent} : EditInput(v, row)

Spec == Init /\ [][Next]_vars

-----------------------------------------------------------------------------
(* The numbers of the cards and of the headers of the tables.  ready_pct   *)
(* is rounded from a floating product, which lies just below some exact    *)
(* halves (23 of 40): there the code shows one less than Round.            *)
Listed(reading) == {v \in Vendors : reading[v] # Absent}

(* Mutant of QviSummary: what is not tier 1 is counted as tier 3. *)
QviSummaryRest(reading) ==
  LET tier(c) == Cardinality({v \in Listed(reading) : reading[v].tier = c})
      total == Cardinality(Listed(reading))
  IN  [total |-> total, tier1 |-> tier("tier1"), tier2 |-> tier("tier2"),
       tier3 |-> total - tier("tier1"),
       ready_pct |-> IF total = 0 THEN 0 ELSE Round(100 * tier("tier1"), total)]

QviSummary(reading) ==
  LET tier(c) == Cardinality({v \in Listed(reading) : reading[v].tier = c})
      total == Cardinality(Listed(reading))
  IN  [total |-> total, tier1 |-> tier("tier1"), tier2 |-> tier("tier2"),
       tier3 |-> tier("tier3"),
       ready_pct |-> IF total = 0 THEN 0 ELSE Round(100 * tier("tier1"), total)]

ComplianceSummary(reading) ==
  [m \in {"fips203", "rbi_qsafe", "eu_dora"} |->
     [pass |-> Cardinality({v \in Listed(reading) : m \in Passed(reading[v])}),
      fail |-> Cardinality({v \in Listed(reading) : m \notin Passed(reading[v])})]]

Status(v) == ExposureStatus(page.targets[v], page.stubs[v])

ExposureSummary ==
  [exposed |-> Cardinality({v \in Listed(page.targets) : Status(v) = "EXPOSED"}),
   unclassified |-> Cardinality({v \in Listed(page.targets) : Status(v) = "UNCLASSIFIED"})]

ScoreOf(v) == Scored(page.targets[v], scans[v], page.stubs[v])

ScoreSummary ==
  LET rows == Listed(page.targets)
      count(P(_)) == Cardinality({v \in rows : P(ScoreOf(v))})
      totals == {ScoreOf(v).total : v \in rows}
      sum == SumFunction([v \in rows |-> ScoreOf(v).total])
  IN  [n |-> Cardinality(rows),
       bands |-> [b \in {"critical", "high", "moderate"} |-> count(LAMBDA s : s.band = b)],
       avg |-> Round(sum, IF rows = {} THEN 1 ELSE Cardinality(rows)),
       min |-> IF rows = {} THEN 0 ELSE Min(totals),
       max |-> IF rows = {} THEN 0 ELSE Max(totals),
       pq_ready |-> count(LAMBDA s : s.posture.pqc),
       pq_cert |-> count(LAMBDA s : s.cert <= 3),
       static_rsa |-> count(LAMBDA s : s.posture.static_rsa),
       remediable |-> count(LAMBDA s : s.effort > 0),
       no_action |-> Cardinality(rows) - count(LAMBDA s : s.effort > 0)]

Prioritized == {v \in Listed(page.targets) : ~NeedsInput(page.targets[v], page.stubs[v])}

(* v is in the table before w, whatever the order of vendors.csv. *)
QueuedBefore(v, w) ==
  \/ ScoreOf(v).ratio > ScoreOf(w).ratio
  \/ ScoreOf(v).ratio = ScoreOf(w).ratio /\ ScoreOf(v).total > ScoreOf(w).total

RankedBefore(v, w) ==
  Priority(page.targets[v], page.stubs[v]) > Priority(page.targets[w], page.stubs[w])

OnPage(routes, v) ==
  page.at = "shown" /\ page.route \in routes /\ page.targets[v] # Absent

-----------------------------------------------------------------------------
(* The tier of tprm.py, the checks of compliance.py and the components of  *)
(* cbom.py are three readings of the same columns.  A target is tier 1     *)
(* exactly when it passes every mandate, and tier 3 exactly when it fails  *)
(* DORA.                                                                   *)
TierMatchesMandates ==
  \A v \in Vendors : OnPage({"compliance"}, v) =>
    LET t == page.targets[v] IN
    /\ t.tier = "tier1" <=> Passed(t) = {"fips203", "rbi_qsafe", "eu_dora"}
    /\ t.tier = "tier3" <=> "eu_dora" \notin Passed(t)

(* The downloaded bill of materials explains the tier: tier 3 exactly when *)
(* it lists something to remediate, tier 1 exactly when it has a KEM and   *)
(* nothing to remediate.                                                   *)
CbomExplainsTier ==
  \A v \in Vendors : OnPage({"cbom"}, v) =>
    LET t == page.targets[v]
        clean == Cbom(t) \cap {"TLS <1.3", "static rsa", "weak cipher"} = {}
    IN  /\ t.tier = "tier3" <=> ~clean
        /\ t.tier = "tier1" <=> clean /\ "kem" \in Cbom(t)

(* gen_tprm_rows.py: "so the tier can't drift out of sync with the data    *)
(* next to it".  Its copy of the rules writes the rows the pages show.     *)
GeneratedRowsAgree ==
  page.route = "rows" /\ page.at = "shown" /\ page.steady =>
    page.targets = LoadTargets(vendors)

(* The eight years of score.py and of hndl.py are the same window: what    *)
(* the one scores as closing before it, the other never calls exposed.  A   *)
(* retention nobody knows is unclassified there and the longest here.      *)
WindowAgrees ==
  \A v \in Vendors : OnPage(Joined, v) =>
    /\ Status(v) = "EXPOSED" => F3(page.stubs[v].years) >= 18
    /\ Status(v) = "LOW URGENCY" => F3(page.stubs[v].years) = 10
    /\ page.stubs[v].years = Absent =>
         Status(v) = "UNCLASSIFIED" /\ F3(page.stubs[v].years) = 25

(* The queue ends with the targets nothing can be done for, and of two     *)
(* with the same risk the one with the smaller effort comes first.         *)
QueueOrder ==
  \A v, w \in Vendors : OnPage({"queue"}, v) /\ OnPage({"queue"}, w) =>
    LET sv == ScoreOf(v)
        sw == ScoreOf(w)
    IN  /\ sv.effort > 0 /\ sw.effort = 0 => QueuedBefore(v, w)
        /\ sv.total = sw.total /\ sv.effort \in 1..(sw.effort - 1) => QueuedBefore(v, w)

(* A target is never in a milder band than one with a lower score. *)
Gravity(band) == CASE band = "critical" -> 3 [] band = "high" -> 2 [] OTHER -> 1

BandsFollowScore ==
  \A v, w \in Vendors : OnPage({"score"}, v) /\ OnPage({"score"}, w) =>
    (ScoreOf(v).total >= ScoreOf(w).total =>
       Gravity(ScoreOf(v).band) >= Gravity(ScoreOf(w).band))

(* Where the posture that is scored is the one of the row, the effort of   *)
(* score.py is the gap of tprm.py: none for tier 1, the hybrid group for tier 2, and a *)
(* target that is not tier 1 has an action unless its gap is a weak        *)
(* cipher, which score.py does not look at.                                *)
Confirms(scan, t) ==
  ScoredPosture(t, scan) =
    [tls13 |-> t.tls13 = "Yes", pqc |-> t.pqc # "No", static_rsa |-> t.static_rsa = "Yes"]

EffortMatchesTier ==
  \A v \in Vendors : OnPage({"score", "queue"}, v) /\ Confirms(scans[v], page.targets[v]) =>
    LET t == page.targets[v] IN
    /\ t.tier = "tier1" => ScoreOf(v).effort = 0
    /\ t.tier = "tier2" => ScoreOf(v).effort = 2
    /\ t.tier = "tier3" /\ t.weak_cipher = "No" => ScoreOf(v).effort > 0
    /\ t.tls13 = "No" => ScoreOf(v).effort = 3

(* The roadmap ranks a target only when its owner has said all it needs;   *)
(* of two with the same cost the exposed one comes first, and of two with  *)
(* the same exposure the cheaper one.                                      *)
RoadmapOrder ==
  /\ \A v \in Vendors : OnPage({"roadmap"}, v) /\ v \in Prioritized =>
       /\ page.stubs[v].sensitivity # "UNCLASSIFIED"
       /\ page.stubs[v].years # Absent
       /\ page.stubs[v].cost \in {"S", "M", "L"}
  /\ \A v, w \in Vendors :
       OnPage({"roadmap"}, v) /\ OnPage({"roadmap"}, w) /\ {v, w} \subseteq Prioritized =>
         LET cost(x) == RemediationCostWeight(page.stubs[x].cost)
             weight(x) == StatusWeight(Status(x))
         IN  /\ cost(v) = cost(w) /\ weight(v) > weight(w) => RankedBefore(v, w)
             /\ weight(v) = weight(w) /\ weight(v) > 0 /\ cost(v) < cost(w) => RankedBefore(v, w)

(* While nobody edits the files the two readings of a page are one, and    *)
(* the cards add up with the table below them.  The share of tier 1 is     *)
(* within half a percent, so 100 says that every target is ready only when *)
(* there are fewer than 200.                                               *)
CardsAgree ==
  page.at = "shown" /\ page.steady /\ page.route \notin Bare =>
    LET qvi == QviSummary(page.context)
        mandates == ComplianceSummary(page.targets)
        score == ScoreSummary
    IN  /\ qvi.tier1 + qvi.tier2 + qvi.tier3 = qvi.total
        /\ qvi.ready_pct \in 0..100
        /\ qvi.ready_pct = 100 /\ qvi.total < 200 => qvi.tier1 = qvi.total
        /\ qvi.tier1 = qvi.total /\ qvi.total > 0 => qvi.ready_pct = 100
        /\ page.route = "compliance" =>
             /\ mandates["eu_dora"].fail = qvi.tier3
             /\ \A m \in DOMAIN mandates :
                  /\ mandates[m].pass >= qvi.tier1
                  /\ mandates[m].pass + mandates[m].fail = qvi.total
        /\ page.route = "hndl" =>
             ExposureSummary.exposed <= qvi.tier2 + qvi.tier3
               /\ ExposureSummary.exposed + ExposureSummary.unclassified <= qvi.total
        /\ page.route \in {"score", "queue"} =>
             /\ score.n = qvi.total
             /\ score.bands["critical"] + score.bands["high"] + score.bands["moderate"] = score.n
             /\ score.min <= score.avg /\ score.avg <= score.max
             /\ score.no_action <= score.pq_ready
             /\ score.no_action + score.static_rsa <= score.n

(* An edit that can only help, a "No" that becomes a "Yes" for TLS 1.3 or  *)
(* the hybrid group and the reverse for static RSA and weak ciphers, never *)
(* lowers the tier, loses a mandate or raises the score.                   *)
Helps(old, new) ==
  /\ new.tls13 = old.tls13 \/ old.tls13 = "No"
  /\ new.pqc = old.pqc \/ old.pqc = "No"
  /\ new.provider = old.provider
  /\ new.static_rsa = old.static_rsa \/ new.static_rsa = "No"
  /\ new.weak_cipher = old.weak_cipher \/ new.weak_cipher = "No"

TotalNow(row, v) ==
  Scored(LoadTarget(row), scans[v], LoadInputs(inputs)[v]).total

RemediationHelps ==
  [][\A v \in Vendors :
       vendors'[v] \notin {vendors[v], Absent} /\ vendors[v] # Absent
         /\ Helps(vendors[v], vendors'[v]) =>
         /\ DeriveTier(vendors[v]) = "tier1" => DeriveTier(vendors'[v]) = "tier1"
         /\ DeriveTier(vendors'[v]) = "tier3" => DeriveTier(vendors[v]) = "tier3"
         /\ Passed(LoadTarget(vendors[v])) \subseteq Passed(LoadTarget(vendors'[v]))
         /\ TotalNow(vendors'[v], v) <= TotalNow(vendors[v], v)]_vars

-----------------------------------------------------------------------------
(* score.py: "load_vendors() returns 'Yes'/'No' strings".  A vendor that   *)
(* was not scanned is scored by the hybrid support its row displays.       *)
ScoredAsDisplayed ==
  \A v \in Vendors : OnPage({"score", "queue"}, v) /\ scans[v].pqc = Absent =>
    ScoreOf(v).posture.pqc = (page.targets[v].pqc # "No")
=============================================================================

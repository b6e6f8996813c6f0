-------------------------- MODULE AssessmentProofs --------------------------
(***************************************************************************)
(* What the risk pages promise, for any vendors, rows, owners' inputs,     *)
(* scans and number of edits.  The rules need one lemma each; a page that  *)
(* is shown holds targets made from rows by TypeOK, so the rules carry     *)
(* over to every page.                                                     *)
(***************************************************************************)
EXTENDS Assessment, Counting

(* A target tells of its row what the tier was derived from. *)
LEMMA TargetShape ==
  ASSUME NEW t \in Target
  PROVE  /\ t.tls13 \in YesNo /\ t.static_rsa \in YesNo /\ t.weak_cipher \in YesNo
         /\ t.pqc \in {"Yes", "No", "Yes (P)"}
         /\ t.tier \in {"tier1", "tier2", "tier3"}
         /\ t.tier = "tier3" <=>
              t.static_rsa = "Yes" \/ t.weak_cipher = "Yes" \/ t.tls13 = "No"
         /\ t.tier = "tier1" <=>
              /\ t.static_rsa = "No" /\ t.weak_cipher = "No"
              /\ t.tls13 = "Yes" /\ t.pqc # "No"
<1>1. PICK row \in Row : t = LoadTarget(row)
  BY DEF Target
<1>2. /\ row.tls13 \in YesNo /\ row.static_rsa \in YesNo /\ row.weak_cipher \in YesNo
      /\ row.pqc \in {"Yes", "No", "Yes (P)"}
  BY DEF Row, YesNo
<1>3. /\ t.tls13 = Shown(row.tls13) /\ t.static_rsa = Shown(row.static_rsa)
      /\ t.weak_cipher = Shown(row.weak_cipher) /\ t.tier = DeriveTier(row)
      /\ t.pqc = PqcDisplay(row.pqc, row.provider)
  BY <1>1 DEF LoadTarget
<1>4. t.tls13 \in YesNo /\ t.static_rsa \in YesNo /\ t.weak_cipher \in YesNo
  BY <1>2, <1>3 DEF Shown, yn, YesNo
<1>5. /\ t.pqc \in {"Yes", "No", "Yes (P)"}
      /\ t.pqc # "No" <=> row.pqc # "No"
  BY <1>2, <1>3 DEF PqcDisplay, yn
<1>6. /\ t.tls13 = "Yes" <=> row.tls13 # "No"
      /\ t.static_rsa = "Yes" <=> row.static_rsa # "No"
      /\ t.weak_cipher = "Yes" <=> row.weak_cipher # "No"
  BY <1>2, <1>3 DEF Shown, yn, YesNo
<1>7. t.tier \in {"tier1", "tier2", "tier3"}
  BY <1>3 DEF DeriveTier
<1>8. t.tier = "tier3" <=> t.static_rsa = "Yes" \/ t.weak_cipher = "Yes" \/ t.tls13 = "No"
  BY <1>3, <1>4, <1>6 DEF DeriveTier, yn, YesNo
<1>9. t.tier = "tier1" <=>
        t.static_rsa = "No" /\ t.weak_cipher = "No" /\ t.tls13 = "Yes" /\ t.pqc # "No"
  BY <1>3, <1>4, <1>5, <1>6 DEF DeriveTier, yn, YesNo
<1>. QED BY <1>4, <1>5, <1>7, <1>8, <1>9

LEMMA LoadedIsTarget ==
  ASSUME NEW row \in Row
  PROVE  LoadTarget(row) \in Target
BY DEF Target

(* The generator's copy of the rules is the dashboard's. *)
LEMMA GeneratedIsLoaded ==
  ASSUME NEW row
  PROVE  RenderRow(row) = LoadTarget(row)
BY DEF RenderRow, LoadTarget, GeneratedTier, DeriveTier, GeneratedPqc, PqcDisplay

LEMMA LoadedIsStub ==
  ASSUME NEW row \in Input
  PROVE  LoadInput(row) \in Stub
BY DEF LoadInput, Input, Stub

LEMMA NoInputIsInput == NoInput \in Input
BY DEF NoInput, Input

-----------------------------------------------------------------------------
LEMMA ReadingOfVendors ==
  ASSUME NEW file \in [Vendors -> Row \cup {Absent}]
  PROVE  LoadTargets(file) \in Reading /\ GenerateRows(file) = LoadTargets(file)
<1>1. \A v \in Vendors : file[v] = Absent \/ file[v] \in Row
  OBVIOUS
<1>2. LoadTargets(file) \in Reading
  BY <1>1, LoadedIsTarget DEF LoadTargets, Reading
<1>3. GenerateRows(file) = LoadTargets(file)
  BY GeneratedIsLoaded DEF GenerateRows, LoadTargets
<1>. QED BY <1>2, <1>3

LEMMA StubsOfInputs ==
  ASSUME NEW file \in [Vendors -> Input \cup {Absent}]
  PROVE  LoadInputs(file) \in [Vendors -> Stub]
<1>1. \A v \in Vendors : (IF file[v] = Absent THEN NoInput ELSE file[v]) \in Input
  BY NoInputIsInput
<1>. QED BY <1>1, LoadedIsStub DEF LoadInputs

LEMMA InitialTypeOK == Init => TypeOK
<1>. SUFFICES ASSUME Init PROVE TypeOK
  OBVIOUS
<1>1. Unread \in Reading /\ NoStubs \in [Vendors -> Stub]
  BY NoInputIsInput, LoadedIsStub DEF Unread, Reading, NoStubs
<1>2. page \in Page
  BY <1>1 DEF Init, Page, Routes
<1>. QED BY <1>2, AssessmentAssumption DEF Init, TypeOK

LEMMA NextTypeOK == TypeOK /\ [Next]_vars => TypeOK'
<1>. SUFFICES ASSUME TypeOK, [Next]_vars PROVE TypeOK'
  OBVIOUS
<1>. USE DEF TypeOK
<1>1. ASSUME NEW route \in Routes, Request(route) PROVE TypeOK'
  <2>1. Unread \in Reading /\ NoStubs \in [Vendors -> Stub]
    BY NoInputIsInput, LoadedIsStub DEF Unread, Reading, NoStubs
  <2>2. page' \in Page
    BY <1>1, <2>1 DEF Request, Page
  <2>. QED BY <1>1, <2>2 DEF Request
<1>2. CASE ReadTargets
  <2>1. LoadTargets(vendors) \in Reading /\ GenerateRows(vendors) \in Reading
    BY ReadingOfVendors
  <2>2. page' \in Page
    BY <1>2, <2>1 DEF ReadTargets, Page
  <2>. QED BY <1>2, <2>2 DEF ReadTargets
<1>3. CASE ReadInputs
  <2>1. page' \in Page
    BY <1>3, StubsOfInputs DEF ReadInputs, Page
  <2>. QED BY <1>3, <2>1 DEF ReadInputs
<1>4. CASE ReadContext
  <2>1. page' \in Page
    BY <1>4, ReadingOfVendors DEF ReadContext, Page
  <2>. QED BY <1>4, <2>1 DEF ReadContext
<1>5. ASSUME Edited PROVE page' \in Page /\ edits' \in 0..MaxEdits /\ scans' = scans
  <2>1. page' \in Page
    BY <1>5 DEF Edited, Page
  <2>2. edits' \in 0..MaxEdits
    <3>1. MaxEdits \in Nat
      BY AssessmentAssumption
    <3>2. edits \in 0..MaxEdits /\ edits < MaxEdits /\ edits' = edits + 1
      BY <1>5 DEF Edited
    <3>. HIDE DEF TypeOK
    <3>. QED BY <3>1, <3>2
  <2>. QED BY <1>5, <2>1, <2>2 DEF Edited
<1>6. ASSUME NEW v \in Vendors, NEW row \in Rows \cup {Absent}, EditVendor(v, row)
      PROVE  TypeOK'
  <2>1. row \in Row \cup {Absent}
    BY AssessmentAssumption
  <2>. QED BY <1>5, <1>6, <2>1 DEF EditVendor
<1>7. ASSUME NEW v \in Vendors, NEW row \in Inputs \cup {Absent}, EditInput(v, row)
      PROVE  TypeOK'
  <2>1. row \in Input \cup {Absent}
    BY AssessmentAssumption
  <2>. QED BY <1>5, <1>7, <2>1 DEF EditInput
<1>8. CASE UNCHANGED vars
  BY <1>8 DEF vars
<1>. QED BY <1>1, <1>2, <1>3, <1>4, <1>6, <1>7, <1>8 DEF Next

(* Every reading of a page is made of targets that load_targets() makes,   *)
(* and every stub is one that load_hndl_inputs() or its defaults make.     *)
THEOREM AssessmentTypeOK == Spec => []TypeOK
<1>. QED BY InitialTypeOK, NextTypeOK, PTL DEF Spec

-----------------------------------------------------------------------------
(* The rules of one target, whatever page shows it. *)
LEMMA MandatesOfTarget ==
  ASSUME NEW t \in Target
  PROVE  /\ t.tier = "tier1" <=> Passed(t) = {"fips203", "rbi_qsafe", "eu_dora"}
         /\ t.tier = "tier3" <=> "eu_dora" \notin Passed(t)
<1>1. /\ "fips203" \in Passed(t) <=> Fips203(t)
      /\ "rbi_qsafe" \in Passed(t) <=> RbiQsafe(t)
      /\ "eu_dora" \in Passed(t) <=> EuDora(t)
      /\ Passed(t) \subseteq {"fips203", "rbi_qsafe", "eu_dora"}
  BY DEF Passed
<1>2. Passed(t) = {"fips203", "rbi_qsafe", "eu_dora"} <=>
        Fips203(t) /\ RbiQsafe(t) /\ EuDora(t)
  BY <1>1
<1>3. t.tier = "tier3" <=> ~EuDora(t)
  BY TargetShape DEF EuDora, YesNo
<1>4. t.tier = "tier1" <=> Fips203(t) /\ RbiQsafe(t) /\ EuDora(t)
  BY TargetShape DEF Fips203, RbiQsafe, EuDora, YesNo
<1>. QED BY <1>1, <1>2, <1>3, <1>4

LEMMA CbomOfTarget ==
  ASSUME NEW t \in Target
  PROVE  LET clean == Cbom(t) \cap {"TLS <1.3", "static rsa", "weak cipher"} = {}
         IN  /\ t.tier = "tier3" <=> ~clean
             /\ t.tier = "tier1" <=> clean /\ "kem" \in Cbom(t)
<1>1. /\ "TLS <1.3" \in Cbom(t) <=> t.tls13 # "Yes"
      /\ "kem" \in Cbom(t) <=> t.pqc # "No"
      /\ "static rsa" \in Cbom(t) <=> t.static_rsa = "Yes"
      /\ "weak cipher" \in Cbom(t) <=> t.weak_cipher = "Yes"
  BY DEF Cbom
<1>2. Cbom(t) \cap {"TLS <1.3", "static rsa", "weak cipher"} = {} <=>
        t.tls13 = "Yes" /\ t.static_rsa # "Yes" /\ t.weak_cipher # "Yes"
  BY <1>1
<1>. QED BY <1>1, <1>2, TargetShape DEF YesNo

LEMMA WindowOfStub ==
  ASSUME NEW t, NEW stub \in Stub
  PROVE  /\ ExposureStatus(t, stub) = "EXPOSED" => F3(stub.years) >= 18
         /\ ExposureStatus(t, stub) = "LOW URGENCY" => F3(stub.years) = 10
         /\ stub.years = Absent =>
              ExposureStatus(t, stub) = "UNCLASSIFIED" /\ F3(stub.years) = 25
<1>1. stub.years \in Nat \cup {Absent}
  BY DEF Stub
<1>2. CASE stub.years = Absent
  BY <1>2 DEF ExposureStatus, F3
<1>3. CASE stub.years # Absent
  <2>1. stub.years \in Nat
    BY <1>1, <1>3
  <2>2. StillConfidential(stub) <=> stub.years >= 8
    BY <1>3 DEF StillConfidential, CRQCArrivalYearsMin
  <2>3. stub.years >= 8 => F3(stub.years) >= 18
    BY <2>1, <1>3 DEF F3
  <2>4. ~(stub.years >= 8) => F3(stub.years) = 10
    BY <2>1, <1>3 DEF F3
  <2>5. /\ ExposureStatus(t, stub) = "EXPOSED" => StillConfidential(stub)
        /\ ExposureStatus(t, stub) = "LOW URGENCY" => ~StillConfidential(stub)
    BY DEF ExposureStatus
  <2>. QED BY <1>3, <2>2, <2>3, <2>4, <2>5
<1>. QED BY <1>2, <1>3

(* The score is a number between 18 and 100, and the effort one of four. *)
LEMMA ScoreRange ==
  ASSUME NEW t, NEW scan \in Scan, NEW stub \in Stub
  PROVE  /\ Scored(t, scan, stub).total \in 18..100
         /\ Scored(t, scan, stub).effort \in 0..3
         /\ Scored(t, scan, stub).effort = Effort(ScoredPosture(t, scan))
         /\ Scored(t, scan, stub).band = Band(Scored(t, scan, stub).total)
         /\ Scored(t, scan, stub).ratio =
              Ratio(Scored(t, scan, stub).total, Scored(t, scan, stub).effort)
<1>. DEFINE p == ScoredPosture(t, scan)
            total == Total(p, scan, stub)
<1>1. /\ Scored(t, scan, stub).total = total
      /\ Scored(t, scan, stub).effort = Effort(p)
      /\ Scored(t, scan, stub).band = Band(total)
      /\ Scored(t, scan, stub).ratio = Ratio(total, Effort(p))
  BY DEF Scored
<1>2. F1(p) \in {5, 38, 40} /\ Effort(p) \in 0..3
  BY DEF F1, Effort
<1>3. F2(scan.cert) \in {3, 30, 35}
  BY DEF F2
<1>4. F3(stub.years) \in {10, 18, 22, 25}
  BY DEF F3
<1>5. Penalty(p) \in {0, 10}
  BY DEF Penalty
<1>6. total \in 18..100
  <2>. HIDE DEF p
  <2>. QED BY <1>2, <1>3, <1>4, <1>5 DEF Total, Min2
<1>. QED BY <1>1, <1>2, <1>6

LEMMA RatioIsOrdered ==
  ASSUME NEW t \in 18..100, NEW u \in 18..100, NEW e \in 0..3, NEW f \in 0..3
  PROVE  /\ e > 0 /\ f = 0 => Ratio(t, e) > Ratio(u, f)
         /\ t = u /\ e \in 1..(f - 1) => Ratio(t, e) > Ratio(u, f)
<1>1. Ratio(t, 0) = 0 /\ Ratio(u, 0) = 0
  BY DEF Ratio
<1>2. \A x \in 18..100 : Ratio(x, 1) = 10 * x
  BY DEF Ratio, Round
<1>3. \A x \in 18..100 : Ratio(x, 2) = 5 * x
  BY DEF Ratio, Round
<1>4. \A x \in 18..100 : 3 * Ratio(x, 3) >= 10 * x - 2 /\ 3 * Ratio(x, 3) <= 10 * x + 2
  BY DEF Ratio, Round
<1>5. e \in {0, 1, 2, 3} /\ f \in {0, 1, 2, 3}
  OBVIOUS
<1>6. \A x \in 18..100 : Ratio(x, 3) \in Int
  BY DEF Ratio, Round
<1>7. \A x \in 18..100 : Ratio(x, 1) > 0 /\ Ratio(x, 2) > 0 /\ Ratio(x, 3) > 0
  BY <1>2, <1>3, <1>4, <1>6
<1>8. \A x \in 18..100 : Ratio(x, 1) > Ratio(x, 2) /\ Ratio(x, 2) > Ratio(x, 3)
                         /\ Ratio(x, 1) > Ratio(x, 3)
  BY <1>2, <1>3, <1>4, <1>6
<1>. QED BY <1>1, <1>5, <1>7, <1>8

LEMMA BandIsOrdered ==
  ASSUME NEW t \in 18..100, NEW u \in 18..100, t >= u
  PROVE  Gravity(Band(t)) >= Gravity(Band(u))
BY DEF Gravity, Band

-----------------------------------------------------------------------------
(* What a shown page holds, by TypeOK. *)
LEMMA ShownIsTyped ==
  ASSUME TypeOK, NEW v \in Vendors, page.targets[v] # Absent
  PROVE  page.targets[v] \in Target /\ page.stubs[v] \in Stub /\ scans[v] \in Scan
BY DEF TypeOK, Page, Reading

(* Tier 1 is passing every mandate and tier 3 is failing DORA, on every    *)
(* compliance page.                                                        *)
THEOREM MandatesTheorem == Spec => []TierMatchesMandates
<1>1. TypeOK => TierMatchesMandates
  BY ShownIsTyped, MandatesOfTarget DEF TierMatchesMandates, OnPage
<1>. QED BY <1>1, AssessmentTypeOK, PTL

(* Every downloaded bill of materials explains the tier of its target.     *)
THEOREM CbomTheorem == Spec => []CbomExplainsTier
<1>1. TypeOK => CbomExplainsTier
  BY ShownIsTyped, CbomOfTarget DEF CbomExplainsTier, OnPage
<1>. QED BY <1>1, AssessmentTypeOK, PTL

(* score.py and hndl.py place every retention on the same side of the      *)
(* threat window.                                                          *)
THEOREM WindowTheorem == Spec => []WindowAgrees
<1>1. TypeOK => WindowAgrees
  BY ShownIsTyped, WindowOfStub DEF WindowAgrees, OnPage, Status
<1>. QED BY <1>1, AssessmentTypeOK, PTL

(* The queue ends with what nothing can be done for, and prefers the       *)
(* smaller effort at the same risk, whatever the rounding of the ratio.    *)
THEOREM QueueTheorem == Spec => []QueueOrder
<1>1. TypeOK => QueueOrder
  <2>. SUFFICES ASSUME TypeOK, NEW v \in Vendors, NEW w \in Vendors,
                       OnPage({"queue"}, v), OnPage({"queue"}, w)
                PROVE  /\ ScoreOf(v).effort > 0 /\ ScoreOf(w).effort = 0 => QueuedBefore(v, w)
                       /\ ScoreOf(v).total = ScoreOf(w).total
                            /\ ScoreOf(v).effort \in 1..(ScoreOf(w).effort - 1)
                              => QueuedBefore(v, w)
    BY DEF QueueOrder
  <2>. DEFINE tv == ScoreOf(v).total
              tw == ScoreOf(w).total
              ev == ScoreOf(v).effort
              ew == ScoreOf(w).effort
  <2>1. tv \in 18..100 /\ ev \in 0..3 /\ ScoreOf(v).ratio = Ratio(tv, ev)
    BY ShownIsTyped, ScoreRange DEF OnPage, ScoreOf
  <2>2. tw \in 18..100 /\ ew \in 0..3 /\ ScoreOf(w).ratio = Ratio(tw, ew)
    BY ShownIsTyped, ScoreRange DEF OnPage, ScoreOf
  <2>3. /\ ev > 0 /\ ew = 0 => Ratio(tv, ev) > Ratio(tw, ew)
        /\ tv = tw /\ ev \in 1..(ew - 1) => Ratio(tv, ev) > Ratio(tw, ew)
    <3>. HIDE DEF tv, tw, ev, ew
    <3>. QED BY <2>1, <2>2, RatioIsOrdered
  <2>. QED BY <2>1, <2>2, <2>3 DEF QueuedBefore
<1>. QED BY <1>1, AssessmentTypeOK, PTL

(* No target is in a milder band than one with a lower score: the bands    *)
(* leave no gap that _band() would call moderate.                          *)
THEOREM BandsTheorem == Spec => []BandsFollowScore
<1>1. TypeOK => BandsFollowScore
  <2>. SUFFICES ASSUME TypeOK, NEW v \in Vendors, NEW w \in Vendors,
                       OnPage({"score"}, v), OnPage({"score"}, w),
                       ScoreOf(v).total >= ScoreOf(w).total
                PROVE  Gravity(ScoreOf(v).band) >= Gravity(ScoreOf(w).band)
    BY DEF BandsFollowScore
  <2>1. ScoreOf(v).total \in 18..100 /\ ScoreOf(v).band = Band(ScoreOf(v).total)
    BY ShownIsTyped, ScoreRange DEF OnPage, ScoreOf
  <2>2. ScoreOf(w).total \in 18..100 /\ ScoreOf(w).band = Band(ScoreOf(w).total)
    BY ShownIsTyped, ScoreRange DEF OnPage, ScoreOf
  <2>. QED BY <2>1, <2>2, BandIsOrdered
<1>. QED BY <1>1, AssessmentTypeOK, PTL

(* Where the scan does not contradict the CSV, the effort is the gap the   *)
(* tier has.                                                               *)
THEOREM EffortTheorem == Spec => []EffortMatchesTier
<1>1. TypeOK => EffortMatchesTier
  <2>. SUFFICES ASSUME TypeOK, NEW v \in Vendors, page.targets[v] # Absent,
                       Confirms(scans[v], page.targets[v])
                PROVE  LET t == page.targets[v] IN
                       /\ t.tier = "tier1" => ScoreOf(v).effort = 0
                       /\ t.tier = "tier2" => ScoreOf(v).effort = 2
                       /\ t.tier = "tier3" /\ t.weak_cipher = "No" => ScoreOf(v).effort > 0
                       /\ t.tls13 = "No" => ScoreOf(v).effort = 3
    BY DEF EffortMatchesTier, OnPage
  <2>. DEFINE t == page.targets[v]
              p == ScoredPosture(t, scans[v])
  <2>1. t \in Target /\ ScoreOf(v).effort = Effort(p)
    BY ShownIsTyped, ScoreRange DEF ScoreOf
  <2>2. /\ p.tls13 = (t.tls13 = "Yes")
        /\ p.pqc = (t.pqc # "No")
        /\ p.static_rsa = (t.static_rsa = "Yes")
    BY DEF Confirms
  <2>3. Effort(p) = IF t.tls13 # "Yes" THEN 3 ELSE IF t.pqc = "No" THEN 2
                    ELSE IF t.static_rsa = "Yes" THEN 1 ELSE 0
    BY <2>2 DEF Effort
  <2>4. /\ t.tls13 \in YesNo /\ t.static_rsa \in YesNo /\ t.weak_cipher \in YesNo
        /\ t.tier = "tier3" <=>
             t.static_rsa = "Yes" \/ t.weak_cipher = "Yes" \/ t.tls13 = "No"
        /\ t.tier = "tier1" <=>
             /\ t.static_rsa = "No" /\ t.weak_cipher = "No"
             /\ t.tls13 = "Yes" /\ t.pqc # "No"
    <3>. HIDE DEF t
    <3>. QED BY <2>1, TargetShape
  <2>5. Effort(p) = ScoreOf(v).effort
    BY <2>1
  <2>. HIDE DEF t, p
  <2>6. /\ t.tier = "tier1" => Effort(p) = 0
        /\ t.tier = "tier2" => Effort(p) = 2
        /\ t.tier = "tier3" /\ t.weak_cipher = "No" => Effort(p) > 0
        /\ t.tls13 = "No" => Effort(p) = 3
    BY <2>3, <2>4 DEF YesNo
  <2>. QED BY <2>5, <2>6 DEF t
<1>. QED BY <1>1, AssessmentTypeOK, PTL

LEMMA PriorityIsOrdered ==
  /\ \A c \in {1, 3, 8} :
       Round(300, c) > Round(100, c) /\ Round(100, c) > Round(0, c) /\ Round(300, c) > Round(0, c)
  /\ \A n \in {100, 300} :
       Round(n, 1) > Round(n, 3) /\ Round(n, 3) > Round(n, 8) /\ Round(n, 1) > Round(n, 8)
<1>1. Round(0, 1) = 0 /\ Round(0, 3) = 0 /\ Round(0, 8) = 0
  BY DEF Round
<1>2. Round(100, 1) = 100 /\ Round(100, 3) = 33 /\ Round(100, 8) = 12
  BY DEF Round
<1>3. Round(300, 1) = 300 /\ Round(300, 3) = 100 /\ Round(300, 8) = 38
  BY DEF Round
<1>. QED BY <1>1, <1>2, <1>3

(* The roadmap ranks what is known, the exposed before the others at the   *)
(* same cost and the cheaper at the same exposure, in spite of rounding.   *)
THEOREM RoadmapTheorem == Spec => []RoadmapOrder
<1>1. ASSUME TypeOK, NEW v \in Vendors, page.targets[v] # Absent,
             ~NeedsInput(page.targets[v], page.stubs[v])
      PROVE  /\ page.stubs[v].sensitivity # "UNCLASSIFIED"
             /\ page.stubs[v].years # Absent
             /\ page.stubs[v].cost \in {"S", "M", "L"}
             /\ RemediationCostWeight(page.stubs[v].cost) \in {1, 3, 8}
             /\ StatusWeight(Status(v)) \in {0, 1, 3}
  <2>1. Status(v) # "UNCLASSIFIED" /\ RemediationCostWeight(page.stubs[v].cost) # Absent
    BY <1>1 DEF NeedsInput, Status
  <2>2. page.stubs[v].cost \in {"S", "M", "L"}
    BY <2>1 DEF RemediationCostWeight
  <2>3. page.stubs[v].sensitivity # "UNCLASSIFIED" /\ page.stubs[v].years # Absent
    BY <2>1 DEF Status, ExposureStatus
  <2>4. RemediationCostWeight(page.stubs[v].cost) \in {1, 3, 8}
    BY <2>2 DEF RemediationCostWeight
  <2>5. StatusWeight(Status(v)) \in {0, 1, 3}
    BY DEF StatusWeight
  <2>. QED BY <2>2, <2>3, <2>4, <2>5
<1>2. ASSUME TypeOK, NEW v \in Vendors, NEW w \in Vendors,
             page.targets[v] # Absent, page.targets[w] # Absent,
             ~NeedsInput(page.targets[v], page.stubs[v]),
             ~NeedsInput(page.targets[w], page.stubs[w])
      PROVE  LET cost(x) == RemediationCostWeight(page.stubs[x].cost)
                 weight(x) == StatusWeight(Status(x))
             IN  /\ cost(v) = cost(w) /\ weight(v) > weight(w) => RankedBefore(v, w)
                 /\ weight(v) = weight(w) /\ weight(v) > 0 /\ cost(v) < cost(w)
                      => RankedBefore(v, w)
  <2>. DEFINE cost(x) == RemediationCostWeight(page.stubs[x].cost)
              weight(x) == StatusWeight(Status(x))
  <2>1. cost(v) \in {1, 3, 8} /\ cost(w) \in {1, 3, 8}
        /\ weight(v) \in {0, 1, 3} /\ weight(w) \in {0, 1, 3}
    BY <1>1, <1>2
  <2>2. RankedBefore(v, w) <=> Round(100 * weight(v), cost(v)) > Round(100 * weight(w), cost(w))
    BY DEF RankedBefore, Priority, Status
  <2>3. \A c, d \in {1, 3, 8}, x, y \in {0, 1, 3} :
          /\ c = d /\ x > y => Round(100 * x, c) > Round(100 * y, d)
          /\ x = y /\ x > 0 /\ c < d => Round(100 * x, c) > Round(100 * y, d)
    <3>. SUFFICES ASSUME NEW c \in {1, 3, 8}, NEW d \in {1, 3, 8},
                         NEW x \in {0, 1, 3}, NEW y \in {0, 1, 3}
                  PROVE  /\ c = d /\ x > y => Round(100 * x, c) > Round(100 * y, d)
                         /\ x = y /\ x > 0 /\ c < d => Round(100 * x, c) > Round(100 * y, d)
      OBVIOUS
    <3>1. 100 * 0 = 0 /\ 100 * 1 = 100 /\ 100 * 3 = 300
      OBVIOUS
    <3>2. CASE c = d /\ x > y
      <4>1. <<x, y>> \in {<<1, 0>>, <<3, 0>>, <<3, 1>>}
        BY <3>2
      <4>. QED BY <3>1, <3>2, <4>1, PriorityIsOrdered
    <3>3. CASE x = y /\ x > 0 /\ c < d
      <4>1. <<c, d>> \in {<<1, 3>>, <<1, 8>>, <<3, 8>>} /\ x \in {1, 3}
        BY <3>3
      <4>. QED BY <3>1, <3>3, <4>1, PriorityIsOrdered
    <3>. QED BY <3>2, <3>3
  <2>. HIDE DEF cost, weight
  <2>4. /\ cost(v) = cost(w) /\ weight(v) > weight(w) => RankedBefore(v, w)
        /\ weight(v) = weight(w) /\ weight(v) > 0 /\ cost(v) < cost(w) => RankedBefore(v, w)
    BY <2>1, <2>2, <2>3
  <2>. QED BY <2>4 DEF cost, weight
<1>3. TypeOK => RoadmapOrder
  BY <1>1, <1>2 DEF RoadmapOrder, OnPage, Prioritized, Listed
<1>. QED BY <1>3, AssessmentTypeOK, PTL

-----------------------------------------------------------------------------
(* What a page has read, and when: only a request without a table of its   *)
(* own leaves the targets unread, only gen_tprm_rows.py and the bill of    *)
(* materials leave the cards unread, and until somebody edits the file     *)
(* what was read of it is what is in it.                                   *)
ReadingsInv ==
  /\ page.route \in Bare => page.at \in {"targets", "shown"}
  /\ page.route \notin OwnTable => page.at \in {"context", "shown"}
  /\ page.steady =>
       /\ page.route \in OwnTable /\ page.at # "targets" =>
            page.targets = LoadTargets(vendors)
       /\ page.route \notin Bare /\ page.at = "shown" =>
            page.context = LoadTargets(vendors)

LEMMA InitReadingsInv == Init => ReadingsInv
BY DEF Init, ReadingsInv, Bare, OwnTable

LEMMA StepReadingsInv == TypeOK /\ ReadingsInv /\ [Next]_vars => ReadingsInv'
<1>. SUFFICES ASSUME TypeOK, ReadingsInv, [Next]_vars PROVE ReadingsInv'
  OBVIOUS
<1>. USE DEF TypeOK, Page, ReadingsInv
<1>1. ASSUME NEW route \in Routes, Request(route) PROVE ReadingsInv'
  BY <1>1 DEF Request, OwnTable, Bare
<1>2. CASE ReadTargets
  <2>1. /\ vendors' = vendors /\ page.at = "targets" /\ page.route \in OwnTable
        /\ page'.route = page.route
        /\ page'.targets = LoadTargets(vendors)
        /\ page'.at = "shown" <=> page.route \in Bare
        /\ page'.at = "inputs" => page.route \notin Bare
        /\ page'.at \in {"inputs", "shown", "context"}
    BY <1>2, ReadingOfVendors DEF ReadTargets, Joined, Bare
  <2>2. LoadTargets(vendors)' = LoadTargets(vendors)
    BY <2>1 DEF LoadTargets
  <2>. QED BY <2>1, <2>2
<1>3. CASE ReadInputs
  <2>1. /\ vendors' = vendors /\ page.at = "inputs" /\ page'.at = "context"
        /\ page'.route = page.route /\ page'.targets = page.targets
        /\ page'.steady = page.steady
    BY <1>3 DEF ReadInputs
  <2>2. LoadTargets(vendors)' = LoadTargets(vendors)
    BY <2>1 DEF LoadTargets
  <2>. QED BY <2>1, <2>2
<1>4. CASE ReadContext
  <2>1. /\ vendors' = vendors /\ page.at = "context" /\ page'.at = "shown"
        /\ page'.route = page.route /\ page'.targets = page.targets
        /\ page'.steady = page.steady /\ page'.context = LoadTargets(vendors)
    BY <1>4 DEF ReadContext
  <2>2. LoadTargets(vendors)' = LoadTargets(vendors)
    BY <2>1 DEF LoadTargets
  <2>. QED BY <2>1, <2>2
<1>5. ASSUME Edited PROVE ReadingsInv'
  BY <1>5 DEF Edited
<1>6. CASE UNCHANGED vars
  BY <1>6 DEF vars, LoadTargets
<1>. QED BY <1>1, <1>2, <1>3, <1>4, <1>5, <1>6 DEF Next, EditVendor, EditInput

LEMMA ReadingsInvariance == Spec => [](TypeOK /\ ReadingsInv)
<1>. QED BY InitReadingsInv, StepReadingsInv, AssessmentTypeOK, PTL DEF Spec

(* gen_tprm_rows.py writes what the pages show of the same file.           *)
THEOREM GeneratedTheorem == Spec => []GeneratedRowsAgree
<1>1. ReadingsInv => GeneratedRowsAgree
  BY DEF ReadingsInv, GeneratedRowsAgree, OwnTable
<1>. QED BY <1>1, ReadingsInvariance, PTL

-----------------------------------------------------------------------------
(* The cards. *)
LEMMA ProductIsMonotone ==
  ASSUME NEW d \in Nat, NEW a \in Int, NEW b \in Int, a <= b
  PROVE  d * a <= d * b
<1>. DEFINE c == b - a
<1>1. c \in Nat /\ b = a + c
  OBVIOUS
<1>. HIDE DEF c
<1>2. d * c \in Nat
  BY <1>1
<1>3. d * (a + c) = d * a + d * c
  BY <1>1
<1>. QED BY <1>1, <1>2, <1>3

LEMMA RoundParts ==
  ASSUME NEW n \in Nat, NEW d \in Nat \ {0}
  PROVE  \E q \in Nat, r \in 0..(d - 1) :
           /\ n = d * q + r
           /\ Round(n, d) \in {q, q + 1}
           /\ Round(n, d) = q => 2 * r <= d
           /\ Round(n, d) = q + 1 => 2 * r >= d
<1>. DEFINE q == n \div d
            r == n % d
<1>1. q \in Nat /\ r \in 0..(d - 1) /\ n = d * q + r
  OBVIOUS
<1>2. Round(n, d) = IF 2 * r > d \/ (2 * r = d /\ q % 2 = 1) THEN q + 1 ELSE q
  BY DEF Round
<1>. HIDE DEF q, r
<1>3. Round(n, d) \in {q, q + 1}
  BY <1>2
<1>4. Round(n, d) = q => 2 * r <= d
  BY <1>1, <1>2
<1>5. Round(n, d) = q + 1 => 2 * r >= d
  BY <1>1, <1>2
<1>. QED BY <1>1, <1>3, <1>4, <1>5

(* A quotient between two numbers is rounded to a number between them, and *)
(* moved by half of the divisor at most.                                   *)
LEMMA RoundBetween ==
  ASSUME NEW n \in Nat, NEW d \in Nat \ {0}, NEW lo \in Nat, NEW hi \in Nat,
         d * lo <= n, n <= d * hi
  PROVE  Round(n, d) \in lo..hi
<1>1. PICK q \in Nat, r \in 0..(d - 1) :
        /\ n = d * q + r
        /\ Round(n, d) \in {q, q + 1}
        /\ Round(n, d) = q => 2 * r <= d
        /\ Round(n, d) = q + 1 => 2 * r >= d
  BY RoundParts
<1>. DEFINE dq == d * q
<1>2. dq \in Nat /\ n = dq + r /\ d * (q + 1) = dq + d
  BY <1>1
<1>3. lo <= q
  <2>1. SUFFICES ASSUME q + 1 <= lo PROVE FALSE
    OBVIOUS
  <2>2. d * (q + 1) <= d * lo
    BY <2>1, ProductIsMonotone
  <2>. HIDE DEF dq
  <2>3. d * (q + 1) > n
    BY <1>2
  <2>4. d * (q + 1) \in Nat /\ d * lo \in Nat
    OBVIOUS
  <2>. QED BY <2>2, <2>3, <2>4
<1>4. q <= hi
  <2>1. SUFFICES ASSUME hi + 1 <= q PROVE FALSE
    OBVIOUS
  <2>2. d * (hi + 1) <= dq
    BY <2>1, ProductIsMonotone
  <2>3. d * (hi + 1) = d * hi + d /\ d * hi \in Nat
    OBVIOUS
  <2>. HIDE DEF dq
  <2>. QED BY <1>2, <2>2, <2>3
<1>5. q = hi => Round(n, d) = q
  <2>1. SUFFICES ASSUME q = hi PROVE r = 0
    BY <1>1
  <2>2. n <= dq /\ dq \in Nat /\ n = dq + r
    BY <1>2, <2>1
  <2>. HIDE DEF dq
  <2>. QED BY <2>2
<1>. QED BY <1>1, <1>3, <1>4, <1>5

LEMMA RoundIsNear ==
  ASSUME NEW n \in Nat, NEW d \in Nat \ {0}
  PROVE  2 * (d * Round(n, d)) <= 2 * n + d
<1>1. PICK q \in Nat, r \in 0..(d - 1) :
        /\ n = d * q + r
        /\ Round(n, d) \in {q, q + 1}
        /\ Round(n, d) = q => 2 * r <= d
        /\ Round(n, d) = q + 1 => 2 * r >= d
  BY RoundParts
<1>. DEFINE dq == d * q
<1>2. dq \in Nat /\ n = dq + r /\ d * (q + 1) = dq + d
  BY <1>1
<1>3. CASE Round(n, d) = q
  <2>1. d * Round(n, d) = dq
    BY <1>3
  <2>. HIDE DEF dq
  <2>. QED BY <1>2, <2>1
<1>4. CASE Round(n, d) = q + 1
  <2>1. d * Round(n, d) = dq + d /\ 2 * r >= d
    BY <1>1, <1>2, <1>4
  <2>. HIDE DEF dq
  <2>. QED BY <1>2, <2>1
<1>. QED BY <1>1, <1>3, <1>4

(* What the card of the readiness says of its numbers. *)
LEMMA ReadyShare ==
  ASSUME NEW n \in Nat, NEW part \in Nat, part <= n
  PROVE  LET pct == IF n = 0 THEN 0 ELSE Round(100 * part, n)
         IN  /\ pct \in 0..100
             /\ pct = 100 /\ n < 200 => part = n
             /\ part = n /\ n > 0 => pct = 100
<1>1. CASE n = 0
  BY <1>1
<1>2. CASE n # 0
  <2>. DEFINE R == Round(100 * part, n)
  <2>1. n * 0 = 0 /\ 100 * part \in Nat /\ 100 * part <= n * 100
    OBVIOUS
  <2>2. R \in 0..100
    <3>. DEFINE m == 100 * part
    <3>1. m \in Nat /\ n \in Nat \ {0} /\ n * 0 <= m /\ m <= n * 100
      BY <1>2, <2>1
    <3>. HIDE DEF m
    <3>2. Round(m, n) \in 0..100
      BY <3>1, RoundBetween
    <3>. QED BY <3>2 DEF m
  <2>3. 2 * (n * R) <= 2 * (100 * part) + n
    BY <1>2, <2>1, RoundIsNear
  <2>4. part = n => R = 100
    <3>1. SUFFICES ASSUME part = n PROVE R = 100
      OBVIOUS
    <3>2. n * 100 <= 100 * part
      BY <3>1
    <3>3. R \in 100..100
      BY <1>2, <2>1, <3>2, RoundBetween
    <3>. QED BY <3>3
  <2>. HIDE DEF R
  <2>5. R = 100 /\ n < 200 => part = n
    BY <2>3
  <2>. QED BY <1>2, <2>2, <2>4, <2>5 DEF R
<1>. QED BY <1>1, <1>2

(* The targets of a reading are finitely many, and each has a tier. *)
LEMMA ListedIsFinite ==
  ASSUME NEW r \in Reading
  PROVE  /\ IsFiniteSet(Listed(r)) /\ Cardinality(Listed(r)) \in Nat
         /\ \A v \in Listed(r) : v \in Vendors /\ r[v] \in Target
<1>1. IsFiniteSet(Vendors) /\ Listed(r) \subseteq Vendors
  BY AssessmentAssumption DEF Listed
<1>2. \A v \in Listed(r) : v \in Vendors /\ r[v] \in Target
  BY DEF Listed, Reading
<1>. QED BY <1>1, <1>2, FS_Subset, FS_CardinalityType

Parts(S, f, c) == {v \in S : f[v] = c}

(* Counting by a column of three values loses nothing. *)
LEMMA PartsAddUp ==
  ASSUME NEW S, IsFiniteSet(S), NEW f, NEW a, NEW b, NEW c,
         a # b, a # c, b # c, \A v \in S : f[v] \in {a, b, c}
  PROVE  /\ Cardinality(Parts(S, f, a)) \in Nat
         /\ Cardinality(Parts(S, f, b)) \in Nat
         /\ Cardinality(Parts(S, f, c)) \in Nat
         /\ Cardinality(Parts(S, f, a)) + Cardinality(Parts(S, f, b))
              + Cardinality(Parts(S, f, c)) = Cardinality(S)
<1>. DEFINE A == Parts(S, f, a)
            B == Parts(S, f, b)
            C == Parts(S, f, c)
<1>1. S = A \cup B \cup C /\ A \cap B = {} /\ A \cap C = {} /\ B \cap C = {}
  BY DEF Parts
<1>. HIDE DEF A, B, C
<1>2. Cardinality(A) \in Nat /\ Cardinality(B) \in Nat /\ Cardinality(C) \in Nat
  <2>1. IsFiniteSet(A) /\ IsFiniteSet(B) /\ IsFiniteSet(C)
    BY <1>1, FS_Subset
  <2>. QED BY <2>1, FS_CardinalityType
<1>3. Cardinality(A) + Cardinality(B) + Cardinality(C) = Cardinality(S)
  BY <1>1, ThreeParts
<1>. QED BY <1>2, <1>3 DEF A, B, C

LEMMA TiersAddUp ==
  ASSUME NEW r \in Reading
  PROVE  LET qvi == QviSummary(r)
         IN  /\ qvi.tier1 \in Nat /\ qvi.tier2 \in Nat /\ qvi.tier3 \in Nat
             /\ qvi.tier1 + qvi.tier2 + qvi.tier3 = qvi.total
             /\ qvi.ready_pct \in 0..100
             /\ qvi.ready_pct = 100 /\ qvi.total < 200 => qvi.tier1 = qvi.total
             /\ qvi.tier1 = qvi.total /\ qvi.total > 0 => qvi.ready_pct = 100
<1>. DEFINE S == Listed(r)
            f == [v \in S |-> r[v].tier]
            n == Cardinality(S)
            one == Cardinality({v \in S : r[v].tier = "tier1"})
            two == Cardinality({v \in S : r[v].tier = "tier2"})
            three == Cardinality({v \in S : r[v].tier = "tier3"})
            pct == IF n = 0 THEN 0 ELSE Round(100 * one, n)
<1>1. QviSummary(r) = [total |-> n, tier1 |-> one, tier2 |-> two, tier3 |-> three,
                       ready_pct |-> pct]
  BY DEF QviSummary
<1>2. IsFiniteSet(S) /\ n \in Nat /\ \A v \in S : f[v] \in {"tier1", "tier2", "tier3"}
  BY ListedIsFinite, TargetShape
<1>3. \A c : Parts(S, f, c) = {v \in S : r[v].tier = c}
  BY DEF Parts
<1>4. one \in Nat /\ two \in Nat /\ three \in Nat /\ one + two + three = n
  <2>. HIDE DEF S, f
  <2>1. "tier1" # "tier2" /\ "tier1" # "tier3" /\ "tier2" # "tier3"
    OBVIOUS
  <2>2. /\ Cardinality(Parts(S, f, "tier1")) \in Nat
        /\ Cardinality(Parts(S, f, "tier2")) \in Nat
        /\ Cardinality(Parts(S, f, "tier3")) \in Nat
        /\ Cardinality(Parts(S, f, "tier1")) + Cardinality(Parts(S, f, "tier2"))
             + Cardinality(Parts(S, f, "tier3")) = Cardinality(S)
    BY <1>2, <2>1, PartsAddUp
  <2>. QED BY <1>3, <2>2
<1>5. /\ pct \in 0..100
      /\ pct = 100 /\ n < 200 => one = n
      /\ one = n /\ n > 0 => pct = 100
  <2>. HIDE DEF n, one, two, three
  <2>1. one <= n
    BY <1>2, <1>4
  <2>. QED BY <1>2, <1>4, <2>1, ReadyShare
<1>. HIDE DEF n, one, two, three, pct
<1>. QED BY <1>1, <1>4, <1>5

LEMMA MandatesAddUp ==
  ASSUME NEW r \in Reading
  PROVE  LET qvi == QviSummary(r)
             mandates == ComplianceSummary(r)
         IN  /\ mandates["eu_dora"].fail = qvi.tier3
             /\ \A m \in DOMAIN mandates :
                  /\ mandates[m].pass >= qvi.tier1
                  /\ mandates[m].pass + mandates[m].fail = qvi.total
<1>. DEFINE S == Listed(r)
            M == {"fips203", "rbi_qsafe", "eu_dora"}
            pass(m) == {v \in S : m \in Passed(r[v])}
            fail(m) == {v \in S : m \notin Passed(r[v])}
            first == {v \in S : r[v].tier = "tier1"}
            third == {v \in S : r[v].tier = "tier3"}
            qvi == QviSummary(r)
            mandates == ComplianceSummary(r)
<1>1. /\ qvi.total = Cardinality(S) /\ qvi.tier1 = Cardinality(first)
      /\ qvi.tier3 = Cardinality(third)
  BY DEF QviSummary
<1>2. mandates = [m \in M |-> [pass |-> Cardinality(pass(m)), fail |-> Cardinality(fail(m))]]
  BY DEF ComplianceSummary
<1>3. /\ DOMAIN mandates = M
      /\ \A m \in M : /\ mandates[m].pass = Cardinality(pass(m))
                      /\ mandates[m].fail = Cardinality(fail(m))
  <2>. HIDE DEF mandates, pass, fail
  <2>. QED BY <1>2
<1>4. IsFiniteSet(S) /\ Cardinality(S) \in Nat /\ \A v \in S : r[v] \in Target
  BY ListedIsFinite
<1>5. fail("eu_dora") = third
  BY <1>4, MandatesOfTarget
<1>6. ASSUME NEW m \in M
      PROVE  /\ Cardinality(pass(m)) >= Cardinality(first)
             /\ Cardinality(pass(m)) + Cardinality(fail(m)) = Cardinality(S)
  <2>. DEFINE P == pass(m)
  <2>1. P \in SUBSET S /\ S \ P = fail(m) /\ first \in SUBSET P
    BY <1>4, MandatesOfTarget
  <2>. HIDE DEF P, fail, first, S
  <2>2. /\ IsFiniteSet(P) /\ Cardinality(P) \in Nat
        /\ Cardinality(S \ P) = Cardinality(S) - Cardinality(P)
    BY <1>4, <2>1, TwoParts
  <2>3. Cardinality(first) <= Cardinality(P) /\ Cardinality(first) \in Nat
    BY <2>1, <2>2, TwoParts
  <2>4. Cardinality(P) + Cardinality(fail(m)) = Cardinality(S)
    <3>1. Cardinality(fail(m)) = Cardinality(S) - Cardinality(P) /\ Cardinality(S) \in Nat
      BY <1>4, <2>1, <2>2
    <3>. QED BY <2>2, <3>1
  <2>5. Cardinality(P) >= Cardinality(first)
    BY <2>2, <2>3
  <2>. QED BY <2>4, <2>5 DEF P
<1>. HIDE DEF S, pass, fail, first, third, qvi, mandates
<1>7. mandates["eu_dora"].fail = qvi.tier3
  BY <1>1, <1>3, <1>5
<1>8. \A m \in DOMAIN mandates :
        /\ mandates[m].pass >= qvi.tier1
        /\ mandates[m].pass + mandates[m].fail = qvi.total
  BY <1>1, <1>3, <1>6
<1>. QED BY <1>7, <1>8 DEF qvi, mandates

(* Only what is not tier 1 can be exposed. *)
LEMMA ExposureAddsUp ==
  ASSUME TypeOK
  PROVE  LET qvi == QviSummary(page.targets)
         IN  /\ ExposureSummary.exposed <= qvi.tier2 + qvi.tier3
             /\ ExposureSummary.exposed + ExposureSummary.unclassified <= qvi.total
<1>. DEFINE r == page.targets
            S == Listed(r)
            E == {v \in S : Status(v) = "EXPOSED"}
            U == {v \in S : Status(v) = "UNCLASSIFIED"}
            first == {v \in S : r[v].tier = "tier1"}
            qvi == QviSummary(r)
<1>1. r \in Reading
  BY DEF TypeOK, Page
<1>2. IsFiniteSet(S) /\ Cardinality(S) \in Nat
  BY <1>1, ListedIsFinite
<1>3. /\ qvi.tier1 = Cardinality(first) /\ qvi.total = Cardinality(S)
      /\ ExposureSummary.exposed = Cardinality(E)
      /\ ExposureSummary.unclassified = Cardinality(U)
  BY DEF QviSummary, ExposureSummary
<1>4. /\ qvi.tier1 \in Nat /\ qvi.tier2 \in Nat /\ qvi.tier3 \in Nat
      /\ qvi.tier1 + qvi.tier2 + qvi.tier3 = qvi.total
  <2>. HIDE DEF r
  <2>. QED BY <1>1, TiersAddUp
<1>5. \A v \in S : Status(v) = "EXPOSED" => r[v].tier # "tier1"
  BY DEF Status, ExposureStatus
<1>6. /\ E \in SUBSET S /\ first \in SUBSET S
      /\ E \in SUBSET (S \ first) /\ U \in SUBSET (S \ E)
  BY <1>5
<1>. HIDE DEF r, S, E, U, first, qvi
<1>7. /\ IsFiniteSet(S \ first) /\ IsFiniteSet(S \ E)
      /\ Cardinality(S \ first) = Cardinality(S) - Cardinality(first)
      /\ Cardinality(S \ E) = Cardinality(S) - Cardinality(E)
      /\ Cardinality(E) \in Nat /\ Cardinality(first) \in Nat
  <2>1. IsFiniteSet(S \ first) /\ IsFiniteSet(S \ E)
    BY <1>2, FS_Difference
  <2>. QED BY <1>2, <1>6, <2>1, TwoParts
<1>8. /\ Cardinality(E) <= Cardinality(S \ first)
      /\ Cardinality(U) <= Cardinality(S \ E) /\ Cardinality(U) \in Nat
  BY <1>6, <1>7, TwoParts
<1>. QED BY <1>2, <1>3, <1>4, <1>7, <1>8 DEF qvi, r

-----------------------------------------------------------------------------
(* The header of the score page. *)
LEMMA PostureOfScore ==
  ASSUME NEW t, NEW scan \in Scan, NEW stub
  PROVE  LET s == Scored(t, scan, stub)
         IN  s.effort \in 0..3 /\ (s.effort = 0 => s.posture.pqc /\ ~s.posture.static_rsa)
<1>. DEFINE p == ScoredPosture(t, scan)
<1>1. Scored(t, scan, stub).effort = Effort(p) /\ Scored(t, scan, stub).posture = p
  BY DEF Scored
<1>2. p.tls13 \in BOOLEAN /\ p.pqc \in BOOLEAN /\ p.static_rsa \in BOOLEAN
  BY DEF ScoredPosture, Measured, Scan, _yes
<1>. HIDE DEF p
<1>3. Effort(p) \in 0..3 /\ (Effort(p) = 0 => p.pqc /\ ~p.static_rsa)
  BY <1>2 DEF Effort
<1>. QED BY <1>1, <1>3

LEMMA BandIsOneOfThree ==
  ASSUME NEW total
  PROVE  Band(total) \in {"critical", "high", "moderate"}
BY DEF Band

(* The rounded mean lies between the extremes. *)
LEMMA MeanBetween ==
  ASSUME NEW S, IsFiniteSet(S), NEW f \in [S -> 18..100]
  PROVE  LET totals == {f[v] : v \in S}
             avg == Round(SumFunction(f), IF S = {} THEN 1 ELSE Cardinality(S))
             min == IF S = {} THEN 0 ELSE Min(totals)
             max == IF S = {} THEN 0 ELSE Max(totals)
         IN  min <= avg /\ avg <= max
<1>. DEFINE totals == {f[v] : v \in S}
            sum == SumFunction(f)
            n == Cardinality(S)
<1>1. f \in [S -> Nat] /\ n \in Nat
  <2>1. f \in [S -> Nat]
    OBVIOUS
  <2>. QED BY <2>1, FS_CardinalityType
<1>2. CASE S = {}
  <2>1. sum \in Nat /\ n * 0 <= sum /\ sum <= n * 0
    BY <1>1, <1>2, SumBounds
  <2>2. sum = 0
    <3>. HIDE DEF sum, n
    <3>. QED BY <1>1, <2>1
  <2>3. Round(0, 1) = 0
    BY DEF Round
  <2>. QED BY <1>2, <2>2, <2>3
<1>3. CASE S # {}
  <2>1. n \in Nat \ {0}
    BY <1>1, <1>3, FS_EmptySet
  <2>2. totals \in SUBSET Nat /\ totals # {} /\ IsFiniteSet(totals)
    <3>1. totals \subseteq 18..100 /\ totals # {}
      BY <1>3
    <3>2. IsFiniteSet(18..100)
      <4>1. 18 \in Int /\ 100 \in Int
        OBVIOUS
      <4>. QED BY <4>1, FS_Interval
    <3>. QED BY <3>1, <3>2, FS_Subset
  <2>3. \A v \in S : f[v] \in totals
    OBVIOUS
  <2>. DEFINE lo == Min(totals)
              hi == Max(totals)
  <2>4. lo \in Nat /\ hi \in Nat /\ \A v \in S : lo <= f[v] /\ f[v] <= hi
    <3>. HIDE DEF totals
    <3>. QED BY <2>2, <2>3, MinMax
  <2>. HIDE DEF lo, hi, totals
  <2>5. sum \in Nat /\ n * lo <= sum /\ sum <= n * hi
    BY <1>1, <2>4, SumBounds
  <2>. HIDE DEF sum, n
  <2>6. Round(sum, n) \in lo..hi
    BY <2>1, <2>4, <2>5, RoundBetween
  <2>7. lo <= Round(sum, n) /\ Round(sum, n) <= hi
    BY <2>6
  <2>. QED BY <1>3, <2>7 DEF lo, hi, totals, sum, n
<1>. QED BY <1>2, <1>3

LEMMA ScoresAddUp ==
  ASSUME TypeOK
  PROVE  LET score == ScoreSummary
         IN  /\ score.n = Cardinality(Listed(page.targets))
             /\ score.bands["critical"] + score.bands["high"] + score.bands["moderate"] = score.n
             /\ score.min <= score.avg /\ score.avg <= score.max
             /\ score.no_action <= score.pq_ready
             /\ score.no_action + score.static_rsa <= score.n
<1>. DEFINE S == Listed(page.targets)
            n == Cardinality(S)
            score == ScoreSummary
            f == [v \in S |-> ScoreOf(v).total]
            band == [v \in S |-> ScoreOf(v).band]
            totals == {f[v] : v \in S}
            W == {v \in S : ScoreOf(v).effort > 0}
            P == {v \in S : ScoreOf(v).posture.pqc}
            R == {v \in S : ScoreOf(v).posture.static_rsa}
<1>1. page.targets \in Reading
  BY DEF TypeOK, Page
<1>2. IsFiniteSet(S) /\ n \in Nat
  BY <1>1, ListedIsFinite
<1>3. \A v \in S : /\ scans[v] \in Scan /\ page.stubs[v] \in Stub
  BY DEF TypeOK, Page, Listed
<1>4. /\ score.n = n
      /\ score.bands["critical"] = Cardinality(Parts(S, band, "critical"))
      /\ score.bands["high"] = Cardinality(Parts(S, band, "high"))
      /\ score.bands["moderate"] = Cardinality(Parts(S, band, "moderate"))
  BY DEF ScoreSummary, Parts
<1>5. /\ score.avg = Round(SumFunction(f), IF S = {} THEN 1 ELSE n)
      /\ score.min = IF S = {} THEN 0 ELSE Min(totals)
      /\ score.max = IF S = {} THEN 0 ELSE Max(totals)
  BY DEF ScoreSummary
<1>6. /\ score.no_action = n - Cardinality(W)
      /\ score.pq_ready = Cardinality(P) /\ score.static_rsa = Cardinality(R)
  BY DEF ScoreSummary
<1>7. score.bands["critical"] + score.bands["high"] + score.bands["moderate"] = n
  <2>1. \A v \in S : band[v] \in {"critical", "high", "moderate"}
    <3>1. \A v \in S : ScoreOf(v).band = Band(ScoreOf(v).total)
      BY <1>3, ScoreRange DEF ScoreOf
    <3>. QED BY <3>1, BandIsOneOfThree
  <2>2. "critical" # "high" /\ "critical" # "moderate" /\ "high" # "moderate"
    OBVIOUS
  <2>. HIDE DEF band, S
  <2>3. Cardinality(Parts(S, band, "critical")) + Cardinality(Parts(S, band, "high"))
          + Cardinality(Parts(S, band, "moderate")) = Cardinality(S)
    BY <1>2, <2>1, <2>2, PartsAddUp
  <2>. QED BY <1>4, <2>3
<1>8. score.min <= score.avg /\ score.avg <= score.max
  <2>1. f \in [S -> 18..100]
    BY <1>3, ScoreRange DEF ScoreOf
  <2>. HIDE DEF f, S, score
  <2>. QED BY <1>2, <1>5, <2>1, MeanBetween
<1>9. \A v \in S : v \notin W => v \in P /\ v \notin R
  BY <1>3, PostureOfScore DEF ScoreOf
<1>10. score.no_action <= score.pq_ready /\ score.no_action + score.static_rsa <= n
  <2>1. W \in SUBSET S /\ P \in SUBSET S /\ S \ W \in SUBSET P /\ R \in SUBSET W
    BY <1>9
  <2>. HIDE DEF S, W, P, R
  <2>2. /\ IsFiniteSet(W) /\ IsFiniteSet(P) /\ Cardinality(W) \in Nat /\ Cardinality(P) \in Nat
        /\ Cardinality(S \ W) = Cardinality(S) - Cardinality(W)
    BY <1>2, <2>1, TwoParts
  <2>3. Cardinality(S \ W) <= Cardinality(P)
    BY <2>1, <2>2, TwoParts
  <2>4. Cardinality(R) <= Cardinality(W) /\ Cardinality(R) \in Nat
    BY <2>1, <2>2, TwoParts
  <2>. HIDE DEF score
  <2>5. n = Cardinality(S)
    OBVIOUS
  <2>. HIDE DEF n
  <2>. QED BY <1>2, <1>6, <2>2, <2>3, <2>4, <2>5
<1>. HIDE DEF score
<1>. QED BY <1>4, <1>7, <1>8, <1>10 DEF score

(* The two readings of a page are one until somebody edits the files, and  *)
(* the cards of a reading add up with the tables made of it.               *)
THEOREM CardsTheorem == Spec => []CardsAgree
<1>1. TypeOK /\ ReadingsInv => CardsAgree
  <2>. SUFFICES ASSUME TypeOK, ReadingsInv, page.at = "shown", page.steady,
                       page.route \notin Bare
                PROVE  LET qvi == QviSummary(page.context)
                           mandates == ComplianceSummary(page.targets)
                           score == ScoreSummary
                       IN  /\ qvi.tier1 + qvi.tier2 + qvi.tier3 = qvi.total
                           /\ qvi.ready_pct \in 0..100
                           /\ qvi.ready_pct = 100 /\ qvi.total < 200 => qvi.tier1 = qvi.total
                           /\ qvi.tier1 = qvi.total /\ qvi.total > 0 => qvi.ready_pct = 100
                           /\ page.route = "compliance" =>
                                /\ mandates["eu_dora"].fail = qvi.tier3
                                /\ \A m \in DOMAIN mandates :
                                     /\ mandates[m].pass >= qvi.tier1
                                     /\ mandates[m].pass + mandates[m].fail = qvi.total
                           /\ page.route = "hndl" =>
                                ExposureSummary.exposed <= qvi.tier2 + qvi.tier3
                                  /\ ExposureSummary.exposed + ExposureSummary.unclassified
                                       <= qvi.total
                           /\ page.route \in {"score", "queue"} =>
                                /\ score.n = qvi.total
                                /\ score.bands["critical"] + score.bands["high"]
                                     + score.bands["moderate"] = score.n
                                /\ score.min <= score.avg /\ score.avg <= score.max
                                /\ score.no_action <= score.pq_ready
                                /\ score.no_action + score.static_rsa <= score.n
    BY Zenon DEF CardsAgree
  <2>. DEFINE r == page.targets
              qvi == QviSummary(page.context)
              mandates == ComplianceSummary(r)
              score == ScoreSummary
  <2>1. r \in Reading /\ page.context \in Reading
    BY DEF TypeOK, Page
  <2>2. page.route \in OwnTable => page.context = r
    BY DEF ReadingsInv
  <2>3. /\ qvi.tier1 + qvi.tier2 + qvi.tier3 = qvi.total
        /\ qvi.ready_pct \in 0..100
        /\ qvi.ready_pct = 100 /\ qvi.total < 200 => qvi.tier1 = qvi.total
        /\ qvi.tier1 = qvi.total /\ qvi.total > 0 => qvi.ready_pct = 100
    BY <2>1, TiersAddUp
  <2>4. ASSUME page.route = "compliance"
        PROVE  /\ mandates["eu_dora"].fail = qvi.tier3
               /\ \A m \in DOMAIN mandates :
                    /\ mandates[m].pass >= qvi.tier1
                    /\ mandates[m].pass + mandates[m].fail = qvi.total
    <3>1. qvi = QviSummary(r)
      BY <2>2, <2>4 DEF OwnTable
    <3>. HIDE DEF r
    <3>. QED BY <2>1, <3>1, MandatesAddUp
  <2>5. ASSUME page.route = "hndl"
        PROVE  /\ ExposureSummary.exposed <= qvi.tier2 + qvi.tier3
               /\ ExposureSummary.exposed + ExposureSummary.unclassified <= qvi.total
    <3>1. qvi = QviSummary(page.targets)
      BY <2>2, <2>5 DEF OwnTable
    <3>. QED BY <3>1, ExposureAddsUp
  <2>6. ASSUME page.route \in {"score", "queue"}
        PROVE  /\ score.n = qvi.total
               /\ score.bands["critical"] + score.bands["high"] + score.bands["moderate"] = score.n
               /\ score.min <= score.avg /\ score.avg <= score.max
               /\ score.no_action <= score.pq_ready
               /\ score.no_action + score.static_rsa <= score.n
    <3>1. qvi = QviSummary(page.targets)
      BY <2>2, <2>6 DEF OwnTable
    <3>2. qvi.total = Cardinality(Listed(page.targets))
      BY <3>1 DEF QviSummary
    <3>. HIDE DEF qvi
    <3>. QED BY <3>2, ScoresAddUp
  <2>. HIDE DEF qvi, mandates, score
  <2>. QED BY <2>3, <2>4, <2>5, <2>6, Zenon DEF qvi, mandates, score, r
<1>. QED BY <1>1, ReadingsInvariance, PTL

-----------------------------------------------------------------------------
(* An edit that can only help. *)
LEMMA HelpKeepsTier ==
  ASSUME NEW old \in Row, NEW new \in Row, Helps(old, new)
  PROVE  /\ DeriveTier(old) = "tier1" => DeriveTier(new) = "tier1"
         /\ DeriveTier(new) = "tier3" => DeriveTier(old) = "tier3"
         /\ Passed(LoadTarget(old)) \subseteq Passed(LoadTarget(new))
<1>1. /\ yn(old.tls13) => yn(new.tls13)
      /\ yn(old.pqc) => yn(new.pqc)
      /\ yn(new.static_rsa) => yn(old.static_rsa)
      /\ yn(new.weak_cipher) => yn(old.weak_cipher)
  BY DEF Helps, yn
<1>2. /\ DeriveTier(old) = "tier1" => DeriveTier(new) = "tier1"
      /\ DeriveTier(new) = "tier3" => DeriveTier(old) = "tier3"
  BY <1>1 DEF DeriveTier
<1>3. \A row \in Row :
        /\ Fips203(LoadTarget(row)) <=> yn(row.pqc)
        /\ RbiQsafe(LoadTarget(row)) <=> yn(row.tls13) /\ yn(row.pqc)
        /\ EuDora(LoadTarget(row)) <=>
             yn(row.tls13) /\ ~yn(row.static_rsa) /\ ~yn(row.weak_cipher)
  BY DEF Fips203, RbiQsafe, EuDora, LoadTarget, Shown, PqcDisplay, yn, Row, YesNo
<1>4. Passed(LoadTarget(old)) \subseteq Passed(LoadTarget(new))
  BY <1>1, <1>3 DEF Passed
<1>. QED BY <1>2, <1>4

LEMMA HelpKeepsScore ==
  ASSUME NEW old \in Row, NEW new \in Row, Helps(old, new),
         NEW scan \in Scan, NEW stub \in Stub
  PROVE  Scored(LoadTarget(new), scan, stub).total <= Scored(LoadTarget(old), scan, stub).total
<1>. DEFINE p == ScoredPosture(LoadTarget(old), scan)
            q == ScoredPosture(LoadTarget(new), scan)
<1>0. /\ Scored(LoadTarget(old), scan, stub).total = Total(p, scan, stub)
      /\ Scored(LoadTarget(new), scan, stub).total = Total(q, scan, stub)
  BY DEF Scored
<1>1. /\ _yes(LoadTarget(old).tls13) => _yes(LoadTarget(new).tls13)
      /\ _yes(LoadTarget(old).pqc) => _yes(LoadTarget(new).pqc)
      /\ _yes(LoadTarget(new).static_rsa) => _yes(LoadTarget(old).static_rsa)
  BY DEF Helps, LoadTarget, Shown, PqcDisplay, yn, _yes, Row, YesNo
<1>2. /\ p.tls13 \in BOOLEAN /\ p.pqc \in BOOLEAN /\ p.static_rsa \in BOOLEAN
      /\ q.tls13 \in BOOLEAN /\ q.pqc \in BOOLEAN /\ q.static_rsa \in BOOLEAN
  BY DEF ScoredPosture, Measured, Scan, _yes
<1>3. /\ p.tls13 => q.tls13
      /\ p.pqc => q.pqc
      /\ q.static_rsa => p.static_rsa
  BY <1>1 DEF ScoredPosture, Measured
<1>4. /\ F1(p) \in {5, 38, 40} /\ F1(q) \in {5, 38, 40}
      /\ Penalty(p) \in {0, 10} /\ Penalty(q) \in {0, 10}
  BY DEF F1, Penalty
<1>. HIDE DEF p, q
<1>5. F1(q) <= F1(p) /\ Penalty(q) <= Penalty(p)
  BY <1>2, <1>3 DEF F1, Penalty
<1>6. F2(scan.cert) \in Nat /\ F3(stub.years) \in Nat
  BY DEF F2, F3
<1>7. Total(q, scan, stub) <= Total(p, scan, stub)
  BY <1>4, <1>5, <1>6 DEF Total, Min2
<1>. QED BY <1>0, <1>7

(* No correction of vendors.csv lowers a tier, loses a mandate or raises a *)
(* score.                                                                  *)
THEOREM RemediationTheorem == Spec => RemediationHelps
<1>1. ASSUME TypeOK, TypeOK', NEW v \in Vendors,
             vendors[v] # Absent, vendors'[v] # Absent, Helps(vendors[v], vendors'[v])
      PROVE  /\ DeriveTier(vendors[v]) = "tier1" => DeriveTier(vendors'[v]) = "tier1"
             /\ DeriveTier(vendors'[v]) = "tier3" => DeriveTier(vendors[v]) = "tier3"
             /\ Passed(LoadTarget(vendors[v])) \subseteq Passed(LoadTarget(vendors'[v]))
             /\ TotalNow(vendors'[v], v) <= TotalNow(vendors[v], v)
  <2>1. vendors[v] \in Row /\ vendors'[v] \in Row
    BY <1>1 DEF TypeOK
  <2>2. scans[v] \in Scan /\ LoadInputs(inputs)[v] \in Stub
    BY <1>1, StubsOfInputs DEF TypeOK
  <2>. QED BY <1>1, <2>1, <2>2, HelpKeepsTier, HelpKeepsScore DEF TotalNow
<1>. DEFINE Step ==
       \A v \in Vendors :
         vendors'[v] \notin {vendors[v], Absent} /\ vendors[v] # Absent
           /\ Helps(vendors[v], vendors'[v]) =>
           /\ DeriveTier(vendors[v]) = "tier1" => DeriveTier(vendors'[v]) = "tier1"
           /\ DeriveTier(vendors'[v]) = "tier3" => DeriveTier(vendors[v]) = "tier3"
           /\ Passed(LoadTarget(vendors[v])) \subseteq Passed(LoadTarget(vendors'[v]))
           /\ TotalNow(vendors'[v], v) <= TotalNow(vendors[v], v)
<1>2. TypeOK /\ TypeOK' /\ [Next]_vars => [Step]_vars
  BY <1>1
<1>. HIDE DEF Step
<1>3. Spec => [][Step]_vars
  BY <1>2, AssessmentTypeOK, PTL DEF Spec
<1>. QED BY <1>3 DEF Step, RemediationHelps
=============================================================================

---------------------------- MODULE MCAssessment ----------------------------
(* Two vendors whose rows cover the tiers and every gap, inputs on both    *)
(* sides of the bounds of the retention, and scans that confirm the CSV,   *)
(* lag behind it or are missing.                                           *)
EXTENDS Assessment, TLC

CONSTANTS a, b

MCVendors == {a, b}

Csv(tls13, pqc, provider, static_rsa, weak_cipher) ==
  [tls13 |-> tls13, pqc |-> pqc, provider |-> provider,
   static_rsa |-> static_rsa, weak_cipher |-> weak_cipher]

(* One edit of each kind that helps leads from one of the rows to another: *)
(* TLS 1.3, the hybrid group, static RSA, a weak cipher.                   *)
MCRows == {
  Csv("Yes", "Yes", FALSE, "No", "No"),
  Csv("Yes", "Yes", FALSE, "Yes", "No"),
  Csv("Yes", "No", FALSE, "No", "No"),
  Csv("No", "No", FALSE, "No", "No"),
  Csv("Yes", "Yes", TRUE, "No", "No"),
  Csv("Yes", "Yes", TRUE, "No", "Yes"),
  Csv("Yes", "Yes (P)", FALSE, "Yes", "No"),
  Csv("No", "No", TRUE, "No", "No")}

Owner(sensitivity, years, cost) ==
  [sensitivity |-> sensitivity, years |-> years, cost |-> cost]

MCInputs == {
  Owner("PII", 7, "S"), Owner("PII", 8, "S"), Owner("PII", 25, "L"),
  Owner("NONE", 15, "XL")}

Record(tls13, pqc, static_rsa, cert) ==
  [tls13 |-> tls13, pqc |-> pqc, static_rsa |-> static_rsa, cert |-> cert]

Confirming == Record(TRUE, TRUE, FALSE, "ML-DSA")
Lagging == Record(TRUE, FALSE, Absent, "EC")

MCScans == {
  (a :> Confirming @@ b :> NoScan), (b :> Confirming @@ a :> NoScan),
  (a :> Lagging @@ b :> NoScan), (b :> Lagging @@ a :> NoScan)}

Swap == Permutations(MCVendors)
=============================================================================

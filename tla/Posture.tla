------------------------------- MODULE Posture -------------------------------
(***************************************************************************)
(* What the risk pages say of one row of vendors.csv: the tier of          *)
(* app/tprm.py, written a second time in gen_tprm_rows.py, the mandates of *)
(* app/compliance.py and the components of app/cbom.py.  All of them are   *)
(* functions of the row; the requests that read the file are in Assessment.*)
(*                                                                         *)
(* A cell is what yn() and pqc_display() tell apart: "Yes (P)" names a     *)
(* provider P in the cell, and anything that does not begin with y, the    *)
(* empty cell included, is "No".  provider tells whether the column        *)
(* pqc_provider has a text.  The name and the curves of a row decide       *)
(* nothing and are left out.                                               *)
(***************************************************************************)

YesNo == {"Yes", "No"}

Row == [tls13 : YesNo, pqc : YesNo \cup {"Yes (P)"}, provider : BOOLEAN,
        static_rsa : YesNo, weak_cipher : YesNo]

yn(val) == val # "No"

Shown(val) == IF yn(val) THEN "Yes" ELSE "No"

-----------------------------------------------------------------------------
DeriveTier(row) ==
  IF yn(row.static_rsa) \/ yn(row.weak_cipher) \/ ~yn(row.tls13) THEN "tier3"
  ELSE IF yn(row.pqc) THEN "tier1"
  ELSE "tier2"

PqcDisplay(raw, provider) ==
  IF ~yn(raw) THEN "No"
  ELSE IF raw = "Yes (P)" \/ provider THEN "Yes (P)"
  ELSE "Yes"

(* What load_vendors() and load_targets() make of a row.  The tier labels  *)
(* are functions of the tier.                                              *)
LoadTarget(row) ==
  [tls13 |-> Shown(row.tls13),
   pqc |-> PqcDisplay(row.pqc, row.provider),
   static_rsa |-> Shown(row.static_rsa),
   weak_cipher |-> Shown(row.weak_cipher),
   tier |-> DeriveTier(row)]

Target == {LoadTarget(row) : row \in Row}

(* gen_tprm_rows.py has its own copy of the rule and of the display. *)
GeneratedTier(row) ==
  IF yn(row.static_rsa) \/ yn(row.weak_cipher) \/ ~yn(row.tls13) THEN "tier3"
  ELSE IF yn(row.pqc) THEN "tier1"
  ELSE "tier2"

GeneratedPqc(raw, provider) ==
  IF ~yn(raw) THEN "No"
  ELSE IF raw = "Yes (P)" \/ provider THEN "Yes (P)"
  ELSE "Yes"

(* Mutant of RenderRow: the cell of the file, not what it displays. *)
RenderRowRaw(row) ==
  [tls13 |-> Shown(row.tls13),
   pqc |-> row.pqc,
   static_rsa |-> Shown(row.static_rsa),
   weak_cipher |-> Shown(row.weak_cipher),
   tier |-> GeneratedTier(row)]

RenderRow(row) ==
  [tls13 |-> Shown(row.tls13),
   pqc |-> GeneratedPqc(row.pqc, row.provider),
   static_rsa |-> Shown(row.static_rsa),
   weak_cipher |-> Shown(row.weak_cipher),
   tier |-> GeneratedTier(row)]

-----------------------------------------------------------------------------
Fips203(t) == t.pqc # "No"

RbiQsafe(t) == t.tls13 = "Yes" /\ t.pqc # "No"

(* Mutant of EuDora: weak ciphers are not looked at. *)
EuDoraAnyCipher(t) == t.tls13 = "Yes" /\ t.static_rsa = "No"

EuDora(t) == t.tls13 = "Yes" /\ t.static_rsa = "No" /\ t.weak_cipher = "No"

(* The mandates a target passes, of the three of MANDATES. *)
Passed(t) ==
  {m \in {"fips203", "rbi_qsafe", "eu_dora"} :
     CASE m = "fips203"   -> Fips203(t)
       [] m = "rbi_qsafe" -> RbiQsafe(t)
       [] m = "eu_dora"   -> EuDora(t)}

-----------------------------------------------------------------------------
(* Mutant of Cbom: the weak cipher is left out. *)
CbomOfKeyExchange(t) ==
  {IF t.tls13 = "Yes" THEN "TLS 1.3" ELSE "TLS <1.3"}
    \cup (IF t.pqc # "No" THEN {"kem"} ELSE {})
    \cup (IF t.static_rsa = "Yes" THEN {"static rsa"} ELSE {})

(* The components of the document of a target, its curves apart.  "kem"    *)
(* stands for the component whatever name it is given: the code names it   *)
(* after the provider, "P", when there is one.                             *)
Cbom(t) ==
  {IF t.tls13 = "Yes" THEN "TLS 1.3" ELSE "TLS <1.3"}
    \cup (IF t.pqc # "No" THEN {"kem"} ELSE {})
    \cup (IF t.static_rsa = "Yes" THEN {"static rsa"} ELSE {})
    \cup (IF t.weak_cipher = "Yes" THEN {"weak cipher"} ELSE {})
=============================================================================

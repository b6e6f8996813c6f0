----------------------------- MODULE MCScanCache -----------------------------
(* Two threads that serve the page of two vendors, with the two scan files *)
(* score.py names: both usable, the first one missing or empty, or the     *)
(* second one a bare list.                                                 *)
EXTENDS ScanCache

CONSTANTS a, b, t1, t2

TwoThreads == {t1, t2}
MCVendors == {a, b}

Missing == [kind |-> "none", labels |-> <<>>]
Results(labels) == [kind |-> "results", labels |-> labels]
List == [kind |-> "list", labels |-> <<a, b>>]

BothFiles == {<<Results(<<a, b>>), Results(<<b>>)>>}
AllScans == {
  <<Results(<<a, b>>), Results(<<b>>)>>,
  <<Results(<<a, b>>), List>>,
  <<Missing, Results(<<a, b>>)>>,
  <<Results(<<>>), Results(<<a, b>>)>>,
  <<Missing, Missing>>}
=============================================================================

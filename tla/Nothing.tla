------------------------------- MODULE Nothing -------------------------------
(* Python's None: no row, no key, no organization.  One constant for all    *)
(* specifications, so that two of them can be reasoned about side by side.  *)
CONSTANT None
=============================================================================

----------------------------- MODULE DiscretePDF -----------------------------
(***************************************************************************)
(* The discrete distribution of dpdf.h: entries are appended, their sums    *)
(* normalised, then a uniform sample is turned into an entry. Masses are    *)
(* small integers and the normalised sums fractions of scale, so that no    *)
(* rounding is modelled; a sample is a fraction of scale as well.           *)
(***************************************************************************)
EXTENDS Integers, Sequences, FiniteSetsExt

VARIABLES
  cdf,           \* m_cdf, in units of 1 / scale once normalised
  scale          \* 0 while the sums are as appended, m_sum afterwards

pdfVars == <<cdf, scale>>

Init == cdf = <<0>> /\ scale = 0

Entries == Len(cdf) - 1

\* Fault: the entry is not added to the sum so far.
SumOfOne(v) == v

NextSum(v) == cdf[Len(cdf)] + v

AppendEntry(v) ==
  /\ scale = 0
  /\ cdf' = Append(cdf, NextSum(v))
  /\ UNCHANGED scale

\* Without mass nothing is divided, and m_normalized stays false.
Normalize ==
  /\ scale = 0 /\ cdf[Len(cdf)] > 0
  /\ scale' = cdf[Len(cdf)]
  /\ UNCHANGED cdf

\* std::lower_bound, counted from 0: the first sum that is not below s.
LowerBound(s) == Min({k \in 0..Len(cdf) : k = Len(cdf) \/ cdf[k + 1] >= s})

\* sample(), of a distribution with an entry: without one size() - 2 wraps.
Index(s) ==
  LET index == IF LowerBound(s) = 0 THEN 0 ELSE LowerBound(s) - 1 IN
  IF index > Len(cdf) - 2 THEN Len(cdf) - 2 ELSE index
===============================================================================

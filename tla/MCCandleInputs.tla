--------------------------- MODULE MCCandleInputs ---------------------------
(* Requests and small tables of two markets, for CandleReads. *)
EXTENDS Integers, SequencesExt

\* Charts that tell apart which of them an aggregate was made of.
Chart(m, t) == <<t, 10 * m + t, 40 + ((7 * m + 3 * t) % 11), 9 - ((5 * m + 2 * t) % 7), 20 + 3 * m - t, 2 ^ (t + 3 * (m - 1))>>
Rec(m, t, n) == [market |-> m, start |-> t, end |-> t + n, charts |-> [i \in 1..n |-> Chart(m, t + i - 1)]]
Bare(m, t) == [market |-> m, start |-> t, end |-> t + 1, charts |-> <<>>]

\* Up to four of these; those of two charts are of a historical collector, which
\* may have begun where another record of its market did.
Known ==
  {Rec(1, 0, 1), Rec(1, 1, 1), Rec(1, 2, 1), Rec(1, 2, 2), Rec(1, 4, 1),
   Rec(2, 0, 2), Rec(2, 2, 1), Rec(2, 4, 1), Bare(2, 3)}
InOrder(records) ==
  SetToSortSeq(records, LAMBDA a, b : a.start < b.start \/ (a.start = b.start /\ a.market < b.market))
SmallTables == {InOrder(s) : s \in {s \in SUBSET Known : Cardinality(s) <= 4}}
Present == {Rec(1, 5, 1), Rec(2, 5, 1)}

AllRequests ==
  [kind : {"discrete"}, stepSize : {2, 3, 10}, duration : {1, 2, 3}]
    \cup [kind : {"aggregate"}, stepSize : {2}, limit : {1, 2, 3, 4, 10}, offset : {0, 1}]
    \cup [kind : {"gaps"}, stepSize : {1, 2, 3}, market : {0, 1}]

=============================================================================

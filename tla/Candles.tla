------------------------------ MODULE Candles ------------------------------
(***************************************************************************)
(* How charts of several markets become one: the arithmetic that           *)
(* DiscreteAggregation.js and Aggregate.js share or have each of their own.*)
(* A chart is the array [time, open, high, low, close, volume] of the      *)
(* code.  The average price, a function of high and low, is left out.      *)
(***************************************************************************)
EXTENDS Integers, SequencesExt

CONSTANT Null

Time(c) == c[1]
Open(c) == c[2]
High(c) == c[3]
Low(c) == c[4]
Close(c) == c[5]
Volume(c) == c[6]

SumOf(charts) == MapThenSumSet(LAMBDA i : Volume(charts[i]), DOMAIN charts)

\* The charts of one market, of which there is at least one, as one.
MarketAggregate(charts) ==
  [open |-> Open(Head(charts)),
   high |-> Max({High(charts[i]) : i \in DOMAIN charts}),
   low |-> Min({Low(charts[i]) : i \in DOMAIN charts}),
   close |-> Close(Last(charts)),
   volume |-> SumOf(charts)]

Sorted(numbers) == SortSeq(numbers, LAMBDA a, b : a < b)

\* The upper of the middle numbers.
Median(numbers) ==
  IF numbers = <<>> THEN Null ELSE Sorted(numbers)[(Len(numbers) \div 2) + 1]

\* calculateMedian() of Aggregate.js: twice the mean of the middle numbers.
TwiceMedian(numbers) ==
  LET sorted == Sorted(numbers)
      half == Len(numbers) \div 2
  IN  IF numbers = <<>> THEN Null
      ELSE IF Len(numbers) % 2 = 1 THEN 2 * sorted[half + 1]
      ELSE sorted[half] + sorted[half + 1]

\* The values a field has in the aggregates of the markets.
FieldOf(aggregates, field) ==
  LET markets == SetToSeq(DOMAIN aggregates)
  IN  [i \in DOMAIN markets |-> aggregates[markets[i]][field]]

\* Charts of a market: entries are [market, chart].
ChartsOf(entries, m) ==
  LET own == SelectSeq(entries, LAMBDA e : e.market = m)
  IN  [i \in DOMAIN own |-> own[i].chart]

GroupedByMarket(entries) ==
  [m \in {entries[i].market : i \in DOMAIN entries} |-> MarketAggregate(ChartsOf(entries, m))]

AggregateCharts(entries, timestamp) ==
  LET perMarket == GroupedByMarket(entries)
  IN  [timestamp |-> timestamp,
       open |-> Median(FieldOf(perMarket, "open")),
       high |-> Median(FieldOf(perMarket, "high")),
       low |-> Median(FieldOf(perMarket, "low")),
       close |-> Median(FieldOf(perMarket, "close")),
       volume |-> MapThenSumSet(LAMBDA m : perMarket[m].volume, DOMAIN perMarket)]

\* mergeTransitionalData().
Merged(previous, current) ==
  CASE previous = Null -> current
    [] current = Null -> previous
    [] OTHER -> [timestamp |-> Min({previous.timestamp, current.timestamp}),
                 open |-> previous.open,
                 high |-> Max({previous.high, current.high}),
                 low |-> Min({previous.low, current.low}),
                 close |-> current.close,
                 volume |-> previous.volume + current.volume]

=============================================================================

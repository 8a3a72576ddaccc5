---------------------------- MODULE CandleReads ----------------------------
(***************************************************************************)
(* The three readers that walk through a table of market records in steps, *)
(* each step a query of its own with a limit and an offset:                *)
(* DiscreteAggregation.js (candles of equal timeframes), Aggregate.js (one *)
(* candle of everything) and CheckCryptoMarketsGapsUseCase.js (missing     *)
(* records).  Writers go on recording the present between two steps.       *)
(*                                                                         *)
(* A query is answered with a part of the whole answer, so each reader     *)
(* carries something from step to step: the timeframe that is not finished,*)
(* the aggregates of the markets, the last record.  And each query puts    *)
(* records of the same place in its order as it likes.                     *)
(***************************************************************************)
EXTENDS Candles

CONSTANTS
  Requests,     \* what is asked for: kind, stepSize, and
                \* "discrete": duration; "aggregate": limit and offset;
                \* "gaps": the market, or 0 for all of them
  Tables,       \* the records at the beginning, in the order of their start
  News          \* the records that may be added meanwhile, at the end

VARIABLES
  request,
  table,        \* records [market, start, end, charts]
  reader,       \* what the reader carries from step to step
  read,         \* history: the records that it was answered with
  answered      \* has it answered?

vars == <<request, table, reader, read, answered>>

Asked(kind) == request.kind = kind /\ ~answered

\* order by market, then by start.
ByMarket(records) ==
  LET markets == SetToSortSeq({records[i].market : i \in DOMAIN records}, LAMBDA a, b : a < b)
  IN  FlattenSeq([k \in DOMAIN markets |-> SelectSeq(records, LAMBDA r : r.market = markets[k])])

\* What the queries are about, and where their order puts a record.
Rows ==
  IF request.kind # "gaps" THEN table
  ELSE ByMarket(SelectSeq(table, LAMBDA r : request.market \in {0, r.market}))
Place(r) == IF request.kind = "gaps" THEN <<r.market, r.start>> ELSE <<r.start>>

\* limit and offset of a query: what it may be answered with.
Pages(limit, offset) ==
  LET rows == Rows
      Continued(page, row) == {Append(page, r) : r \in {r \in Range(rows) \ Range(page) : Place(r) = Place(row)}}
  IN  FoldLeft(LAMBDA pages, row : UNION {Continued(page, row) : page \in pages}, {<<>>},
               SubSeq(rows, offset + 1, Min({offset + limit, Len(rows)})))

\* Time is counted from the beginning of the range.
StartOf(kind) ==
  CASE kind = "discrete" -> [offset |-> 0, start |-> 0, transition |-> Null, frames |-> <<>>]
    [] kind = "aggregate" -> [offset |-> request.offset, step |-> 0, markets |-> <<>>, volume |-> 0]
    [] kind = "gaps" -> [step |-> 0, carried |-> <<>>, markets |-> <<>>, total |-> 0,
                         steps |-> (Len(Rows) + request.stepSize - 1) \div request.stepSize]

Init ==
  /\ request \in Requests /\ table \in Tables /\ reader = StartOf(request.kind) /\ read = <<>> /\ answered = FALSE

\* A collector's record of the present is written.
Record(r) ==
  /\ ~answered
  /\ r \in News /\ \A i \in DOMAIN table : table[i] # r
  /\ table' = Append(table, r)
  /\ UNCHANGED <<request, reader, read, answered>>

-----------------------------------------------------------------------------
(* Discrete aggregation. *)

SortedEntries(records) ==
  LET entries == FlattenSeq([i \in DOMAIN records |->
                    [j \in DOMAIN records[i].charts |->
                       [market |-> records[i].market, chart |-> records[i].charts[j]]]])
      last == Max({0} \cup {Time(entries[i].chart) : i \in DOMAIN entries})
  IN  \* sort() of JavaScript is stable
      FlattenSeq([i \in 1..(last + 1) |-> SelectSeq(entries, LAMBDA e : Time(e.chart) = i - 1)])

\* Mutated form of NextTimeframe: timeframes without a chart are not skipped.
AdjacentTimeframe(start, duration, time) == start + duration

\* The timeframe of a chart outside the current one, which began at start.
NextTimeframe(start, duration, time) ==
  start + duration + duration * ((time - (start + duration)) \div duration)

\* resolveLastTimeframeAggregation(): the transition is not used up.
Resolved(frame, transition) ==
  Merged(transition, IF frame.entries = <<>> THEN Null ELSE AggregateCharts(frame.entries, frame.start))

\* One chart of a batch: it belongs to the current timeframe, or closes it.
WithChart(acc, e, duration, transition) ==
  IF Time(e.chart) >= acc.start /\ Time(e.chart) < acc.start + duration
  THEN [acc EXCEPT !.entries = Append(@, e)]
  ELSE LET closed == Resolved(acc, transition)
       IN  [start |-> NextTimeframe(acc.start, duration, Time(e.chart)),
            entries |-> <<e>>,
            frames |-> IF closed = Null THEN acc.frames ELSE Append(acc.frames, closed)]

ProcessBatch(records) ==
  FoldLeft(LAMBDA acc, e : WithChart(acc, e, request.duration, reader.transition),
           [start |-> reader.start, entries |-> <<>>, frames |-> <<>>], SortedEntries(records))

\* handleUnfinishedTimeframe(): with a transition it returns that, whatever
\* the batch had in its last timeframe.
Unfinished(batch) ==
  IF batch.entries = <<>> THEN Null
  ELSE IF reader.transition # Null THEN Merged(reader.transition, Null)
  ELSE AggregateCharts(batch.entries, batch.start)

DiscreteBatch ==
  /\ Asked("discrete")
  /\ \E records \in Pages(request.stepSize, reader.offset) :
       LET batch == ProcessBatch(records)
       IN  /\ reader' = IF records = <<>> THEN reader
                        ELSE [offset |-> reader.offset + Len(records), start |-> batch.start,
                              transition |-> Unfinished(batch), frames |-> reader.frames \o batch.frames]
           /\ read' = read \o records
           /\ answered' = (Len(records) < request.stepSize)
  /\ UNCHANGED <<request, table>>

-----------------------------------------------------------------------------
(* Aggregation of everything. *)

AggregateSteps == (request.limit + request.stepSize - 1) \div request.stepSize

StepLimit(step) ==
  LET rest == request.limit % request.stepSize
  IN  IF step = AggregateSteps - 1 /\ rest # 0 THEN rest ELSE request.stepSize

\* updateMarketsAggregate() for one record.
WithRecord(markets, r) ==
  LET new == MarketAggregate(r.charts)
  IN  IF r.charts = <<>> THEN markets
      ELSE IF r.market \notin DOMAIN markets
      THEN [m \in DOMAIN markets \cup {r.market} |->
              IF m = r.market THEN new ELSE markets[m]]
      ELSE [markets EXCEPT ![r.market] =
              [open |-> @.open, high |-> Max({@.high, new.high}), low |-> Min({@.low, new.low}),
               close |-> new.close, volume |-> @.volume + new.volume]]

AggregateStep ==
  LET limit == StepLimit(reader.step)
  IN  /\ Asked("aggregate")
      /\ \E records \in Pages(limit, reader.offset) :
           /\ reader' = [offset |-> reader.offset + Len(records), step |-> reader.step + 1,
                         markets |-> FoldLeft(WithRecord, reader.markets, records),
                         volume |-> reader.volume + MapThenSumSet(LAMBDA i : SumOf(records[i].charts), DOMAIN records)]
           /\ read' = read \o records
           /\ answered' = (Len(records) < limit \/ reader.step + 1 = AggregateSteps)
      /\ UNCHANGED <<request, table>>

CommonAggregate(markets, volume) ==
  [f \in {"open", "high", "low", "close"} |-> TwiceMedian(FieldOf(markets, f))] @@ [volume |-> volume]

-----------------------------------------------------------------------------
(* Gaps. *)

\* countGaps() for one record of a batch.
CountGaps(results, data, i, isLast) ==
  LET m == data[i].market
      seen == IF m \in DOMAIN results.markets THEN results.markets ELSE results.markets @@ (m :> 0)
  IN  IF i = Len(data) /\ ~isLast THEN [results EXCEPT !.markets = seen]
      ELSE IF i = Len(data) \/ data[i + 1].market # m
      THEN [markets |-> seen, total |-> results.total + seen[m]]
      ELSE IF data[i].end # data[i + 1].start THEN [results EXCEPT !.markets = [seen EXCEPT ![m] = @ + 1]]
      ELSE [results EXCEPT !.markets = seen]

GapStep ==
  /\ Asked("gaps") /\ reader.step < reader.steps
  /\ \E records \in Pages(request.stepSize, reader.step * request.stepSize) :
       LET data == reader.carried \o records
           results == FoldLeft(LAMBDA acc, i : CountGaps(acc, data, i, reader.step = reader.steps - 1),
                               [markets |-> reader.markets, total |-> reader.total],
                               [i \in DOMAIN data |-> i])
       IN  /\ reader' = [step |-> reader.step + 1, steps |-> reader.steps,
                         carried |-> IF records = <<>> THEN <<>> ELSE <<Last(records)>>,
                         markets |-> results.markets, total |-> results.total]
           /\ read' = read \o records
  /\ UNCHANGED <<request, table, answered>>

GapsAnswered ==
  /\ Asked("gaps") /\ reader.step = reader.steps
  /\ answered' = TRUE
  /\ UNCHANGED <<request, table, reader, read>>

Next == DiscreteBatch \/ AggregateStep \/ GapStep \/ GapsAnswered \/ \E r \in News : Record(r)

Spec == Init /\ [][Next]_vars

-----------------------------------------------------------------------------
(* Properties. *)

Answered(kind) == request.kind = kind /\ answered

\* The answer of the discrete aggregation.
Candlesticks ==
  IF reader.transition = Null THEN reader.frames ELSE Append(reader.frames, reader.transition)

\* Where a page ended, the next record had another place in the order.
CutsCleanly(first) ==
  \A i \in 1..(Len(read) - 1) :
    i % request.stepSize = 0 => Place(Rows[first + i]) # Place(Rows[first + i + 1])

\* What has been read is what one query would have answered.
ReadAsOne(first) == read \in Pages(Len(read), first)

Initial == {i \in DOMAIN Rows : Rows[i] \notin News}

\* What the answer should be: for every timeframe with a chart in it the charts
\* in it, market by market in the order of time.
Timeframes(records) ==
  LET entries == SortedEntries(records)
      frameOf(e) == Time(e.chart) \div request.duration
      frames == SetToSortSeq({frameOf(entries[i]) : i \in DOMAIN entries}, LAMBDA a, b : a < b)
  IN  [k \in DOMAIN frames |->
         AggregateCharts(SelectSeq(entries, LAMBDA e : frameOf(e) = frames[k]), frames[k] * request.duration)]

\* Records that one step can hold are split into timeframes exactly, whatever
\* timeframes are empty and however the charts of the markets overlap.
DiscreteExact ==
  Answered("discrete") /\ Len(read) < request.stepSize => Candlesticks = Timeframes(read) /\ ReadAsOne(0)

\* tests/unit/use-cases/market-records/candle-sticks/DiscreteAggregation.spec.js:
\* "correctly aggregates candlestick data for a symbol across multiple batches".
\* The volume of what has been read is that of what is answered.
VolumeKept ==
  Answered("discrete") =>
    MapThenSumSet(LAMBDA i : Candlesticks[i].volume, DOMAIN Candlesticks)
      = MapThenSumSet(LAMBDA i : SumOf(read[i].charts), DOMAIN read)

\* The aggregate is that of the records that were read, up to the limit, or all
\* of them; each counts once, unless a page ended within records of one start.
AggregateExact ==
  Answered("aggregate") =>
    LET perMarket == GroupedByMarket(FlattenSeq([i \in DOMAIN read |->
                       [j \in DOMAIN read[i].charts |->
                          [market |-> read[i].market, chart |-> read[i].charts[j]]]]))
    IN  /\ CommonAggregate(reader.markets, reader.volume)
             = CommonAggregate(perMarket, MapThenSumSet(LAMBDA i : SumOf(read[i].charts), DOMAIN read))
        /\ Len(read) <= request.limit
        /\ Len(read) < request.limit => \A i \in Initial : i <= request.offset + Len(read)
        /\ CutsCleanly(request.offset) => ReadAsOne(request.offset)

\* Every gap between two records of a market counts once, for its market and in
\* the total, wherever the steps end: of one market also while its records are
\* appended, of all markets if none is (it would move those of later markets).
GapsExact ==
  Answered("gaps") /\ (request.market # 0 \/ Initial = DOMAIN Rows) =>
    LET gaps(m) == LET own == SelectSeq(read, LAMBDA r : r.market = m)
                   IN  {i \in 1..(Len(own) - 1) : own[i].end # own[i + 1].start}
        markets == {read[i].market : i \in DOMAIN read}
    IN  /\ DOMAIN reader.markets = markets
        /\ \A m \in markets : reader.markets[m] = Cardinality(gaps(m))
        /\ reader.total = MapThenSumSet(LAMBDA m : Cardinality(gaps(m)), markets)
        /\ \A i \in Initial : i <= Len(read)
        /\ CutsCleanly(0) => ReadAsOne(0)

\* The three use cases answer what the records they read say: the discrete
\* aggregation if they fit in one page (see VolumeKept for what it does else),
\* the others page by page and by offset while collectors append records, with
\* the exceptions that AggregateExact and GapsExact name.
AnswersExact == DiscreteExact /\ AggregateExact /\ GapsExact

=============================================================================

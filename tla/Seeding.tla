------------------------------- MODULE Seeding -------------------------------
(***************************************************************************)
(* The seeders: the commands that bring the tables of exchanges and of     *)
(* markets in line with the configuration (CCXTSeeder and its realtime and *)
(* historical forms, BaseCryptoConfigSeeder with UDEXSeeder and            *)
(* XRPLSeeder), over BaseEntity.updateOrCreate.                            *)
(*                                                                         *)
(* Nothing keeps two seeders apart: they are processes of their own, and   *)
(* every query is a step between which the other may run.  A market is     *)
(* its symbol within its exchange, which the unique index of the table     *)
(* makes sure of; the seeders of the second kind look it up by             *)
(* externalMarketId, which they write the symbol to.  Of a row only the    *)
(* two flags are kept.                                                     *)
(***************************************************************************)
EXTENDS Integers, Sequences, FiniteSets

CONSTANTS
  Seeders,     \* the processes
  Plans,       \* what they may be started for: sets of functions of Seeders
               \* to [kind, exchanges : Seq([id, symbols : Seq(_)])]
  Stored,      \* the tables there may be: functions of <<exchange, symbol>>
               \* to [active : BOOLEAN, historical : BOOLEAN]
  Listed,      \* the symbols the exchanges' APIs list
  MaxFaults,   \* failing queries and requests, and crashes
  Null

VARIABLES
  plan,
  known,      \* the exchanges that have a row
  markets,    \* the rows of markets
  seeder,     \* [at, exchanges, symbols, found] of each process
  reported,   \* what each process logged an error for: <<exchange, symbol or Null>>
  faults

vars == <<plan, known, markets, seeder, reported, faults>>

Kinds == {"realtime", "historical", "config"}

\* The flag a seeder resets and sets.
Flag(s) == IF plan[s].kind = "historical" THEN "historical" ELSE "active"

\* A CCXT seeder asks the exchange for its markets.
IsCCXT(s) == plan[s].kind # "config"

Idle == [at |-> "idle", exchanges |-> <<>>, symbols |-> <<>>, found |-> Null]

Init ==
  /\ plan \in Plans /\ markets \in Stored /\ known = {key[1] : key \in DOMAIN markets}
  /\ seeder = [s \in Seeders |-> Idle] /\ reported = [s \in Seeders |-> {}] /\ faults = 0

-----------------------------------------------------------------------------

Exchange(s) == Head(seeder[s].exchanges).id
Symbol(s) == Head(seeder[s].symbols)
Key(s) == <<Exchange(s), Symbol(s)>>

To(s, at) == seeder' = [seeder EXCEPT ![s].at = at]

\* The loop over the exchanges goes on with the next.
AtExchange(exchanges) ==
  [Idle EXCEPT !.at = IF exchanges = <<>> THEN "ended" ELSE "find exchange", !.exchanges = exchanges]

NextExchange(s) == seeder' = [seeder EXCEPT ![s] = AtExchange(Tail(seeder[s].exchanges))]

\* The loop over an exchange's symbols.
AtSymbol(s, symbols) ==
  IF symbols = <<>>
    THEN AtExchange(Tail(seeder[s].exchanges))
    ELSE [seeder[s] EXCEPT !.at = "find", !.symbols = symbols, !.found = Null]

NextSymbol(s) == seeder' = [seeder EXCEPT ![s] = AtSymbol(s, Tail(seeder[s].symbols))]

\* An error reaches the nearest catch: that of the symbol, which the loop
\* over symbols survives, or that of the exchange, which the loop over
\* exchanges survives.
Catch(s) ==
  IF seeder[s].at \in {"find", "write"}
    THEN /\ reported' = [reported EXCEPT ![s] = @ \cup {Key(s)}]
         /\ NextSymbol(s)
    ELSE /\ reported' = [reported EXCEPT ![s] = @ \cup {<<Exchange(s), Null>>}]
         /\ NextExchange(s)

-----------------------------------------------------------------------------

\* The command is run, for the first time or again.
Execute(s) ==
  /\ seeder[s].at \in {"idle", "crashed"}
  /\ seeder' = [seeder EXCEPT ![s] = AtExchange(plan[s].exchanges)]
  /\ reported' = [reported EXCEPT ![s] = {}]
  /\ UNCHANGED <<plan, known, markets, faults>>

\* Exchange.updateOrCreate: it is found or not ...
FindExchange(s) ==
  /\ seeder[s].at = "find exchange"
  /\ seeder' = [seeder EXCEPT ![s].at = "write exchange", ![s].found = Exchange(s) \in known]
  /\ UNCHANGED <<plan, known, markets, reported, faults>>

\* ... and then written, or inserted, which the unique id of an exchange
\* that another seeder has inserted meanwhile rejects.
SetupExchange(s) ==
  /\ seeder[s].at = "write exchange"
  /\ IF ~seeder[s].found /\ Exchange(s) \in known
       THEN Catch(s) /\ UNCHANGED known
       ELSE /\ known' = known \cup {Exchange(s)}
            /\ To(s, "reset")
            /\ UNCHANGED reported
  /\ UNCHANGED <<plan, markets, faults>>

\* Market.update of every row of the exchange.
ResetMarketStatuses(s) ==
  /\ seeder[s].at = "reset"
  /\ markets' = [key \in DOMAIN markets |->
       IF key[1] = Exchange(s) THEN [markets[key] EXCEPT ![Flag(s)] = FALSE] ELSE markets[key]]
  /\ IF IsCCXT(s)
       THEN To(s, "load")
       ELSE seeder' = [seeder EXCEPT ![s] = AtSymbol(s, Head(@.exchanges).symbols)]
  /\ UNCHANGED <<plan, known, reported, faults>>

\* The exchange's API answers with the markets it lists.
LoadMarkets(s) ==
  /\ seeder[s].at = "load"
  /\ seeder' = [seeder EXCEPT ![s] = AtSymbol(s, Head(@.exchanges).symbols)]
  /\ UNCHANGED <<plan, known, markets, reported, faults>>

\* A symbol the exchange does not list is passed over with a warning.
\* Otherwise updateOrCreate looks the market up.
FindMarket(s) ==
  /\ seeder[s].at = "find"
  /\ IF IsCCXT(s) /\ Key(s) \notin Listed
       THEN NextSymbol(s)
       ELSE seeder' = [seeder EXCEPT ![s].at = "write",
                         ![s].found = IF Key(s) \in DOMAIN markets THEN markets[Key(s)] ELSE Null]
  /\ UNCHANGED <<plan, known, markets, reported, faults>>

\* Mutated form of Written: the row is written as it was read.
WrittenWhole(row, found, flag) == IF row = found THEN [row EXCEPT ![flag] = TRUE] ELSE [found EXCEPT ![flag] = TRUE]

\* The row of the market with the flag set, as UPDATE writes it: the columns
\* that differ from what was read, and no others.
Written(row, found, flag) == IF found[flag] THEN row ELSE [row EXCEPT ![flag] = TRUE]

\* A row of a new market: the flags are FALSE by default.
Created(flag) == [[active |-> FALSE, historical |-> FALSE] EXCEPT ![flag] = TRUE]

\* updateOrCreate writes the row it found, or inserts one, which the unique
\* index rejects when another seeder has inserted it meanwhile.
UpdateOrCreateMarket(s) ==
  /\ seeder[s].at = "write"
  /\ IF seeder[s].found = Null
       THEN IF Key(s) \in DOMAIN markets
              THEN Catch(s) /\ UNCHANGED markets
              ELSE /\ markets' = [key \in DOMAIN markets \cup {Key(s)} |->
                        IF key = Key(s) THEN Created(Flag(s)) ELSE markets[key]]
                   /\ NextSymbol(s)
                   /\ UNCHANGED reported
       ELSE /\ markets' = [markets EXCEPT ![Key(s)] = Written(@, seeder[s].found, Flag(s))]
            /\ NextSymbol(s)
            /\ UNCHANGED reported
  /\ UNCHANGED <<plan, known, faults>>

Running(s) == seeder[s].at \notin {"idle", "ended", "crashed"}

\* A query or a request fails.
Fails(s) ==
  /\ Running(s) /\ faults < MaxFaults
  /\ faults' = faults + 1
  /\ Catch(s)
  /\ UNCHANGED <<plan, known, markets>>

\* The process dies.
Crash(s) ==
  /\ Running(s) /\ faults < MaxFaults
  /\ faults' = faults + 1
  /\ seeder' = [seeder EXCEPT ![s] = [Idle EXCEPT !.at = "crashed"]]
  /\ UNCHANGED <<plan, known, markets, reported>>

Step(s) ==
  \/ FindExchange(s) \/ SetupExchange(s) \/ ResetMarketStatuses(s) \/ LoadMarkets(s)
  \/ FindMarket(s) \/ UpdateOrCreateMarket(s)

Next == \E s \in Seeders : Execute(s) \/ Step(s) \/ Fails(s) \/ Crash(s)

Spec == Init /\ [][Next]_vars

-----------------------------------------------------------------------------

\* The rows whose flag is set: the collectors' lists of an exchange
\* (the scopes searchActiveByExchange and searchHistoricalByExchange).
Selected(flag, exchange) == {key \in DOMAIN markets : key[1] = exchange /\ markets[key][flag]}

\* What a seeder is configured to select.
Configured(s, exchange) ==
  UNION {{<<exchange, c.symbols[i]>> : i \in DOMAIN c.symbols} :
          c \in {d \in {plan[s].exchanges[j] : j \in DOMAIN plan[s].exchanges} : d.id = exchange}}

ExchangesOf(s) == {plan[s].exchanges[i].id : i \in DOMAIN plan[s].exchanges}
Alike(s) == {t \in Seeders : Flag(t) = Flag(s)}
Quiet == \A s \in Seeders : seeder[s].at \in {"idle", "ended"}

\* No market is left out in silence: when every seeder that was started has
\* come to its end, a configured market which the exchange lists is selected
\* for its collectors, unless a seeder logged an error for it or for its
\* exchange, or one with another configuration of the same flag withdrew it.
\* It is about reset, set-up and the catches of the two loops, while the
\* other seeders run (CCXTSeeder.execute, setupMarket,
\* BaseCryptoConfigSeeder.setupExchange, seedMarket).
NoneLeftOut ==
  Quiet =>
    \A s \in Seeders : seeder[s].at = "ended" =>
      \A e \in ExchangesOf(s) : \A key \in Configured(s, e) :
        \/ IsCCXT(s) /\ key \notin Listed
        \/ key \in Selected(Flag(s), e)
        \/ \E t \in Alike(s) : {key, <<e, Null>>} \cap reported[t] # {}
        \/ \E t \in Alike(s) : e \in ExchangesOf(t) /\ key \notin Configured(t, e) /\ seeder[t].at = "ended"

\* Nothing stale is left: once a seeder has ended without an error of an
\* exchange, only markets that a seeder of the flag is configured for are
\* selected there, whatever the table held before and whichever seeders ran
\* at the same time (resetMarketStatuses).
NoneStale ==
  \A s \in Seeders : seeder[s].at = "ended" =>
    \A e \in ExchangesOf(s) :
      <<e, Null>> \in reported[s] \/ Selected(Flag(s), e) \subseteq UNION {Configured(t, e) : t \in Alike(s)}

\* What the collectors find is what the seeders are configured for.
SelectedAsConfigured == NoneLeftOut /\ NoneStale

=============================================================================

-------------------------------- MODULE Prices --------------------------------
(***************************************************************************)
(* The currencies and the prices of the sales in dollars.  A daily job     *)
(* replaces the list of the coins by the exchange's; an hourly job asks    *)
(* the rates of the currencies that are on sale and multiplies every price *)
(* again; in between a request that puts a card on sale looks its currency *)
(* up in the list, asks the rate and stores the sale, an await each.       *)
(*                                                                         *)
(* A quote is the number of times the exchange has moved it, and the price *)
(* in dollars of a sale is the coin and the quote it was multiplied by.    *)
(* Several coins may have one symbol.  The exchange is external.           *)
(***************************************************************************)
EXTENDS Integers, Sequences

CONSTANTS
    Ids,            \* the ids of the coins, positive numbers
    SymbolOf,       \* id -> symbol
    Allowed,        \* allowedCryptocurrencies of the network
    Requests,
    Listed,         \* the coins the exchange lists at first
    Imported,       \* sales stored without an id of the coin
    MaxSales,       \* bound: sales
    MaxQuoteMoves,  \* bound: moves of the quotes
    MaxListMoves,   \* bound: moves of the exchange's list
    MaxFailures     \* bound: calls of the exchange, or jobs, that fail

ASSUME PricesAssumption ==
    /\ Ids \subseteq Nat \ {0} /\ Ids # {} /\ Listed \subseteq Ids
    /\ MaxSales \in Nat /\ MaxQuoteMoves \in Nat /\ MaxListMoves \in Nat /\ MaxFailures \in Nat

NoId     == 0
NoQuote  == 0
NoQuotes == [i \in Ids |-> NoQuote]
Symbols  == {SymbolOf[i] : i \in Ids}

Rates == [id : Ids, quote : Nat \ {NoQuote}]
Sales == [symbol : Symbols, symbolId : Ids \cup {NoId}, rate : Rates]

(* Priced by a coin of its symbol, its own when it has an id.              *)
PricedBySymbol(sale) ==
    /\ SymbolOf[sale.rate.id] = sale.symbol
    /\ sale.symbolId # NoId => sale.rate.id = sale.symbolId

(* Sales of before are priced by the first quotes, of coins of theirs.     *)
ASSUME ImportedAssumption ==
    /\ Imported \in Seq(Sales)
    /\ \A s \in DOMAIN Imported : Imported[s].rate.quote = 1 /\ PricedBySymbol(Imported[s])

VARIABLES
    market,             \* the coins the exchange lists
    quote,              \* coin -> its quote at the exchange
    cryptocurrencies,   \* the coins of the collection
    sales,              \* the sales [symbol, symbolId, rate]
    listJob,            \* updateCryptocurrencies: [at, ids, left]
    priceJob,           \* updateSalePrices: [at, currencies, res]
    req,                \* request -> createSale [at, symbol, rate]
    moves, failures,
    kept,               \* history: coins listed, here and there, all the time
    overtaken           \* history: sales stored while the hourly job ran

exchange == <<market, quote>>
vars     == <<exchange, cryptocurrencies, sales, listJob, priceJob, req, moves, failures,
              kept, overtaken>>

NoRate == [id |-> NoId, quote |-> NoQuote]
NoReq  == [at |-> "idle", symbol |-> SymbolOf[CHOOSE i \in Ids : TRUE], rate |-> NoRate]
NoListJob  == [at |-> "idle", ids |-> {}, left |-> {}]
NoPriceJob == [at |-> "idle", currencies |-> {}, res |-> NoQuotes]

Init ==
    /\ market = Listed
    /\ quote = [i \in Ids |-> 1]
    /\ cryptocurrencies = Listed
    /\ sales = Imported
    /\ listJob = NoListJob /\ priceJob = NoPriceJob
    /\ req = [r \in Requests |-> NoReq]
    /\ moves = [quotes |-> 0, list |-> 0] /\ failures = 0
    /\ kept = Listed
    /\ overtaken = {}

-----------------------------------------------------------------------------
(* External: the exchange moves a quote, or lists other coins.             *)
QuoteMoves(i) ==
    /\ moves.quotes < MaxQuoteMoves
    /\ moves' = [moves EXCEPT !.quotes = @ + 1]
    /\ quote' = [quote EXCEPT ![i] = @ + 1]
    /\ UNCHANGED <<market, cryptocurrencies, sales, listJob, priceJob, req, failures, kept, overtaken>>

ListMoves(i) ==
    /\ moves.list < MaxListMoves
    /\ moves' = [moves EXCEPT !.list = @ + 1]
    /\ market' = IF i \in market THEN market \ {i} ELSE market \cup {i}
    /\ kept' = kept \cap market'
    /\ UNCHANGED <<quote, cryptocurrencies, sales, listJob, priceJob, req, failures, overtaken>>

(* The exchange does not answer, or answers with an error.                 *)
CallFails == failures < MaxFailures /\ failures' = failures + 1

-----------------------------------------------------------------------------
(* Daily: updateCurrencies.  Without an answer nothing is done.            *)
GetCurrenciesList ==
    /\ listJob.at = "idle"
    /\ listJob' = [at |-> "upsert", ids |-> market, left |-> market]
    /\ UNCHANGED <<exchange, cryptocurrencies, sales, priceJob, req, moves, failures, kept, overtaken>>

(* The operations of the unordered bulkWrite, one document at a time.      *)
UpsertCurrency(i) ==
    /\ listJob.at = "upsert" /\ i \in listJob.left
    /\ listJob' = [listJob EXCEPT !.left = @ \ {i}]
    /\ cryptocurrencies' = cryptocurrencies \cup {i}
    /\ UNCHANGED <<exchange, sales, priceJob, req, moves, failures, kept, overtaken>>

(* bulkWrite rejects an empty list of operations, and the job ends there.  *)
EmptyListRejected ==
    /\ listJob.at = "upsert" /\ listJob.ids = {}
    /\ listJob' = NoListJob
    /\ UNCHANGED <<exchange, cryptocurrencies, sales, priceJob, req, moves, failures, kept, overtaken>>

(* deleteMany: the coins that were not in the answer.                      *)
DeleteOtherCurrencies ==
    /\ listJob.at = "upsert" /\ listJob.left = {} /\ listJob.ids # {}
    /\ cryptocurrencies' = cryptocurrencies \cap listJob.ids
    /\ listJob' = NoListJob
    /\ UNCHANGED <<exchange, sales, priceJob, req, moves, failures, kept, overtaken>>

(* A rejected call, or the end of the function, leaves the list half-way.  *)
ListJobFails ==
    /\ listJob.at # "idle"
    /\ CallFails
    /\ listJob' = NoListJob
    /\ UNCHANGED <<exchange, cryptocurrencies, sales, priceJob, req, moves, kept, overtaken>>

-----------------------------------------------------------------------------
(* getRate: the currencies without an id are asked by their symbol, and    *)
(* the exchange answers one coin for each; the others are asked by id.     *)
(* What both answers say of a coin is kept once, the later one.            *)
Picks(symbols) == {pick \in [symbols -> Ids] : \A s \in symbols : SymbolOf[pick[s]] = s}

Answer(res, ids) == [i \in Ids |-> IF i \in ids THEN quote[i] ELSE res[i]]

CurrencyOf(sale) == [symbol |-> sale.symbol, symbolId |-> sale.symbolId]
OnSale == {CurrencyOf(sales[s]) : s \in DOMAIN sales}

(* Hourly: updateAllSalePriceUsd, the currencies of all the sales.         *)
GetSaleAllCurrencies ==
    /\ priceJob.at = "idle"
    /\ priceJob' = [at |-> "bySymbol", currencies |-> OnSale, res |-> NoQuotes]
    /\ UNCHANGED <<exchange, cryptocurrencies, sales, listJob, req, moves, failures, kept, overtaken>>

RequestBySymbol ==
    /\ priceJob.at = "bySymbol"
    /\ LET asked == {c.symbol : c \in {d \in priceJob.currencies : d.symbolId = NoId}}
       IN  \/ \E pick \in Picks(asked) :
                 /\ priceJob' = [priceJob EXCEPT !.at = "byId",
                                    !.res = Answer(@, {pick[s] : s \in asked})]
                 /\ UNCHANGED failures
           \/ /\ asked # {} /\ CallFails
              /\ priceJob' = [priceJob EXCEPT !.at = "byId"]
    /\ UNCHANGED <<exchange, cryptocurrencies, sales, listJob, req, moves, kept, overtaken>>

(* No rate at all, and the job ends.                                       *)
Reprices(job) == IF job.res = NoQuotes THEN NoPriceJob ELSE [job EXCEPT !.at = "reprice"]

RequestById ==
    /\ priceJob.at = "byId"
    /\ LET asked == {c.symbolId : c \in priceJob.currencies} \ {NoId}
       IN  \/ /\ priceJob' = Reprices([priceJob EXCEPT !.res = Answer(@, asked)])
              /\ UNCHANGED failures
           \/ /\ asked # {} /\ CallFails
              /\ priceJob' = Reprices(priceJob)
    /\ UNCHANGED <<exchange, cryptocurrencies, sales, listJob, req, moves, kept, overtaken>>

(* res.find: the coin of the id, or the first one of the symbol.  The keys *)
(* of the answers are numbers, so they are in the order of the ids.        *)
(* Mutant: the symbol is enough.                                           *)
RateOfSymbol(res, c) ==
    {i \in Ids : /\ res[i] # NoQuote /\ SymbolOf[i] = c.symbol
                 /\ \A j \in Ids : res[j] # NoQuote /\ SymbolOf[j] = c.symbol => i <= j}

RateOf(res, c) ==
    IF c.symbolId # NoId THEN {i \in Ids : i = c.symbolId /\ res[i] # NoQuote}
      ELSE {i \in Ids : /\ res[i] # NoQuote /\ SymbolOf[i] = c.symbol
                        /\ \A j \in Ids : res[j] # NoQuote /\ SymbolOf[j] = c.symbol => i <= j}

(* Mutant: a currency without a rate is priced too, at nothing.            *)
UpdatePriceUsdUnchecked(c) ==
    /\ priceJob.at = "reprice" /\ c \in priceJob.currencies
    /\ priceJob' = [priceJob EXCEPT !.currencies = @ \ {c}]
    /\ sales' = [s \in DOMAIN sales |->
                   IF CurrencyOf(sales[s]) # c THEN sales[s]
                     ELSE [sales[s] EXCEPT !.rate.quote = priceJob.res[sales[s].rate.id]]]
    /\ UNCHANGED <<exchange, cryptocurrencies, listJob, req, moves, failures, kept, overtaken>>

(* updatePriceUsd of a currency that has a rate: one updateMany.           *)
UpdatePriceUsd(c) ==
    /\ priceJob.at = "reprice" /\ c \in priceJob.currencies
    /\ priceJob' = [priceJob EXCEPT !.currencies = @ \ {c}]
    /\ sales' = [s \in DOMAIN sales |->
                   IF CurrencyOf(sales[s]) # c \/ RateOf(priceJob.res, c) = {} THEN sales[s]
                     ELSE LET i == CHOOSE i \in RateOf(priceJob.res, c) : TRUE
                          IN  [sales[s] EXCEPT !.rate = [id |-> i, quote |-> priceJob.res[i]]]]
    /\ UNCHANGED <<exchange, cryptocurrencies, listJob, req, moves, failures, kept, overtaken>>

(* Mutant: the job stops after the first currency.                         *)
PriceJobEndsEarly ==
    /\ priceJob.at = "reprice"
    /\ priceJob.currencies # OnSale \/ priceJob.currencies = {}
    /\ priceJob' = NoPriceJob
    /\ UNCHANGED <<exchange, cryptocurrencies, sales, listJob, req, moves, failures, kept, overtaken>>

PriceJobEnds ==
    /\ priceJob.at = "reprice" /\ priceJob.currencies = {}
    /\ priceJob' = NoPriceJob
    /\ UNCHANGED <<exchange, cryptocurrencies, sales, listJob, req, moves, failures, kept, overtaken>>

PriceJobFails ==
    /\ priceJob.at # "idle"
    /\ CallFails
    /\ priceJob' = NoPriceJob
    /\ UNCHANGED <<exchange, cryptocurrencies, sales, listJob, req, moves, kept, overtaken>>

-----------------------------------------------------------------------------
(* POST cards/:cardId/sales, up to isAllowedCurrency: an allowed symbol    *)
(* that the list does not have is refused as well.                         *)
IsAllowedCurrency(symbol) == symbol \in Allowed /\ \E i \in cryptocurrencies : SymbolOf[i] = symbol

CreateSale(r, symbol) ==
    /\ req[r].at = "idle"
    /\ IsAllowedCurrency(symbol)
    /\ req' = [req EXCEPT ![r] = [at |-> "getRate", symbol |-> symbol, rate |-> NoRate]]
    /\ UNCHANGED <<exchange, cryptocurrencies, sales, listJob, priceJob, moves, failures, kept, overtaken>>

(* Without a rate the request is refused.                                  *)
GetRate(r) ==
    /\ req[r].at = "getRate"
    /\ \/ \E i \in Ids :
            /\ SymbolOf[i] = req[r].symbol
            /\ req' = [req EXCEPT ![r] = [at |-> "store", symbol |-> req[r].symbol,
                                         rate |-> [id |-> i, quote |-> quote[i]]]]
            /\ UNCHANGED failures
       \/ CallFails /\ req' = [req EXCEPT ![r] = NoReq]
    /\ UNCHANGED <<exchange, cryptocurrencies, sales, listJob, priceJob, moves, kept, overtaken>>

(* The sale keeps the id of the coin whose rate it took.                   *)
StoreSale(r) ==
    /\ req[r].at = "store"
    /\ Len(sales) < MaxSales
    /\ sales' = Append(sales, [symbol |-> req[r].symbol, symbolId |-> req[r].rate.id,
                               rate |-> req[r].rate])
    /\ overtaken' = IF priceJob.at = "idle" THEN overtaken ELSE overtaken \cup {Len(sales) + 1}
    /\ req' = [req EXCEPT ![r] = NoReq]
    /\ UNCHANGED <<exchange, cryptocurrencies, listJob, priceJob, moves, failures, kept>>

-----------------------------------------------------------------------------
ListJob  == \/ GetCurrenciesList \/ (\E i \in Ids : UpsertCurrency(i))
            \/ EmptyListRejected \/ DeleteOtherCurrencies
PriceJob == \/ GetSaleAllCurrencies \/ RequestBySymbol \/ RequestById
            \/ \E c \in OnSale : UpdatePriceUsd(c)
            \/ PriceJobEnds

Next ==
    \/ \E i \in Ids : QuoteMoves(i) \/ ListMoves(i)
    \/ ListJob \/ ListJobFails
    \/ PriceJob \/ PriceJobFails
    \/ \E r \in Requests : (\E s \in Symbols : CreateSale(r, s)) \/ GetRate(r) \/ StoreSale(r)

(* The two functions are scheduled, every day and every hour, one at a     *)
(* time.  Nothing makes a client put a card on sale.                       *)
Spec == Init /\ [][Next]_vars /\ WF_vars(ListJob) /\ WF_vars(PriceJob)

-----------------------------------------------------------------------------
TypeOK ==
    /\ market \subseteq Ids /\ cryptocurrencies \subseteq Ids
    /\ quote \in [Ids -> Nat \ {NoQuote}]
    /\ sales \in Seq(Sales)
    /\ listJob \in [at : {"idle", "upsert"}, ids : SUBSET Ids, left : SUBSET Ids]
    /\ priceJob \in [at : {"idle", "bySymbol", "byId", "reprice"},
                     currencies : SUBSET [symbol : Symbols, symbolId : Ids \cup {NoId}],
                     res : [Ids -> Nat]]
    /\ req \in [Requests -> [at : {"idle", "getRate", "store"}, symbol : Symbols,
                             rate : Rates \cup {NoRate}]]
    /\ moves \in [quotes : 0..MaxQuoteMoves, list : 0..MaxListMoves] /\ failures \in 0..MaxFailures
    /\ kept \subseteq market /\ overtaken \subseteq Nat

(* While the list is replaced, and when that is cut short, no coin that    *)
(* the exchange lists all the time is missing: a sale in an allowed        *)
(* currency is not refused for the time of the daily job.                  *)
NoCoinMissing == kept \subseteq cryptocurrencies

(* A sale is priced by a coin of its symbol, and by its very own coin when *)
(* it has an id, whatever coins of one symbol the answers mix.             *)
PricedByItsCoin == \A s \in DOMAIN sales : PricedBySymbol(sales[s])

(* A price never goes back to an older quote of its coin, but for a sale   *)
(* that was stored while the hourly job ran: the job then multiplies it by *)
(* the quote it had read before.                                           *)
NoOlderQuote ==
    [][\A s \in DOMAIN sales :
         LET was == sales[s].rate
             is  == sales'[s].rate
         IN  was.id = is.id /\ is.quote < was.quote => s \in overtaken]_vars

(* Once the exchange stands still and answers, every sale is priced by the *)
(* quote of the day, those overtaken by a job included.                    *)
EverySalePriced ==
    <>[](\A s \in DOMAIN sales : sales[s].rate.quote = quote[sales[s].rate.id])

(* And the list of the coins is the exchange's, but for an exchange that   *)
(* has come to list nothing: its last coins are never deleted.             *)
ListFollows == <>[](market = {} \/ cryptocurrencies = market)

(* No lasting coin is missing, and a sale has the price of its coin.       *)
PricesSound == TypeOK /\ NoCoinMissing /\ PricedByItsCoin

(* Both jobs have their effect in the end.                                 *)
JobsGetThrough == EverySalePriced /\ ListFollows
=============================================================================

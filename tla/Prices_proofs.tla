----------------------------- MODULE Prices_proofs -----------------------------
(***************************************************************************)
(* Proofs about Prices: sales keep the coin they are of, the coins the     *)
(* exchange lists all the time stay in the list, and a price only goes     *)
(* back when its sale was stored while the hourly job ran.                 *)
(*                                                                         *)
(* Both results need to know what the two jobs carry along.  The daily job *)
(* has an answer with all the coins that were listed ever since.  The      *)
(* hourly job has quotes that may be old, but of a coin it has a quote of  *)
(* no sale is newer, unless the sale was stored after the job had begun.   *)
(***************************************************************************)
EXTENDS Prices, TLAPS

USE DEF NoId, NoQuote

Currencies == [symbol : Symbols, symbolId : Ids \cup {NoId}]

(* A request that has its rate has one of a coin of its symbol.            *)
ReqInv ==
    \A r \in Requests : req[r].at = "store" =>
        /\ req[r].rate \in Rates
        /\ SymbolOf[req[r].rate.id] = req[r].symbol
        /\ req[r].rate.quote <= quote[req[r].rate.id]

ListInv == listJob.at = "upsert" => kept \subseteq listJob.ids

(* No quote is from the future, and the job's quotes are not older than    *)
(* the prices it may touch, but for the sales that have overtaken it.      *)
QuoteInv ==
    /\ \A i \in Ids : priceJob.res[i] <= quote[i]
    /\ priceJob.at = "idle" => \A i \in Ids : priceJob.res[i] = NoQuote
    /\ \A s \in DOMAIN sales :
         /\ sales[s].rate.quote <= quote[sales[s].rate.id]
         /\ \/ s \in overtaken
            \/ priceJob.res[sales[s].rate.id] = NoQuote
            \/ sales[s].rate.quote <= priceJob.res[sales[s].rate.id]

PInv == PricesSound /\ ReqInv /\ ListInv /\ QuoteInv

-----------------------------------------------------------------------------
(* What RateOf finds has a quote, and is a coin of the currency.           *)
LEMMA RateFound ==
    ASSUME NEW res \in [Ids -> Nat], NEW c \in Currencies, NEW i \in RateOf(res, c)
    PROVE  /\ i \in Ids /\ res[i] \in Nat \ {NoQuote}
           /\ c.symbolId # NoId => i = c.symbolId
           /\ c.symbolId = NoId => SymbolOf[i] = c.symbol
BY DEF RateOf, Currencies

LEMMA SaleTyped ==
    ASSUME TypeOK, NEW s \in DOMAIN sales
    PROVE  sales[s] \in Sales /\ CurrencyOf(sales[s]) \in Currencies
<1>1. sales[s] \in Sales
  BY DEF TypeOK
<1> QED BY <1>1 DEF Sales, CurrencyOf, Currencies

(* A sale that updatePriceUsd touches stays a sale of its coin, and has    *)
(* the job's quote of it.                                                  *)
LEMMA Repriced ==
    ASSUME PInv, NEW c, UpdatePriceUsd(c)
    PROVE  /\ sales' \in Seq(Sales) /\ DOMAIN sales' = DOMAIN sales
           /\ \A s \in DOMAIN sales :
                \/ sales'[s] = sales[s]
                \/ /\ sales'[s] \in Sales /\ PricedBySymbol(sales'[s])
                   /\ sales'[s].rate.quote = priceJob.res[sales'[s].rate.id]
                   /\ priceJob.res[sales'[s].rate.id] # NoQuote
<1> DEFINE Rate == CHOOSE i \in RateOf(priceJob.res, c) : TRUE
           Priced(s) == [sales[s] EXCEPT !.rate = [id |-> Rate, quote |-> priceJob.res[Rate]]]
           New(s) == IF CurrencyOf(sales[s]) # c \/ RateOf(priceJob.res, c) = {} THEN sales[s]
                       ELSE Priced(s)
<1>1. sales' = [s \in DOMAIN sales |-> New(s)] /\ priceJob.res \in [Ids -> Nat]
  BY DEF UpdatePriceUsd, PInv, PricesSound, TypeOK
<1>2. ASSUME NEW s \in DOMAIN sales
      PROVE  \/ New(s) = sales[s]
             \/ /\ New(s) \in Sales /\ PricedBySymbol(New(s))
                /\ New(s).rate.quote = priceJob.res[New(s).rate.id]
                /\ priceJob.res[New(s).rate.id] # NoQuote
  <2>1. CASE CurrencyOf(sales[s]) # c \/ RateOf(priceJob.res, c) = {}
    BY <2>1
  <2>2. CASE CurrencyOf(sales[s]) = c /\ RateOf(priceJob.res, c) # {}
    <3>1. sales[s] \in Sales /\ c \in Currencies
      BY <1>2, <2>2, SaleTyped DEF PInv, PricesSound
    <3>2. Rate \in RateOf(priceJob.res, c)
      BY <2>2
    <3>3. /\ Rate \in Ids /\ priceJob.res[Rate] \in Nat \ {NoQuote}
          /\ c.symbolId # NoId => Rate = c.symbolId
          /\ c.symbolId = NoId => SymbolOf[Rate] = c.symbol
      BY <1>1, <3>1, <3>2, RateFound
    <3>4. c.symbol = sales[s].symbol /\ c.symbolId = sales[s].symbolId
      BY <2>2 DEF CurrencyOf
    <3>5. SymbolOf[Rate] = sales[s].symbol
      BY <1>2, <3>3, <3>4 DEF PInv, PricesSound, PricedByItsCoin, PricedBySymbol
    <3> HIDE DEF Rate
    <3>6. /\ Priced(s) \in Sales
          /\ Priced(s).rate.id = Rate /\ Priced(s).rate.quote = priceJob.res[Rate]
          /\ Priced(s).symbol = sales[s].symbol /\ Priced(s).symbolId = sales[s].symbolId
      BY <3>1, <3>3 DEF Sales, Rates
    <3>7. New(s) = Priced(s)
      BY <2>2
    <3> HIDE DEF New, Priced
    <3>8. PricedBySymbol(New(s))
      BY <3>3, <3>4, <3>5, <3>6, <3>7 DEF PricedBySymbol
    <3> QED BY <3>3, <3>6, <3>7, <3>8
  <2> QED BY <2>1, <2>2
<1> HIDE DEF New, Rate, Priced
<1>3. sales \in Seq(Sales)
  BY DEF PInv, PricesSound, TypeOK
<1>4. DOMAIN sales' = DOMAIN sales /\ \A s \in DOMAIN sales : sales'[s] = New(s)
  BY <1>1
<1>5. \A s \in DOMAIN sales : New(s) \in Sales
  BY <1>2, <1>3
<1>6. sales' \in Seq(Sales)
  <2>1. DOMAIN sales = 1..Len(sales) /\ Len(sales) \in Nat
    BY <1>3
  <2> QED BY <1>1, <1>5, <2>1
<1> QED BY <1>2, <1>4, <1>6

-----------------------------------------------------------------------------
LEMMA PInvHolds == Init => PInv
<1> SUFFICES ASSUME Init PROVE PInv
  OBVIOUS
<1>1. NoReq \in [at : {"idle", "getRate", "store"}, symbol : Symbols, rate : Rates \cup {NoRate}]
  BY PricesAssumption DEF NoReq, Symbols
<1>2. TypeOK
  <2>1. /\ market \subseteq Ids /\ cryptocurrencies \subseteq Ids /\ kept \subseteq market
        /\ quote \in [Ids -> Nat \ {NoQuote}] /\ sales \in Seq(Sales)
        /\ failures \in 0..MaxFailures /\ overtaken \subseteq Nat
    BY PricesAssumption, ImportedAssumption DEF Init
  <2>2. moves \in [quotes : 0..MaxQuoteMoves, list : 0..MaxListMoves]
    BY PricesAssumption DEF Init
  <2>3. /\ listJob \in [at : {"idle", "upsert"}, ids : SUBSET Ids, left : SUBSET Ids]
        /\ priceJob \in [at : {"idle", "bySymbol", "byId", "reprice"},
                         currencies : SUBSET Currencies, res : [Ids -> Nat]]
    BY DEF Init, NoListJob, NoPriceJob, NoQuotes
  <2>4. req \in [Requests -> [at : {"idle", "getRate", "store"}, symbol : Symbols,
                             rate : Rates \cup {NoRate}]]
    BY <1>1 DEF Init
  <2> QED BY <2>1, <2>2, <2>3, <2>4 DEF TypeOK, Currencies
<1>3. NoCoinMissing /\ PricedByItsCoin /\ ReqInv /\ ListInv
  BY ImportedAssumption DEF Init, NoCoinMissing, PricedByItsCoin, ReqInv, ListInv, NoReq, NoListJob
<1>4. QuoteInv
  <2>1. \A s \in DOMAIN sales : sales[s].rate.id \in Ids /\ sales[s].rate.quote = 1
    <3>1. \A s \in DOMAIN sales : sales[s] \in Sales /\ sales[s].rate.quote = 1
      BY ImportedAssumption DEF Init
    <3> QED BY <3>1 DEF Sales, Rates
  <2> QED BY <2>1 DEF Init, QuoteInv, NoPriceJob, NoQuotes
<1> QED BY <1>2, <1>3, <1>4 DEF PInv, PricesSound

(* A step that leaves the sales alone: what is left is about the quotes.   *)
LEMMA SalesUntouched ==
    ASSUME PInv, UNCHANGED <<sales, overtaken>>,
           \A i \in Ids : quote'[i] \in Nat /\ quote[i] <= quote'[i],
           \A i \in Ids : \/ priceJob'.res[i] = NoQuote
                          \/ priceJob'.res[i] = priceJob.res[i]
                          \/ priceJob'.res[i] = quote[i],
           priceJob'.at = "idle" => \A i \in Ids : priceJob'.res[i] = NoQuote
    PROVE  QuoteInv' /\ PricedByItsCoin'
<1>1. /\ \A i \in Ids : quote[i] \in Nat /\ priceJob.res[i] \in Nat
      /\ \A s \in DOMAIN sales : sales[s].rate.id \in Ids /\ sales[s].rate.quote \in Nat
  BY SaleTyped DEF PInv, PricesSound, TypeOK, Sales, Rates
<1>2. PricedByItsCoin'
  BY DEF PInv, PricesSound, PricedByItsCoin
<1>3. QuoteInv'
  BY <1>1 DEF PInv, QuoteInv
<1> QED BY <1>2, <1>3

-----------------------------------------------------------------------------
(* The steps of the exchange and of the daily job.                         *)
LEMMA ExchangeSteps ==
    ASSUME PInv, NEW i \in Ids, QuoteMoves(i) \/ ListMoves(i)
    PROVE  PInv'
<1>1. CASE QuoteMoves(i)
  <2>1. /\ quote' \in [Ids -> Nat \ {NoQuote}]
        /\ \A j \in Ids : quote'[j] \in Nat /\ quote[j] <= quote'[j]
    BY <1>1 DEF QuoteMoves, PInv, PricesSound, TypeOK
  <2>2. QuoteInv' /\ PricedByItsCoin'
    BY <1>1, <2>1, SalesUntouched DEF QuoteMoves, PInv, QuoteInv
  <2>3. moves' \in [quotes : 0..MaxQuoteMoves, list : 0..MaxListMoves]
    <3>1. /\ moves \in [quotes : 0..MaxQuoteMoves, list : 0..MaxListMoves]
          /\ moves.quotes < MaxQuoteMoves /\ moves' = [moves EXCEPT !.quotes = @ + 1]
      BY <1>1 DEF QuoteMoves, PInv, PricesSound, TypeOK
    <3>2. moves.quotes + 1 \in 0..MaxQuoteMoves
      BY <3>1, PricesAssumption
    <3> QED BY <3>1, <3>2
  <2>4. TypeOK'
    BY <1>1, <2>1, <2>3 DEF QuoteMoves, PInv, PricesSound, TypeOK
  <2>5. ReqInv'
    <3> SUFFICES ASSUME NEW r \in Requests, req[r].at = "store"
                 PROVE  /\ req[r].rate \in Rates /\ SymbolOf[req[r].rate.id] = req[r].symbol
                        /\ req[r].rate.quote <= quote'[req[r].rate.id]
      BY <1>1 DEF QuoteMoves, ReqInv
    <3>1. /\ req[r].rate \in Rates /\ SymbolOf[req[r].rate.id] = req[r].symbol
          /\ req[r].rate.quote <= quote[req[r].rate.id]
      BY DEF PInv, ReqInv
    <3>2. req[r].rate.id \in Ids /\ req[r].rate.quote \in Nat
      BY <3>1 DEF Rates
    <3>3. quote[req[r].rate.id] \in Nat
      BY <3>2 DEF PInv, PricesSound, TypeOK
    <3> QED BY <2>1, <3>1, <3>2, <3>3
  <2> QED BY <1>1, <2>2, <2>4, <2>5
          DEF QuoteMoves, PInv, PricesSound, NoCoinMissing, ListInv
<1>2. CASE ListMoves(i)
  <2>1. /\ market' \subseteq Ids /\ kept' \subseteq market' /\ kept' \subseteq kept
    BY <1>2 DEF ListMoves, PInv, PricesSound, TypeOK
  <2>2. QuoteInv' /\ PricedByItsCoin'
    BY <1>2, SalesUntouched DEF ListMoves, PInv, QuoteInv, PricesSound, TypeOK
  <2>3. moves' \in [quotes : 0..MaxQuoteMoves, list : 0..MaxListMoves]
    <3>1. /\ moves \in [quotes : 0..MaxQuoteMoves, list : 0..MaxListMoves]
          /\ moves.list < MaxListMoves /\ moves' = [moves EXCEPT !.list = @ + 1]
      BY <1>2 DEF ListMoves, PInv, PricesSound, TypeOK
    <3>2. moves.list + 1 \in 0..MaxListMoves
      BY <3>1, PricesAssumption
    <3> QED BY <3>1, <3>2
  <2>4. TypeOK'
    BY <1>2, <2>1, <2>3 DEF ListMoves, PInv, PricesSound, TypeOK
  <2> QED BY <1>2, <2>1, <2>2, <2>4
          DEF ListMoves, PInv, PricesSound, NoCoinMissing, ListInv, ReqInv
<1> QED BY <1>1, <1>2

LEMMA ListJobSteps ==
    ASSUME PInv, ListJob \/ ListJobFails
    PROVE  PInv'
<1>1. UNCHANGED <<exchange, sales, priceJob, req, moves, kept, overtaken>>
  BY DEF ListJob, ListJobFails, GetCurrenciesList, UpsertCurrency, EmptyListRejected,
         DeleteOtherCurrencies
<1>2. QuoteInv' /\ PricedByItsCoin' /\ ReqInv'
  BY <1>1, SalesUntouched DEF PInv, QuoteInv, ReqInv, PricesSound, TypeOK, exchange
<1>3. /\ listJob' \in [at : {"idle", "upsert"}, ids : SUBSET Ids, left : SUBSET Ids]
      /\ cryptocurrencies' \subseteq Ids /\ failures' \in 0..MaxFailures
      /\ NoCoinMissing' /\ ListInv'
  <2>0. /\ listJob \in [at : {"idle", "upsert"}, ids : SUBSET Ids, left : SUBSET Ids]
        /\ market \subseteq Ids /\ cryptocurrencies \subseteq Ids /\ kept \subseteq market
        /\ kept \subseteq cryptocurrencies /\ failures \in 0..MaxFailures /\ kept' = kept
        /\ listJob.at = "upsert" => kept \subseteq listJob.ids
    BY <1>1 DEF PInv, PricesSound, TypeOK, NoCoinMissing, ListInv
  <2>1. CASE GetCurrenciesList
    BY <2>0, <2>1 DEF GetCurrenciesList, NoCoinMissing, ListInv
  <2>2. ASSUME NEW i \in Ids, UpsertCurrency(i)
        PROVE  /\ listJob' \in [at : {"idle", "upsert"}, ids : SUBSET Ids, left : SUBSET Ids]
               /\ cryptocurrencies' \subseteq Ids /\ failures' \in 0..MaxFailures
               /\ NoCoinMissing' /\ ListInv'
    BY <2>0, <2>2 DEF UpsertCurrency, NoCoinMissing, ListInv
  <2>3. CASE DeleteOtherCurrencies
    BY <2>0, <2>3 DEF DeleteOtherCurrencies, NoCoinMissing, ListInv, NoListJob
  <2>4. CASE ListJobFails
    BY <2>0, <2>4, PricesAssumption
       DEF ListJobFails, CallFails, NoCoinMissing, ListInv, NoListJob
  <2>5. CASE EmptyListRejected
    BY <2>0, <2>5 DEF EmptyListRejected, NoCoinMissing, ListInv, NoListJob
  <2> QED BY <2>1, <2>2, <2>3, <2>4, <2>5 DEF ListJob
<1>4. TypeOK'
  BY <1>1, <1>3 DEF PInv, PricesSound, TypeOK, exchange
<1> QED BY <1>2, <1>3, <1>4 DEF PInv, PricesSound

-----------------------------------------------------------------------------
(* The hourly job.                                                         *)
LEMMA AnswerTyped ==
    ASSUME TypeOK, NEW ids
    PROVE  /\ Answer(priceJob.res, ids) \in [Ids -> Nat]
           /\ \A i \in Ids : Answer(priceJob.res, ids)[i] \in {priceJob.res[i], quote[i]}
BY DEF TypeOK, Answer

(* A step of the job that only takes rates.                                *)
LEMMA RatesTaken ==
    ASSUME PInv, UNCHANGED <<exchange, cryptocurrencies, sales, listJob, req, moves, kept, overtaken>>,
           failures' \in 0..MaxFailures,
           priceJob' \in [at : {"idle", "bySymbol", "byId", "reprice"},
                          currencies : SUBSET Currencies, res : [Ids -> Nat]],
           \A i \in Ids : priceJob'.res[i] \in {NoQuote, priceJob.res[i], quote[i]},
           priceJob'.at = "idle" => \A i \in Ids : priceJob'.res[i] = NoQuote
    PROVE  PInv'
<1>1. QuoteInv' /\ PricedByItsCoin'
  <2>1. \A i \in Ids : quote'[i] \in Nat /\ quote[i] <= quote'[i]
    BY DEF PInv, PricesSound, TypeOK, exchange
  <2> QED BY <2>1, SalesUntouched
<1>2. TypeOK'
  BY DEF PInv, PricesSound, TypeOK, Currencies, exchange
<1> QED BY <1>1, <1>2 DEF PInv, PricesSound, NoCoinMissing, ReqInv, ListInv, exchange

LEMMA RatesStep ==
    ASSUME PInv, GetSaleAllCurrencies \/ RequestBySymbol \/ RequestById \/ PriceJobEnds \/ PriceJobFails
    PROVE  PInv'
<1> DEFINE Jobs == [at : {"idle", "bySymbol", "byId", "reprice"},
                    currencies : SUBSET Currencies, res : [Ids -> Nat]]
<1>0. /\ TypeOK /\ priceJob \in Jobs /\ failures \in 0..MaxFailures
      /\ CallFails => failures' \in 0..MaxFailures
  BY PricesAssumption DEF PInv, PricesSound, TypeOK, Currencies, CallFails
<1>1. UNCHANGED <<exchange, cryptocurrencies, sales, listJob, req, moves, kept, overtaken>>
  BY DEF GetSaleAllCurrencies, RequestBySymbol, RequestById, PriceJobEnds, PriceJobFails
<1>2. NoPriceJob \in Jobs /\ NoPriceJob.at = "idle" /\ \A i \in Ids : NoPriceJob.res[i] = NoQuote
  BY DEF NoPriceJob, NoQuotes
<1>3. CASE GetSaleAllCurrencies
  <2>1. OnSale \subseteq Currencies
    BY <1>0, SaleTyped DEF OnSale
  <2>2. /\ priceJob' \in Jobs /\ priceJob'.at = "bySymbol"
        /\ \A i \in Ids : priceJob'.res[i] = NoQuote
    BY <1>3, <2>1 DEF GetSaleAllCurrencies, NoQuotes
  <2>3. failures' \in 0..MaxFailures
    BY <1>0, <1>3 DEF GetSaleAllCurrencies
  <2> QED BY <1>1, <2>2, <2>3, RatesTaken
<1>4. CASE RequestBySymbol
  <2>1. failures' \in 0..MaxFailures
    BY <1>0, <1>4 DEF RequestBySymbol
  <2>2. PICK ids : \/ priceJob' = [priceJob EXCEPT !.at = "byId", !.res = Answer(@, ids)]
                   \/ priceJob' = [priceJob EXCEPT !.at = "byId"]
    BY <1>4 DEF RequestBySymbol
  <2>3. /\ priceJob' \in Jobs /\ priceJob'.at = "byId"
        /\ \A i \in Ids : priceJob'.res[i] \in {priceJob.res[i], quote[i]}
    <3>1. CASE priceJob' = [priceJob EXCEPT !.at = "byId", !.res = Answer(@, ids)]
      BY <1>0, <3>1, AnswerTyped
    <3>2. CASE priceJob' = [priceJob EXCEPT !.at = "byId"]
      BY <1>0, <3>2
    <3> QED BY <2>2, <3>1, <3>2
  <2> QED BY <1>1, <2>1, <2>3, RatesTaken
<1>5. CASE RequestById
  <2>1. failures' \in 0..MaxFailures
    BY <1>0, <1>5 DEF RequestById
  <2>2. PICK ids : \/ priceJob' = Reprices([priceJob EXCEPT !.res = Answer(@, ids)])
                   \/ priceJob' = Reprices(priceJob)
    BY <1>5 DEF RequestById
  <2>3. PICK job \in Jobs :
          /\ priceJob' = Reprices(job)
          /\ \A i \in Ids : job.res[i] \in {priceJob.res[i], quote[i]}
    <3>1. CASE priceJob' = Reprices([priceJob EXCEPT !.res = Answer(@, ids)])
      <4> DEFINE job == [priceJob EXCEPT !.res = Answer(@, ids)]
      <4>1. job \in Jobs /\ \A i \in Ids : job.res[i] \in {priceJob.res[i], quote[i]}
        BY <1>0, AnswerTyped
      <4> HIDE DEF job
      <4>2. priceJob' = Reprices(job)
        BY <3>1 DEF job
      <4> QED BY <4>1, <4>2
    <3>2. CASE priceJob' = Reprices(priceJob)
      BY <1>0, <3>2
    <3> QED BY <2>2, <3>1, <3>2
  <2>4. \/ priceJob' = NoPriceJob
        \/ /\ priceJob' \in Jobs /\ priceJob'.at = "reprice" /\ priceJob'.res = job.res
    BY <2>3 DEF Reprices
  <2>5. CASE priceJob' = NoPriceJob
    BY <1>1, <1>2, <2>1, <2>5, RatesTaken
  <2>6. CASE /\ priceJob' \in Jobs /\ priceJob'.at = "reprice" /\ priceJob'.res = job.res
    BY <1>1, <2>1, <2>3, <2>6, RatesTaken
  <2> QED BY <2>4, <2>5, <2>6
<1>6. CASE PriceJobEnds \/ PriceJobFails
  <2>1. failures' \in 0..MaxFailures /\ priceJob' = NoPriceJob
    BY <1>0, <1>6 DEF PriceJobEnds, PriceJobFails
  <2> QED BY <1>1, <1>2, <2>1, RatesTaken
<1> QED BY <1>3, <1>4, <1>5, <1>6

LEMMA UpdateStep ==
    ASSUME PInv, NEW c, UpdatePriceUsd(c)
    PROVE  PInv'
<1>1. /\ UNCHANGED <<exchange, cryptocurrencies, listJob, req, moves, failures, kept, overtaken>>
      /\ priceJob.at = "reprice" /\ priceJob' = [priceJob EXCEPT !.currencies = @ \ {c}]
  BY DEF UpdatePriceUsd
<1>2. /\ priceJob' \in [at : {"idle", "bySymbol", "byId", "reprice"},
                         currencies : SUBSET Currencies, res : [Ids -> Nat]]
      /\ priceJob'.at = "reprice" /\ priceJob'.res = priceJob.res
  BY <1>1 DEF PInv, PricesSound, TypeOK, Currencies
<1>3. TypeOK'
  BY <1>1, <1>2, Repriced DEF PInv, PricesSound, TypeOK, Currencies, exchange
<1>4. PricedByItsCoin'
  BY Repriced DEF PInv, PricesSound, PricedByItsCoin
<1>5. QuoteInv'
  <2>1. ASSUME NEW s \in DOMAIN sales
        PROVE  /\ sales'[s].rate.quote <= quote[sales'[s].rate.id]
               /\ \/ s \in overtaken
                  \/ priceJob.res[sales'[s].rate.id] = NoQuote
                  \/ sales'[s].rate.quote <= priceJob.res[sales'[s].rate.id]
    <3>1. CASE sales'[s] = sales[s]
      BY <2>1, <3>1 DEF PInv, QuoteInv
    <3>2. CASE /\ sales'[s] \in Sales
               /\ sales'[s].rate.quote = priceJob.res[sales'[s].rate.id]
      <4>1. sales'[s].rate.id \in Ids /\ sales'[s].rate.quote \in Nat
        BY <3>2 DEF Sales, Rates
      <4> QED BY <3>2, <4>1 DEF PInv, QuoteInv
    <3> QED BY <2>1, <3>1, <3>2, Repriced
  <2>2. DOMAIN sales' = DOMAIN sales
    BY Repriced
  <2>3. (\A i \in Ids : priceJob.res[i] <= quote[i]) /\ quote' = quote /\ overtaken' = overtaken
    BY <1>1 DEF PInv, QuoteInv, exchange
  <2> QED BY <1>2, <2>1, <2>2, <2>3 DEF QuoteInv
<1> QED BY <1>1, <1>3, <1>4, <1>5 DEF PInv, PricesSound, NoCoinMissing, ReqInv, ListInv, exchange

-----------------------------------------------------------------------------
(* A request that puts a card on sale.                                     *)
LEMMA RequestSteps ==
    ASSUME PInv, NEW r \in Requests,
           (\E s \in Symbols : CreateSale(r, s)) \/ GetRate(r) \/ StoreSale(r)
    PROVE  PInv'
<1> DEFINE Asks == [at : {"idle", "getRate", "store"}, symbol : Symbols, rate : Rates \cup {NoRate}]
<1>0. /\ TypeOK /\ req \in [Requests -> Asks] /\ failures \in 0..MaxFailures
      /\ CallFails => failures' \in 0..MaxFailures
  BY PricesAssumption DEF PInv, PricesSound, TypeOK, CallFails
<1>1. NoReq \in Asks /\ NoReq.at = "idle"
  BY PricesAssumption DEF NoReq, Symbols
<1>2. ASSUME NEW q \in Asks, req' = [req EXCEPT ![r] = q], failures' \in 0..MaxFailures,
             UNCHANGED <<exchange, cryptocurrencies, sales, listJob, priceJob, moves, kept, overtaken>>,
             q.at = "store" => /\ q.rate \in Rates /\ SymbolOf[q.rate.id] = q.symbol
                               /\ q.rate.quote <= quote[q.rate.id]
      PROVE  PInv'
  <2>1. TypeOK'
    BY <1>0, <1>2 DEF TypeOK, exchange
  <2>2. ReqInv'
    BY <1>0, <1>2 DEF PInv, ReqInv, exchange
  <2> QED BY <1>2, <2>1, <2>2
          DEF PInv, PricesSound, NoCoinMissing, PricedByItsCoin, ListInv, QuoteInv, exchange
<1>3. ASSUME NEW s \in Symbols, CreateSale(r, s) PROVE PInv'
  <2> DEFINE q == [at |-> "getRate", symbol |-> s, rate |-> NoRate]
  <2>1. q \in Asks /\ q.at # "store"
    OBVIOUS
  <2>2. req' = [req EXCEPT ![r] = q]
    BY <1>3 DEF CreateSale
  <2> HIDE DEF q, Asks
  <2>3. /\ failures' \in 0..MaxFailures
        /\ UNCHANGED <<exchange, cryptocurrencies, sales, listJob, priceJob, moves, kept, overtaken>>
    BY <1>0, <1>3 DEF CreateSale
  <2> QED BY <1>2, <2>1, <2>2, <2>3
<1>4. CASE GetRate(r)
  <2>1. /\ failures' \in 0..MaxFailures
        /\ UNCHANGED <<exchange, cryptocurrencies, sales, listJob, priceJob, moves, kept, overtaken>>
    BY <1>0, <1>4 DEF GetRate
  <2>2. CASE req' = [req EXCEPT ![r] = NoReq]
    BY <1>1, <1>2, <2>1, <2>2
  <2>3. ASSUME NEW i \in Ids, SymbolOf[i] = req[r].symbol,
               req' = [req EXCEPT ![r] = [at |-> "store", symbol |-> req[r].symbol,
                                          rate |-> [id |-> i, quote |-> quote[i]]]]
        PROVE  PInv'
    <3> DEFINE q == [at |-> "store", symbol |-> req[r].symbol,
                     rate |-> [id |-> i, quote |-> quote[i]]]
    <3>1. quote[i] \in Nat \ {NoQuote} /\ req[r] \in Asks
      BY <1>0 DEF TypeOK
    <3>2. [id |-> i, quote |-> quote[i]] \in Rates
      BY <3>1 DEF Rates
    <3>3. q \in Asks
      BY <3>1, <3>2
    <3>4. /\ q.rate \in Rates /\ SymbolOf[q.rate.id] = q.symbol
          /\ q.rate.quote <= quote[q.rate.id]
      BY <2>3, <3>1, <3>2
    <3>5. req' = [req EXCEPT ![r] = q]
      BY <2>3
    <3> HIDE DEF q, Asks
    <3> QED BY <1>2, <2>1, <3>3, <3>4, <3>5
  <2> QED BY <1>4, <2>2, <2>3 DEF GetRate
<1>5. CASE StoreSale(r)
  <2> DEFINE sale == [symbol |-> req[r].symbol, symbolId |-> req[r].rate.id, rate |-> req[r].rate]
  <2>1. /\ req[r] \in Asks /\ req[r].rate \in Rates /\ SymbolOf[req[r].rate.id] = req[r].symbol
        /\ req[r].rate.quote <= quote[req[r].rate.id]
    BY <1>0, <1>5 DEF StoreSale, PInv, ReqInv
  <2>2. /\ sale \in Sales /\ PricedBySymbol(sale) /\ sale.rate = req[r].rate
        /\ sale.rate.quote <= quote[sale.rate.id] /\ sale.rate.id \in Ids
    BY <2>1 DEF Sales, PricedBySymbol, Rates
  <2>3. sales' = Append(sales, sale) /\ sales \in Seq(Sales)
    BY <1>0, <1>5 DEF StoreSale, TypeOK
  <2> HIDE DEF sale
  <2>4. /\ sales' \in Seq(Sales) /\ DOMAIN sales' = 1..(Len(sales) + 1)
        /\ DOMAIN sales = 1..Len(sales) /\ Len(sales) \in Nat
        /\ sales'[Len(sales) + 1] = sale /\ \A s \in DOMAIN sales : sales'[s] = sales[s]
    BY <2>2, <2>3
  <2>5. /\ UNCHANGED <<exchange, cryptocurrencies, listJob, priceJob, moves, failures, kept>>
        /\ req' = [req EXCEPT ![r] = NoReq]
        /\ overtaken' = IF priceJob.at = "idle" THEN overtaken
                                               ELSE overtaken \cup {Len(sales) + 1}
    BY <1>5 DEF StoreSale
  <2>6. TypeOK'
    <3>1. req' \in [Requests -> Asks]
      BY <1>0, <1>1, <2>5
    <3>2. overtaken' \subseteq Nat
      <4>1. overtaken \subseteq Nat
        BY <1>0 DEF TypeOK
      <4>2. Len(sales) + 1 \in Nat
        BY <2>4
      <4>3. CASE priceJob.at = "idle"
        BY <2>5, <4>1, <4>3
      <4>4. CASE priceJob.at # "idle"
        BY <2>5, <4>1, <4>2, <4>4
      <4> QED BY <4>3, <4>4
    <3> QED BY <1>0, <2>4, <2>5, <3>1, <3>2 DEF TypeOK, exchange
  <2>7. ReqInv'
    BY <1>0, <1>1, <2>5 DEF PInv, ReqInv, exchange
  <2>8. PricedByItsCoin'
    BY <2>2, <2>4 DEF PInv, PricesSound, PricedByItsCoin
  <2>9. QuoteInv'
    <3>1. \/ Len(sales) + 1 \in overtaken'
          \/ priceJob.res[sale.rate.id] = NoQuote
      BY <2>2, <2>5 DEF PInv, QuoteInv
    <3>2. overtaken \subseteq overtaken' /\ quote' = quote /\ priceJob' = priceJob
      BY <2>5 DEF exchange
    <3>3. ASSUME NEW s \in DOMAIN sales'
          PROVE  /\ sales'[s].rate.quote <= quote[sales'[s].rate.id]
                 /\ \/ s \in overtaken'
                    \/ priceJob.res[sales'[s].rate.id] = NoQuote
                    \/ sales'[s].rate.quote <= priceJob.res[sales'[s].rate.id]
      <4>1. CASE s = Len(sales) + 1
        BY <2>2, <2>4, <3>1, <4>1
      <4>2. CASE s \in DOMAIN sales
        BY <2>4, <3>2, <4>2 DEF PInv, QuoteInv
      <4> QED BY <2>4, <4>1, <4>2
    <3> QED BY <3>2, <3>3 DEF PInv, QuoteInv
  <2> QED BY <2>5, <2>6, <2>7, <2>8, <2>9 DEF PInv, PricesSound, NoCoinMissing, ListInv
<1> QED BY <1>3, <1>4, <1>5

-----------------------------------------------------------------------------
LEMMA PInvKept == PInv /\ [Next]_vars => PInv'
<1>1. ASSUME PInv, Next PROVE PInv'
  <2>1. CASE PriceJob \/ PriceJobFails
    BY <1>1, <2>1, RatesStep, UpdateStep DEF PriceJob
  <2> QED BY <1>1, <2>1, ExchangeSteps, ListJobSteps, RequestSteps DEF Next
<1>2. ASSUME PInv, UNCHANGED vars PROVE PInv'
  BY <1>2 DEF vars, exchange, PInv, PricesSound, TypeOK, NoCoinMissing, PricedByItsCoin,
              ReqInv, ListInv, QuoteInv
<1> QED BY <1>1, <1>2

LEMMA PricesInvariant == Spec => []PInv
BY PInvHolds, PInvKept, PTL DEF Spec

(* The coins the exchange lists all the time stay in the list while the    *)
(* daily job replaces it, and a sale is priced by its own coin.            *)
THEOREM PricesStaySound == Spec => []PricesSound
<1>1. PInv => PricesSound
  BY DEF PInv
<1> QED BY <1>1, PricesInvariant, PTL

(* A price goes back to an older quote of its coin only when the sale was  *)
(* stored while the hourly job ran.                                        *)
THEOREM PricesMoveForward == Spec => NoOlderQuote
<1> DEFINE Forward == \A s \in DOMAIN sales :
              LET was == sales[s].rate
                  is  == sales'[s].rate
              IN  was.id = is.id /\ is.quote < was.quote => s \in overtaken
<1>1. ASSUME PInv, [Next]_vars PROVE [Forward]_vars
  <2>0. \A s \in DOMAIN sales : sales[s].rate.id \in Ids /\ sales[s].rate.quote \in Nat
    BY <1>1, SaleTyped DEF PInv, PricesSound, Sales, Rates
  <2>1. ASSUME NEW c, UpdatePriceUsd(c) PROVE Forward
    <3> SUFFICES ASSUME NEW s \in DOMAIN sales,
                        sales[s].rate.id = sales'[s].rate.id,
                        sales'[s].rate.quote < sales[s].rate.quote
                 PROVE  s \in overtaken
      OBVIOUS
    <3>1. sales'[s] # sales[s]
      BY <2>0
    <3>2. /\ sales'[s].rate.quote = priceJob.res[sales'[s].rate.id]
          /\ priceJob.res[sales'[s].rate.id] # NoQuote
      BY <1>1, <2>1, <3>1, Repriced
    <3>3. priceJob.res[sales[s].rate.id] \in Nat
      BY <1>1, <2>0 DEF PInv, PricesSound, TypeOK
    <3> QED BY <1>1, <2>0, <3>2, <3>3 DEF PInv, QuoteInv
  <2>2. CASE UNCHANGED sales
    BY <2>0, <2>2
  <2>3. ASSUME NEW r \in Requests, StoreSale(r) PROVE Forward
    <3>1. sales \in Seq(Sales) /\ req[r].at = "store"
      BY <1>1, <2>3 DEF PInv, PricesSound, TypeOK, StoreSale
    <3>2. \A s \in DOMAIN sales : sales'[s] = sales[s]
      BY <2>3, <3>1 DEF StoreSale
    <3> QED BY <2>0, <3>2
  <2> QED BY <1>1, <2>1, <2>2, <2>3
          DEF Next, ListJob, PriceJob, QuoteMoves, ListMoves, GetCurrenciesList, UpsertCurrency,
              EmptyListRejected, DeleteOtherCurrencies, ListJobFails, GetSaleAllCurrencies, RequestBySymbol,
              RequestById, PriceJobEnds, PriceJobFails, CreateSale, GetRate, vars
<1>2. PInv /\ [Next]_vars => [Forward]_vars
  BY <1>1
<1> QED BY <1>2, PricesInvariant, PTL DEF Spec, NoOlderQuote
=============================================================================

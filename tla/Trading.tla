------------------------------ MODULE Trading ------------------------------
(***************************************************************************)
(* The trading desk of examples/http_server_test.cpp and stock/: the       *)
(* account, the quotes, the holdings and the order list are globals that   *)
(* initial() fills before the worker processes are forked, so each worker  *)
(* serves InsertOrder and WithdrawOrder from a private copy of them.       *)
(*                                                                         *)
(* Prices are whole cents.  A requested price is rounded to a float and    *)
(* then compared with the close price, a double, plus 0.00001 yuan: both   *)
(* sides are taken in thousandths of a cent, and FloatErr is what the      *)
(* rounding adds to a price (rounded up, so that a comparison with a whole *)
(* number of thousandths comes out as in the code).  Quantities are C      *)
(* ints: IntMax is INT_MAX, and a sum above it wraps to a negative number. *)
(***************************************************************************)
EXTENDS Integers, Sequences

CONSTANTS
    Workers,      \* the worker processes
    Codes,        \* stock codes a request may name
    Quote,        \* quoted code -> [mkt, close], the rows of data/quote.csv
    Permitted,    \* markets the account may trade (data/acct.csv)
    Balance,      \* the account's balance, in cents
    InitQty,      \* held code -> quantity, the rows of data/holdings.csv
    Null,         \* a JSON field that is absent or of the wrong type
    Requests,     \* the parsed bodies of InsertOrder requests
    FloatErr,     \* price -> float(price) - price, in thousandths of a cent
    MaxQty,       \* 65535 in handle_insert_order
    MaxPrice,     \* 65535 yuan, in cents
    IntMax,       \* INT_MAX
    MaxOrders,    \* bound: orders queued per worker
    MaxFills      \* bound: orders executed at once per worker

Markets == {"SHA", "SHB", "SZA", "SZB", "GEM", "STAR", "SME"}
Sides == {"buy", "sell"}

\* ticker, market, side, price (Null when it is NaN) and qty.  Of the market only
\* its presence matters, and any side but "buy" sells.
Request == [code : Codes \cup {Null}, mkt : {"given", Null}, side : Sides \cup {Null},
            price : Int \cup {Null}, qty : Int]

\* Half the distance of two floats between 32768 and 65535 yuan (2^-9 yuan), in
\* thousandths of a cent: no price up to MaxPrice is rounded by more.
HalfUlp == 196

ASSUME TradingAssumption ==
    /\ Null \notin Codes /\ Null \notin Sides /\ Null \notin Int
    /\ Null # "given"
    /\ DOMAIN Quote \subseteq Codes
    /\ \A c \in DOMAIN Quote : Quote[c].close \in Nat
    /\ DOMAIN InitQty \subseteq Codes
    /\ \A c \in DOMAIN InitQty : InitQty[c] \in 0..IntMax
    /\ Balance \in Nat
    /\ Requests \subseteq Request
    /\ \A r \in Requests : r.price # Null => r.price \in DOMAIN FloatErr
    /\ \A p \in DOMAIN FloatErr :
          /\ FloatErr[p] \in Int
          /\ p \in 0..MaxPrice => FloatErr[p] \in -HalfUlp..HalfUlp
          /\ p < 0 => 1000 * p + FloatErr[p] <= 0
    /\ IntMax \in Nat
    /\ MaxQty \in 0..IntMax
    /\ MaxPrice \in Nat

VARIABLES
    holdings,     \* worker -> (held code -> quantity), HoldingsClass::stk_list
    order_list,   \* worker -> sequence of orders
    order_id,     \* worker -> the next order number
    errorTxt,     \* worker -> the reason last written to errorTxt
    reply,        \* the last response sent, with the reason behind it
    \* history, not kept by the program
    ledger,       \* worker -> code -> initial quantity + executed buys - sells
    spent,        \* worker -> money paid for executed buys
    fills,        \* worker -> orders executed at once
    request       \* the InsertOrder request that was answered last, or Null

vars == <<holdings, order_list, order_id, errorTxt, reply, ledger, spent, fills, request>>
-----------------------------------------------------------------------------
(***************************************************************************)
(* The rules of buyStock and sellStock.                                    *)
(***************************************************************************)
mktPermission(mkt) == mkt \in Markets /\ mkt \in Permitted

\* The parameter "float price", in thousandths of a cent.
FloatPrice(price) == 1000 * price + FloatErr[price]

\* The close price plus the 0.00001 yuan every comparison adds to it.
PaddedClose(c) == 1000 * Quote[c].close + 1

OutOfBand(c, price) ==
    \/ 10 * FloatPrice(price) > 11 * PaddedClose(c)
    \/ 10 * FloatPrice(price) < 9 * PaddedClose(c)

\* Mutant: both prices are cut to whole yuan.
AboveCloseYuan(c, price) == price \div 100 > Quote[c].close \div 100

AboveClose(c, price) == FloatPrice(price) > PaddedClose(c)

LotSize == [SHA |-> 1000, SHB |-> 200, SZA |-> 500, SZB |-> 300,
            GEM |-> 600, STAR |-> 700, SME |-> 800]

query_holdings(w, c) == IF c \in DOMAIN holdings[w] THEN holdings[w][c] ELSE -404

\* A 32-bit sum of two ints of which the second is at most MaxQty.
Wrap(n) == IF n > IntMax THEN n - 2 * (IntMax + 1) ELSE n

\* The early returns of buyStock, in their order; "ok" is its return 0.
buyCheck(c, price, qty) ==
    IF ~mktPermission(Quote[c].mkt) THEN "permission"
    ELSE IF qty <= 0 THEN "quantity"
    ELSE IF price < 1 /\ price > 50000 THEN "quote"
    ELSE IF qty % LotSize[Quote[c].mkt] # 0 THEN "lot"
    ELSE IF qty * price > Balance THEN "balance"
    ELSE IF OutOfBand(c, price) THEN "band"
    ELSE "ok"

\* The early returns of sellStock.
sellCheck(w, c, price, qty) ==
    IF ~mktPermission(Quote[c].mkt) THEN "permission"
    ELSE IF qty <= 0 THEN "quantity"
    ELSE IF query_holdings(w, c) < 0 THEN "notheld"
    ELSE IF query_holdings(w, c) < qty THEN "short"
    ELSE IF OutOfBand(c, price) THEN "band"
    ELSE "ok"

\* The refusals that return without writing errorTxt.
Silent == {"quote", "lot"}
-----------------------------------------------------------------------------
NoReply == [op |-> "none", status |-> 200, reason |-> "ok", message |-> "ok"]

Init ==
    /\ holdings = [w \in Workers |-> InitQty]
    /\ order_list = [w \in Workers |-> <<>>]
    /\ order_id = [w \in Workers |-> 1]
    /\ errorTxt = [w \in Workers |-> "none"]
    /\ reply = NoReply
    /\ ledger = [w \in Workers |->
                    [c \in Codes |-> IF c \in DOMAIN InitQty THEN InitQty[c] ELSE 0]]
    /\ spent = [w \in Workers |-> 0]
    /\ fills = [w \in Workers |-> 0]
    /\ request = Null

\* handle_insert_order answers 400 with errorTxt, whatever it last held.
Refuse(w, reason) ==
    /\ errorTxt' = [errorTxt EXCEPT ![w] = IF reason \in Silent THEN @ ELSE reason]
    /\ reply' = [op |-> "insert", status |-> 400, reason |-> reason,
                 message |-> errorTxt'[w]]
    /\ UNCHANGED <<holdings, order_list, order_id, ledger, spent, fills>>

\* handle_insert_order answers 200; logTxt and log/success.txt are left out.
Accept ==
    /\ reply' = [op |-> "insert", status |-> 200, reason |-> "ok", message |-> "ok"]
    /\ UNCHANGED errorTxt

EnqueueKeepsId(w, c, side, price, qty) ==
    /\ Len(order_list[w]) < MaxOrders
    /\ order_list' = [order_list EXCEPT ![w] =
          Append(@, [order_id |-> order_id[w], code |-> c, order_type |-> side,
                     price |-> price, qty |-> qty, status |-> "queued"])]
    /\ UNCHANGED <<order_id, holdings, ledger, spent, fills>>

\* order_list->push_back with the next order number.
Enqueue(w, c, side, price, qty) ==
    /\ order_id[w] <= MaxOrders
    /\ order_list' = [order_list EXCEPT ![w] =
          Append(@, [order_id |-> order_id[w], code |-> c, order_type |-> side,
                     price |-> price, qty |-> qty, status |-> "queued"])]
    /\ order_id' = [order_id EXCEPT ![w] = @ + 1]
    /\ UNCHANGED <<holdings, ledger, spent, fills>>

\* HoldingsClass::update_holdings for a buy: add to the entry, or append one.
BoughtHoldings(h, c, qty) ==
    [d \in DOMAIN h \cup {c} |->
        IF d # c THEN h[d] ELSE IF c \in DOMAIN h THEN Wrap(h[c] + qty) ELSE qty]

SoldKeepsEmpty(h, c, qty) ==
    IF c \notin DOMAIN h THEN BoughtHoldings(h, c, qty)
    ELSE [h EXCEPT ![c] = @ - qty]

\* HoldingsClass::update_holdings for a sell: an entry left with less than one
\* share is erased.  A code without an entry would be appended, as for a buy.
SoldHoldings(h, c, qty) ==
    IF c \notin DOMAIN h THEN BoughtHoldings(h, c, qty)
    ELSE IF h[c] - qty < 1 THEN [d \in DOMAIN h \ {c} |-> h[d]]
    ELSE [h EXCEPT ![c] = @ - qty]

FillBuy(w, c, price, qty) ==
    /\ fills[w] < MaxFills
    /\ fills' = [fills EXCEPT ![w] = @ + 1]
    /\ holdings' = [holdings EXCEPT ![w] = BoughtHoldings(@, c, qty)]
    /\ ledger' = [ledger EXCEPT ![w][c] = @ + qty]
    /\ spent' = [spent EXCEPT ![w] = @ + qty * price]
    /\ UNCHANGED <<order_list, order_id>>

FillSell(w, c, price, qty) ==
    /\ fills[w] < MaxFills
    /\ fills' = [fills EXCEPT ![w] = @ + 1]
    /\ holdings' = [holdings EXCEPT ![w] = SoldHoldings(@, c, qty)]
    /\ ledger' = [ledger EXCEPT ![w][c] = @ - qty]
    /\ UNCHANGED <<order_list, order_id, spent>>

\* buyStockbyCode and buyStock: at or below the close the order is queued,
\* above it the order is executed at once.
buyStockbyCode(w, c, price, qty) ==
    \/ /\ c \notin DOMAIN Quote
       /\ Refuse(w, "unknown")
    \/ /\ c \in DOMAIN Quote
       /\ buyCheck(c, price, qty) # "ok"
       /\ Refuse(w, buyCheck(c, price, qty))
    \/ /\ c \in DOMAIN Quote
       /\ buyCheck(c, price, qty) = "ok"
       /\ IF AboveClose(c, price) THEN FillBuy(w, c, price, qty)
                                  ELSE Enqueue(w, c, "buy", price, qty)
       /\ Accept

\* sellStockbyCode and sellStock: above the close queued, otherwise executed.
sellStockbyCode(w, c, price, qty) ==
    \/ /\ c \notin DOMAIN Quote
       /\ Refuse(w, "unknown")
    \/ /\ c \in DOMAIN Quote
       /\ sellCheck(w, c, price, qty) # "ok"
       /\ Refuse(w, sellCheck(w, c, price, qty))
    \/ /\ c \in DOMAIN Quote
       /\ sellCheck(w, c, price, qty) = "ok"
       /\ IF AboveClose(c, price) THEN Enqueue(w, c, "sell", price, qty)
                                  ELSE FillSell(w, c, price, qty)
       /\ Accept

\* The parameter checks at the top of handle_insert_order (status 201).
BadParameter(r) ==
    \/ Null \in {r.code, r.mkt, r.side, r.price}
    \/ r.qty > MaxQty \/ r.qty < 0
    \/ r.price # Null /\ r.price > MaxPrice

InsertRejected(w, r) ==
    /\ request' = r
    /\ BadParameter(r)
    /\ reply' = [op |-> "insert", status |-> 201, reason |-> "parameter",
                 message |-> "parameter"]
    /\ UNCHANGED <<holdings, order_list, order_id, errorTxt, ledger, spent, fills>>

InsertBuy(w, r) ==
    /\ request' = r
    /\ ~BadParameter(r)
    /\ r.side = "buy"
    /\ buyStockbyCode(w, r.code, r.price, r.qty)

InsertSell(w, r) ==
    /\ request' = r
    /\ ~BadParameter(r)
    /\ r.side # "buy"
    /\ sellStockbyCode(w, r.code, r.price, r.qty)

\* withdrawOrder stops at the first order of the list with the number.
FirstWithId(w, id, i) ==
    /\ i \in DOMAIN order_list[w]
    /\ order_list[w][i].order_id = id
    /\ \A j \in 1..(i - 1) : order_list[w][j].order_id # id

\* The /WithdrawOrder route drops withdrawOrder's result: always 200, "OK".
WithdrawReply(reason) ==
    reply' = [op |-> "withdraw", status |-> 200, reason |-> reason, message |-> "ok"]

EraseOrder(w, i) ==
    order_list' = [order_list EXCEPT ![w] =
                     SubSeq(@, 1, i - 1) \o SubSeq(@, i + 1, Len(@))]

MarkWithdrawn(w, i) == order_list' = [order_list EXCEPT ![w][i].status = "withdrawn"]

WithdrawOrder(w, id) ==
    /\ \/ \E i \in DOMAIN order_list[w] :
             /\ FirstWithId(w, id, i)
             /\ order_list[w][i].status # "withdrawn"
             /\ MarkWithdrawn(w, i)
             /\ WithdrawReply("ok")
             /\ UNCHANGED errorTxt
       \/ \E i \in DOMAIN order_list[w] :
             /\ FirstWithId(w, id, i)
             /\ order_list[w][i].status = "withdrawn"
             /\ WithdrawReply("repeated")
             /\ errorTxt' = [errorTxt EXCEPT ![w] = "repeated"]
             /\ UNCHANGED order_list
       \/ /\ \A i \in DOMAIN order_list[w] : order_list[w][i].order_id # id
          /\ WithdrawReply("notfound")
          /\ errorTxt' = [errorTxt EXCEPT ![w] = "notfound"]
          /\ UNCHANGED order_list
    /\ request' = Null
    /\ UNCHANGED <<holdings, order_id, ledger, spent, fills>>

\* handle_query_stock_bycode: only an unknown code leaves a trace (errorTxt).
QueryStockbyCode(w, c) ==
    /\ \/ /\ c \in DOMAIN Quote
          /\ reply' = [op |-> "query", status |-> 200, reason |-> "ok", message |-> "ok"]
          /\ UNCHANGED errorTxt
       \/ /\ c \in Codes \ DOMAIN Quote
          /\ errorTxt' = [errorTxt EXCEPT ![w] = "unknown"]
          /\ reply' = [op |-> "query", status |-> 400, reason |-> "unknown",
                       message |-> "wrong"]
       \/ /\ c = Null
          /\ reply' = [op |-> "query", status |-> 400, reason |-> "parameter",
                       message |-> "parameter"]
          /\ UNCHANGED errorTxt
    /\ request' = Null
    /\ UNCHANGED <<holdings, order_list, order_id, ledger, spent, fills>>

Next ==
    \E w \in Workers :
        \/ \E r \in Requests : InsertRejected(w, r) \/ InsertBuy(w, r) \/ InsertSell(w, r)
        \/ \E id \in 0..(MaxOrders + 1) : WithdrawOrder(w, id)
        \/ \E c \in Codes \cup {Null} : QueryStockbyCode(w, c)

Spec == Init /\ [][Next]_vars
-----------------------------------------------------------------------------
(***************************************************************************)
(* Properties                                                              *)
(***************************************************************************)
Reasons == {"ok", "none", "parameter", "unknown", "permission", "quantity",
            "quote", "lot", "balance", "band", "notheld", "short",
            "repeated", "notfound"}

Order == [order_id : Nat, code : Codes, order_type : Sides, price : Nat, qty : Nat,
          status : {"queued", "withdrawn"}]

\* A holdings list: codes with quantities that fit an int.
HoldingsList(h) ==
    /\ DOMAIN h \subseteq Codes
    /\ \A c \in DOMAIN h : h[c] \in -(IntMax + 1)..IntMax

\* Type invariant: every global of the desk keeps the shape its declaration
\* gives it (http_server_test.cpp:189-199), quantities staying within an int.
TypeOK ==
    /\ DOMAIN holdings = Workers
    /\ \A w \in Workers : HoldingsList(holdings[w])
    /\ order_list \in [Workers -> Seq(Order)]
    /\ order_id \in [Workers -> Nat \ {0}]
    /\ errorTxt \in [Workers -> Reasons]
    /\ reply \in [op : {"none", "insert", "withdraw", "query"}, status : {200, 201, 400},
                  reason : Reasons, message : Reasons \cup {"wrong"}]
    /\ ledger \in [Workers -> [Codes -> Int]]
    /\ spent \in [Workers -> Nat]
    /\ fills \in [Workers -> Nat]
    /\ request \in Requests \cup {Null}

Position(w, c) == IF c \in DOMAIN holdings[w] THEN holdings[w][c] ELSE 0

\* A row of holdings.csv without shares; its header row is loaded as one.
EmptyRow(c) == c \in DOMAIN InitQty /\ InitQty[c] = 0

\* However buys and sells of a code are interleaved with queued and withdrawn
\* orders, update_holdings loses and invents no share: as long as the true net
\* position fits an int, it is what the holdings list shows, it is never
\* negative, and no trade leaves an entry without shares behind.
PositionConservation ==
    \A w \in Workers, c \in Codes :
        ledger[w][c] <= IntMax =>
            /\ ledger[w][c] >= 0
            /\ Position(w, c) = ledger[w][c]
            /\ c \in DOMAIN holdings[w] => ledger[w][c] > 0 \/ EmptyRow(c)

Numbered(w) ==
    /\ order_id[w] = Len(order_list[w]) + 1
    /\ \A i \in DOMAIN order_list[w] : order_list[w][i].order_id = i

\* The order numbers of one worker's list are 1, 2, 3, ... in list order, so
\* withdrawOrder's search for a number finds at most one order, and every
\* number below order_id is there to be found.
OrderIdsDense == \A w \in Workers : Numbered(w)

KeptOrWithdrawn(w) ==
    /\ Len(order_list'[w]) >= Len(order_list[w])
    /\ \A i \in DOMAIN order_list[w] :
          \/ order_list'[w][i] = order_list[w][i]
          \/ /\ order_list[w][i].status = "queued"
             /\ order_list'[w][i] = [order_list[w][i] EXCEPT !.status = "withdrawn"]

\* No request removes, reorders or rewrites an order that was accepted: the only
\* change an order ever sees is its one step from queued to withdrawn.
OrdersOnlyWithdraw == [][\A w \in Workers : KeptOrWithdrawn(w)]_vars

Executed == \E w \in Workers : fills'[w] = fills[w] + 1
Listed == \E w \in Workers : order_id'[w] = order_id[w] + 1

\* A request as the client made it, in exact cents, against the outcome that the
\* rounded comparisons gave it.
PricedRight(r) ==
    LET close == Quote[r.code].close
    IN  /\ reply'.status = 200 =>
              /\ 10 * r.price <= 11 * close + 1 /\ 10 * r.price >= 9 * close - 1
              /\ r.price > close => IF r.side = "buy" THEN Executed ELSE Listed
              /\ r.price < close => IF r.side = "buy" THEN Listed ELSE Executed
        /\ reply'.reason = "band" =>
              10 * r.price >= 11 * close - 1 \/ 10 * r.price <= 9 * close + 1

\* The float rounding of a price and the 0.00001 yuan added to the close cannot
\* do worse than http_server_test.cpp:362-370 and 446-454 mean: an accepted order
\* is executed or queued as its price is above or below the close (only a price
\* equal to the close can go either way), it exceeds the 10% limit by a tenth of
\* a cent at most, and none more than a tenth of a cent inside it is refused for
\* its price.
RoundingIsHarmless == [][request' # Null => PricedRight(request')]_vars
-----------------------------------------------------------------------------
(***************************************************************************)
(* Statements of the code's comments that the code does not keep.          *)
(***************************************************************************)
\* http_server_test.cpp:353 checks that the balance suffices for a buy: the
\* executed buys together never cost more than the account has.
SpentWithinBalance == \A w \in Workers : spent[w] <= Balance

=============================================================================

--------------------------- MODULE TradingProofs ---------------------------
(***************************************************************************)
(* Proofs about Trading, for any set of workers, any quotes, holdings and  *)
(* requests, and any int width.  StepCases reduces a step of the desk to   *)
(* five effects on the books; each invariant is then proved effect by      *)
(* effect.                                                                 *)
(***************************************************************************)
EXTENDS Trading, TLAPS

\* The variables a refused or a read-only request leaves alone.
books == <<holdings, order_list, order_id, ledger, spent, fills>>

Sold(w, c, p, q) ==
    /\ FillSell(w, c, p, q)
    /\ c \in DOMAIN holdings[w]
    /\ q <= holdings[w][c]

Withdrawn(w, i) ==
    /\ order_list[w][i].status # "withdrawn"
    /\ MarkWithdrawn(w, i)
    /\ UNCHANGED <<holdings, order_id, ledger, spent, fills>>
-----------------------------------------------------------------------------
\* A request that passes the parameter checks of handle_insert_order carries a
\* code, a side, a price and a quantity of at most MaxQty.
LEMMA GoodRequest ==
    ASSUME NEW r \in Requests, ~BadParameter(r)
    PROVE  /\ r.code \in Codes
           /\ r.side \in Sides
           /\ r.price \in Int /\ r.price <= MaxPrice /\ r.price \in DOMAIN FloatErr
           /\ r.qty \in 0..MaxQty
  BY TradingAssumption DEF BadParameter, Request

\* The price limit refuses a negative price, which no parameter check does.
LEMMA InBandIsNat ==
    ASSUME NEW c \in DOMAIN Quote, NEW p \in Int, p \in DOMAIN FloatErr, ~OutOfBand(c, p)
    PROVE  p \in Nat
  <1>1. /\ FloatErr[p] \in Int
        /\ p < 0 => 1000 * p + FloatErr[p] <= 0
        /\ Quote[c].close \in Nat
    BY TradingAssumption
  <1>2. ~(10 * (1000 * p + FloatErr[p]) < 9 * (1000 * Quote[c].close + 1))
    BY DEF OutOfBand, FloatPrice, PaddedClose
  <1> QED
    BY <1>1, <1>2

\* What an order that buyStock accepts has passed.
LEMMA BuyAccepted ==
    ASSUME NEW c \in DOMAIN Quote, NEW p \in Int, NEW q \in 0..MaxQty,
           p \in DOMAIN FloatErr, buyCheck(c, p, q) = "ok"
    PROVE  /\ q \in 1..MaxQty
           /\ p \in Nat
           /\ ~OutOfBand(c, p)
  <1>1. ~(q <= 0) /\ ~OutOfBand(c, p)
    BY DEF buyCheck
  <1>2. p \in Nat
    BY <1>1, InBandIsNat
  <1> QED
    BY <1>1, <1>2, TradingAssumption

\* What an order that sellStock accepts has passed: in particular the code has
\* an entry in the holdings and the entry covers the quantity.
LEMMA SellAccepted ==
    ASSUME NEW w \in Workers, NEW c \in DOMAIN Quote, NEW p \in Int, NEW q \in 0..MaxQty,
           TypeOK, p \in DOMAIN FloatErr, sellCheck(w, c, p, q) = "ok"
    PROVE  /\ q \in 1..MaxQty
           /\ p \in Nat
           /\ ~OutOfBand(c, p)
           /\ c \in DOMAIN holdings[w]
           /\ q <= holdings[w][c]
  <1>1. /\ ~(q <= 0)
        /\ ~(query_holdings(w, c) < 0)
        /\ ~(query_holdings(w, c) < q)
        /\ ~OutOfBand(c, p)
    BY DEF sellCheck
  <1>2. c \in DOMAIN holdings[w]
    BY <1>1 DEF query_holdings
  <1>3. holdings[w][c] \in Int
    BY <1>2, TradingAssumption DEF TypeOK, HoldingsList
  <1>4. p \in Nat
    BY <1>1, InBandIsNat
  <1> QED
    BY <1>1, <1>2, <1>3, <1>4, TradingAssumption DEF query_holdings

\* Every step of the desk has one of five effects on the books.
LEMMA StepCases ==
    ASSUME TypeOK, Next
    PROVE  \/ UNCHANGED books
           \/ \E w \in Workers, c \in DOMAIN Quote, side \in Sides, p \in Nat, q \in 1..MaxQty :
                 Enqueue(w, c, side, p, q)
           \/ \E w \in Workers, c \in DOMAIN Quote, p \in Nat, q \in 1..MaxQty :
                 FillBuy(w, c, p, q)
           \/ \E w \in Workers, c \in DOMAIN Quote, p \in Nat, q \in 1..MaxQty :
                 Sold(w, c, p, q)
           \/ \E w \in Workers : \E i \in DOMAIN order_list[w] : Withdrawn(w, i)
  <1>1. PICK w \in Workers :
          \/ \E r \in Requests : InsertRejected(w, r) \/ InsertBuy(w, r) \/ InsertSell(w, r)
          \/ \E id \in 0..(MaxOrders + 1) : WithdrawOrder(w, id)
          \/ \E c \in Codes \cup {Null} : QueryStockbyCode(w, c)
    BY DEF Next
  <1>2. ASSUME NEW r \in Requests, InsertRejected(w, r)
        PROVE  UNCHANGED books
    BY <1>2 DEF InsertRejected, books
  <1>3. ASSUME NEW r \in Requests, InsertBuy(w, r)
        PROVE  \/ UNCHANGED books
               \/ \E c \in DOMAIN Quote, side \in Sides, p \in Nat, q \in 1..MaxQty :
                     Enqueue(w, c, side, p, q)
               \/ \E c \in DOMAIN Quote, p \in Nat, q \in 1..MaxQty : FillBuy(w, c, p, q)
    <2> DEFINE c == r.code
               p == r.price
               q == r.qty
    <2>1. c \in Codes /\ p \in Int /\ p \in DOMAIN FloatErr /\ q \in 0..MaxQty
      BY <1>3, GoodRequest DEF InsertBuy
    <2>2. buyStockbyCode(w, c, p, q)
      BY <1>3 DEF InsertBuy
    <2> HIDE DEF c, p, q
    <2>3. CASE \E reason : Refuse(w, reason)
      BY <2>3 DEF Refuse, books
    <2>4. CASE /\ c \in DOMAIN Quote
               /\ buyCheck(c, p, q) = "ok"
               /\ AboveClose(c, p)
               /\ FillBuy(w, c, p, q)
      BY <2>1, <2>4, BuyAccepted
    <2>5. CASE /\ c \in DOMAIN Quote
               /\ buyCheck(c, p, q) = "ok"
               /\ ~AboveClose(c, p)
               /\ Enqueue(w, c, "buy", p, q)
      <3>1. q \in 1..MaxQty /\ p \in Nat
        BY <2>1, <2>5, BuyAccepted
      <3> QED
        BY <3>1, <2>5 DEF Sides
    <2> QED
      BY <2>2, <2>3, <2>4, <2>5 DEF buyStockbyCode
  <1>4. ASSUME NEW r \in Requests, InsertSell(w, r)
        PROVE  \/ UNCHANGED books
               \/ \E c \in DOMAIN Quote, side \in Sides, p \in Nat, q \in 1..MaxQty :
                     Enqueue(w, c, side, p, q)
               \/ \E c \in DOMAIN Quote, p \in Nat, q \in 1..MaxQty : Sold(w, c, p, q)
    <2> DEFINE c == r.code
               p == r.price
               q == r.qty
    <2>1. c \in Codes /\ p \in Int /\ p \in DOMAIN FloatErr /\ q \in 0..MaxQty
      BY <1>4, GoodRequest DEF InsertSell
    <2>2. sellStockbyCode(w, c, p, q)
      BY <1>4 DEF InsertSell
    <2> HIDE DEF c, p, q
    <2>3. CASE \E reason : Refuse(w, reason)
      BY <2>3 DEF Refuse, books
    <2>4. CASE /\ c \in DOMAIN Quote
               /\ sellCheck(w, c, p, q) = "ok"
               /\ ~AboveClose(c, p)
               /\ FillSell(w, c, p, q)
      <3>1. /\ q \in 1..MaxQty
            /\ p \in Nat
            /\ c \in DOMAIN holdings[w]
            /\ q <= holdings[w][c]
        BY <2>1, <2>4, SellAccepted
      <3> QED
        BY <3>1, <2>1, <2>4 DEF Sold
    <2>5. CASE /\ c \in DOMAIN Quote
               /\ sellCheck(w, c, p, q) = "ok"
               /\ AboveClose(c, p)
               /\ Enqueue(w, c, "sell", p, q)
      <3>1. q \in 1..MaxQty /\ p \in Nat
        BY <2>1, <2>5, SellAccepted
      <3> QED
        BY <3>1, <2>5 DEF Sides
    <2> QED
      BY <2>2, <2>3, <2>4, <2>5 DEF sellStockbyCode
  <1>5. ASSUME NEW id \in 0..(MaxOrders + 1), WithdrawOrder(w, id)
        PROVE  \/ UNCHANGED books
               \/ \E i \in DOMAIN order_list[w] : Withdrawn(w, i)
    BY <1>5 DEF WithdrawOrder, Withdrawn, books
  <1>6. ASSUME NEW c \in Codes \cup {Null}, QueryStockbyCode(w, c)
        PROVE  UNCHANGED books
    BY <1>6 DEF QueryStockbyCode, books
  <1> QED
    BY <1>1, <1>2, <1>3, <1>4, <1>5, <1>6
-----------------------------------------------------------------------------
\* errorTxt and the reply stay among the reasons of the checks.
LEMMA ReplyTypes ==
    ASSUME TypeOK, Next
    PROVE  /\ errorTxt' \in [Workers -> Reasons]
           /\ reply' \in [op : {"none", "insert", "withdraw", "query"}, status : {200, 201, 400},
                          reason : Reasons, message : Reasons \cup {"wrong"}]
           /\ request' \in Requests \cup {Null}
  <1>1. PICK w \in Workers :
          \/ \E r \in Requests : InsertRejected(w, r) \/ InsertBuy(w, r) \/ InsertSell(w, r)
          \/ \E id \in 0..(MaxOrders + 1) : WithdrawOrder(w, id)
          \/ \E c \in Codes \cup {Null} : QueryStockbyCode(w, c)
    BY DEF Next
  <1>12. request' \in Requests \cup {Null}
    BY <1>1 DEF InsertRejected, InsertBuy, InsertSell, WithdrawOrder, QueryStockbyCode
  <1>2. ASSUME NEW reason \in Reasons, Refuse(w, reason)
        PROVE  /\ errorTxt' \in [Workers -> Reasons]
               /\ errorTxt'[w] \in Reasons
               /\ reply' = [op |-> "insert", status |-> 400, reason |-> reason,
                            message |-> errorTxt'[w]]
    BY <1>2 DEF Refuse, TypeOK
  <1>3. ASSUME Accept
        PROVE  /\ errorTxt' = errorTxt
               /\ reply' = [op |-> "insert", status |-> 200, reason |-> "ok", message |-> "ok"]
    BY <1>3 DEF Accept
  <1>4. \A c, p, q : buyCheck(c, p, q) \in Reasons /\ sellCheck(w, c, p, q) \in Reasons
    BY DEF buyCheck, sellCheck, Reasons
  <1>5. ASSUME NEW c, NEW p, NEW q, buyStockbyCode(w, c, p, q) \/ sellStockbyCode(w, c, p, q)
        PROVE  (\E reason \in Reasons : Refuse(w, reason)) \/ Accept
    BY <1>4, <1>5 DEF buyStockbyCode, sellStockbyCode, Reasons
  <1>6. ASSUME NEW r \in Requests, InsertBuy(w, r) \/ InsertSell(w, r)
        PROVE  (\E reason \in Reasons : Refuse(w, reason)) \/ Accept
    BY <1>5, <1>6 DEF InsertBuy, InsertSell
  <1>7. CASE \E reason \in Reasons : Refuse(w, reason)
    <2>1. PICK reason \in Reasons : Refuse(w, reason)
      BY <1>7
    <2>2. /\ errorTxt' \in [Workers -> Reasons]
          /\ errorTxt'[w] \in Reasons
          /\ reply' = [op |-> "insert", status |-> 400, reason |-> reason,
                       message |-> errorTxt'[w]]
      BY <1>2, <2>1
    <2> QED
      BY <1>12, <2>2
  <1>8. CASE Accept
    BY <1>3, <1>8, <1>12 DEF TypeOK, Reasons
  <1>9. ASSUME NEW r \in Requests, InsertRejected(w, r)
        PROVE  /\ errorTxt' = errorTxt
               /\ reply' = [op |-> "insert", status |-> 201, reason |-> "parameter",
                            message |-> "parameter"]
    BY <1>9 DEF InsertRejected
  <1>10. ASSUME NEW id \in 0..(MaxOrders + 1), WithdrawOrder(w, id)
         PROVE  /\ errorTxt' \in [Workers -> Reasons]
                /\ \E reason \in Reasons :
                      reply' = [op |-> "withdraw", status |-> 200, reason |-> reason,
                                message |-> "ok"]
    <2>1. /\ WithdrawReply("ok") \/ WithdrawReply("repeated") \/ WithdrawReply("notfound")
          /\ \/ errorTxt' = errorTxt
             \/ errorTxt' = [errorTxt EXCEPT ![w] = "repeated"]
             \/ errorTxt' = [errorTxt EXCEPT ![w] = "notfound"]
      BY <1>10 DEF WithdrawOrder
    <2>2. errorTxt \in [Workers -> Reasons]
      BY DEF TypeOK
    <2> QED
      BY <2>1, <2>2 DEF WithdrawReply, Reasons
  <1>11. ASSUME NEW c \in Codes \cup {Null}, QueryStockbyCode(w, c)
         PROVE  /\ errorTxt' \in [Workers -> Reasons]
                /\ reply' \in [op : {"query"}, status : {200, 400},
                               reason : Reasons, message : Reasons \cup {"wrong"}]
    BY <1>11 DEF QueryStockbyCode, TypeOK, Reasons
  <1> QED
    BY <1>1, <1>6, <1>7, <1>8, <1>9, <1>10, <1>11, <1>12 DEF TypeOK, Reasons

\* Both forms of update_holdings keep a worker's list a list of ints.
LEMMA BoughtTypes ==
    ASSUME NEW h, NEW c \in Codes, NEW q \in 1..MaxQty, HoldingsList(h)
    PROVE  HoldingsList(BoughtHoldings(h, c, q))
  BY TradingAssumption DEF BoughtHoldings, Wrap, HoldingsList

LEMMA SoldTypes ==
    ASSUME NEW h, NEW c \in DOMAIN h, NEW q \in 1..MaxQty, HoldingsList(h), q <= h[c]
    PROVE  HoldingsList(SoldHoldings(h, c, q))
  BY TradingAssumption DEF SoldHoldings, HoldingsList

\* Every request leaves the desk well typed.
LEMMA TypeStep ==
    ASSUME TypeOK, [Next]_vars
    PROVE  TypeOK'
  <1>1. CASE UNCHANGED vars
    BY <1>1 DEF vars, TypeOK
  <1>2. CASE Next
    <2>1. /\ errorTxt' \in [Workers -> Reasons]
          /\ reply' \in [op : {"none", "insert", "withdraw", "query"},
                         status : {200, 201, 400},
                         reason : Reasons, message : Reasons \cup {"wrong"}]
          /\ request' \in Requests \cup {Null}
      BY <1>2, ReplyTypes
    <2>2. CASE UNCHANGED books
      BY <2>1, <2>2 DEF books, TypeOK
    <2>3. ASSUME NEW w \in Workers, NEW c \in DOMAIN Quote, NEW side \in Sides,
                 NEW p \in Nat, NEW q \in 1..MaxQty, Enqueue(w, c, side, p, q)
          PROVE  TypeOK'
      <3> DEFINE o == [order_id |-> order_id[w], code |-> c, order_type |-> side,
                       price |-> p, qty |-> q, status |-> "queued"]
      <3>1. o \in Order
        BY TradingAssumption DEF Order, TypeOK
      <3> HIDE DEF o
      <3>2. order_list' = [order_list EXCEPT ![w] = Append(@, o)]
        BY <2>3 DEF Enqueue, o
      <3>3. order_list' \in [Workers -> Seq(Order)]
        BY <3>1, <3>2 DEF TypeOK
      <3>4. order_id' \in [Workers -> Nat \ {0}]
        BY <2>3 DEF Enqueue, TypeOK
      <3> QED
        BY <2>1, <2>3, <3>3, <3>4 DEF Enqueue, TypeOK
    <2>4. ASSUME NEW w \in Workers, NEW c \in DOMAIN Quote, NEW p \in Nat,
                 NEW q \in 1..MaxQty, FillBuy(w, c, p, q)
          PROVE  TypeOK'
      <3>1. c \in Codes /\ q \in Nat /\ q * p \in Nat
        BY TradingAssumption
      <3>2. DOMAIN holdings' = Workers /\ \A v \in Workers : HoldingsList(holdings'[v])
        <4>1. /\ DOMAIN holdings' = Workers
              /\ holdings'[w] = BoughtHoldings(holdings[w], c, q)
              /\ \A v \in Workers \ {w} : holdings'[v] = holdings[v]
          BY <2>4 DEF FillBuy, TypeOK
        <4>2. HoldingsList(BoughtHoldings(holdings[w], c, q))
          BY <2>4, <3>1, BoughtTypes DEF TypeOK
        <4>3. ASSUME NEW v \in Workers
              PROVE  HoldingsList(holdings'[v])
          <5>1. CASE v = w
            BY <4>1, <4>2, <5>1
          <5>2. CASE v # w
            <6>1. holdings'[v] = holdings[v]
              BY <4>1, <5>2
            <6> QED
              BY <6>1 DEF TypeOK
          <5> QED
            BY <5>1, <5>2
        <4> QED
          BY <4>1, <4>3
      <3>3. ledger' \in [Workers -> [Codes -> Int]]
        BY <2>4, <3>1 DEF FillBuy, TypeOK
      <3>4. spent' \in [Workers -> Nat] /\ fills' \in [Workers -> Nat]
        <4> DEFINE cost == q * p
        <4>1. cost \in Nat /\ spent' = [spent EXCEPT ![w] = @ + cost]
          BY <2>4, <3>1 DEF FillBuy
        <4> HIDE DEF cost
        <4> QED
          BY <2>4, <4>1 DEF FillBuy, TypeOK
      <3> QED
        BY <2>1, <2>4, <3>2, <3>3, <3>4 DEF FillBuy, TypeOK
    <2>5. ASSUME NEW w \in Workers, NEW c \in DOMAIN Quote, NEW p \in Nat,
                 NEW q \in 1..MaxQty, Sold(w, c, p, q)
          PROVE  TypeOK'
      <3>1. c \in Codes /\ q \in Nat
        BY TradingAssumption
      <3>2. DOMAIN holdings' = Workers /\ \A v \in Workers : HoldingsList(holdings'[v])
        <4>1. /\ DOMAIN holdings' = Workers
              /\ holdings'[w] = SoldHoldings(holdings[w], c, q)
              /\ \A v \in Workers \ {w} : holdings'[v] = holdings[v]
          BY <2>5 DEF Sold, FillSell, TypeOK
        <4>2. HoldingsList(SoldHoldings(holdings[w], c, q))
          <5>1. /\ HoldingsList(holdings[w])
                /\ c \in DOMAIN holdings[w]
                /\ q <= holdings[w][c]
            BY <2>5 DEF Sold, TypeOK
          <5> QED
            BY <5>1, SoldTypes
        <4>3. ASSUME NEW v \in Workers
              PROVE  HoldingsList(holdings'[v])
          <5>1. CASE v = w
            BY <4>1, <4>2, <5>1
          <5>2. CASE v # w
            <6>1. holdings'[v] = holdings[v]
              BY <4>1, <5>2
            <6> QED
              BY <6>1 DEF TypeOK
          <5> QED
            BY <5>1, <5>2
        <4> QED
          BY <4>1, <4>3
      <3>3. ledger' \in [Workers -> [Codes -> Int]]
        BY <2>5, <3>1 DEF Sold, FillSell, TypeOK
      <3> QED
        BY <2>1, <2>5, <3>2, <3>3 DEF Sold, FillSell, TypeOK
    <2>6. ASSUME NEW w \in Workers, NEW i \in DOMAIN order_list[w], Withdrawn(w, i)
          PROVE  TypeOK'
      <3>1. order_list' \in [Workers -> Seq(Order)]
        <4>1. order_list[w] \in Seq(Order) /\ order_list[w][i] \in Order
          BY DEF TypeOK
        <4>2. [order_list[w][i] EXCEPT !.status = "withdrawn"] \in Order
          BY <4>1 DEF Order
        <4> DEFINE o == [order_list[w][i] EXCEPT !.status = "withdrawn"]
        <4>3. order_list' = [order_list EXCEPT ![w] = [@ EXCEPT ![i] = o]]
          BY <2>6 DEF Withdrawn, MarkWithdrawn
        <4> HIDE DEF o
        <4> QED
          BY <4>1, <4>2, <4>3 DEF TypeOK, o
      <3> QED
        BY <2>1, <2>6, <3>1 DEF Withdrawn, TypeOK
    <2> QED
      BY <1>2, <2>2, <2>3, <2>4, <2>5, <2>6, StepCases
  <1> QED
    BY <1>1, <1>2

\* Type correctness, for every worker set and int width.
THEOREM TypeCorrect == Spec => []TypeOK
  <1>1. Init => TypeOK
    <2> SUFFICES ASSUME Init PROVE TypeOK
      OBVIOUS
    <2>1. DOMAIN holdings = Workers /\ \A w \in Workers : HoldingsList(holdings[w])
      BY TradingAssumption DEF Init, HoldingsList
    <2>2. order_list \in [Workers -> Seq(Order)]
      BY DEF Init
    <2>3. ledger \in [Workers -> [Codes -> Int]]
      BY TradingAssumption DEF Init
    <2> QED
      BY <2>1, <2>2, <2>3 DEF Init, TypeOK, NoReply, Reasons
  <1>2. TypeOK /\ [Next]_vars => TypeOK'
    BY TypeStep
  <1> QED
    BY <1>1, <1>2, PTL DEF Spec
-----------------------------------------------------------------------------
(***************************************************************************)
(* Conservation of shares.  PositionConservation is not inductive: once a  *)
(* sum has wrapped it says nothing about the entry.  The strengthening     *)
(* says that the list is either exact or short by a full turn of the int   *)
(* (or more), which the next operations preserve.                          *)
(***************************************************************************)
Exact(w, c) ==
    /\ Position(w, c) = ledger[w][c]
    /\ ledger[w][c] >= 0
    /\ c \in DOMAIN holdings[w] => ledger[w][c] > 0 \/ EmptyRow(c)

LedgerInv ==
    \A w \in Workers, c \in Codes :
        \/ Exact(w, c)
        \/ ledger[w][c] - Position(w, c) >= 2 * (IntMax + 1)

LEMMA PositionType ==
    ASSUME TypeOK, NEW w \in Workers, NEW c \in Codes
    PROVE  /\ Position(w, c) \in -(IntMax + 1)..IntMax
           /\ ledger[w][c] \in Int
  BY TradingAssumption DEF TypeOK, HoldingsList, Position

\* A step that touches one entry of one worker keeps LedgerInv elsewhere.
LEMMA Elsewhere ==
    ASSUME LedgerInv, NEW w \in Workers, NEW c \in Codes,
           \A v \in Workers, d \in Codes : <<v, d>> # <<w, c>> =>
               /\ d \in DOMAIN holdings'[v] <=> d \in DOMAIN holdings[v]
               /\ d \in DOMAIN holdings[v] => holdings'[v][d] = holdings[v][d]
               /\ ledger'[v][d] = ledger[v][d],
           \/ Exact(w, c)'
           \/ ledger'[w][c] - Position(w, c)' >= 2 * (IntMax + 1)
    PROVE  LedgerInv'
  <1> SUFFICES ASSUME NEW v \in Workers, NEW d \in Codes
               PROVE  \/ Exact(v, d)'
                      \/ ledger'[v][d] - Position(v, d)' >= 2 * (IntMax + 1)
    BY DEF LedgerInv
  <1>1. CASE v = w /\ d = c
    BY <1>1
  <1>2. CASE ~(v = w /\ d = c)
    BY <1>2 DEF LedgerInv, Exact, Position
  <1> QED
    BY <1>1, <1>2

\* No interleaving of buys, sells, queued orders and withdrawals loses or
\* invents a share, up to the wrap-around of a C int.
THEOREM Conservation == Spec => []PositionConservation
  <1>1. Init => LedgerInv
    BY TradingAssumption DEF Init, LedgerInv, Exact, Position, EmptyRow
  <1>2. TypeOK /\ TypeOK' /\ LedgerInv /\ [Next]_vars => LedgerInv'
    <2> SUFFICES ASSUME TypeOK, TypeOK', LedgerInv, [Next]_vars PROVE LedgerInv'
      OBVIOUS
    <2>1. CASE UNCHANGED books \/ UNCHANGED vars
      BY <2>1 DEF books, vars, LedgerInv, Exact, Position
    <2>2. ASSUME NEW w \in Workers, NEW c \in DOMAIN Quote, NEW side \in Sides,
                 NEW p \in Nat, NEW q \in 1..MaxQty, Enqueue(w, c, side, p, q)
          PROVE  LedgerInv'
      BY <2>2 DEF Enqueue, LedgerInv, Exact, Position
    <2>3. ASSUME NEW w \in Workers, NEW c \in DOMAIN Quote, NEW p \in Nat,
                 NEW q \in 1..MaxQty, FillBuy(w, c, p, q)
          PROVE  LedgerInv'
      <3>1. c \in Codes /\ q \in Int /\ q > 0 /\ q <= IntMax
        BY TradingAssumption
      <3> DEFINE h == holdings[w]
      <3>2. /\ holdings'[w] = BoughtHoldings(h, c, q)
            /\ \A v \in Workers \ {w} : holdings'[v] = holdings[v]
            /\ ledger'[w][c] = ledger[w][c] + q
            /\ \A v \in Workers, d \in Codes :
                  <<v, d>> # <<w, c>> => ledger'[v][d] = ledger[v][d]
        BY <2>3, <3>1 DEF FillBuy, TypeOK
      <3>3. /\ DOMAIN holdings'[w] = DOMAIN h \cup {c}
            /\ holdings'[w][c] = IF c \in DOMAIN h THEN Wrap(h[c] + q) ELSE q
            /\ \A d \in DOMAIN h \ {c} : holdings'[w][d] = h[d]
        BY <3>2 DEF BoughtHoldings
      <3>4. \A v \in Workers, d \in Codes : <<v, d>> # <<w, c>> =>
               /\ d \in DOMAIN holdings'[v] <=> d \in DOMAIN holdings[v]
               /\ d \in DOMAIN holdings[v] => holdings'[v][d] = holdings[v][d]
               /\ ledger'[v][d] = ledger[v][d]
        BY <3>2, <3>3
      <3>5. Position(w, c)' = IF c \in DOMAIN h THEN Wrap(h[c] + q) ELSE q
        BY <3>3 DEF Position
      <3>6. \/ Exact(w, c)'
            \/ ledger'[w][c] - Position(w, c)' >= 2 * (IntMax + 1)
        <4>1. /\ Position(w, c) = IF c \in DOMAIN h THEN h[c] ELSE 0
              /\ Position(w, c) \in -(IntMax + 1)..IntMax
              /\ ledger[w][c] \in Int
          BY <3>1, PositionType DEF Position
        <4>2. Position(w, c)' = Wrap(Position(w, c) + q)
          BY <3>1, <3>5, <4>1, TradingAssumption DEF Wrap
        <4>3. c \in DOMAIN holdings'[w]
          BY <3>3
        <4>4. CASE ledger[w][c] - Position(w, c) >= 2 * (IntMax + 1)
          BY <3>1, <3>2, <4>1, <4>2, <4>4, TradingAssumption DEF Wrap
        <4>5. CASE Exact(w, c)
          <5>1. Position(w, c) = ledger[w][c] /\ ledger[w][c] >= 0
            BY <4>1, <4>5 DEF Exact
          <5>2. CASE Position(w, c) + q > IntMax
            BY <3>1, <3>2, <4>1, <4>2, <5>1, <5>2, TradingAssumption DEF Wrap
          <5>3. CASE ~(Position(w, c) + q > IntMax)
            <6>1. /\ Position(w, c)' = ledger'[w][c]
                  /\ ledger'[w][c] > 0 /\ ledger'[w][c] >= 0
              BY <3>1, <3>2, <4>1, <4>2, <5>1, <5>3, TradingAssumption DEF Wrap
            <6> QED
              BY <4>3, <6>1 DEF Exact
          <5> QED
            BY <5>2, <5>3
        <4> QED
          BY <3>1, <4>4, <4>5 DEF LedgerInv
      <3> QED
        BY <3>1, <3>4, <3>6, Elsewhere
    <2>4. ASSUME NEW w \in Workers, NEW c \in DOMAIN Quote, NEW p \in Nat,
                 NEW q \in 1..MaxQty, Sold(w, c, p, q)
          PROVE  LedgerInv'
      <3>1. c \in Codes /\ q \in Int /\ q > 0
        BY TradingAssumption
      <3> DEFINE h == holdings[w]
      <3>2. /\ holdings'[w] = SoldHoldings(h, c, q)
            /\ \A v \in Workers \ {w} : holdings'[v] = holdings[v]
            /\ ledger'[w][c] = ledger[w][c] - q
            /\ \A v \in Workers, d \in Codes :
                  <<v, d>> # <<w, c>> => ledger'[v][d] = ledger[v][d]
        BY <2>4, <3>1 DEF Sold, FillSell, TypeOK
      <3>3. /\ c \in DOMAIN h
            /\ q <= h[c]
            /\ h[c] \in Int
            /\ HoldingsList(h)
        BY <2>4, TradingAssumption DEF Sold, TypeOK, HoldingsList
      <3>4. /\ q = h[c] => DOMAIN holdings'[w] = DOMAIN h \ {c}
            /\ q # h[c] => /\ DOMAIN holdings'[w] = DOMAIN h
                           /\ holdings'[w][c] = h[c] - q
            /\ \A d \in DOMAIN h \ {c} : holdings'[w][d] = h[d]
        <4> DEFINE s == SoldHoldings(h, c, q)
        <4>1. /\ q = h[c] => DOMAIN s = DOMAIN h \ {c}
              /\ q # h[c] => /\ DOMAIN s = DOMAIN h
                             /\ s[c] = h[c] - q
              /\ \A d \in DOMAIN h \ {c} : s[d] = h[d]
          <5>1. c \in DOMAIN h /\ q \in 1..MaxQty /\ HoldingsList(h) /\ q <= h[c]
            BY <3>3
          <5> HIDE DEF h
          <5> QED
            BY <5>1, TradingAssumption DEF SoldHoldings, HoldingsList
        <4>2. holdings'[w] = s
          BY <3>2
        <4> HIDE DEF s
        <4> QED
          BY <4>1, <4>2
      <3>5. \A v \in Workers, d \in Codes : <<v, d>> # <<w, c>> =>
               /\ d \in DOMAIN holdings'[v] <=> d \in DOMAIN holdings[v]
               /\ d \in DOMAIN holdings[v] => holdings'[v][d] = holdings[v][d]
               /\ ledger'[v][d] = ledger[v][d]
        BY <3>2, <3>4
      <3>6. \/ Exact(w, c)'
            \/ ledger'[w][c] - Position(w, c)' >= 2 * (IntMax + 1)
        <4>1. Position(w, c) = h[c] /\ ledger[w][c] \in Int
          BY <3>1, <3>3, PositionType DEF Position
        <4>2. /\ Position(w, c)' = h[c] - q
              /\ c \in DOMAIN holdings'[w] <=> h[c] - q > 0
          BY <3>1, <3>3, <3>4 DEF Position
        <4> QED
          BY <3>1, <3>2, <3>3, <4>1, <4>2 DEF LedgerInv, Exact
      <3> QED
        BY <3>1, <3>5, <3>6, Elsewhere
    <2>5. ASSUME NEW w \in Workers, NEW i \in DOMAIN order_list[w], Withdrawn(w, i)
          PROVE  LedgerInv'
      BY <2>5 DEF Withdrawn, LedgerInv, Exact, Position
    <2> QED
      BY <2>1, <2>2, <2>3, <2>4, <2>5, StepCases
  <1>3. TypeOK /\ LedgerInv => PositionConservation
    <2> SUFFICES ASSUME TypeOK, LedgerInv, NEW w \in Workers, NEW c \in Codes,
                        ledger[w][c] <= IntMax
                 PROVE  /\ ledger[w][c] >= 0
                        /\ Position(w, c) = ledger[w][c]
                        /\ c \in DOMAIN holdings[w] => ledger[w][c] > 0 \/ EmptyRow(c)
      BY DEF PositionConservation
    <2>1. Exact(w, c)
      BY PositionType, TradingAssumption DEF LedgerInv
    <2> QED
      BY <2>1, PositionType DEF Exact, Position
  <1> QED
    BY <1>1, <1>2, <1>3, TypeCorrect, PTL DEF Spec
-----------------------------------------------------------------------------
\* The effect of a step on the order lists: nothing, a new last order of one
\* worker, or one status of one worker.
LEMMA ListCases ==
    ASSUME TypeOK, [Next]_vars
    PROVE  \/ UNCHANGED <<order_list, order_id>>
           \/ \E w \in Workers, c \in DOMAIN Quote, side \in Sides, p \in Nat, q \in 1..MaxQty :
                 Enqueue(w, c, side, p, q)
           \/ \E w \in Workers : \E i \in DOMAIN order_list[w] : Withdrawn(w, i)
  <1>1. CASE UNCHANGED vars
    BY <1>1 DEF vars
  <1>2. CASE Next
    <2>1. ASSUME NEW w, NEW c, NEW p, NEW q, FillBuy(w, c, p, q) \/ Sold(w, c, p, q)
          PROVE  UNCHANGED <<order_list, order_id>>
      BY <2>1 DEF FillBuy, Sold, FillSell
    <2>2. ASSUME UNCHANGED books
          PROVE  UNCHANGED <<order_list, order_id>>
      BY <2>2 DEF books
    <2> QED
      BY <1>2, <2>1, <2>2, StepCases
  <1> QED
    BY <1>1, <1>2

\* A queued order is appended: the old orders stay where they are.
LEMMA QueuedEffect ==
    ASSUME TypeOK, NEW w \in Workers, NEW c \in DOMAIN Quote, NEW side \in Sides,
           NEW p \in Nat, NEW q \in 1..MaxQty, Enqueue(w, c, side, p, q)
    PROVE  /\ Len(order_list'[w]) = Len(order_list[w]) + 1
           /\ \A i \in DOMAIN order_list[w] : order_list'[w][i] = order_list[w][i]
           /\ order_list'[w][Len(order_list[w]) + 1] =
                 [order_id |-> order_id[w], code |-> c, order_type |-> side,
                  price |-> p, qty |-> q, status |-> "queued"]
           /\ order_id'[w] = order_id[w] + 1
           /\ \A v \in Workers \ {w} : /\ order_list'[v] = order_list[v]
                                       /\ order_id'[v] = order_id[v]
  <1> DEFINE o == [order_id |-> order_id[w], code |-> c, order_type |-> side,
                   price |-> p, qty |-> q, status |-> "queued"]
  <1>1. o \in Order
    BY TradingAssumption DEF Order, TypeOK
  <1>2. order_list' = [order_list EXCEPT ![w] = Append(@, o)]
    BY DEF Enqueue
  <1>3. order_id' = [order_id EXCEPT ![w] = @ + 1]
    BY DEF Enqueue
  <1> HIDE DEF o
  <1>4. /\ order_list'[w] = Append(order_list[w], o)
        /\ \A v \in Workers \ {w} : order_list'[v] = order_list[v]
    BY <1>2 DEF TypeOK
  <1>5. order_list[w] \in Seq(Order)
    BY DEF TypeOK
  <1>6. /\ Len(order_list'[w]) = Len(order_list[w]) + 1
        /\ \A i \in DOMAIN order_list[w] : order_list'[w][i] = order_list[w][i]
        /\ order_list'[w][Len(order_list[w]) + 1] = o
    BY <1>1, <1>4, <1>5
  <1>7. /\ order_id'[w] = order_id[w] + 1
        /\ \A v \in Workers \ {w} : order_id'[v] = order_id[v]
    BY <1>3 DEF TypeOK
  <1> QED
    BY <1>4, <1>6, <1>7 DEF o

\* A withdrawal rewrites the status of one order and nothing else.
LEMMA WithdrawnEffect ==
    ASSUME TypeOK, NEW w \in Workers, NEW i \in DOMAIN order_list[w], Withdrawn(w, i)
    PROVE  /\ DOMAIN order_list'[w] = DOMAIN order_list[w]
           /\ Len(order_list'[w]) = Len(order_list[w])
           /\ order_list'[w][i] = [order_list[w][i] EXCEPT !.status = "withdrawn"]
           /\ \A j \in DOMAIN order_list[w] \ {i} : order_list'[w][j] = order_list[w][j]
           /\ \A v \in Workers \ {w} : order_list'[v] = order_list[v]
           /\ order_id' = order_id
           /\ order_list[w][i].status = "queued"
  <1> DEFINE o == [order_list[w][i] EXCEPT !.status = "withdrawn"]
  <1>1. order_list[w] \in Seq(Order) /\ order_list[w][i] \in Order
    BY DEF TypeOK
  <1>2. order_list' = [order_list EXCEPT ![w] = [@ EXCEPT ![i] = o]]
    BY DEF Withdrawn, MarkWithdrawn
  <1>3. order_id' = order_id
    BY DEF Withdrawn
  <1>4. order_list[w][i].status = "queued"
    BY <1>1 DEF Withdrawn, Order
  <1>5. o \in Order
    BY <1>1 DEF Order
  <1> HIDE DEF o
  <1>6. /\ order_list'[w] = [order_list[w] EXCEPT ![i] = o]
        /\ \A v \in Workers \ {w} : order_list'[v] = order_list[v]
    BY <1>2 DEF TypeOK
  <1>7. /\ DOMAIN order_list'[w] = DOMAIN order_list[w]
        /\ Len(order_list'[w]) = Len(order_list[w])
        /\ order_list'[w][i] = o
        /\ \A j \in DOMAIN order_list[w] \ {i} : order_list'[w][j] = order_list[w][j]
    BY <1>1, <1>5, <1>6
  <1> QED
    BY <1>3, <1>4, <1>6, <1>7 DEF o

\* The same, seen from one worker.
LEMMA ListOf ==
    ASSUME TypeOK, [Next]_vars, NEW v \in Workers
    PROVE  \/ order_list'[v] = order_list[v] /\ order_id'[v] = order_id[v]
           \/ \E c \in DOMAIN Quote, side \in Sides, p \in Nat, q \in 1..MaxQty :
                 Enqueue(v, c, side, p, q)
           \/ \E i \in DOMAIN order_list[v] : Withdrawn(v, i)
  <1>1. CASE UNCHANGED <<order_list, order_id>>
    BY <1>1
  <1>2. ASSUME NEW w \in Workers, NEW c \in DOMAIN Quote, NEW side \in Sides,
               NEW p \in Nat, NEW q \in 1..MaxQty, Enqueue(w, c, side, p, q), v # w
        PROVE  order_list'[v] = order_list[v] /\ order_id'[v] = order_id[v]
    BY <1>2, QueuedEffect
  <1>3. ASSUME NEW w \in Workers, NEW i \in DOMAIN order_list[w], Withdrawn(w, i), v # w
        PROVE  order_list'[v] = order_list[v] /\ order_id'[v] = order_id[v]
    <2>1. order_list'[v] = order_list[v] /\ order_id' = order_id
      BY <1>3, WithdrawnEffect
    <2> QED
      BY <2>1
  <1> QED
    BY <1>1, <1>2, <1>3, ListCases

\* The numbers of a worker's orders are 1, 2, 3, ..., whatever is withdrawn.
THEOREM OrderNumbers == Spec => []OrderIdsDense
  <1>1. Init => OrderIdsDense
    <2> SUFFICES ASSUME Init, NEW w \in Workers PROVE Numbered(w)
      BY DEF OrderIdsDense
    <2>1. order_list[w] = <<>> /\ order_id[w] = 1
      BY DEF Init
    <2> QED
      BY <2>1 DEF Numbered
  <1>2. TypeOK /\ OrderIdsDense /\ [Next]_vars => OrderIdsDense'
    <2> SUFFICES ASSUME TypeOK, OrderIdsDense, [Next]_vars, NEW v \in Workers
                 PROVE  Numbered(v)'
      BY DEF OrderIdsDense
    <2>1. /\ Numbered(v)
          /\ order_list[v] \in Seq(Order)
      BY DEF OrderIdsDense, TypeOK
    <2>2. order_list'[v] \in Seq(Order)
      BY TypeStep DEF TypeOK
    <2>3. CASE order_list'[v] = order_list[v] /\ order_id'[v] = order_id[v]
      BY <2>1, <2>3 DEF Numbered
    <2>4. ASSUME NEW c \in DOMAIN Quote, NEW side \in Sides, NEW p \in Nat,
                 NEW q \in 1..MaxQty, Enqueue(v, c, side, p, q)
          PROVE  Numbered(v)'
      <3> DEFINE n == Len(order_list[v])
      <3>0. order_list'[v][n + 1] =
               [order_id |-> order_id[v], code |-> c, order_type |-> side,
                price |-> p, qty |-> q, status |-> "queued"]
        BY <2>4, QueuedEffect
      <3>1. /\ Len(order_list'[v]) = n + 1
            /\ \A i \in DOMAIN order_list[v] : order_list'[v][i] = order_list[v][i]
            /\ order_list'[v][n + 1].order_id = order_id[v]
            /\ order_id'[v] = order_id[v] + 1
        <4>1. /\ Len(order_list'[v]) = n + 1
              /\ \A i \in DOMAIN order_list[v] : order_list'[v][i] = order_list[v][i]
              /\ order_id'[v] = order_id[v] + 1
          BY <2>4, QueuedEffect
        <4> QED
          BY <3>0, <4>1
      <3>2. /\ n \in Nat
            /\ DOMAIN order_list[v] = 1..n
            /\ DOMAIN order_list'[v] = 1..(n + 1)
        BY <2>1, <2>2, <3>1
      <3>3. ASSUME NEW j \in 1..(n + 1)
            PROVE  order_list'[v][j].order_id = j
        <4>1. CASE j = n + 1
          BY <2>1, <3>1, <4>1 DEF Numbered
        <4>2. CASE j \in 1..n
          BY <2>1, <3>1, <3>2, <4>2 DEF Numbered
        <4> QED
          BY <3>2, <4>1, <4>2
      <3> QED
        BY <2>1, <3>1, <3>2, <3>3 DEF Numbered
    <2>5. ASSUME NEW i \in DOMAIN order_list[v], Withdrawn(v, i)
          PROVE  Numbered(v)'
      <3>1. order_list[v][i] \in Order
        BY <2>1
      <3>2. [order_list[v][i] EXCEPT !.status = "withdrawn"].order_id = order_list[v][i].order_id
        BY <3>1 DEF Order
      <3>3. order_list'[v][i].order_id = order_list[v][i].order_id
        BY <2>5, <3>2, WithdrawnEffect
      <3>4. \A j \in DOMAIN order_list[v] \ {i} : order_list'[v][j] = order_list[v][j]
        BY <2>5, WithdrawnEffect
      <3>5. /\ DOMAIN order_list'[v] = DOMAIN order_list[v]
            /\ Len(order_list'[v]) = Len(order_list[v])
            /\ order_id' = order_id
        BY <2>5, WithdrawnEffect
      <3> QED
        BY <2>1, <3>3, <3>4, <3>5 DEF Numbered
    <2> QED
      BY <2>3, <2>4, <2>5, ListOf
  <1> QED
    BY <1>1, <1>2, TypeCorrect, PTL DEF Spec

\* Accepted orders are never removed, reordered or rewritten, only withdrawn once.
THEOREM OrderHistory == Spec => OrdersOnlyWithdraw
  <1>1. TypeOK /\ [Next]_vars => [\A w \in Workers : KeptOrWithdrawn(w)]_vars
    <2> SUFFICES ASSUME TypeOK, [Next]_vars, NEW v \in Workers
                 PROVE  KeptOrWithdrawn(v)
      OBVIOUS
    <2>1. order_list[v] \in Seq(Order)
      BY DEF TypeOK
    <2>2. CASE order_list'[v] = order_list[v]
      BY <2>1, <2>2 DEF KeptOrWithdrawn
    <2>3. ASSUME NEW c \in DOMAIN Quote, NEW side \in Sides, NEW p \in Nat,
                 NEW q \in 1..MaxQty, Enqueue(v, c, side, p, q)
          PROVE  KeptOrWithdrawn(v)
      <3>1. /\ Len(order_list'[v]) = Len(order_list[v]) + 1
            /\ \A i \in DOMAIN order_list[v] : order_list'[v][i] = order_list[v][i]
        BY <2>3, QueuedEffect
      <3> QED
        BY <2>1, <3>1 DEF KeptOrWithdrawn
    <2>4. ASSUME NEW i \in DOMAIN order_list[v], Withdrawn(v, i)
          PROVE  KeptOrWithdrawn(v)
      <3> DEFINE o2(k) == [order_list[v][k] EXCEPT !.status = "withdrawn"]
      <3>1. /\ Len(order_list'[v]) = Len(order_list[v])
            /\ order_list'[v][i] = o2(i)
            /\ \A k \in DOMAIN order_list[v] \ {i} : order_list'[v][k] = order_list[v][k]
            /\ order_list[v][i].status = "queued"
        BY <2>4, WithdrawnEffect
      <3>2. KeptOrWithdrawn(v) <=>
               /\ Len(order_list'[v]) >= Len(order_list[v])
               /\ \A k \in DOMAIN order_list[v] :
                     \/ order_list'[v][k] = order_list[v][k]
                     \/ /\ order_list[v][k].status = "queued"
                        /\ order_list'[v][k] = o2(k)
        BY Zenon DEF KeptOrWithdrawn
      <3> HIDE DEF o2
      <3> QED
        BY <2>1, <3>1, <3>2
    <2> QED
      BY <2>2, <2>3, <2>4, ListOf
  <1> QED
    BY <1>1, TypeCorrect, PTL DEF Spec, OrdersOnlyWithdraw

-----------------------------------------------------------------------------
(***************************************************************************)
(* Rounding.  Half the distance of two floats is less than a fifth of a    *)
(* cent, so the rounded comparisons decide as the exact ones do for prices *)
(* that differ from the close by a cent or more.                           *)
(***************************************************************************)
AcceptedNear(c, p) ==
    10 * p <= 11 * Quote[c].close + 1 /\ 10 * p >= 9 * Quote[c].close - 1

RefusedNear(c, p) ==
    10 * p >= 11 * Quote[c].close - 1 \/ 10 * p <= 9 * Quote[c].close + 1

SideOfClose(c, p) ==
    /\ p > Quote[c].close => AboveClose(c, p)
    /\ p < Quote[c].close => ~AboveClose(c, p)

\* An order that the price limit lets through is within it up to a tenth of a
\* cent, and on the side of the close that AboveClose says.
LEMMA AcceptedIsNear ==
    ASSUME NEW c \in DOMAIN Quote, NEW p \in Nat, p <= MaxPrice,
           p \in DOMAIN FloatErr, ~OutOfBand(c, p)
    PROVE  AcceptedNear(c, p) /\ SideOfClose(c, p)
  <1>1. FloatErr[p] \in -196..196 /\ Quote[c].close \in Nat
    BY TradingAssumption DEF HalfUlp
  <1> QED
    BY <1>1 DEF OutOfBand, AboveClose, FloatPrice, PaddedClose, AcceptedNear, SideOfClose

\* An order that the price limit refuses is outside it up to a tenth of a cent.
LEMMA RefusedIsNear ==
    ASSUME NEW c \in DOMAIN Quote, NEW p \in Int, p <= MaxPrice,
           p \in DOMAIN FloatErr, OutOfBand(c, p)
    PROVE  RefusedNear(c, p)
  <1>1. Quote[c].close \in Nat
    BY TradingAssumption
  <1>2. CASE p < 0
    BY <1>1, <1>2 DEF RefusedNear
  <1>3. CASE p >= 0
    <2>1. FloatErr[p] \in -196..196
      BY <1>3, TradingAssumption DEF HalfUlp
    <2> QED
      BY <1>1, <1>3, <2>1 DEF OutOfBand, FloatPrice, PaddedClose, RefusedNear
  <1> QED
    BY <1>2, <1>3

\* Whatever whole-cent price up to MaxPrice a request carries and however its
\* float is rounded, within half the distance of two floats, the desk executes,
\* queues or refuses the order as its exact price asks for, but for a tenth of a
\* cent at the price limit and for a price equal to the close.
THEOREM RoundingHarmless == Spec => RoundingIsHarmless
  <1> DEFINE A == request' # Null => PricedRight(request')
  <1>1. TypeOK /\ [Next]_vars => [A]_vars
    <2> SUFFICES ASSUME TypeOK, Next, request' # Null
                 PROVE  PricedRight(request')
      BY Zenon
    <2>1. PICK w \in Workers :
            \/ \E r \in Requests : InsertRejected(w, r) \/ InsertBuy(w, r) \/ InsertSell(w, r)
            \/ \E id \in 0..(MaxOrders + 1) : WithdrawOrder(w, id)
            \/ \E c \in Codes \cup {Null} : QueryStockbyCode(w, c)
      BY DEF Next
    <2>2. PICK r \in Requests : InsertRejected(w, r) \/ InsertBuy(w, r) \/ InsertSell(w, r)
      BY <2>1 DEF WithdrawOrder, QueryStockbyCode
    <2>3. request' = r
      BY <2>2 DEF InsertRejected, InsertBuy, InsertSell
    <2>4. CASE InsertRejected(w, r)
      BY <2>3, <2>4 DEF InsertRejected, PricedRight
    <2> DEFINE c == r.code
               p == r.price
               q == r.qty
    <2>5. ASSUME ~BadParameter(r)
          PROVE  p \in Int /\ p <= MaxPrice /\ p \in DOMAIN FloatErr /\ q \in 0..MaxQty
      BY <2>5, GoodRequest
    <2>6. ASSUME NEW reason, Refuse(w, reason)
          PROVE  reply'.status = 400 /\ reply'.reason = reason
      BY <2>6 DEF Refuse
    <2>7. ASSUME Accept
          PROVE  reply'.status = 200 /\ reply'.reason = "ok"
      BY <2>7 DEF Accept
    <2>8. ASSUME NEW price, NEW qty, FillBuy(w, c, price, qty) \/ FillSell(w, c, price, qty)
          PROVE  Executed
      BY <2>8 DEF FillBuy, FillSell, Executed, TypeOK
    <2>9. ASSUME NEW side, NEW price, NEW qty, Enqueue(w, c, side, price, qty)
          PROVE  Listed
      BY <2>9 DEF Enqueue, Listed, TypeOK
    <2>10. CASE InsertBuy(w, r)
      <3>1. /\ r.side = "buy" /\ buyStockbyCode(w, c, p, q)
            /\ p \in Int /\ p <= MaxPrice /\ p \in DOMAIN FloatErr /\ q \in 0..MaxQty
        BY <2>5, <2>10 DEF InsertBuy
      <3>2. CASE c \notin DOMAIN Quote /\ Refuse(w, "unknown")
        BY <2>3, <2>6, <3>2 DEF PricedRight
      <3>3. CASE /\ c \in DOMAIN Quote
                 /\ buyCheck(c, p, q) # "ok"
                 /\ Refuse(w, buyCheck(c, p, q))
        <4>1. reply'.status = 400 /\ reply'.reason = buyCheck(c, p, q)
          BY <2>6, <3>3
        <4>2. reply'.reason = "band" => OutOfBand(c, p)
          BY <4>1 DEF buyCheck
        <4>3. OutOfBand(c, p) => RefusedNear(c, p)
          BY <3>1, <3>3, RefusedIsNear
        <4> QED
          BY <2>3, <4>1, <4>2, <4>3 DEF PricedRight, RefusedNear
      <3>4. CASE /\ c \in DOMAIN Quote
                 /\ buyCheck(c, p, q) = "ok"
                 /\ IF AboveClose(c, p) THEN FillBuy(w, c, p, q)
                                        ELSE Enqueue(w, c, "buy", p, q)
                 /\ Accept
        <4>1. reply'.status = 200 /\ reply'.reason = "ok"
          BY <2>7, <3>4
        <4>2. p \in Nat /\ ~OutOfBand(c, p)
          BY <3>1, <3>4, BuyAccepted
        <4>3. AcceptedNear(c, p) /\ SideOfClose(c, p)
          BY <3>1, <3>4, <4>2, AcceptedIsNear
        <4>4. IF AboveClose(c, p) THEN Executed ELSE Listed
          BY <2>8, <2>9, <3>4
        <4> QED
          BY <2>3, <3>1, <4>1, <4>3, <4>4 DEF PricedRight, AcceptedNear, SideOfClose
      <3> QED
        BY <3>1, <3>2, <3>3, <3>4 DEF buyStockbyCode
    <2>11. CASE InsertSell(w, r)
      <3>1. /\ r.side # "buy" /\ sellStockbyCode(w, c, p, q)
            /\ p \in Int /\ p <= MaxPrice /\ p \in DOMAIN FloatErr /\ q \in 0..MaxQty
        BY <2>5, <2>11 DEF InsertSell
      <3>2. CASE c \notin DOMAIN Quote /\ Refuse(w, "unknown")
        BY <2>3, <2>6, <3>2 DEF PricedRight
      <3>3. CASE /\ c \in DOMAIN Quote
                 /\ sellCheck(w, c, p, q) # "ok"
                 /\ Refuse(w, sellCheck(w, c, p, q))
        <4>1. reply'.status = 400 /\ reply'.reason = sellCheck(w, c, p, q)
          BY <2>6, <3>3
        <4>2. reply'.reason = "band" => OutOfBand(c, p)
          BY <4>1 DEF sellCheck
        <4>3. OutOfBand(c, p) => RefusedNear(c, p)
          BY <3>1, <3>3, RefusedIsNear
        <4> QED
          BY <2>3, <4>1, <4>2, <4>3 DEF PricedRight, RefusedNear
      <3>4. CASE /\ c \in DOMAIN Quote
                 /\ sellCheck(w, c, p, q) = "ok"
                 /\ IF AboveClose(c, p) THEN Enqueue(w, c, "sell", p, q)
                                        ELSE FillSell(w, c, p, q)
                 /\ Accept
        <4>1. reply'.status = 200 /\ reply'.reason = "ok"
          BY <2>7, <3>4
        <4>2. p \in Nat /\ ~OutOfBand(c, p)
          BY <3>1, <3>4, SellAccepted
        <4>3. AcceptedNear(c, p) /\ SideOfClose(c, p)
          BY <3>1, <3>4, <4>2, AcceptedIsNear
        <4>4. IF AboveClose(c, p) THEN Listed ELSE Executed
          BY <2>8, <2>9, <3>4
        <4> QED
          BY <2>3, <3>1, <4>1, <4>3, <4>4 DEF PricedRight, AcceptedNear, SideOfClose
      <3> QED
        BY <3>1, <3>2, <3>3, <3>4 DEF sellStockbyCode
    <2> QED
      BY <2>2, <2>4, <2>10, <2>11
  <1> HIDE DEF A
  <1>2. Spec => [][A]_vars
    BY <1>1, TypeCorrect, PTL DEF Spec
  <1> QED
    BY <1>2 DEF A, RoundingIsHarmless
=============================================================================

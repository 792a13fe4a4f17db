----------------------------- MODULE MCTrading -----------------------------
(***************************************************************************)
(* Small instances of Trading: a Shenzhen A stock that is held, a STAR     *)
(* stock that is not, the header row that quote.csv and holdings.csv both  *)
(* begin with (no price, no shares, a market nobody has permission for),   *)
(* and a code without a quote.                                             *)
(***************************************************************************)
EXTENDS Trading

MCCodes == {"c1", "c2", "hdr", "none"}
MCQuote == [c1 |-> [mkt |-> "SZA", close |-> 1000],
            c2 |-> [mkt |-> "STAR", close |-> 60002],
            hdr |-> [mkt |-> "header", close |-> 0]]
MCPermitted == {"SZA", "STAR"}
MCInitQty == [c1 |-> 1500, hdr |-> 0]

Req(c, s, p, q) == [code |-> c, mkt |-> "given", side |-> s, price |-> p, qty |-> q]

\* Requests that are queued or executed.
Trades ==
    {Req("c1", "buy", 1100, 1000), Req("c1", "buy", 1000, 500),
     Req("c1", "sell", 1000, 500), Req("c1", "sell", 901, 1500),
     Req("c1", "sell", 1001, 1500), Req("c2", "buy", 60600, 700),
     Req("c2", "buy", 60002, 700), Req("c2", "sell", 60000, 700)}

\* One request for every check that can refuse it.
Refusals ==
    {[Req("c1", "buy", 1000, 500) EXCEPT !.mkt = Null], Req("c1", "buy", -1, 500),
     Req("c1", "sell", -1, 500), Req(Null, "buy", 1000, 500), Req("c1", Null, 1000, 500),
     Req("c1", "buy", Null, 500), Req("c1", "buy", 90000, 500),
     Req("c1", "buy", 1000, -1), Req("c1", "buy", 1000, 2000),
     Req("none", "buy", 1000, 500), Req("none", "sell", 1000, 500),
     Req("hdr", "buy", 0, 500), Req("hdr", "sell", 0, 500),
     Req("c1", "buy", 1000, 0), Req("c1", "sell", 1000, 0),
     Req("c1", "buy", 1000, 700), Req("c2", "buy", 60600, 1400),
     Req("c1", "buy", 1101, 500), Req("c1", "sell", 900, 500),
     Req("c1", "buy", 850, 500), Req("c1", "sell", 1150, 500),
     Req("c2", "sell", 60600, 700), Req("c1", "sell", 1000, 1999)}

MCRequests == Trades \cup Refusals

\* 600.02 yuan is 600.02001953... as a float; the other prices are rounded by
\* less than a thousandth of a cent.
MCFloatErr == [p \in {r.price : r \in MCRequests} \ {Null} |-> IF p = 60002 THEN 2 ELSE 0]
=============================================================================

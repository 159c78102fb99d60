------------------------------ MODULE MCMonitor ------------------------------
(* One token and another of the same chain. The candles hold a steady rise, a  *)
(* fall that steepens, and a single candle with a malformed one.               *)
EXTENDS Monitor

CONSTANTS t1, t2

Candle(age, close, volume) == [age |-> age, close |-> close, volume |-> volume]

MCKlines ==
    {<<Candle(3, 1000, 100), Candle(2, 2000, 300), Candle(1, 3000, 600), Candle(0, 4000, 900)>>,
     <<Candle(2, 90000, 100), Candle(1, 80000, 300), Candle(0, 10000, 600)>>,
     <<Candle(1, 5000, 100), Candle(0, Unknown, 300)>>}

Row(token, cap, liquidity, rug, top, wash) ==
    [token |-> token, cap |-> cap, liquidity |-> liquidity, rug |-> rug, top |-> top, wash |-> wash]

MCRankings ==
    {<<Row(t1, 100, 40, 0, 99, 0)>>,
     <<Row(t1, 100, 40, 60, 60, Unknown), Row(t2, Unknown, 10, 60, 60, One)>>,
     <<Row(t1, 100, 40, 0, 20, 0), Row(t2, 100, 10, 60, 60, One)>>}

Trade(token, age, side, usd) == [token |-> token, age |-> age, side |-> side, usd |-> usd]

MCTracks ==
    {<<>>,
     <<Trade(t1, 4, "buy", 9), Trade(t1, 3, "buy", 9), Trade(t1, 2, "buy", 9)>>,
     <<Trade(t1, 2, "sell", 9), Trade(t2, 1, "sell", Unknown), Trade(t1, 0, "buy", 3)>>}
=============================================================================

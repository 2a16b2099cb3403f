----------------------------- MODULE BrokerBook -----------------------------
(***************************************************************************)
(* The account at the broker, as the executors see it through OandaBroker. *)
(* External: OANDA's own behaviour is modelled from the requests src/      *)
(* sends and the answers it is written to handle.                          *)
(*                                                                         *)
(* A book lists the orders that reached the broker; an order's place in    *)
(* the list is both its order id and the id of the trade it opened.        *)
(*   OPEN      filled, the trade is open     CLOSED  the trade is over     *)
(*   PENDING   a GTC limit order, resting    CANCELED  not executed        *)
(*   NETTED    filled against an open trade of the opposite side, so that  *)
(*             the fill has no tradeOpened                                 *)
(*   LATE      on its way: the client's timeout has passed, the broker has *)
(*             not processed it yet                                        *)
(***************************************************************************)
EXTENDS Naturals, Sequences

CONSTANTS Keys, Symbols

Sides == {"buy", "sell"}
OrderStates == {"OPEN", "PENDING", "CLOSED", "CANCELED", "NETTED", "LATE"}

Order ==
  [n : Nat, key : Keys, symbol : Symbols, side : Sides, state : OrderStates,
   at : Nat]

\* get_open_trades(symbol): pending orders are not trades.
OpenOn(book, symbol) ==
  {t \in DOMAIN book : book[t].symbol = symbol /\ book[t].state = "OPEN"}

\* The open trades an order of this side would be netted against.
Against(book, symbol, side) == {t \in OpenOn(book, symbol) : book[t].side # side}

Moved(book, t, state) == [book EXCEPT ![t].state = state]

\* What the market and the broker do by themselves: a resting order fills or
\* expires, a trade meets its stop loss or take profit, a late order arrives.
BrokerMove(book, t) ==
  CASE book[t].state = "PENDING" -> {"OPEN", "CANCELED"}
    [] book[t].state = "LATE"    -> {"OPEN", "CANCELED"}
    [] book[t].state = "OPEN"    -> {"CLOSED"}
    [] OTHER                     -> {}
=============================================================================

----------------------------- MODULE PriceStream -----------------------------
(***************************************************************************)
(* src/streaming/price_stream.py: the thread that keeps a websocket open,  *)
(* and the subscriptions and last prices the worker changes and reads.     *)
(***************************************************************************)
EXTENDS Naturals, FiniteSets

CONSTANT Symbols

VARIABLES
    link,        \* where the stream's thread is; "off" without a thread
    sockets,     \* websockets open
    handled,     \* symbols the client has a handler for
    subscribed,  \* _subscribed
    prices,      \* symbols of _prices
    inFlight     \* symbols of trades received and not yet handled

streamVars == <<link, sockets, handled, subscribed, prices, inFlight>>

StreamOff ==
    /\ link = "off" /\ sockets = 0
    /\ handled = {} /\ subscribed = {} /\ prices = {} /\ inFlight = {}

Running == link \notin {"off", "ended"}

\* start, without symbols.  On any failure the worker goes on without a stream.
StartStream(wanted) ==
    /\ link' \in IF wanted THEN {"idle", "off"} ELSE {"off"}
    /\ sockets' = 0
    /\ handled' = {} /\ subscribed' = {} /\ prices' = {} /\ inFlight' = {}

\* The thread and its socket go with the process.
StreamDies ==
    /\ link' = "off" /\ sockets' = 0
    /\ handled' = {} /\ subscribed' = {} /\ prices' = {} /\ inFlight' = {}

\* Mutant: the socket of a failed attempt stays open.
DiscardedNot(open) == open

\* _discard_socket: the socket of the attempt that failed is closed or aborted.
Discarded(open) == IF open = 0 THEN 0 ELSE open - 1

\* The thread waits for a first subscription before it connects.
FirstSubscription ==
    /\ link = "idle" /\ handled # {}
    /\ link' = "connecting"
    /\ UNCHANGED <<sockets, handled, subscribed, prices, inFlight>>

Connect ==
    /\ link = "connecting"
    /\ link' = "up" /\ sockets' = sockets + 1
    /\ UNCHANGED <<handled, subscribed, prices, inFlight>>

\* The connection is refused before or after a socket is open, or one that was up
\* fails: the socket is discarded, and the thread backs off or, when the plan has no
\* such feed, gives up.
Disconnect ==
    /\ \/ link = "connecting" /\ sockets' \in {sockets, Discarded(sockets + 1)}
       \/ link = "up" /\ sockets' = Discarded(sockets)
    /\ link' \in {"pausing", "ended"}
    /\ UNCHANGED <<handled, subscribed, prices, inFlight>>

Retry ==
    /\ link = "pausing"
    /\ link' = "connecting"
    /\ UNCHANGED <<sockets, handled, subscribed, prices, inFlight>>

\* A trade of a symbol with a handler arrives; _on_trade handles it later, perhaps when
\* the symbol has been unsubscribed and its price dropped.
Trade(s) ==
    /\ link = "up" /\ s \in handled
    /\ inFlight' = inFlight \cup {s}
    /\ UNCHANGED <<link, sockets, handled, subscribed, prices>>

OnTrade(s) ==
    /\ s \in inFlight
    /\ inFlight' = inFlight \ {s}
    /\ prices' = prices \cup {s}
    /\ UNCHANGED <<link, sockets, handled, subscribed>>

\* set_symbols subscribes and unsubscribes the difference; a call that fails leaves
\* _subscribed for the next attempt.  Prices of names no longer wanted go in any case.
SetSymbols(want, subscribes, unsubscribes) ==
    LET add    == want \ subscribed
        remove == subscribed \ want
    IN  IF ~Running THEN UNCHANGED streamVars
        ELSE /\ subscribed' = (subscribed \cup IF subscribes THEN add ELSE {})
                                 \ IF unsubscribes THEN remove ELSE {}
             /\ handled' = (handled \cup add) \ IF unsubscribes THEN remove ELSE {}
             /\ prices' = prices \ remove
             /\ UNCHANGED <<link, sockets, inFlight>>

===========================================================================

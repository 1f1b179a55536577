-------------------------------- MODULE Feed --------------------------------
(***************************************************************************)
(* What a market data connection promises its subscriber: it learns what   *)
(* the exchange publishes in order, each item at most once and for what it *)
(* is.  Items are missed only between the last one learned on a connection *)
(* and the first one on the next.                                          *)
(***************************************************************************)
EXTENDS Option

VARIABLES
  published,  \* the payloads the exchange has published, in order
  learned,    \* what the subscriber made of those it got, each an Option
  at,         \* the number of the latest item learned
  gap         \* whether the next one learned may be any later item

feedVars == <<published, learned, at, gap>>

FeedInit ==
  /\ published = <<>>
  /\ learned = <<>>
  /\ at = 0
  /\ gap = TRUE

\* An item that is not market data is an error, which says nothing.
Meaning(item) ==
  CASE item.e = "kline" ->
         Some([symbol |-> item.s, what |-> IF item.x THEN "closed bar" ELSE "open bar",
               price |-> item.c])
    [] item.e = "bookTicker" -> Some([symbol |-> item.s, what |-> "quote", price |-> item.b])
    [] item.e = "aggTrade" -> Some([symbol |-> item.s, what |-> "trade", price |-> item.p])
    [] OTHER -> None

Publish ==
  /\ Len(published') = Len(published) + 1
  /\ SubSeq(published', 1, Len(published)) = published
  /\ UNCHANGED <<learned, at, gap>>

Learn ==
  \E n \in 1..Len(published) :
    /\ IF gap THEN n > at ELSE n = at + 1
    /\ learned' = Append(learned, Meaning(published[n]))
    /\ at' = n
    /\ gap' = FALSE
    /\ UNCHANGED published

Disconnect ==
  /\ gap' = TRUE
  /\ UNCHANGED <<published, learned, at>>

FeedNext == Publish \/ Learn \/ Disconnect

Spec == FeedInit /\ [][FeedNext]_feedVars
=============================================================================

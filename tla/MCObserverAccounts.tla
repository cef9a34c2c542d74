------------------------- MODULE MCObserverAccounts -------------------------
EXTENDS ObserverAccounts, TLC

CONSTANTS h1, h2

\* Two accounts of one holder, of which only one can become its safe, or of two.
OneOrTwoHolders == {1 :> h1 @@ 2 :> h1, 1 :> h1 @@ 2 :> h2}

\* The price is raised.
Low == [asset |-> "A", amount |-> 1]
TwoPrices == {Low, [asset |-> "A", amount |-> 2]}
=============================================================================

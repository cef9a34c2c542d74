--------------------------- MODULE MCBitcoinFees ---------------------------
EXTENDS BitcoinFees, TLC

\* An output that is too small and one that pays for everything: the first split
\* puts them together.
MixedFunds == <<3, 40>>

TwoSizes == 1 :> 5 @@ 2 :> 2
=============================================================================

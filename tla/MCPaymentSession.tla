--------------------------- MODULE MCPaymentSession ---------------------------
EXTENDS PaymentSession

Plain == [execute |-> TRUE, skip |-> FALSE, require |-> TRUE, forceLocal |-> FALSE,
          client |-> TRUE, key |-> NoKey]
Keyed == [Plain EXCEPT !.key = CHOOSE k \in Keys : TRUE]

\* one caller tries the options, the other one pays with the key
MCOptions ==
  LET first == CHOOSE f \in Flows : TRUE
  IN [f \in Flows |->
        IF f # first THEN {Keyed}
        ELSE {Keyed, [Plain EXCEPT !.execute = FALSE, !.require = FALSE],
              [Plain EXCEPT !.client = FALSE], [Plain EXCEPT !.forceLocal = TRUE],
              [Plain EXCEPT !.skip = TRUE, !.forceLocal = TRUE]}]

\* Payments are of two units: the direct channel may have too little, enough
\* for one or for both, the hub carries one payment or is cut off.
MCWorlds ==
  LET Links == {"direct", "payer_hub", "merchant_hub"}
      W(d, h, links, s) == [direct |-> d, hub |-> h, beyond |-> h, up |-> links, stalled |-> s]
  IN {W(4, 0, Links, TRUE), W(4, 0, {"direct"}, FALSE), W(2, 2, Links, FALSE),
      W(1, 2, Links, FALSE), W(0, 4, Links \ {"direct"}, FALSE),
      W(0, 2, Links \ {"merchant_hub"}, FALSE)}
=============================================================================

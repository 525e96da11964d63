--------------------------- MODULE MCPaymentService ---------------------------
(* An inference request of two segments and a send of the operator.          *)
EXTENDS PaymentService, TLC

CONSTANTS input, output, bill, infer, send

\* One request: an input, an output, and another invoice for the output.
OneRequest == infer :> [cap |-> 4, invoice |-> input, send |-> FALSE]

Segments ==
    { [invoice |-> input, request |-> infer, segment |-> 0, limit |-> 2],
      [invoice |-> output, request |-> infer, segment |-> 1, limit |-> 2],
      [invoice |-> bill, request |-> infer, segment |-> 1, limit |-> 3] }

\* Two requests, each within the budget of a day but not both.
TwoRequests ==
    (infer :> [cap |-> 3, invoice |-> input, send |-> FALSE])
    @@ (send :> [cap |-> 2, invoice |-> bill, send |-> TRUE])

OneEach ==
    { [invoice |-> input, request |-> infer, segment |-> 0, limit |-> 3],
      [invoice |-> bill, request |-> send, segment |-> 0, limit |-> 2] }

\* Charges without room for a fee.
InputAndOutput ==
    { [invoice |-> input, request |-> infer, segment |-> 0, limit |-> 1],
      [invoice |-> output, request |-> infer, segment |-> 1, limit |-> 2] }

Prices == [i \in Invoice |-> IF i = output THEN 2 ELSE 1]
===============================================================================

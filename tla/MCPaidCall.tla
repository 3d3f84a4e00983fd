----------------------------- MODULE MCPaidCall -----------------------------
(* The clients in front of the instance of SafetyGate in MCSafetyGate.     *)
EXTENDS PaidCall, MCSafetyGate

Signed(covers, toPayee, until) ==
    [complete |-> TRUE, covers |-> covers, toPayee |-> toPayee, until |-> until]

\* Good ones with and without a term, one that has to arrive within a tick, a
\* short one, a misdirected one, an incomplete one.
MCAuthorization ==
    {Signed(TRUE, TRUE, {}), Signed(TRUE, TRUE, {1}), Signed(TRUE, TRUE, {0}),
     Signed(FALSE, TRUE, {}), Signed(TRUE, FALSE, {}), DemoHeader}
=============================================================================

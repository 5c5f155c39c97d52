--------------------------- MODULE MCPaperMutation ---------------------------
\* Small instances of PaperMutation for TLC.
EXTENDS PaperMutation, TLC

CONSTANTS p1, p2, entry, oco, cancel, close, close2

OpOf(m) == CASE m = entry -> "SUBMIT_ENTRY"
             [] m = oco -> "SUBMIT_PROTECTIVE_OCO"
             [] m = cancel -> "CANCEL_ORDER"
             [] m \in {close, close2} -> "CLOSE_POSITION"

MCOp == [m \in Mutation |-> OpOf(m)]

\* execute_entry and execute_protection run one mutation.
SinglePlans == {<<m>> : m \in Mutation}

\* execute_safety: cancels come before closes, and a plan without cancels may have
\* several closes.
SafetyPlans == {<<cancel, close>>, <<close, close2>>}
=============================================================================

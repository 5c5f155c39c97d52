-------------------------- MODULE MCPaperProtection --------------------------
\* Small instances of PaperProtection for TLC: which behaviours a run allows.
EXTENDS PaperProtection

\* Safety plans and protection on the same account, with everything that may go
\* wrong around them.
Flattening == {"fill", "expire", "reject", "ambiguous", "crash", "safety", "close_fails"}

\* Protection alone, with order lists that lag.
Resizing == {"fill", "expire", "reject", "ambiguous", "crash", "lag"}

\* The kill switch and an OCO that fills before or while it is canceled.
FillDuringKill == {"safety", "fill"}

\* Order lists that lag behind a replacement.
Lagging == {"lag"}
=============================================================================

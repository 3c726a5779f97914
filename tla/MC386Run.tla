------------------------------ MODULE MC386Run -------------------------------
EXTENDS ExecMeaning
S == INSTANCE MC386
MCStatements == S!MCStatements
\* Behind the statement, or with an @org before it: at 1 for a statement of three bytes at 40.
MCGaps == {-42, 0, 4, 7, 8, 100}
==============================================================================

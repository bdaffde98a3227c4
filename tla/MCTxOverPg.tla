----------------------------- MODULE MCTxOverPg -----------------------------
EXTENDS TxOverPg

\* One statement with parameters, so that exec takes the prepared path.
MCSqls == {"s1"}

=============================================================================

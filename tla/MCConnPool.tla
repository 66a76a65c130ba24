----------------------------- MODULE MCConnPool -----------------------------
(* Small instances of the connection pool for TLC. *)
EXTENDS ConnPool

CONSTANTS up1, up2, tx1, tx2, q1

TwoUploads == {up1, up2}
TwoTxs == {tx1, tx2}
OneTx == {tx1}
OneQuery == {q1}
=============================================================================

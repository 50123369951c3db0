---------------------------- MODULE MCRetryThread ----------------------------
(***************************************************************************)
(* Small instances of RetryThread.                                         *)
(***************************************************************************)
EXTENDS RetryThread

CONSTANTS t1, t2   \* model values

MCTags == {t1, t2}
=============================================================================

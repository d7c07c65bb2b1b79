----------------------------- MODULE MCKeepAlive -----------------------------
(***************************************************************************)
(* KeepAlive for TLC.  A live broker is kept only when the interval leaves *)
(* time for its answer; the runs take the least interval that does.        *)
(***************************************************************************)
EXTENDS KeepAlive

ASSUME LeastInterval == AnswerFits
==============================================================================

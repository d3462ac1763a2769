---------------------------- MODULE MCTraceRequest ----------------------------
(* TraceRequest on two requests of any kinds, with one permit per kind.       *)
EXTENDS TraceRequest
=============================================================================

------------------------------- MODULE MCHttpApi -------------------------------
(* Every route with every body, and at most two fields that are not good.    *)
EXTENDS HttpApi

Good == [f \in Field |-> "good"]

TwoFieldsOff ==
    UNION {{[Good EXCEPT ![f] = v, ![g] = w] : v \in FieldValue(f), w \in FieldValue(g)} :
              f \in Field, g \in Field}

SomeCalls == [path : Gateway \cup {"/healthz", "/elsewhere"}, method : {"POST", "GET"},
              body : {"json", "empty", "malformed"}, value : TwoFieldsOff]
==============================================================================

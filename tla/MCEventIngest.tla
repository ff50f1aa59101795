--------------------------- MODULE MCEventIngest ---------------------------
(* EventIngest on a small instance: a request, its retry, and a request    *)
(* that reuses the payload without the request id, all with one API key.   *)
EXTENDS EventIngest, TLC

CONSTANTS q1, q2, q3, a1

MCSourceOf == [r \in Requests |-> a1]
MCKeys == {"idem:req:a", "idem:fp:x"}
MCRequests == {q1, q2, q3}
MCKeysOf ==
  q1 :> <<"idem:req:a", "idem:fp:x">> @@ q2 :> <<"idem:req:a", "idem:fp:x">>
    @@ q3 :> <<"idem:fp:x">>
=============================================================================

------------------------------ MODULE RpcCalls ------------------------------
(***************************************************************************)
(* What the caller of an asynchronous method of JSONRpcClient relies on:   *)
(* its callback is called at most once, never after cancelRequest() said   *)
(* that the call is canceled, and a call whose request could not be sent   *)
(* is not called back. JsonRpc implements this.                            *)
(***************************************************************************)
CONSTANT Calls

VARIABLE status

Init == status = [i \in Calls |-> "new"]

Becomes(i, from, to) == /\ status[i] = from
                        /\ status' = [status EXCEPT ![i] = to]

Submit(i) == Becomes(i, "new", "waiting")
Callback(i) == Becomes(i, "waiting", "called")
Cancel(i) == Becomes(i, "waiting", "canceled")
Lose(i) == Becomes(i, "waiting", "lost")

Next == \E i \in Calls : Submit(i) \/ Callback(i) \/ Cancel(i) \/ Lose(i)

Spec == Init /\ [][Next]_status
=============================================================================

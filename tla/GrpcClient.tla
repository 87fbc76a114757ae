----------------------------- MODULE GrpcClient -----------------------------
(***************************************************************************)
(* OpenFgaGrpcClient: which RPCs a round of requests becomes, and what the *)
(* callbacks write back.  Operators only: the client keeps no state of its *)
(* own but the channel and the stub it was constructed with.               *)
(*                                                                         *)
(* An item is a request, with its type and the store of the session that   *)
(* made it.  model_id travels beside store_id everywhere and is left out,  *)
(* so are the strings of tuples and messages.                              *)
(***************************************************************************)
EXTENDS Naturals, Sequences

\* FgaRequestType as far as make_request_variant tells it apart; READ, LIST
\* and anything else end up as "invalid".
RequestTypes == {"check", "write", "delete", "createStore", "deleteStore",
                 "getStore", "invalid"}

\* FgaResponseStatus; nothing sets TRANSPORT_ERROR.
Statuses == {"OK", "CLIENT_ERROR", "SERVER_ERROR"}
Reply == [status : Statuses, allow : BOOLEAN]

\* MemSet(payload, 0) by fga_channel_acquire_slot: status 0 is OK.
ZeroReply == [status |-> "OK", allow |-> FALSE]

\* handle_request: one RPC; CreateStore names no store.  The handlers of
\* GetStore and InvalidRequest are empty: no RPC, and the callback is dropped.
handle_request(item) ==
  IF item.type \in {"getStore", "invalid"} THEN {}
  ELSE {[method |-> item.type, items |-> {item.id},
         store |-> IF item.type = "createStore" THEN "none" ELSE item.store]}

\* The places of the checks in a round.
Checks(items) == {i \in 1 .. Len(items) : items[i].type = "check"}

First(places) == CHOOSE i \in places : \A j \in places : i <= j

\* handle_check_batch: one RPC for all checks, in the store of the first; the
\* answers come back by id, so that their order does not matter.
handle_check_batch(items) ==
  IF Checks(items) = {} THEN {}
  ELSE {[method |-> "batchCheck", items |-> {items[i].id : i \in Checks(items)},
         store |-> items[First(Checks(items))].store]}

\* Mutant: the requests that cannot go into a BatchCheck are left behind.
process_batch_checks_only(items) ==
  IF Len(items) = 1 THEN handle_request(items[1]) ELSE handle_check_batch(items)

\* process and process_batch: a single request goes out as its own RPC, of
\* several the checks go out together.
process_batch(items) ==
  IF Len(items) = 1 THEN handle_request(items[1])
  ELSE (UNION {handle_request(items[i]) : i \in (1 .. Len(items)) \ Checks(items)})
         \cup handle_check_batch(items)

----------------------------------------------------------------------------
(***************************************************************************)
(* How an RPC ends for one of its items: "failed" is a gRPC status other   *)
(* than OK (an expired deadline too) and the same for all of them; the     *)
(* result of a BatchCheck may have an error for an item, or neither error  *)
(* nor verdict, or no entry: the last two are "absent".                    *)
(***************************************************************************)
Verdicts == {"allowed", "denied"}
Ends(method) ==
  CASE method = "check" -> Verdicts
    [] method = "batchCheck" -> Verdicts \cup {"error", "absent"}
    [] OTHER -> {"done"}

\* The server has decided the request.
Decided == Verdicts \cup {"done"}

\* Every way an RPC may end, item by item.
Outcomes(rpc) ==
  [rpc.items -> Ends(rpc.method)] \cup [rpc.items -> {"failed"}]

\* Mutant: an item the server left out keeps its zeroed response.
callback_lenient(end) ==
  CASE end \in Decided -> [status |-> "OK", allow |-> end = "allowed"]
    [] end = "error" -> [status |-> "SERVER_ERROR", allow |-> FALSE]
    [] end = "absent" -> ZeroReply
    [] OTHER -> [status |-> "CLIENT_ERROR", allow |-> FALSE]

\* What the callback leaves in the response of an item; `allow' is read for
\* checks only.
callback(end) ==
  CASE end \in Decided -> [status |-> "OK", allow |-> end = "allowed"]
    [] end = "error" -> [status |-> "SERVER_ERROR", allow |-> FALSE]
    [] OTHER -> [status |-> "CLIENT_ERROR", allow |-> FALSE]
=============================================================================

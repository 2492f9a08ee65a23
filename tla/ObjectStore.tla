----------------------------- MODULE ObjectStore -----------------------------
(* What `ObjectStore` (lab2/storage.go) lets a pageserver assume: calls of    *)
(* several goroutines, each of which takes effect at one moment between its   *)
(* invocation and its return, on a map from object keys to whole objects.     *)
(* Data handed over by a Put or returned by a Get is the caller's own copy.   *)
EXTENDS Integers, Sequences

CONSTANTS
  Procs,     \* goroutines
  ObjKeys,   \* object keys
  NoObject,  \* content of a key that holds no object
  Requests   \* the calls goroutines make: records with an op and its arguments

VARIABLES
  store,  \* object key -> content, a sequence of bytes
  calls   \* goroutine -> its call: idle, pending or done with a result

vars == <<store, calls>>

Idle == [status |-> "idle"]

Init ==
  /\ store = [k \in ObjKeys |-> NoObject]
  /\ calls = [p \in Procs |-> Idle]

InBounds(req, data) ==
  0 <= req.off /\ 0 <= req.length /\ req.off + req.length <= Len(data)

(* The results a request may have on this state of the store.  GetRange must  *)
(* be exact within the object; the interface is silent beyond it, so any      *)
(* prefix of the right bytes, an error or a panic is allowed there.           *)
Results(req, before) ==
  CASE req.op \in {"put", "delete"} -> {[ok |-> TRUE]}
    [] req.op = "list" -> {[ok |-> TRUE, keys |-> {k \in req.prefix : before[k] # NoObject}]}
    [] req.op \in {"get", "range"} /\ before[req.key] = NoObject ->
         {[ok |-> FALSE, err |-> "not_found"]}
    [] req.op = "get" /\ before[req.key] # NoObject ->
         {[ok |-> TRUE, data |-> before[req.key]]}
    [] req.op = "range" /\ before[req.key] # NoObject ->
         LET data == before[req.key] IN
         IF InBounds(req, data)
         THEN {[ok |-> TRUE, data |-> SubSeq(data, req.off + 1, req.off + req.length)]}
         ELSE {[ok |-> FALSE, err |-> e] : e \in {"out_of_bounds", "panic"}}
                \cup {[ok |-> TRUE, data |-> SubSeq(data, req.off + 1, n)] : n \in 0 .. Len(data)}

Effect(req, before) ==
  CASE req.op = "put"    -> [before EXCEPT ![req.key] = req.data]
    [] req.op = "delete" -> [before EXCEPT ![req.key] = NoObject]
    [] OTHER             -> before

Invoke(p, req) ==
  /\ calls[p] = Idle
  /\ calls' = [calls EXCEPT ![p] = [status |-> "pending", req |-> req]]
  /\ UNCHANGED store

Apply(p) ==
  /\ calls[p].status = "pending"
  /\ \E result \in Results(calls[p].req, store) :
       calls' = [calls EXCEPT ![p] = [status |-> "done", req |-> @.req, result |-> result]]
  /\ store' = Effect(calls[p].req, store)

Return(p) ==
  /\ calls[p].status = "done"
  /\ calls' = [calls EXCEPT ![p] = Idle]
  /\ UNCHANGED store

Next == \E p \in Procs : (\E req \in Requests : Invoke(p, req)) \/ Apply(p) \/ Return(p)

Spec == Init /\ [][Next]_vars
=============================================================================

------------------------------ MODULE MemStore ------------------------------
(* The in-memory object store of lab 2 (lab2/storage.go, lines 55-122) as     *)
(* goroutines run it: an atomic counter, a sync.RWMutex, a map whose values   *)
(* are byte slices, and callers that go on using their own slices after a     *)
(* call.  A slice is a reference to a buffer on the heap; sharing one is what *)
(* the copies in Put and Get prevent.                                         *)
EXTENDS Integers, Sequences, FiniteSets

CONSTANTS
  Procs, ObjKeys, NoObject, Requests,  \* as in ObjectStore
  Byte,                                \* the bytes objects are made of
  Bufs,                                \* buffers of the heap
  Garbage,                             \* what a caller may scribble over its slice
  MaxInt64,                            \* 2^63 - 1 in the code
  MaxCalls                             \* bound of the model on calls made

ASSUME ProcsAssumption ==
  IsFiniteSet(Procs) /\ IsFiniteSet(ObjKeys) /\ MaxCalls \in Nat /\ MaxInt64 \in Nat

(* A []byte, whose length is an int, and the int64 arguments of GetRange.     *)
Content == {data \in Seq(Byte) : Len(data) <= MaxInt64}
Int64   == -(MaxInt64 + 1) .. MaxInt64
ASSUME ContentAssumption  == NoObject \notin Content /\ Garbage \in Content
ASSUME RequestsAssumption ==
  Requests \subseteq
    [op : {"put"}, key : ObjKeys, data : Content]
      \cup [op : {"get", "delete"}, key : ObjKeys]
      \cup [op : {"range"}, key : ObjKeys, off : Int64, length : Int64]
      \cup [op : {"list"}, prefix : SUBSET ObjKeys]

(* The heap never runs out: each object and each goroutine's own slice and    *)
(* local one leave a buffer free.                                             *)
None == 0   \* no buffer; Bufs are positive
ASSUME BufsAssumption ==
  /\ Bufs \subseteq Nat \ {None}
  /\ IsFiniteSet(Bufs) => Cardinality(Bufs) > Cardinality(ObjKeys) + 2 * Cardinality(Procs)

VARIABLES
  objects,   \* MemStore.objects: key -> buffer, or None when the key is absent
  Gets, Puts,
  readers,   \* goroutines holding mu for reading
  writer,    \* the goroutines holding mu for writing
  waiting,   \* the goroutine whose Lock has barred new readers
  heap,      \* buffer -> content
  pc,        \* where each goroutine is
  req,       \* its current request
  slice,     \* the caller's own slice: Put's argument, or Get's result
  found,     \* local variable `data` of Get and GetRange
  result,    \* what its call returned
  returned   \* history: calls returned, by operation

mutex    == <<readers, writer, waiting>>
counters == <<Gets, Puts>>
locals   == <<req, slice, found, result>>
vars     == <<objects, counters, mutex, heap, pc, locals, returned>>

(* Bug: Delete takes the lock for reading.                                    *)
ReadsOrDeletes(p) == req[p].op \in {"get", "range", "list", "delete"}

Reads(p)  == req[p].op \in {"get", "range", "list"}
Begun     == Cardinality({p \in Procs : pc[p] # "idle"})
              + returned.get + returned.put + returned.other

TypeOK ==
  /\ objects \in [ObjKeys -> Bufs \cup {None}]
  /\ Gets \in 0 .. MaxCalls /\ Puts \in 0 .. MaxCalls
  /\ readers \subseteq Procs /\ writer \subseteq Procs /\ waiting \subseteq Procs
  /\ heap \in [Bufs -> Content]
  /\ pc \in [Procs -> {"idle", "count", "lock", "rwait", "wwait", "body", "copy", "unlock"}]
  /\ slice \in [Procs -> Bufs \cup {None}]
  /\ found \in [Procs -> Bufs \cup {None}]

Init ==
  /\ objects = [k \in ObjKeys |-> None]
  /\ Gets = 0 /\ Puts = 0
  /\ readers = {} /\ writer = {} /\ waiting = {}
  /\ heap = [b \in Bufs |-> <<>>]
  /\ pc = [p \in Procs |-> "idle"]
  /\ req = [p \in Procs |-> [op |-> "none"]]
  /\ slice = [p \in Procs |-> None]
  /\ found = [p \in Procs |-> None]
  /\ result = [p \in Procs |-> [ok |-> FALSE]]
  /\ returned = [get |-> 0, put |-> 0, other |-> 0]

(* A buffer nobody refers to, as the allocator hands out.                     *)
Referenced == {objects[k] : k \in ObjKeys} \cup {slice[p] : p \in Procs} \cup {found[p] : p \in Procs}
Fresh == CHOOSE b \in Bufs : b \notin Referenced
Goto(p, label) == pc' = [pc EXCEPT ![p] = label]

(* A goroutine calls the store; a Put comes with a slice of its own.          *)
Invoke(p, r) ==
  /\ pc[p] = "idle" /\ Begun < MaxCalls
  /\ req' = [req EXCEPT ![p] = r]
  /\ Goto(p, IF r.op \in {"get", "range", "put"} THEN "count" ELSE "lock")
  /\ IF r.op = "put"
     THEN slice' = [slice EXCEPT ![p] = Fresh] /\ heap' = [heap EXCEPT ![Fresh] = r.data]
     ELSE slice' = [slice EXCEPT ![p] = None] /\ UNCHANGED heap
  /\ result' = [result EXCEPT ![p] = [ok |-> FALSE]]
  /\ UNCHANGED <<objects, counters, mutex, found, returned>>

(* s.Gets.Add(1), s.Puts.Add(1): atomic, before the lock.                     *)
Count(p) ==
  /\ pc[p] = "count"
  /\ IF req[p].op = "put" THEN Puts' = Puts + 1 /\ UNCHANGED Gets
                          ELSE Gets' = Gets + 1 /\ UNCHANGED Puts
  /\ Goto(p, "lock")
  /\ UNCHANGED <<objects, mutex, heap, locals, returned>>

(* sync.RWMutex: a writer that asks for the lock bars new readers, waits for  *)
(* the readers inside to leave, and lets the readers that came meanwhile in   *)
(* when it unlocks.                                                           *)
RLock(p) ==
  /\ pc[p] = "lock" /\ Reads(p)
  /\ IF waiting = {} THEN readers' = readers \cup {p} /\ Goto(p, "body")
                     ELSE UNCHANGED readers /\ Goto(p, "rwait")
  /\ UNCHANGED <<objects, counters, writer, waiting, heap, locals, returned>>

LockAnnounce(p) ==
  /\ pc[p] = "lock" /\ ~Reads(p) /\ waiting = {}
  /\ waiting' = {p}
  /\ Goto(p, "wwait")
  /\ UNCHANGED <<objects, counters, readers, writer, heap, locals, returned>>

LockAcquire(p) ==
  /\ pc[p] = "wwait" /\ readers = {}
  /\ writer' = {p}
  /\ Goto(p, "body")
  /\ UNCHANGED <<objects, counters, readers, waiting, heap, locals, returned>>

(* Bug: an early return leaves the lock held.                                 *)
RUnlockOnSuccess(p) ==
  /\ readers' = IF result[p].ok THEN readers \ {p} ELSE readers
  /\ Goto(p, "idle")
  /\ UNCHANGED <<writer, waiting>>

RUnlock(p) ==
  /\ readers' = readers \ {p}
  /\ Goto(p, "idle")
  /\ UNCHANGED <<writer, waiting>>

WUnlock(p) ==
  LET woken == {q \in Procs : pc[q] = "rwait"} IN
  /\ readers' = woken
  /\ writer' = {} /\ waiting' = {}
  /\ pc' = [q \in Procs |-> IF q = p THEN "idle" ELSE IF q \in woken THEN "body" ELSE pc[q]]

(* Bug: the caller's slice itself is stored.                                  *)
PutShared(p) ==
  /\ pc[p] = "body" /\ req[p].op = "put"
  /\ objects' = [objects EXCEPT ![req[p].key] = slice[p]]
  /\ result' = [result EXCEPT ![p] = [ok |-> TRUE]]
  /\ Goto(p, "unlock")
  /\ UNCHANGED <<heap, counters, mutex, req, slice, found, returned>>

PutBody(p) ==
  /\ pc[p] = "body" /\ req[p].op = "put"
  /\ heap' = [heap EXCEPT ![Fresh] = heap[slice[p]]]
  /\ objects' = [objects EXCEPT ![req[p].key] = Fresh]
  /\ result' = [result EXCEPT ![p] = [ok |-> TRUE]]
  /\ Goto(p, "unlock")
  /\ UNCHANGED <<counters, mutex, req, slice, found, returned>>

DeleteBody(p) ==
  /\ pc[p] = "body" /\ req[p].op = "delete"
  /\ objects' = [objects EXCEPT ![req[p].key] = None]
  /\ result' = [result EXCEPT ![p] = [ok |-> TRUE]]
  /\ Goto(p, "unlock")
  /\ UNCHANGED <<counters, mutex, heap, req, slice, found, returned>>

ListBody(p) ==
  /\ pc[p] = "body" /\ req[p].op = "list"
  /\ result' = [result EXCEPT ![p] =
                  [ok |-> TRUE, keys |-> {k \in req[p].prefix : objects[k] # None}]]
  /\ Goto(p, "unlock")
  /\ UNCHANGED <<objects, counters, mutex, heap, req, slice, found, returned>>

(* int64 addition.                                                            *)
Wrap(n) == ((n + MaxInt64 + 1) % (2 * (MaxInt64 + 1))) - (MaxInt64 + 1)

RangeEnd(r, data) ==
  LET end == Wrap(r.off + r.length) IN IF end > Len(data) THEN Len(data) ELSE end

(* The lookup of Get and GetRange, with the early returns of each and the     *)
(* panic of a slice expression whose end is before its start.                 *)
Lookup(p) ==
  LET r    == req[p]
      b    == objects[r.key]
      data == heap[b]
      Fail(e) == /\ result' = [result EXCEPT ![p] = [ok |-> FALSE, err |-> e]]
                 /\ Goto(p, "unlock")
                 /\ UNCHANGED found
  IN  /\ pc[p] = "body" /\ r.op \in {"get", "range"}
      /\ IF b = None THEN Fail("not_found")
         ELSE IF r.op = "range" /\ (r.off < 0 \/ r.off > Len(data)) THEN Fail("out_of_bounds")
         ELSE IF r.op = "range" /\ RangeEnd(r, data) < r.off THEN Fail("panic")
         ELSE /\ found' = [found EXCEPT ![p] = b]
              /\ Goto(p, "copy")
              /\ UNCHANGED result
      /\ UNCHANGED <<objects, counters, mutex, heap, req, slice, returned>>

(* append([]byte(nil), data...): the bytes go into a slice of the caller.     *)
Selected(p) ==
  LET data == heap[found[p]] IN
  IF req[p].op = "get" THEN data ELSE SubSeq(data, req[p].off + 1, RangeEnd(req[p], data))

(* Bug: Get returns the stored slice itself.                                  *)
CopyNothing(p) ==
  /\ pc[p] = "copy"
  /\ slice' = [slice EXCEPT ![p] = found[p]]
  /\ result' = [result EXCEPT ![p] = [ok |-> TRUE, data |-> Selected(p)]]
  /\ found' = [found EXCEPT ![p] = None]
  /\ Goto(p, "unlock")
  /\ UNCHANGED <<heap, objects, counters, mutex, req, returned>>

Copy(p) ==
  /\ pc[p] = "copy"
  /\ slice' = [slice EXCEPT ![p] = Fresh]
  /\ heap' = [heap EXCEPT ![Fresh] = Selected(p)]
  /\ result' = [result EXCEPT ![p] = [ok |-> TRUE, data |-> Selected(p)]]
  /\ found' = [found EXCEPT ![p] = None]
  /\ Goto(p, "unlock")
  /\ UNCHANGED <<objects, counters, mutex, req, returned>>

(* The deferred unlock, which also runs when the body panics.                 *)
Unlock(p) ==
  /\ pc[p] = "unlock"
  /\ IF Reads(p) THEN RUnlock(p) ELSE WUnlock(p)
  /\ returned' = IF req[p].op \in {"get", "range"} THEN [returned EXCEPT !.get = @ + 1]
                 ELSE IF req[p].op = "put" THEN [returned EXCEPT !.put = @ + 1]
                 ELSE [returned EXCEPT !.other = @ + 1]
  /\ UNCHANGED <<objects, counters, heap, locals>>

(* Between calls a goroutine writes over the slice it passed or was given.    *)
Scribble(p) ==
  /\ pc[p] = "idle" /\ slice[p] # None
  /\ heap' = [heap EXCEPT ![slice[p]] = Garbage]
  /\ UNCHANGED <<objects, counters, mutex, pc, locals, returned>>

Step(p) ==
  Count(p) \/ RLock(p) \/ LockAnnounce(p) \/ LockAcquire(p) \/ PutBody(p) \/ DeleteBody(p)
    \/ ListBody(p) \/ Lookup(p) \/ Copy(p) \/ Unlock(p)

Next == \E p \in Procs : (\E r \in Requests : Invoke(p, r)) \/ Step(p) \/ Scribble(p)

(* The Go scheduler runs every goroutine that can run.  Taking a free lock is *)
(* strongly fair: sync.Mutex hands itself over to a waiter that starves.      *)
Fairness == \A p \in Procs : WF_vars(Step(p)) /\ SF_vars(LockAnnounce(p))

Spec == Init /\ [][Next]_vars /\ Fairness

-----------------------------------------------------------------------------
(* A Go map dies of concurrent writes: nobody is in the body of a writing     *)
(* call while another goroutine is in the body of any call.                   *)
InBody(p) == pc[p] \in {"body", "copy"}
NoConcurrentMapWrite ==
  \A p, q \in Procs :
    p # q /\ InBody(p) /\ InBody(q) => req[p].op \notin {"put", "delete"}

(* No buffer is shared between the store and a caller, or two callers.        *)
NoAliasing ==
  /\ \A p \in Procs, k \in ObjKeys : slice[p] # None => slice[p] # objects[k]
  /\ \A p, q \in Procs : p # q /\ slice[p] # None => slice[p] # slice[q]
  /\ \A j, k \in ObjKeys : j # k /\ objects[j] # None => objects[j] # objects[k]

(* When no call is in progress the counters tests assert on have counted      *)
(* every Get, GetRange and Put, failed ones included, exactly once.           *)
CountersExact ==
  (\A p \in Procs : pc[p] = "idle") => Gets = returned.get /\ Puts = returned.put

(* However calls overlap, the store is well typed, its map is never written   *)
(* under another access, and a quiet store has counted every call once.       *)
StoreSound == TypeOK /\ NoConcurrentMapWrite /\ CountersExact

(* Every call returns: no lost wake-up, no lock left held by an early return. *)
EveryCallReturns == \A p \in Procs : pc[p] # "idle" ~> pc[p] = "idle"

(* Linearizability: MemStore implements the atomic store.  A Get takes effect *)
(* when it looks the slice up, although it copies the bytes later; a Put when *)
(* it assigns the map entry.                                                  *)
Stored == [k \in ObjKeys |-> IF objects[k] = None THEN NoObject ELSE heap[objects[k]]]
CallOf(p) ==
  CASE pc[p] = "idle"   -> [status |-> "idle"]
    [] pc[p] = "copy"   -> [status |-> "done", req |-> req[p],
                            result |-> [ok |-> TRUE, data |-> Selected(p)]]
    [] pc[p] = "unlock" -> [status |-> "done", req |-> req[p], result |-> result[p]]
    [] OTHER            -> [status |-> "pending", req |-> req[p]]

Atomic == INSTANCE ObjectStore WITH store <- Stored, calls <- [p \in Procs |-> CallOf(p)]
Linearizable == Atomic!Spec
=============================================================================

--------------------------- MODULE MemStoreProofs ---------------------------
(* Theorems about MemStore for any number of goroutines, any keys, bytes and  *)
(* requests, and any bound on calls.                                          *)
EXTENDS MemStore, FiniteSetTheorems, SequenceTheorems, TLAPS

Labels == {"idle", "count", "lock", "rwait", "wwait", "body", "copy", "unlock"}

(* What every variable holds, the counters' exact bound left to CountInv.     *)
Typing ==
  /\ objects \in [ObjKeys -> Bufs \cup {None}]
  /\ Gets \in Nat /\ Puts \in Nat
  /\ heap \in [Bufs -> Content]
  /\ pc \in [Procs -> Labels]
  /\ req \in [Procs -> Requests \cup {[op |-> "none"]}]
  /\ slice \in [Procs -> Bufs \cup {None}]
  /\ found \in [Procs -> Bufs \cup {None}]
  /\ result = [p \in Procs |-> result[p]]
  /\ returned \in [get : Nat, put : Nat, other : Nat]

(* The lock is where the program counters say it is: held by the readers in   *)
(* their bodies, or by one writer, who announced itself before.               *)
LockInv ==
  /\ readers = {p \in Procs : Reads(p) /\ pc[p] \in {"body", "copy", "unlock"}}
  /\ waiting = {p \in Procs : ~Reads(p) /\ pc[p] \in {"wwait", "body", "unlock"}}
  /\ writer  = {p \in Procs : ~Reads(p) /\ pc[p] \in {"body", "unlock"}}
  /\ \A p, q \in waiting : p = q
  /\ writer # {} => readers = {}
  /\ \A p \in Procs : /\ pc[p] \in {"rwait", "copy"} => Reads(p)
                      /\ pc[p] = "wwait" => ~Reads(p)

(* What a goroutine knows inside its call: a Put's bytes are those it was     *)
(* given until it stores them, and a reader that has looked a buffer up has   *)
(* the one of its key, within whose bounds its range lies.                    *)
CallInv ==
  \A p \in Procs :
    /\ pc[p] # "idle" => req[p] \in Requests
    /\ pc[p] = "count" => req[p].op \in {"get", "range", "put"}
    /\ pc[p] # "copy" => found[p] = None
    /\ req[p].op = "put" /\ pc[p] \in {"count", "lock", "wwait", "body"} =>
         slice[p] # None /\ heap[slice[p]] = req[p].data
    /\ pc[p] = "copy" =>
         /\ req[p].op \in {"get", "range"}
         /\ found[p] # None /\ found[p] = objects[req[p].key]
         /\ req[p].op = "range" =>
              /\ req[p].off \in 0 .. Len(heap[found[p]])
              /\ req[p].off <= RangeEnd(req[p], heap[found[p]])

(* Every call past its first step is counted, once.                           *)
Counted(ops) == {p \in Procs : pc[p] \notin {"idle", "count"} /\ req[p].op \in ops}
CountInv ==
  /\ Begun <= MaxCalls
  /\ Gets = returned.get + Cardinality(Counted({"get", "range"}))
  /\ Puts = returned.put + Cardinality(Counted({"put"}))

IInv == Typing /\ LockInv /\ CallInv /\ NoAliasing

-----------------------------------------------------------------------------
(* A request is one of the four shapes.                                       *)
LEMMA RequestShapes ==
  ASSUME NEW r \in Requests
  PROVE  /\ r.op \in {"put", "get", "delete", "range", "list"}
         /\ r.op \in {"put", "get", "delete", "range"} => r.key \in ObjKeys
         /\ r.op = "put" => r.data \in Content
         /\ r.op = "range" => r.off \in Int64 /\ r.length \in Int64
         /\ r.op = "list" => r.prefix \in SUBSET ObjKeys
BY RequestsAssumption

(* int64 addition is exact as long as it stays in int64.                      *)
LEMMA WrapIsExact ==
  ASSUME NEW n \in 0 .. MaxInt64
  PROVE  Wrap(n) = n
BY ProcsAssumption DEF Wrap

(* Whatever GetRange adds up to, it ends no later than the object.            *)
LEMMA RangeEndType ==
  ASSUME NEW r, r.off \in Int64, r.length \in Int64, NEW data \in Content
  PROVE  RangeEnd(r, data) \in Int /\ RangeEnd(r, data) <= Len(data)
<1>1. r.off + r.length \in Int /\ Len(data) \in Nat
  BY ProcsAssumption DEF Int64, Content
<1>2. Wrap(r.off + r.length) \in Int
  <2> DEFINE m == 2 * (MaxInt64 + 1)
             n == r.off + r.length + MaxInt64 + 1
  <2>1. m \in Nat \ {0} /\ n \in Int
    BY <1>1, ProcsAssumption
  <2>2. n % m \in Int
    BY <2>1
  <2> QED
    BY <2>2, ProcsAssumption DEF Wrap
<1> QED
  BY <1>1, <1>2 DEF RangeEnd

(* The allocator always finds a buffer, and nobody refers to it.              *)
LEMMA FreshIsFree ==
  ASSUME Typing
  PROVE  Fresh \in Bufs /\ Fresh \notin Referenced
<1> DEFINE Objs   == {objects[k] : k \in ObjKeys}
           Slices == {slice[p] : p \in Procs}
           Founds == {found[p] : p \in Procs}
<1>1. IsFiniteSet(Objs) /\ Cardinality(Objs) <= Cardinality(ObjKeys)
  <2>1. objects \in Surjection(ObjKeys, Objs)
    BY DEF Typing, Surjection
  <2> QED
    BY <2>1, FS_Surjection, ProcsAssumption
<1>2. IsFiniteSet(Slices) /\ Cardinality(Slices) <= Cardinality(Procs)
  <2>1. slice \in Surjection(Procs, Slices)
    BY DEF Typing, Surjection
  <2> QED
    BY <2>1, FS_Surjection, ProcsAssumption
<1>3. IsFiniteSet(Founds) /\ Cardinality(Founds) <= Cardinality(Procs)
  <2>1. found \in Surjection(Procs, Founds)
    BY DEF Typing, Surjection
  <2> QED
    BY <2>1, FS_Surjection, ProcsAssumption
<1>4. Referenced = (Objs \cup Slices) \cup Founds
  BY DEF Referenced
<1> HIDE DEF Objs, Slices, Founds
<1>5. /\ IsFiniteSet(Referenced)
      /\ Cardinality(Referenced) <= Cardinality(ObjKeys) + 2 * Cardinality(Procs)
  <2>1. /\ IsFiniteSet(Objs \cup Slices) /\ IsFiniteSet(Objs \cap Slices)
        /\ Cardinality(Objs \cup Slices)
             = Cardinality(Objs) + Cardinality(Slices) - Cardinality(Objs \cap Slices)
    BY <1>1, <1>2, FS_Union, FS_Intersection
  <2>2. /\ IsFiniteSet(Referenced) /\ IsFiniteSet((Objs \cup Slices) \cap Founds)
        /\ Cardinality(Referenced) = Cardinality(Objs \cup Slices) + Cardinality(Founds)
                                       - Cardinality((Objs \cup Slices) \cap Founds)
    BY <1>3, <1>4, <2>1, FS_Union, FS_Intersection
  <2>3. /\ Cardinality(Objs) \in Nat /\ Cardinality(Slices) \in Nat /\ Cardinality(Founds) \in Nat
        /\ Cardinality(Objs \cap Slices) \in Nat /\ Cardinality(Objs \cup Slices) \in Nat
        /\ Cardinality((Objs \cup Slices) \cap Founds) \in Nat
        /\ Cardinality(ObjKeys) \in Nat /\ Cardinality(Procs) \in Nat
        /\ Cardinality(Referenced) \in Nat
    BY <1>1, <1>2, <1>3, <2>1, <2>2, ProcsAssumption, FS_CardinalityType
  <2> QED
    BY <1>1, <1>2, <1>3, <2>1, <2>2, <2>3
<1>6. \E b \in Bufs : b \notin Referenced
  <2> SUFFICES ASSUME Bufs \in SUBSET Referenced PROVE FALSE
    OBVIOUS
  <2>1. IsFiniteSet(Bufs) /\ Cardinality(Bufs) <= Cardinality(Referenced)
    BY <1>5, FS_Subset
  <2>2. /\ Cardinality(Bufs) \in Nat /\ Cardinality(Referenced) \in Nat
        /\ Cardinality(ObjKeys) \in Nat /\ Cardinality(Procs) \in Nat
    BY <1>5, <2>1, ProcsAssumption, FS_CardinalityType
  <2> QED
    BY <1>5, <2>1, <2>2, BufsAssumption
<1> QED
  BY <1>6 DEF Fresh

(* So it is not an object's, a goroutine's slice or one it has looked up.     *)
LEMMA FreshIsNew ==
  ASSUME Typing
  PROVE  /\ Fresh \in Bufs /\ Fresh # None
         /\ \A k \in ObjKeys : objects[k] # Fresh
         /\ \A p \in Procs : slice[p] # Fresh /\ found[p] # Fresh
BY FreshIsFree, BufsAssumption DEF Referenced

(* What Copy copies is an object's bytes, or some of them.                    *)
LEMMA SelectedType ==
  ASSUME IInv, NEW p \in Procs, pc[p] = "copy"
  PROVE  Selected(p) \in Content
<1> DEFINE data == heap[found[p]]
           end  == RangeEnd(req[p], data)
<1>1. data \in Content /\ req[p] \in Requests /\ req[p].op \in {"get", "range"}
  BY DEF IInv, Typing, CallInv
<1>2. CASE req[p].op = "get"
  BY <1>1, <1>2 DEF Selected
<1>3. CASE req[p].op = "range"
  <2>1. /\ req[p].off \in Nat /\ end \in Int /\ req[p].off <= end /\ end <= Len(data)
    BY <1>1, <1>3, RequestShapes, RangeEndType DEF IInv, CallInv, Content
  <2>2. data \in Seq(Byte) /\ Len(data) \in Nat /\ Len(data) <= MaxInt64
    BY <1>1 DEF Content
  <2>3. Selected(p) = SubSeq(data, req[p].off + 1, end)
    BY <1>3 DEF Selected
  <2> HIDE DEF data, end
  <2>4. /\ SubSeq(data, req[p].off + 1, end) \in Seq(Byte)
        /\ Len(SubSeq(data, req[p].off + 1, end)) = end - req[p].off
    BY <2>1, <2>2
  <2> QED
    BY <2>1, <2>2, <2>3, <2>4, ProcsAssumption DEF Content
<1> QED
  BY <1>1, <1>2, <1>3

-----------------------------------------------------------------------------
(* The store is born with its invariant.                                      *)
LEMMA InitIInv == Init => IInv
<1> SUFFICES ASSUME Init PROVE IInv
  OBVIOUS
<1>1. <<>> \in Content
  BY ProcsAssumption DEF Content
<1>2. Typing
  BY <1>1 DEF Init, Typing, Labels
<1> QED
  BY <1>2 DEF Init, IInv, LockInv, CallInv, NoAliasing

(* One lemma per step from here: each keeps the types, the lock, what the     *)
(* goroutines know inside their calls, and the ownership of buffers. First    *)
(* the counters.                                                              *)
LEMMA CountIInv ==
  ASSUME IInv, NEW p \in Procs, Count(p)
  PROVE  IInv'
<1> USE DEF IInv
<1>1. Typing'
  BY DEF Typing, Labels, Count, Goto, locals
<1>2. LockInv'
  BY DEF LockInv, Reads, Count, Goto, locals, mutex
<1>3. CallInv'
  BY DEF CallInv, Count, Goto, locals
<1>4. NoAliasing'
  BY DEF NoAliasing, Count, locals
<1> QED
  BY <1>1, <1>2, <1>3, <1>4

(* A reader enters while no writer has announced itself, or waits.            *)
LEMMA RLockIInv ==
  ASSUME IInv, NEW p \in Procs, RLock(p)
  PROVE  IInv'
<1> USE DEF IInv
<1>1. Typing'
  BY DEF Typing, Labels, RLock, Goto, locals, counters
<1>2. LockInv'
  BY DEF Typing, LockInv, Reads, RLock, Goto, locals
<1>3. CallInv'
  BY DEF Typing, CallInv, RLock, Goto, locals
<1>4. NoAliasing'
  BY DEF NoAliasing, RLock, locals
<1> QED
  BY <1>1, <1>2, <1>3, <1>4

(* At most one writer announces itself; readers inside stay.                  *)
LEMMA LockAnnounceIInv ==
  ASSUME IInv, NEW p \in Procs, LockAnnounce(p)
  PROVE  IInv'
<1> USE DEF IInv
<1>1. Typing'
  BY DEF Typing, Labels, LockAnnounce, Goto, locals, counters
<1>2. LockInv'
  BY DEF Typing, LockInv, Reads, LockAnnounce, Goto, locals
<1>3. CallInv'
  BY DEF CallInv, LockAnnounce, Goto, locals
<1>4. NoAliasing'
  BY DEF NoAliasing, LockAnnounce, locals
<1> QED
  BY <1>1, <1>2, <1>3, <1>4

(* It enters when they have left.                                             *)
LEMMA LockAcquireIInv ==
  ASSUME IInv, NEW p \in Procs, LockAcquire(p)
  PROVE  IInv'
<1> USE DEF IInv
<1>1. Typing'
  BY DEF Typing, Labels, LockAcquire, Goto, locals, counters
<1>2. LockInv'
  BY DEF Typing, LockInv, Reads, LockAcquire, Goto, locals
<1>3. CallInv'
  BY DEF CallInv, LockAcquire, Goto, locals
<1>4. NoAliasing'
  BY DEF NoAliasing, LockAcquire, locals
<1> QED
  BY <1>1, <1>2, <1>3, <1>4

(* A Put stores a new copy: the buffer is no goroutine's and no other key's.  *)
(* Nobody is copying, so nobody's looked-up buffer loses its key.             *)
LEMMA PutBodyIInv ==
  ASSUME IInv, NEW p \in Procs, PutBody(p)
  PROVE  IInv'
<1> USE DEF IInv
<1>1. Typing'
  BY FreshIsNew DEF Typing, Labels, PutBody, Goto, counters, CallInv
<1>2. LockInv'
  BY DEF LockInv, Reads, PutBody, Goto, mutex
<1>3. CallInv'
  BY FreshIsNew DEF CallInv, LockInv, Reads, PutBody, Goto
<1>4. NoAliasing'
  BY FreshIsNew DEF NoAliasing, PutBody
<1> QED
  BY <1>1, <1>2, <1>3, <1>4

(* Nor does a Delete take a buffer from under a copying reader.               *)
LEMMA DeleteBodyIInv ==
  ASSUME IInv, NEW p \in Procs, DeleteBody(p)
  PROVE  IInv'
<1> USE DEF IInv
<1>1. Typing'
  BY DEF Typing, Labels, DeleteBody, Goto, counters
<1>2. LockInv'
  BY DEF LockInv, Reads, DeleteBody, Goto, mutex
<1>3. CallInv'
  BY DEF CallInv, LockInv, Reads, DeleteBody, Goto
<1>4. NoAliasing'
  BY DEF NoAliasing, DeleteBody
<1> QED
  BY <1>1, <1>2, <1>3, <1>4

(* List touches nothing but its result.                                       *)
LEMMA ListBodyIInv ==
  ASSUME IInv, NEW p \in Procs, ListBody(p)
  PROVE  IInv'
<1> USE DEF IInv
<1>1. Typing'
  BY DEF Typing, Labels, ListBody, Goto, counters
<1>2. LockInv'
  BY DEF LockInv, Reads, ListBody, Goto, mutex
<1>3. CallInv'
  BY DEF CallInv, ListBody, Goto
<1>4. NoAliasing'
  BY DEF NoAliasing, ListBody
<1> QED
  BY <1>1, <1>2, <1>3, <1>4

(* Past its checks a lookup has a buffer, and a range that lies within it.    *)
LEMMA LookupIInv ==
  ASSUME IInv, NEW p \in Procs, Lookup(p)
  PROVE  IInv'
<1> USE DEF IInv
<1> DEFINE r    == req[p]
           b    == objects[r.key]
           data == heap[b]
<1>1. /\ pc[p] = "body" /\ r \in Requests /\ r.op \in {"get", "range"} /\ r.key \in ObjKeys
      /\ b \in Bufs \cup {None}
      /\ UNCHANGED <<objects, counters, mutex, heap, req, slice, returned>>
  BY RequestShapes DEF Lookup, CallInv, Typing
<1>2. \/ /\ b # None
         /\ r.op = "range" => ~(r.off < 0 \/ r.off > Len(data)) /\ ~(RangeEnd(r, data) < r.off)
         /\ found' = [found EXCEPT ![p] = b]
         /\ pc' = [pc EXCEPT ![p] = "copy"]
         /\ UNCHANGED result
      \/ /\ \E e \in {"not_found", "out_of_bounds", "panic"} :
              result' = [result EXCEPT ![p] = [ok |-> FALSE, err |-> e]]
         /\ pc' = [pc EXCEPT ![p] = "unlock"]
         /\ UNCHANGED found
  BY DEF Lookup, Goto
<1>3. r.op = "range" /\ b # None =>
        r.off \in Int /\ Len(data) \in Nat /\ RangeEnd(r, data) \in Int
  <2> SUFFICES ASSUME r.op = "range", b # None
               PROVE  r.off \in Int /\ Len(data) \in Nat /\ RangeEnd(r, data) \in Int
    OBVIOUS
  <2>1. r.off \in Int64 /\ r.length \in Int64 /\ data \in Content
    BY <1>1, RequestShapes DEF Typing
  <2> QED
    BY <2>1, RangeEndType, ProcsAssumption DEF Int64, Content
<1> HIDE DEF r, b, data
<1>4. Typing'
  BY <1>1, <1>2 DEF Typing, Labels, counters
<1>5. LockInv'
  BY <1>1, <1>2 DEF LockInv, Reads, Typing, mutex, r
<1>6. CallInv'
  BY <1>1, <1>2, <1>3 DEF CallInv, Typing, r, b, data
<1>7. NoAliasing'
  BY <1>1 DEF NoAliasing
<1> QED
  BY <1>4, <1>5, <1>6, <1>7

(* The copy goes to a new buffer, which is then the caller's alone.           *)
LEMMA CopyIInv ==
  ASSUME IInv, NEW p \in Procs, Copy(p)
  PROVE  IInv'
<1> USE DEF IInv
<1>1. Typing'
  BY FreshIsNew, SelectedType DEF Typing, Labels, Copy, Goto, counters
<1>2. LockInv'
  BY DEF LockInv, Reads, Copy, Goto, mutex
<1>3. CallInv'
  BY FreshIsNew DEF Typing, CallInv, Copy, Goto
<1>4. NoAliasing'
  BY FreshIsNew DEF NoAliasing, Copy
<1> QED
  BY <1>1, <1>2, <1>3, <1>4

(* The readers a writer wakes enter together, and nobody else is inside.      *)
LEMMA UnlockIInv ==
  ASSUME IInv, NEW p \in Procs, Unlock(p)
  PROVE  IInv'
<1> USE DEF IInv
<1>1. Typing'
  BY FreshIsNew DEF Typing, Labels, Unlock, RUnlock, WUnlock, Goto, locals, counters
<1>2. LockInv'
  BY DEF Typing, LockInv, Reads, Unlock, RUnlock, WUnlock, Goto, locals
<1>3. CallInv'
  BY DEF Typing, CallInv, LockInv, Reads, Unlock, RUnlock, WUnlock, Goto, locals
<1>4. NoAliasing'
  BY DEF NoAliasing, Unlock, locals
<1> QED
  BY <1>1, <1>2, <1>3, <1>4

(* A caller writes over its own slice only: no object, no argument of another *)
(* Put and no buffer being copied is that one.                                *)
LEMMA ScribbleIInv ==
  ASSUME IInv, NEW p \in Procs, Scribble(p)
  PROVE  IInv'
<1> USE DEF IInv
<1>1. Typing'
  BY ContentAssumption DEF Typing, Scribble, locals, counters
<1>2. LockInv'
  BY DEF LockInv, Reads, Scribble, locals, mutex
<1>3. CallInv'
  <2>1. heap' = [heap EXCEPT ![slice[p]] = Garbage] /\ slice[p] # None
    BY DEF Scribble
  <2>2. \A q \in Procs : q # p /\ slice[q] # None => slice[q] # slice[p]
    BY <2>1 DEF NoAliasing
  <2>3. \A q \in Procs : pc[q] = "copy" => found[q] # slice[p]
    BY <2>1, RequestShapes DEF NoAliasing, CallInv
  <2> QED
    BY <2>2, <2>3 DEF CallInv, Scribble, locals
<1>4. NoAliasing'
  BY DEF NoAliasing, Scribble, locals
<1> QED
  BY <1>1, <1>2, <1>3, <1>4

(* The slice a Put comes with is the caller's own.                            *)
LEMMA InvokeIInv ==
  ASSUME IInv, NEW p \in Procs, NEW r \in Requests, Invoke(p, r)
  PROVE  IInv'
<1> USE DEF IInv
<1>1. Typing'
  BY FreshIsNew, RequestShapes DEF Typing, Labels, Invoke, Goto, counters
<1>2. LockInv'
  BY DEF LockInv, Reads, Invoke, Goto, mutex
<1>3. CallInv'
  BY FreshIsNew DEF Typing, CallInv, Invoke, Goto
<1>4. NoAliasing'
  BY FreshIsNew DEF Typing, NoAliasing, Invoke
<1> QED
  BY <1>1, <1>2, <1>3, <1>4

-----------------------------------------------------------------------------
(* The goroutines inside a call.                                              *)
Active == {p \in Procs : pc[p] # "idle"}

(* Counting goroutines makes sense.                                           *)
LEMMA FiniteCounts ==
  /\ IsFiniteSet(Active) /\ Cardinality(Active) \in Nat
  /\ \A ops : IsFiniteSet(Counted(ops)) /\ Cardinality(Counted(ops)) \in Nat
<1>1. \A S \in SUBSET Procs : IsFiniteSet(S) /\ Cardinality(S) \in Nat
  BY FS_Subset, FS_CardinalityType, ProcsAssumption
<1> QED
  BY <1>1 DEF Active, Counted

(* One goroutine more, or one less, counts one more, or one less.             *)
LEMMA OneMore ==
  ASSUME NEW S \in SUBSET Procs, NEW p, p \notin S
  PROVE  Cardinality(S \cup {p}) = Cardinality(S) + 1
BY FS_Subset, FS_AddElement, ProcsAssumption

(* ... and counts one less without.                                           *)
LEMMA OneLess ==
  ASSUME NEW S \in SUBSET Procs, NEW p, p \in S
  PROVE  Cardinality(S \ {p}) = Cardinality(S) - 1
BY FS_Subset, FS_RemoveElement, ProcsAssumption

(* A step that neither begins, counts nor ends a call.                        *)
LEMMA QuietCount ==
  ASSUME IInv, CountInv, NEW p \in Procs,
         RLock(p) \/ LockAnnounce(p) \/ LockAcquire(p) \/ PutBody(p) \/ DeleteBody(p)
           \/ ListBody(p) \/ Lookup(p) \/ Copy(p) \/ Scribble(p)
  PROVE  CountInv'
<1>1. /\ UNCHANGED <<counters, returned, req>>
      /\ \A q \in Procs : /\ pc'[q] = "idle" <=> pc[q] = "idle"
                          /\ pc'[q] \in {"idle", "count"} <=> pc[q] \in {"idle", "count"}
  BY DEF RLock, LockAnnounce, LockAcquire, PutBody, DeleteBody, ListBody, Lookup, Copy, Scribble,
         Goto, locals, counters, IInv, Typing
<1>2. \A ops : Counted(ops)' = Counted(ops)
  BY <1>1 DEF Counted
<1>3. {q \in Procs : pc'[q] # "idle"} = {q \in Procs : pc[q] # "idle"}
  BY <1>1
<1> QED
  BY <1>1, <1>2, <1>3 DEF CountInv, Begun, counters

(* A call begins uncounted.                                                   *)
LEMMA InvokeCount ==
  ASSUME IInv, CountInv, NEW p \in Procs, NEW r \in Requests, Invoke(p, r)
  PROVE  CountInv'
<1>1. /\ UNCHANGED <<counters, returned>>
      /\ pc[p] = "idle" /\ Begun < MaxCalls
      /\ req' = [req EXCEPT ![p] = r]
      /\ pc' = [pc EXCEPT ![p] = IF r.op \in {"get", "range", "put"} THEN "count" ELSE "lock"]
  BY DEF Invoke, Goto
<1>2. /\ Counted({"get", "range"})' = Counted({"get", "range"})
      /\ Counted({"put"})' = Counted({"put"})
  BY <1>1 DEF Counted, IInv, Typing
<1>3. Active' = Active \cup {p} /\ p \notin Active /\ Active \in SUBSET Procs
  BY <1>1 DEF Active, IInv, Typing
<1>4. Cardinality(Active') = Cardinality(Active) + 1
  BY <1>3, OneMore
<1>5. Begun' <= MaxCalls
  BY <1>1, <1>4, FiniteCounts, ProcsAssumption DEF Begun, Active, IInv, Typing
<1> QED
  BY <1>1, <1>2, <1>5 DEF CountInv, counters

(* It is counted once, under the counter of its operation.                    *)
LEMMA CountCount ==
  ASSUME IInv, CountInv, NEW p \in Procs, Count(p)
  PROVE  CountInv'
<1>1. /\ UNCHANGED <<req, returned>>
      /\ pc[p] = "count" /\ pc' = [pc EXCEPT ![p] = "lock"]
      /\ req[p].op \in {"get", "range", "put"}
      /\ IF req[p].op = "put" THEN Puts' = Puts + 1 /\ Gets' = Gets
                              ELSE Gets' = Gets + 1 /\ Puts' = Puts
  BY DEF Count, Goto, locals, IInv, CallInv
<1>2. \A ops : Counted(ops)' = IF req[p].op \in ops THEN Counted(ops) \cup {p} ELSE Counted(ops)
  BY <1>1 DEF Counted, IInv, Typing
<1>3. \A ops : p \notin Counted(ops) /\ Counted(ops) \in SUBSET Procs
  BY <1>1 DEF Counted
<1>4. Begun' <= MaxCalls
  <2>1. {q \in Procs : pc'[q] # "idle"} = {q \in Procs : pc[q] # "idle"}
    BY <1>1 DEF IInv, Typing
  <2> QED
    BY <1>1, <2>1 DEF Begun, CountInv
<1>5. CASE req[p].op = "put"
  <2>1. Cardinality(Counted({"put"})') = Cardinality(Counted({"put"})) + 1
    BY <1>2, <1>3, <1>5, OneMore
  <2>2. Counted({"get", "range"})' = Counted({"get", "range"})
    BY <1>2, <1>5
  <2> QED
    BY <1>1, <1>4, <1>5, <2>1, <2>2, FiniteCounts DEF CountInv, IInv, Typing
<1>6. CASE req[p].op # "put"
  <2>1. Cardinality(Counted({"get", "range"})') = Cardinality(Counted({"get", "range"})) + 1
    BY <1>1, <1>2, <1>3, <1>6, OneMore
  <2>2. Counted({"put"})' = Counted({"put"})
    BY <1>2, <1>6
  <2> QED
    BY <1>1, <1>4, <1>6, <2>1, <2>2, FiniteCounts DEF CountInv, IInv, Typing
<1> QED
  BY <1>5, <1>6

(* It passes from the calls in progress to those that returned.               *)
LEMMA UnlockCount ==
  ASSUME IInv, CountInv, NEW p \in Procs, Unlock(p)
  PROVE  CountInv'
<1>1. /\ UNCHANGED <<counters, req>>
      /\ pc[p] = "unlock" /\ pc'[p] = "idle"
      /\ \A q \in Procs \ {p} : pc'[q] = pc[q] \/ (pc[q] = "rwait" /\ pc'[q] = "body")
      /\ returned' = IF req[p].op \in {"get", "range"} THEN [returned EXCEPT !.get = @ + 1]
                     ELSE IF req[p].op = "put" THEN [returned EXCEPT !.put = @ + 1]
                     ELSE [returned EXCEPT !.other = @ + 1]
  BY DEF Unlock, RUnlock, WUnlock, Goto, locals, IInv, Typing
<1>2. \A ops : Counted(ops)' = IF req[p].op \in ops THEN Counted(ops) \ {p} ELSE Counted(ops)
  BY <1>1 DEF Counted
<1>3. \A ops : (p \in Counted(ops) <=> req[p].op \in ops) /\ Counted(ops) \in SUBSET Procs
  BY <1>1 DEF Counted
<1>4. Active' = Active \ {p} /\ p \in Active /\ Active \in SUBSET Procs
  BY <1>1 DEF Active
<1>5. Cardinality(Active') = Cardinality(Active) - 1
  BY <1>4, OneLess
<1>6. Begun' = Begun
  BY <1>1, <1>5, FiniteCounts DEF Begun, Active, IInv, Typing
<1>7. \A ops : Cardinality(Counted(ops)') = IF req[p].op \in ops THEN Cardinality(Counted(ops)) - 1
                                                                 ELSE Cardinality(Counted(ops))
  BY <1>2, <1>3, OneLess
<1>8. /\ Cardinality(Counted({"put"})') = IF req[p].op = "put" THEN Cardinality(Counted({"put"})) - 1
                                          ELSE Cardinality(Counted({"put"}))
      /\ Cardinality(Counted({"get", "range"})')
           = IF req[p].op \in {"get", "range"} THEN Cardinality(Counted({"get", "range"})) - 1
             ELSE Cardinality(Counted({"get", "range"}))
  BY <1>7
<1> QED
  BY <1>1, <1>6, <1>8, FiniteCounts DEF CountInv, IInv, Typing, counters

(* No count is due at first.                                                  *)
LEMMA InitCount == Init => CountInv
<1> SUFFICES ASSUME Init PROVE CountInv
  OBVIOUS
<1>1. Counted({"get", "range"}) = {} /\ Counted({"put"}) = {} /\ {p \in Procs : pc[p] # "idle"} = {}
  BY DEF Init, Counted
<1>2. /\ Cardinality(Counted({"get", "range"})) = 0 /\ Cardinality(Counted({"put"})) = 0
      /\ Cardinality({p \in Procs : pc[p] # "idle"}) = 0
  BY <1>1, FS_EmptySet
<1>3. Begun = 0
  BY <1>2 DEF Init, Begun
<1> QED
  BY <1>2, <1>3, ProcsAssumption DEF Init, CountInv

(* Every step of every call keeps the inductive invariant.                    *)
LEMMA NextIInv ==
  ASSUME IInv, [Next]_vars
  PROVE  IInv'
<1>1. CASE UNCHANGED vars
  BY <1>1 DEF IInv, Typing, LockInv, CallInv, NoAliasing, Reads, RangeEnd,
              vars, counters, mutex, locals
<1>2. CASE Next
  BY <1>2, InvokeIInv, CountIInv, RLockIInv, LockAnnounceIInv, LockAcquireIInv, PutBodyIInv,
     DeleteBodyIInv, ListBodyIInv, LookupIInv, CopyIInv, UnlockIInv, ScribbleIInv DEF Next, Step
<1> QED
  BY <1>1, <1>2

(* Every step counts what it touches.                                         *)
LEMMA NextCount ==
  ASSUME IInv, CountInv, [Next]_vars
  PROVE  CountInv'
<1>1. CASE UNCHANGED vars
  BY <1>1 DEF CountInv, Counted, Begun, vars, counters, locals
<1>2. CASE Next
  BY <1>2, InvokeCount, CountCount, UnlockCount, QuietCount DEF Next, Step
<1> QED
  BY <1>1, <1>2

(* The invariant of the store.                                                *)
LEMMA InvariantHolds == Spec => [](IInv /\ CountInv)
<1>1. Init => IInv /\ CountInv
  BY InitIInv, InitCount
<1>2. (IInv /\ CountInv) /\ [Next]_vars => (IInv /\ CountInv)'
  BY NextIInv, NextCount
<1> QED
  BY <1>1, <1>2, PTL DEF Spec

(* No buffer is shared between the store and a caller, two callers or two     *)
(* keys: the copies in Put and in Get are both needed, and they are enough.   *)
THEOREM BuffersAreOwned == Spec => []NoAliasing
<1>1. IInv => NoAliasing
  BY DEF IInv
<1> QED
  BY <1>1, InvariantHolds, PTL

(* The map is never written under another access, and once no call is in      *)
(* progress Gets and Puts have counted every call exactly once.               *)
THEOREM StoreAlwaysSound == Spec => []StoreSound
<1>1. ASSUME IInv, CountInv PROVE StoreSound
  <2> USE <1>1 DEF IInv
  <2>1. Gets <= MaxCalls /\ Puts <= MaxCalls
    <3>1. \A ops : Counted(ops) \in SUBSET Active
      BY DEF Counted, Active
    <3>2. \A ops : Cardinality(Counted(ops)) <= Cardinality(Active)
      BY <3>1, FiniteCounts, FS_Subset
    <3> QED
      BY <3>2, FiniteCounts, ProcsAssumption DEF CountInv, Begun, Active, Typing
  <2>2. TypeOK
    BY <2>1, ProcsAssumption DEF TypeOK, Typing, LockInv, Labels
  <2>3. NoConcurrentMapWrite
    BY RequestShapes DEF NoConcurrentMapWrite, InBody, LockInv, CallInv, Reads, Typing
  <2>4. CountersExact
    <3> SUFFICES ASSUME \A p \in Procs : pc[p] = "idle"
                 PROVE  Gets = returned.get /\ Puts = returned.put
      BY DEF CountersExact
    <3>1. Counted({"get", "range"}) = {} /\ Counted({"put"}) = {}
      BY DEF Counted
    <3>2. Cardinality(Counted({"get", "range"})) = 0 /\ Cardinality(Counted({"put"})) = 0
      BY <3>1, FS_EmptySet
    <3> QED
      BY <3>2 DEF CountInv, Typing
  <2> QED
    BY <2>2, <2>3, <2>4 DEF StoreSound
<1> QED
  BY <1>1, InvariantHolds, PTL

-----------------------------------------------------------------------------
(* The call of each goroutine as the atomic store sees it.                    *)
Calls == [p \in Procs |-> CallOf(p)]
Pending(r)  == [status |-> "pending", req |-> r]
Done(r, res) == [status |-> "done", req |-> r, result |-> res]

(* The call a program counter stands for, now and after a step.               *)
LEMMA CallOfCases ==
  ASSUME NEW p
  PROVE  /\ pc[p] = "idle" => CallOf(p) = Atomic!Idle
         /\ pc[p] = "copy" => CallOf(p) = Done(req[p], [ok |-> TRUE, data |-> Selected(p)])
         /\ pc[p] = "unlock" => CallOf(p) = Done(req[p], result[p])
         /\ pc[p] \notin {"idle", "copy", "unlock"} => CallOf(p) = Pending(req[p])
<1>1. ASSUME pc[p] = "idle" PROVE CallOf(p) = Atomic!Idle
  BY <1>1, Zenon DEF CallOf, Atomic!Idle
<1>2. ASSUME pc[p] = "copy"
      PROVE  CallOf(p) = Done(req[p], [ok |-> TRUE, data |-> Selected(p)])
  BY <1>2, Zenon DEF CallOf, Done
<1>3. ASSUME pc[p] = "unlock" PROVE CallOf(p) = Done(req[p], result[p])
  BY <1>3, Zenon DEF CallOf, Done
<1>4. ASSUME pc[p] \notin {"idle", "copy", "unlock"} PROVE CallOf(p) = Pending(req[p])
  BY <1>4, Zenon DEF CallOf, Pending
<1> QED
  BY <1>1, <1>2, <1>3, <1>4

(* The same in the next state.                                                *)
LEMMA CallOfCasesNext ==
  ASSUME NEW p
  PROVE  /\ pc'[p] = "idle" => CallOf(p)' = Atomic!Idle
         /\ pc'[p] = "copy" => CallOf(p)' = Done(req'[p], [ok |-> TRUE, data |-> Selected(p)'])
         /\ pc'[p] = "unlock" => CallOf(p)' = Done(req'[p], result'[p])
         /\ pc'[p] \notin {"idle", "copy", "unlock"} => CallOf(p)' = Pending(req'[p])
<1>1. ASSUME pc'[p] = "idle" PROVE CallOf(p)' = Atomic!Idle
  BY <1>1, Zenon DEF CallOf, Atomic!Idle
<1>2. ASSUME pc'[p] = "copy"
      PROVE  CallOf(p)' = Done(req'[p], [ok |-> TRUE, data |-> Selected(p)'])
  BY <1>2, Zenon DEF CallOf, Done
<1>3. ASSUME pc'[p] = "unlock" PROVE CallOf(p)' = Done(req'[p], result'[p])
  BY <1>3, Zenon DEF CallOf, Done
<1>4. ASSUME pc'[p] \notin {"idle", "copy", "unlock"} PROVE CallOf(p)' = Pending(req'[p])
  BY <1>4, Zenon DEF CallOf, Pending
<1> QED
  BY <1>1, <1>2, <1>3, <1>4

(* A goroutine that only waits, or that nothing happens to, keeps its call.   *)
LEMMA CallKept ==
  ASSUME NEW p, UNCHANGED <<req[p], result[p], found[p]>>,
         \/ UNCHANGED pc[p]
         \/ {pc[p], pc'[p]} \cap {"idle", "copy", "unlock"} = {},
         pc[p] = "copy" => heap'[found[p]] = heap[found[p]]
  PROVE  CallOf(p)' = CallOf(p)
<1>1. pc[p] = "copy" => Selected(p)' = Selected(p)
  BY DEF Selected, RangeEnd
<1> QED
  BY <1>1, CallOfCases, CallOfCasesNext

(* Objects whose buffers are left alone stay what they are.                   *)
LEMMA StoredKept ==
  ASSUME UNCHANGED objects, \A k \in ObjKeys : objects[k] # None => heap'[objects[k]] = heap[objects[k]]
  PROVE  Stored' = Stored
BY DEF Stored

(* What a copying reader holds is the buffer of its key.                      *)
LEMMA LookedUpIsObject ==
  ASSUME IInv, NEW p \in Procs, pc[p] = "copy"
  PROVE  req[p].key \in ObjKeys /\ found[p] = objects[req[p].key] /\ found[p] # None
BY RequestShapes DEF IInv, CallInv

(* A step that changes one call from pending to done, with a result the       *)
(* atomic store allows and its effect, is Apply.                              *)
LEMMA ApplyMaps ==
  ASSUME NEW p \in Procs, NEW res, CallOf(p) = Pending(req[p]),
         res \in Atomic!Results(req[p], Stored),
         CallOf(p)' = Done(req[p], res),
         \A q \in Procs \ {p} : CallOf(q)' = CallOf(q),
         Stored' = Atomic!Effect(req[p], Stored)
  PROVE  Atomic!Apply(p)
<1>1. Calls[p].status = "pending" /\ Calls[p].req = req[p]
  BY DEF Calls, Pending
<1>2. Calls' = [Calls EXCEPT ![p] = Done(@.req, res)]
  BY <1>1 DEF Calls
<1> QED
  BY <1>1, <1>2 DEF Atomic!Apply, Calls, Done

(* The results and effects the atomic store allows, operation by operation.   *)
LEMMA ResultsCases ==
  ASSUME NEW r, NEW before
  PROVE  /\ r.op \in {"put", "delete"} => Atomic!Results(r, before) = {[ok |-> TRUE]}
         /\ r.op = "list" => Atomic!Results(r, before)
              = {[ok |-> TRUE, keys |-> {k \in r.prefix : before[k] # NoObject}]}
         /\ r.op \in {"get", "range"} /\ before[r.key] = NoObject =>
              Atomic!Results(r, before) = {[ok |-> FALSE, err |-> "not_found"]}
         /\ r.op = "get" /\ before[r.key] # NoObject =>
              Atomic!Results(r, before) = {[ok |-> TRUE, data |-> before[r.key]]}
         /\ r.op = "range" /\ before[r.key] # NoObject =>
              Atomic!Results(r, before) =
                LET data == before[r.key] IN
                IF Atomic!InBounds(r, data)
                THEN {[ok |-> TRUE, data |-> SubSeq(data, r.off + 1, r.off + r.length)]}
                ELSE {[ok |-> FALSE, err |-> e] : e \in {"out_of_bounds", "panic"}}
                       \cup {[ok |-> TRUE, data |-> SubSeq(data, r.off + 1, n)] : n \in 0 .. Len(data)}
<1>1. ASSUME r.op \in {"put", "delete"} PROVE Atomic!Results(r, before) = {[ok |-> TRUE]}
  BY <1>1, Zenon DEF Atomic!Results
<1>2. ASSUME r.op = "list"
      PROVE  Atomic!Results(r, before)
               = {[ok |-> TRUE, keys |-> {k \in r.prefix : before[k] # NoObject}]}
  BY <1>2, Zenon DEF Atomic!Results
<1>3. ASSUME r.op \in {"get", "range"}, before[r.key] = NoObject
      PROVE  Atomic!Results(r, before) = {[ok |-> FALSE, err |-> "not_found"]}
  BY <1>3, Zenon DEF Atomic!Results
<1>4. ASSUME r.op = "get", before[r.key] # NoObject
      PROVE  Atomic!Results(r, before) = {[ok |-> TRUE, data |-> before[r.key]]}
  BY <1>4, Zenon DEF Atomic!Results
<1>5. ASSUME r.op = "range", before[r.key] # NoObject
      PROVE  Atomic!Results(r, before) =
                LET data == before[r.key] IN
                IF Atomic!InBounds(r, data)
                THEN {[ok |-> TRUE, data |-> SubSeq(data, r.off + 1, r.off + r.length)]}
                ELSE {[ok |-> FALSE, err |-> e] : e \in {"out_of_bounds", "panic"}}
                       \cup {[ok |-> TRUE, data |-> SubSeq(data, r.off + 1, n)] : n \in 0 .. Len(data)}
  BY <1>5, Zenon DEF Atomic!Results
<1> QED
  BY <1>1, <1>2, <1>3, <1>4, <1>5

(* What the contract makes of the objects, request by request.                *)
LEMMA EffectCases ==
  ASSUME NEW r, NEW before
  PROVE  /\ r.op = "put" => Atomic!Effect(r, before) = [before EXCEPT ![r.key] = r.data]
         /\ r.op = "delete" => Atomic!Effect(r, before) = [before EXCEPT ![r.key] = NoObject]
         /\ r.op \notin {"put", "delete"} => Atomic!Effect(r, before) = before
<1>1. ASSUME r.op = "put" PROVE Atomic!Effect(r, before) = [before EXCEPT ![r.key] = r.data]
  BY <1>1, Zenon DEF Atomic!Effect
<1>2. ASSUME r.op = "delete" PROVE Atomic!Effect(r, before) = [before EXCEPT ![r.key] = NoObject]
  BY <1>2, Zenon DEF Atomic!Effect
<1>3. ASSUME r.op \notin {"put", "delete"} PROVE Atomic!Effect(r, before) = before
  BY <1>3, Zenon DEF Atomic!Effect
<1> QED
  BY <1>1, <1>2, <1>3

(* Counting, locking, copying and scribbling are invisible: a Get has taken   *)
(* effect when it looked the buffer up, and the bytes it copies later are     *)
(* still those.                                                               *)
LEMMA StutterMaps ==
  ASSUME IInv, NEW p \in Procs,
         Count(p) \/ RLock(p) \/ LockAnnounce(p) \/ LockAcquire(p) \/ Copy(p) \/ Scribble(p)
  PROVE  UNCHANGED <<Stored, Calls>>
<1>1. ASSUME Count(p) \/ RLock(p) \/ LockAnnounce(p) \/ LockAcquire(p)
      PROVE  UNCHANGED <<Stored, Calls>>
  <2>1. /\ UNCHANGED <<objects, heap, req, result, found>>
        /\ \A q \in Procs : \/ UNCHANGED pc[q]
                            \/ {pc[q], pc'[q]} \cap {"idle", "copy", "unlock"} = {}
    BY <1>1 DEF Count, RLock, LockAnnounce, LockAcquire, Goto, locals, IInv, Typing
  <2>2. Stored' = Stored
    BY <2>1, StoredKept
  <2>3. \A q \in Procs : CallOf(q)' = CallOf(q)
    BY <2>1, CallKept
  <2> QED
    BY <2>2, <2>3 DEF Calls
<1>2. ASSUME Copy(p) PROVE UNCHANGED <<Stored, Calls>>
  <2>1. /\ pc[p] = "copy" /\ pc'[p] = "unlock"
        /\ result'[p] = [ok |-> TRUE, data |-> Selected(p)]
        /\ heap' = [heap EXCEPT ![Fresh] = Selected(p)]
        /\ UNCHANGED <<objects, req>>
        /\ \A q \in Procs \ {p} : UNCHANGED <<pc[q], result[q], found[q]>>
    BY <1>2 DEF Copy, Goto, IInv, Typing
  <2>2. Stored' = Stored
    BY <2>1, StoredKept, FreshIsNew DEF IInv, Typing
  <2>3. CallOf(p)' = CallOf(p)
    BY <2>1, CallOfCases, CallOfCasesNext
  <2>4. ASSUME NEW q \in Procs \ {p} PROVE CallOf(q)' = CallOf(q)
    <3>1. found[q] # None => heap'[found[q]] = heap[found[q]]
      BY <2>1, FreshIsNew DEF IInv, Typing
    <3>2. pc[q] = "copy" => found[q] # None
      BY LookedUpIsObject
    <3> QED
      BY <2>1, <3>1, <3>2, CallKept
  <2> QED
    BY <2>2, <2>3, <2>4 DEF Calls
<1>3. ASSUME Scribble(p) PROVE UNCHANGED <<Stored, Calls>>
  <2>1. /\ slice[p] # None
        /\ heap' = [heap EXCEPT ![slice[p]] = Garbage]
        /\ UNCHANGED <<objects, pc, req, result, found>>
    BY <1>3 DEF Scribble, locals
  <2>2. \A k \in ObjKeys : objects[k] # None => heap'[objects[k]] = heap[objects[k]]
    BY <2>1 DEF IInv, NoAliasing, Typing
  <2>3. Stored' = Stored
    BY <2>1, <2>2, StoredKept
  <2>4. ASSUME NEW q \in Procs PROVE CallOf(q)' = CallOf(q)
    BY <2>1, <2>2, LookedUpIsObject, CallKept
  <2> QED
    BY <2>3, <2>4 DEF Calls
<1> QED
  BY <1>1, <1>2, <1>3

(* Each visible step is one step of the atomic store: the call begins, ...    *)
LEMMA InvokeMaps ==
  ASSUME IInv, NEW p \in Procs, NEW r \in Requests, Invoke(p, r)
  PROVE  Atomic!Invoke(p, r)
<1>1. /\ pc[p] = "idle" /\ pc'[p] \in {"count", "lock"} /\ req'[p] = r
      /\ UNCHANGED <<objects, found>>
      /\ \A q \in Procs \ {p} : UNCHANGED <<pc[q], req[q], result[q]>>
      /\ heap' = heap \/ heap' = [heap EXCEPT ![Fresh] = r.data]
  BY DEF Invoke, Goto, IInv, Typing
<1>2. \A b \in Bufs : b # Fresh => heap'[b] = heap[b]
  BY <1>1 DEF IInv, Typing
<1>3. Stored' = Stored
  BY <1>1, <1>2, StoredKept, FreshIsNew DEF IInv, Typing
<1>4. CallOf(p) = Atomic!Idle /\ CallOf(p)' = Pending(r)
  BY <1>1, CallOfCases, CallOfCasesNext
<1>5. ASSUME NEW q \in Procs \ {p} PROVE CallOf(q)' = CallOf(q)
  <2>1. pc[q] = "copy" => heap'[found[q]] = heap[found[q]]
    BY <1>2, LookedUpIsObject, FreshIsNew DEF IInv, Typing
  <2> QED
    BY <1>1, <2>1, CallKept
<1>6. Calls[p] = Atomic!Idle /\ Calls' = [Calls EXCEPT ![p] = Pending(r)]
  BY <1>4, <1>5 DEF Calls
<1> QED
  BY <1>3, <1>6 DEF Atomic!Invoke, Calls, Pending

(* ... returns, ...                                                           *)
LEMMA UnlockMaps ==
  ASSUME IInv, NEW p \in Procs, Unlock(p)
  PROVE  Atomic!Return(p)
<1>1. /\ pc[p] = "unlock" /\ pc'[p] = "idle"
      /\ UNCHANGED <<objects, heap, req, result, found>>
      /\ \A q \in Procs \ {p} : UNCHANGED pc[q] \/ (pc[q] = "rwait" /\ pc'[q] = "body")
  BY DEF Unlock, RUnlock, WUnlock, Goto, locals, IInv, Typing
<1>2. Stored' = Stored
  BY <1>1, StoredKept
<1>3. CallOf(p) = Done(req[p], result[p]) /\ CallOf(p)' = Atomic!Idle
  BY <1>1, CallOfCases, CallOfCasesNext
<1>4. \A q \in Procs \ {p} : CallOf(q)' = CallOf(q)
  BY <1>1, CallKept
<1>5. Calls[p].status = "done"
  BY <1>3 DEF Calls, Done
<1>6. Calls' = [Calls EXCEPT ![p] = Atomic!Idle]
  BY <1>3, <1>4 DEF Calls
<1> QED
  BY <1>2, <1>5, <1>6 DEF Atomic!Return, Calls

(* ... and in between takes effect at once, in the body of Put, Delete or     *)
(* List, ...                                                                  *)
LEMMA WriteMaps ==
  ASSUME IInv, NEW p \in Procs, PutBody(p) \/ DeleteBody(p) \/ ListBody(p)
  PROVE  Atomic!Apply(p)
<1>1. /\ pc[p] = "body" /\ pc'[p] = "unlock"
      /\ UNCHANGED <<req, found>>
      /\ \A q \in Procs \ {p} : UNCHANGED <<pc[q], result[q]>>
      /\ heap' = heap \/ heap' = [heap EXCEPT ![Fresh] = heap[slice[p]]]
  BY DEF PutBody, DeleteBody, ListBody, Goto, IInv, Typing
<1>2. \A b \in Bufs : b # Fresh => heap'[b] = heap[b]
  BY <1>1 DEF IInv, Typing
<1>3. CallOf(p) = Pending(req[p]) /\ CallOf(p)' = Done(req[p], result'[p])
  BY <1>1, CallOfCases, CallOfCasesNext
<1>4. ASSUME NEW q \in Procs \ {p} PROVE CallOf(q)' = CallOf(q)
  <2>1. pc[q] = "copy" => heap'[found[q]] = heap[found[q]]
    BY <1>2, LookedUpIsObject, FreshIsNew DEF IInv, Typing
  <2> QED
    BY <1>1, <2>1, CallKept
<1>5. req[p] \in Requests
  BY <1>1 DEF IInv, CallInv
<1>6. \A k \in ObjKeys : objects[k] # None => heap[objects[k]] # NoObject
  BY ContentAssumption DEF IInv, Typing
<1>7. CASE PutBody(p)
  <2>1. /\ req[p].op = "put" /\ req[p].key \in ObjKeys
        /\ heap' = [heap EXCEPT ![Fresh] = heap[slice[p]]]
        /\ objects' = [objects EXCEPT ![req[p].key] = Fresh]
        /\ result'[p] = [ok |-> TRUE]
    BY <1>5, <1>7, RequestShapes DEF PutBody, IInv, Typing
  <2>2. heap[slice[p]] = req[p].data
    BY <1>1, <2>1 DEF IInv, CallInv
  <2>3. Stored' = [Stored EXCEPT ![req[p].key] = req[p].data]
    BY <2>1, <2>2, FreshIsNew DEF Stored, IInv, Typing
  <2>4. result'[p] \in Atomic!Results(req[p], Stored) /\ Stored' = Atomic!Effect(req[p], Stored)
    BY <2>1, <2>3, ResultsCases, EffectCases
  <2> QED
    BY <1>3, <1>4, <2>4, ApplyMaps
<1>8. CASE DeleteBody(p)
  <2>1. /\ req[p].op = "delete" /\ req[p].key \in ObjKeys /\ UNCHANGED heap
        /\ objects' = [objects EXCEPT ![req[p].key] = None]
        /\ result'[p] = [ok |-> TRUE]
    BY <1>5, <1>8, RequestShapes DEF DeleteBody, IInv, Typing
  <2>2. Stored' = [Stored EXCEPT ![req[p].key] = NoObject]
    BY <2>1 DEF Stored, IInv, Typing
  <2>3. result'[p] \in Atomic!Results(req[p], Stored) /\ Stored' = Atomic!Effect(req[p], Stored)
    BY <2>1, <2>2, ResultsCases, EffectCases
  <2> QED
    BY <1>3, <1>4, <2>3, ApplyMaps
<1>9. CASE ListBody(p)
  <2>1. /\ req[p].op = "list" /\ req[p].prefix \in SUBSET ObjKeys /\ UNCHANGED <<objects, heap>>
        /\ result'[p] = [ok |-> TRUE, keys |-> {k \in req[p].prefix : objects[k] # None}]
    BY <1>5, <1>9, RequestShapes DEF ListBody, IInv, Typing
  <2>2. Stored' = Stored
    BY <2>1, StoredKept
  <2>3. {k \in req[p].prefix : objects[k] # None} = {k \in req[p].prefix : Stored[k] # NoObject}
    BY <1>6, <2>1 DEF Stored
  <2>4. Stored' = Atomic!Effect(req[p], Stored)
    BY <2>1, <2>2, EffectCases
  <2>5. result'[p] \in Atomic!Results(req[p], Stored)
    <3>1. Atomic!Results(req[p], Stored)
            = {[ok |-> TRUE, keys |-> {k \in req[p].prefix : Stored[k] # NoObject}]}
      BY <2>1, ResultsCases
    <3> QED
      BY <2>1, <2>3, <3>1
  <2> QED
    BY <1>3, <1>4, <2>4, <2>5, ApplyMaps
<1> QED
  BY <1>7, <1>8, <1>9

(* ... or in the lookup of Get and GetRange, with every early return. Inside  *)
(* the object GetRange is exact, as int64 addition does not wrap there.       *)
LEMMA LookupMaps ==
  ASSUME IInv, NEW p \in Procs, Lookup(p)
  PROVE  Atomic!Apply(p)
<1> DEFINE r    == req[p]
           b    == objects[r.key]
           data == heap[b]
<1>1. /\ pc[p] = "body" /\ r \in Requests /\ r.op \in {"get", "range"} /\ r.key \in ObjKeys
      /\ b \in Bufs \cup {None}
      /\ UNCHANGED <<objects, heap, req>>
      /\ \A q \in Procs \ {p} : UNCHANGED <<pc[q], result[q], found[q]>>
  BY RequestShapes DEF Lookup, Goto, IInv, CallInv, Typing
<1>2. Stored' = Stored /\ Stored' = Atomic!Effect(r, Stored)
  BY <1>1, StoredKept, EffectCases
<1>3. \A q \in Procs \ {p} : CallOf(q)' = CallOf(q)
  BY <1>1, CallKept
<1>4. CallOf(p) = Pending(r)
  BY <1>1, CallOfCases
<1>5. Stored[r.key] = IF b = None THEN NoObject ELSE data
  BY <1>1 DEF Stored
<1>6. b # None => data \in Content /\ data # NoObject /\ Len(data) \in Nat /\ Len(data) <= MaxInt64
  BY <1>1, ContentAssumption DEF IInv, Typing, Content
<1>7. r.op = "range" => r.off \in Int64 /\ r.length \in Int64 /\ Int64 \subseteq Int
  BY <1>1, RequestShapes, ProcsAssumption DEF Int64
<1>8. r.op = "range" /\ b # None =>
        /\ RangeEnd(r, data) \in Int /\ RangeEnd(r, data) <= Len(data)
        /\ Atomic!InBounds(r, data) => RangeEnd(r, data) = r.off + r.length
  <2> SUFFICES ASSUME r.op = "range", b # None
               PROVE  /\ RangeEnd(r, data) \in Int /\ RangeEnd(r, data) <= Len(data)
                      /\ Atomic!InBounds(r, data) => RangeEnd(r, data) = r.off + r.length
    OBVIOUS
  <2> HIDE DEF r, data
  <2>1. ASSUME Atomic!InBounds(r, data) PROVE RangeEnd(r, data) = r.off + r.length
    <3>1. r.off + r.length \in 0 .. MaxInt64 /\ r.off + r.length <= Len(data)
      BY <1>6, <1>7, <2>1, ProcsAssumption DEF Atomic!InBounds
    <3>2. Wrap(r.off + r.length) = r.off + r.length
      BY <3>1, WrapIsExact
    <3> QED
      BY <1>6, <3>1, <3>2 DEF RangeEnd
  <2> QED
    BY <1>6, <1>7, <2>1, RangeEndType
<1>9. CASE b = None
  <2>1. pc'[p] = "unlock" /\ result'[p] = [ok |-> FALSE, err |-> "not_found"]
    BY <1>9 DEF Lookup, Goto, IInv, Typing
  <2>2. result'[p] \in Atomic!Results(r, Stored)
    BY <1>1, <1>5, <1>9, <2>1, ResultsCases
  <2>3. CallOf(p)' = Done(r, result'[p])
    BY <1>1, <2>1, CallOfCasesNext
  <2> HIDE DEF r
  <2> QED
    BY <1>2, <1>3, <1>4, <2>2, <2>3, ApplyMaps DEF r
<1>10. CASE b # None /\ r.op = "get"
  <2>1. pc'[p] = "copy" /\ found'[p] = b
    BY <1>10 DEF Lookup, Goto, IInv, Typing
  <2>2. Selected(p)' = data
    BY <1>1, <1>10, <2>1 DEF Selected
  <2>3. CallOf(p)' = Done(r, [ok |-> TRUE, data |-> data])
    BY <1>1, <2>1, <2>2, CallOfCasesNext
  <2>4. [ok |-> TRUE, data |-> data] \in Atomic!Results(r, Stored)
    BY <1>5, <1>6, <1>10, ResultsCases
  <2> HIDE DEF data
  <2> QED
    BY <1>2, <1>3, <1>4, <2>3, <2>4, ApplyMaps
<1>11. CASE b # None /\ r.op = "range"
  <2> DEFINE Some(n) == [ok |-> TRUE, data |-> SubSeq(data, r.off + 1, n)]
             Error   == {[ok |-> FALSE, err |-> e] : e \in {"out_of_bounds", "panic"}}
  <2>1. /\ Atomic!InBounds(r, data) => Some(r.off + r.length) \in Atomic!Results(r, Stored)
        /\ ~Atomic!InBounds(r, data) =>
             /\ \A e \in Error : e \in Atomic!Results(r, Stored)
             /\ \A n \in 0 .. Len(data) : Some(n) \in Atomic!Results(r, Stored)
    <3>1. Stored[r.key] = data /\ data # NoObject
      BY <1>5, <1>6, <1>11
    <3> HIDE DEF data
    <3> QED
      BY <1>11, <3>1, ResultsCases
  <2>2. \/ /\ r.off < 0 \/ r.off > Len(data)
           /\ pc'[p] = "unlock" /\ result'[p] = [ok |-> FALSE, err |-> "out_of_bounds"]
        \/ /\ RangeEnd(r, data) < r.off
           /\ pc'[p] = "unlock" /\ result'[p] = [ok |-> FALSE, err |-> "panic"]
        \/ /\ ~(r.off < 0 \/ r.off > Len(data)) /\ ~(RangeEnd(r, data) < r.off)
           /\ pc'[p] = "copy" /\ found'[p] = b
    BY <1>11 DEF Lookup, Goto, IInv, Typing
  <2>3. CASE /\ r.off < 0 \/ r.off > Len(data) \/ RangeEnd(r, data) < r.off
             /\ pc'[p] = "unlock"
             /\ result'[p] \in Error
    <3>1. ~Atomic!InBounds(r, data)
      <4> HIDE DEF r, data
      <4> QED
        BY <1>6, <1>7, <1>8, <1>11, <2>3 DEF Atomic!InBounds
    <3>2. result'[p] \in Atomic!Results(r, Stored)
      BY <2>1, <2>3, <3>1
    <3>3. CallOf(p)' = Done(r, result'[p])
      BY <1>1, <2>3, CallOfCasesNext
    <3> QED
      BY <1>2, <1>3, <1>4, <3>2, <3>3, ApplyMaps
  <2>4. CASE /\ ~(r.off < 0 \/ r.off > Len(data)) /\ ~(RangeEnd(r, data) < r.off)
             /\ pc'[p] = "copy" /\ found'[p] = b
    <3> DEFINE res == [ok |-> TRUE, data |-> SubSeq(data, r.off + 1, RangeEnd(r, data))]
    <3>1. Selected(p)' = SubSeq(data, r.off + 1, RangeEnd(r, data))
      BY <1>1, <1>11, <2>4 DEF Selected, RangeEnd
    <3>2. CallOf(p)' = Done(r, res)
      BY <1>1, <2>4, <3>1, CallOfCasesNext
    <3>3. res \in Atomic!Results(r, Stored)
      <4>1. RangeEnd(r, data) \in 0 .. Len(data)
        <5> HIDE DEF r, data
        <5> QED
          BY <1>6, <1>7, <1>8, <1>11, <2>4
      <4>2. CASE Atomic!InBounds(r, data)
        BY <1>8, <1>11, <2>1, <4>2
      <4>3. CASE ~Atomic!InBounds(r, data)
        BY <2>1, <4>1, <4>3
      <4> QED
        BY <4>2, <4>3
    <3> HIDE DEF res
    <3> QED
      BY <1>2, <1>3, <1>4, <3>2, <3>3, ApplyMaps
  <2> QED
    BY <2>2, <2>3, <2>4
<1> QED
  BY <1>1, <1>9, <1>10, <1>11

(* MemStore implements the atomic object store, for any number of goroutines  *)
(* and calls: every call takes effect at one moment between its invocation    *)
(* and its return.                                                            *)
THEOREM StoreIsLinearizable == Spec => Linearizable
<1>1. Init => Atomic!Init
  <2> SUFFICES ASSUME Init PROVE Atomic!Init
    OBVIOUS
  <2>1. Stored = [k \in ObjKeys |-> NoObject]
    BY DEF Init, Stored
  <2>2. \A p \in Procs : CallOf(p) = Atomic!Idle
    BY CallOfCases DEF Init
  <2> QED
    BY <2>1, <2>2 DEF Atomic!Init
<1>2. IInv /\ [Next]_vars => [Atomic!Next]_Atomic!vars
  <2> SUFFICES ASSUME IInv, [Next]_vars
               PROVE  Atomic!Next \/ UNCHANGED <<Stored, Calls>>
    BY DEF Atomic!vars, Calls
  <2>1. CASE UNCHANGED vars
    <3>1. Stored' = Stored
      BY <2>1 DEF vars, Stored
    <3>2. \A p \in Procs : CallOf(p)' = CallOf(p)
      BY <2>1, CallKept DEF vars, locals
    <3> QED
      BY <3>1, <3>2 DEF Calls
  <2>2. ASSUME NEW p \in Procs, NEW r \in Requests, Invoke(p, r) PROVE Atomic!Next
    BY <2>2, InvokeMaps DEF Atomic!Next
  <2>3. ASSUME NEW p \in Procs,
               PutBody(p) \/ DeleteBody(p) \/ ListBody(p) \/ Lookup(p)
        PROVE  Atomic!Next
    BY <2>3, WriteMaps, LookupMaps DEF Atomic!Next
  <2>4. ASSUME NEW p \in Procs, Unlock(p) PROVE Atomic!Next
    BY <2>4, UnlockMaps DEF Atomic!Next
  <2> QED
    BY <2>1, <2>2, <2>3, <2>4, StutterMaps DEF Next, Step
<1> QED
  BY <1>1, <1>2, InvariantHolds, PTL DEF Spec, Linearizable, Atomic!Spec
=============================================================================

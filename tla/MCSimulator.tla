----------------------------- MODULE MCSimulator -----------------------------
(* Two reviews and two products; a filter predicate and a criterion on one    *)
(* aspect; rows without id, cut rows, raw text and an unknown tier among the  *)
(* calls.                                                                     *)
EXTENDS Simulator

Cell == [words |-> {"battery", "sound"}, ranks |-> FALSE]
Best == [words |-> {"battery"}, ranks |-> TRUE]
MCPredicates == {Cell, Best}

Review  == Doc("review", 1)
Product == Doc("product", 1)
Second  == Doc("product", 2)
MCInputs     == {Raw(Review), Cut(Review), NoIdRow}
MCPairs      == {<<Review, Product>>, <<Product, Cut(Review)>>, <<Second, Product>>}
MCFilterRows == {Review, NoIdRow}

(* A caller's tier that goes by the name of the cheap one: it shares its      *)
(* hashes, at another price and rate.                                         *)
MCInstances == [own |-> [name |-> "cheap", usd |-> 2, error |-> 400]]

(* Fewer than ten rows: strings and numbers are in the same order.            *)
MCIdRank == [i \in 1 .. 2 |-> i]

Keys    == {Key(d) : d \in Docs}
MCBases == {[k \in Keys |-> 0], [k \in Keys |-> IF k = Key(Review) THEN 44 ELSE 0]}
MCTwins == {<<{Key(Product), Key(Second)}, "battery">>}

(* Draws that differ for the first review only.                               *)
MCDraws ==
  [stars : {<<s, 0>> : s \in Hashes}, link : {<<l, 0>> : l \in Hashes},
   distract : SUBSET {<<1, "battery">>},
   pick : {{<<"review", 1>>, <<"product", 2>>}, {<<"review", 2>>} \union {"product"} \X Products}]

(* A directory that holds the corpus already, and MaxSteps calls on fewer     *)
(* draws; or an empty one, where at least one step goes to the generator.     *)
OldCorpus ==
  /\ Complete
  /\ hash.stars[1] = hash.link[1] /\ hash.distract = {} /\ <<"review", 1>> \in hash.pick
  /\ base[Key(Review)] = 0 \/ hash.stars[1] = 0
  /\ {<<"review", 2, "battery">>, <<"product", 2, "battery">>} \intersect gold = {}
  /\ twins = {}
NewCorpus ==
  /\ ~Complete
  /\ hash.distract = {} <=> hash.link[1] = 0
  /\ base[Key(Review)] = 0
  /\ twins = {} \/ gold = {}

MCInit == hash \in MCDraws /\ Init /\ (OldCorpus \/ NewCorpus)
MCSpec == MCInit /\ [][Next]_vars
=============================================================================

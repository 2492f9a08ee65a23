-------------------------------- MODULE Deck --------------------------------
(* Slide navigation (course/deck.js): keys, clicks and the address bar move   *)
(* one deck.  Changing the address queues a hashchange event, which is        *)
(* handled later and reads the address as it is then; show() rewrites the     *)
(* address without an event.                                                  *)
EXTENDS Integers

CONSTANTS SLIDES,    \* slides.length
          Hashes,    \* numbers the address can end in; 0 is none, or no number
          MaxEdits   \* address changes by the reader, at most

ASSUME DeckAssumption == SLIDES \in Nat \ {0} /\ Hashes \subseteq Int /\ MaxEdits \in Nat

VARIABLES
  slide,    \* i: the current slide, from 0
  shown,    \* slide with the class "current"
  hash,     \* number in location.hash
  pending,  \* hashchange events not yet dispatched
  edits     \* address changes so far

deckvars == <<slide, shown, hash, pending, edits>>

(* Math.min(slides.length - 1, Math.max(0, n))                                *)
Clamped(n) == IF n < 0 THEN 0 ELSE IF n < SLIDES THEN n ELSE SLIDES - 1

(* parseInt(...) || 1, from 0.                                                *)
FromHash(h) == (IF h = 0 THEN 1 ELSE h) - 1

(* Bug: the address is left as it was.                                        *)
ShowOnly(n) ==
  /\ slide' = Clamped(n)
  /\ shown' = slide'
  /\ UNCHANGED <<hash, edits>>

Show(n) ==
  /\ slide' = Clamped(n)
  /\ shown' = slide'
  /\ hash' = slide' + 1
  /\ UNCHANGED edits

(* The script runs once, and ends with show(i).                               *)
DeckInit ==
  /\ \E h \in Hashes : slide = Clamped(FromHash(h))
  /\ shown = slide
  /\ hash = slide + 1
  /\ pending = 0
  /\ edits = 0

(* Arrow keys, page keys and clicks on either half.                           *)
Forward  == Show(slide + 1) /\ UNCHANGED pending
Backward == Show(slide - 1) /\ UNCHANGED pending
Home     == Show(0) /\ UNCHANGED pending
End      == Show(SLIDES - 1) /\ UNCHANGED pending

(* The reader edits the address, follows a link to #n or goes back.           *)
EditHash(h) ==
  /\ edits < MaxEdits
  /\ h # hash
  /\ hash' = h
  /\ pending' = pending + 1
  /\ edits' = edits + 1
  /\ UNCHANGED <<slide, shown>>

(* Bug: a number that is not in range is ignored.                             *)
HashChangeInRange ==
  /\ pending > 0
  /\ pending' = pending - 1
  /\ IF FromHash(hash) \in 0 .. SLIDES - 1 THEN Show(FromHash(hash))
     ELSE UNCHANGED <<slide, shown, hash, edits>>

HashChange ==
  /\ pending > 0
  /\ pending' = pending - 1
  /\ Show(FromHash(hash))

DeckNext ==
  \/ Forward \/ Backward \/ Home \/ End
  \/ \E h \in Hashes : EditHash(h)
  \/ HashChange

(* The browser dispatches queued events.                                      *)
DeckSpec == DeckInit /\ [][DeckNext]_deckvars /\ WF_deckvars(HashChange)
----------------------------------------------------------------------------
DeckTypeOK ==
  /\ slide \in 0 .. SLIDES - 1
  /\ shown \in 0 .. SLIDES - 1
  /\ hash \in Hashes \union 1 .. SLIDES
  /\ pending \in 0 .. edits
  /\ edits \in 0 .. MaxEdits

(* With no event in the queue the address names the slide that is shown, so   *)
(* a reload or a copied link comes back to it: also when a key was pressed    *)
(* between an edit of the address and its event.                              *)
QuietAgrees == pending = 0 => shown = slide /\ hash = slide + 1

(* The slide shown always exists, and the address names it when all is quiet. *)
DeckSound == DeckTypeOK /\ QuietAgrees

(* Once the reader leaves the address alone, it comes to name the slide shown *)
(* and stays that way, whatever was typed and however often a key is pressed. *)
AddressSettles == <>[](hash = shown + 1)
=============================================================================

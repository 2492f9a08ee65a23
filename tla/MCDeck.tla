------------------------------- MODULE MCDeck -------------------------------
(* Four slides, and addresses before, among and past them.                    *)
EXTENDS Deck

MCHashes == -1 .. 6
=============================================================================

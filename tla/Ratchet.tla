------------------------------ MODULE Ratchet ------------------------------
(***************************************************************************)
(* What the session layer promises about keys, without messages: each      *)
(* participant holds a chain of secrets.  A chain is opened once, grows by *)
(* one secret at a time, and grows either ahead of a participant that      *)
(* holds the very same chain, with a secret nobody has used, or to become  *)
(* the chain of a participant that is exactly one secret ahead.            *)
(***************************************************************************)
EXTENDS Integers, Sequences

CONSTANT Participants
VARIABLE chain

Grows(p, next) == chain' = [chain EXCEPT ![p] = next]

Used(s) == \E q \in Participants : \E i \in 1..Len(chain[q]) : chain[q][i] = s

OneAhead(long, short) ==
    Len(long) = Len(short) + 1 /\ SubSeq(long, 1, Len(short)) = short

Init == chain = [p \in Participants |-> <<>>]

\* Whoever else starts from the same secret has not moved on.
Open(p) ==
    /\ chain[p] = <<>> /\ Len(chain'[p]) = 1
    /\ \A q \in Participants :
         (chain[q] # <<>> /\ chain[q][1] = chain'[p][1]) => chain[q] = chain'[p]
    /\ Grows(p, chain'[p])

Lead(p) ==
    /\ chain[p] # <<>> /\ \E q \in Participants \ {p} : chain[q] = chain[p]
    /\ OneAhead(chain'[p], chain[p])
    /\ ~Used(chain'[p][Len(chain'[p])])
    /\ Grows(p, chain'[p])

Follow(p) ==
    /\ chain[p] # <<>>
    /\ \E q \in Participants \ {p} : OneAhead(chain[q], chain[p]) /\ Grows(p, chain[q])

Next == \E p \in Participants : Open(p) \/ Lead(p) \/ Follow(p)

Spec == Init /\ [][Next]_chain
=============================================================================

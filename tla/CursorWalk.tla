----------------------------- MODULE CursorWalk -----------------------------
(***************************************************************************)
(* What reading a paginated answer promises: the pages are handed out one  *)
(* after the other along the server's continuation tokens, from the first, *)
(* no page is handed out twice by following one token twice, and a reading *)
(* that reports its end has handed out the last page.                      *)
(***************************************************************************)
EXTENDS Integers, Sequences

CONSTANT First  \* the page an answer without a token holds

VARIABLES
  next,    \* the server's tokens: the page after each page, or NoPage
  walk,    \* the pages handed out, in order
  status   \* "open", "complete" or "broken" (an error, or the reader left)

vars == <<next, walk, status>>

NoPage == 0

Init ==
  /\ walk = <<>>
  /\ status = "open"

\* The tokens followed so far: every page but the first was asked for by one.
Followed == {walk[k] : k \in 2..Len(walk)}

HandOut ==
  /\ status = "open"
  /\ \/ walk = <<>> /\ walk' = <<First>>
     \/ /\ walk # <<>>
        /\ LET p == next[walk[Len(walk)]]
           IN  p # NoPage /\ p \notin Followed /\ walk' = Append(walk, p)
  /\ UNCHANGED <<next, status>>

Complete ==
  /\ status = "open"
  /\ walk # <<>>
  /\ next[walk[Len(walk)]] = NoPage
  /\ status' = "complete"
  /\ UNCHANGED <<next, walk>>

Break ==
  /\ status = "open"
  /\ status' = "broken"
  /\ UNCHANGED <<next, walk>>

Next == HandOut \/ Complete \/ Break

Spec == Init /\ [][Next]_vars
=============================================================================

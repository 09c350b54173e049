---------------------------- MODULE BrowserHistory ----------------------------
(***************************************************************************)
(* What the history of a window promises its user, as a web browser does:  *)
(* places visited before, the place the user is at, places gone back from. *)
(* Visiting forgets the latter, going back and forth forgets nothing, and  *)
(* no more than MaxLength places are remembered.                           *)
(***************************************************************************)
EXTENDS Integers, Sequences

CONSTANTS Place, MaxLength

VARIABLES past, here, future   \* here is << >> or <<place>>

places == <<past, here, future>>

Trail == past \o here \o future

\* The last n elements of s, or s when it is shorter
LastOf(n, s) == SubSeq(s, IF Len(s) > n THEN Len(s) - n + 1 ELSE 1, Len(s))

Init == past = << >> /\ here = << >> /\ future = << >>

Visit(x) ==
  /\ past' = LastOf(MaxLength - 1, past \o here)
  /\ here' = <<x>>
  /\ future' = << >>

\* Back, forward, or straight to a place in either menu
Return(k) ==
  /\ past'   = SubSeq(Trail, 1, k - 1)
  /\ here'   = <<Trail[k]>>
  /\ future' = SubSeq(Trail, k + 1, Len(Trail))

Forget ==
  /\ past' = << >> /\ future' = << >>
  /\ here' \in {<< >>} \union {<<x>> : x \in Place}

Next == Forget \/ (\E x \in Place : Visit(x)) \/ (\E k \in 1 .. Len(Trail) : Return(k))

Spec == Init /\ [][Next]_places
=============================================================================

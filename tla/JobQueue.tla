------------------------------- MODULE JobQueue -------------------------------
(***************************************************************************)
(* The queue of files to pull (lib/model/queue.go), as functions on a pair  *)
(* of sequences: the files that are queued, and those that have been popped *)
(* and are in progress.  Sizes and times only decide about an order, and    *)
(* the orders of a configuration are any order.                             *)
(***************************************************************************)
EXTENDS Naturals, Sequences, FiniteSets

Empty == [queued |-> <<>>, progress |-> <<>>]

Push(q, f) == [q EXCEPT !.queued = Append(@, f)]

CanPop(q) == q.queued # <<>>
Pop(q) == [queued |-> Tail(q.queued), progress |-> Append(q.progress, Head(q.queued))]

\* The position of a name in a sequence, the first one if there are several.
Position(s, f) == CHOOSE i \in DOMAIN s : s[i] = f /\ \A j \in 1..(i - 1) : s[j] # f
Listed(s, f) == \E i \in DOMAIN s : s[i] = f
Without(s, i) == [j \in 1..(Len(s) - 1) |-> IF j < i THEN s[j] ELSE s[j + 1]]

\* Mutant: the elements before the selected one are not shifted.
BringToFront_Swapped(q, f) ==
  IF ~Listed(q.queued, f) THEN q
  ELSE LET i == Position(q.queued, f)
       IN  [q EXCEPT !.queued = [@ EXCEPT ![1] = f]]

BringToFront(q, f) ==
  IF ~Listed(q.queued, f) THEN q
  ELSE [q EXCEPT !.queued = <<f>> \o Without(@, Position(@, f))]

Done(q, f) ==
  IF ~Listed(q.progress, f) THEN q
  ELSE [q EXCEPT !.progress = Without(@, Position(@, f))]

\* A page of the files in progress followed by those in the queue.
Jobs(q, page, perpage) ==
  LET toSkip == (page - 1) * perpage
      plen == Len(q.progress)
      progress == IF plen > toSkip THEN SubSeq(q.progress, toSkip + 1, plen) ELSE <<>>
      left == IF plen > toSkip THEN 0 ELSE toSkip - plen
      room == IF Len(q.queued) - left < perpage - Len(progress)
              THEN Len(q.queued) - left ELSE perpage - Len(progress)
  IN  IF plen + Len(q.queued) <= toSkip THEN [progress |-> <<>>, queued |-> <<>>]
      ELSE IF plen >= toSkip + perpage
      THEN [progress |-> SubSeq(q.progress, toSkip + 1, toSkip + perpage), queued |-> <<>>]
      ELSE [progress |-> progress, queued |-> SubSeq(q.queued, left + 1, left + room)]
=============================================================================

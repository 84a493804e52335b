------------------------------- MODULE Damage -------------------------------
(***************************************************************************)
(* The rectangles a frame has marked (Damage, api/src/events.rs), on a     *)
(* desktop of Width by Height pixels, beside the pixels they were marked   *)
(* for.                                                                    *)
(***************************************************************************)
EXTENDS Integers, Sequences, FiniteSets, Functions

CONSTANTS Width, Height, Limit

VARIABLES
  rects,   \* Damage::rects
  marked   \* every pixel marked since it was last taken

vars == <<rects, marked>>

\* What a backend may mark: any rectangle of the desktop, empty ones included.
Rects ==
  {r \in [x : 0..Width, y : 0..Height, width : 0..Width, height : 0..Height] :
     r.x + r.width <= Width /\ r.y + r.height <= Height}

Pixels(r) == (r.x .. r.x + r.width - 1) \X (r.y .. r.y + r.height - 1)
Area(r) == r.width * r.height

Lesser(a, b) == IF a < b THEN a ELSE b
Greater(a, b) == IF a < b THEN b ELSE a

\* Mutant: the right and bottom edges, for the width and the height.
UnionEdges(r, s) ==
  [x |-> Lesser(r.x, s.x), y |-> Lesser(r.y, s.y),
   width |-> Greater(r.x + r.width, s.x + s.width),
   height |-> Greater(r.y + r.height, s.y + s.height)]

Union(r, s) ==
  LET x == Lesser(r.x, s.x)
      y == Lesser(r.y, s.y)
  IN [x |-> x, y |-> y,
      width |-> Greater(r.x + r.width, s.x + s.width) - x,
      height |-> Greater(r.y + r.height, s.y + s.height) - y]

Mergeable(r, s) == Area(Union(r, s)) <= Area(r) + Area(s)

SwapRemove(s, i) == [j \in 1..Len(s) - 1 |-> IF j = i THEN s[Len(s)] ELSE s[j]]

\* The first rectangle of the list that m's merges with is taken out, and is merged.
MergeFirst(m) ==
  LET with == {i \in 1..Len(m.rects) : Mergeable(m.rects[i], m.rect)}
      i == CHOOSE i \in with : \A j \in with : i <= j
  IN IF with = {} THEN m
     ELSE [rects |-> SwapRemove(m.rects, i), rect |-> Union(m.rect, m.rects[i])]

\* Mutant: the merge is not tried again with its result.
MergedOnce(rs, r) == MergeFirst([rects |-> rs, rect |-> r])

\* Until there is none: at most as often as there are rectangles.
Merged(rs, r) == FoldFunction(LAMBDA each, m : MergeFirst(m), [rects |-> rs, rect |-> r], rs)

\* Mutant: the box of the rectangles already there.
PlacedWithout(m) ==
  IF Len(m.rects) >= Limit
  THEN <<FoldFunction(Union, Head(m.rects), Tail(m.rects))>>
  ELSE Append(m.rects, m.rect)

\* What could not be merged is a rectangle more, or with the rest one box.
Placed(m) ==
  IF Len(m.rects) >= Limit
  THEN <<FoldFunction(Union, m.rect, m.rects)>>
  ELSE Append(m.rects, m.rect)

Init == rects = <<>> /\ marked = {}

Add(r) ==
  /\ rects' = IF Area(r) = 0 THEN rects ELSE Placed(Merged(rects, r))
  /\ marked' = marked \cup Pixels(r)

Take ==
  /\ rects' = <<>> /\ marked' = {}

Next == (\E r \in Rects : Add(r)) \/ Take

Spec == Init /\ [][Next]_vars

-----------------------------------------------------------------------------

\* No damage is lost: every pixel marked lies in a rectangle of the list, however
\* the rectangles were merged and collapsed.
Covers == \A p \in marked : \E i \in 1..Len(rects) : p \in Pixels(rects[i])

\* The rectangles stay within the box of what was marked, so that a window reads
\* nothing outside the desktop they were marked on.
WithinMarked ==
  \A i \in 1..Len(rects) : \A p \in Pixels(rects[i]) :
    \A axis \in {1, 2} : (\E q \in marked : q[axis] <= p[axis]) /\ (\E q \in marked : q[axis] >= p[axis])

\* The list keeps to its limit, and no two of its rectangles could still be merged:
\* retrying the merge with its result leaves nothing that a call would merge.
Compact ==
  /\ Len(rects) <= Limit
  /\ \A i, j \in 1..Len(rects) : i # j => ~Mergeable(rects[i], rects[j])
=============================================================================

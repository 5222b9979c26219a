------------------------------ MODULE Pipeline ------------------------------
(***************************************************************************)
(* One packet stream out of the two framed directions                      *)
(* (core/pipeline.py, packets and _expand; modules/compressed.py).         *)
(*                                                                         *)
(* The directions are merged by time, each container is unpacked where it  *)
(* stands, and the result is numbered once over the session.  A packet is  *)
(* given by what it holds, a prefix-closed set of paths: <<>> is itself,   *)
(* <<2>> the second packet in it, <<2, 1>> the first in that one.          *)
(***************************************************************************)
EXTENDS Integers, FiniteSets, Sequences, SequencesExt

CONSTANTS
  MaxExpansionDepth,   \* MAX_EXPANSION_DEPTH
  Shapes,              \* what a packet may hold: [paths, bad], bad ones fail to unpack
  Times,               \* packet times
  MaxPackets           \* bound: packets framed in each direction

Directions == {"S2C", "C2S"}

\* A packet holds what its containers do, numbered from 1 in each.
PipelineAssumption ==
  /\ MaxExpansionDepth \in Nat \ {0} /\ MaxPackets \in Nat /\ Times \subseteq Nat
  /\ \A s \in Shapes :
       /\ IsFiniteSet(s.paths) /\ s.paths \subseteq Seq(Nat \ {0})
       /\ <<>> \in s.paths /\ s.bad \subseteq s.paths
       /\ \A p \in s.paths : \A k \in 0 .. Len(p) : SubSeq(p, 1, k) \in s.paths
       /\ \A p \in s.paths \ {<<>>} : \A i \in 1 .. Last(p) : Append(Front(p), i) \in s.paths

VARIABLES
  phase,     \* "framing", "merging", "done"
  framed,    \* what walk yields in each direction: [t, seq, shape]
  merged,    \* how many of each direction the merge has taken
  stack,     \* places being expanded: [direction, n, path]
  out,       \* the packets yielded: [seq, t, from], from the place expanded
  errors     \* the places an error was logged for

vars == <<phase, framed, merged, stack, out, errors>>

Init ==
  /\ phase = "framing"
  /\ framed = [d \in Directions |-> <<>>]
  /\ merged = [d \in Directions |-> 0]
  /\ stack = <<>> /\ out = <<>> /\ errors = {}

\* framing.walk yields a packet, in time order within its direction; a message
\* with a gap leaves its number unused.
Frame(d, t, shape, skip) ==
  LET n    == Len(framed[d])
      last == IF n = 0 THEN [t |-> 0, seq |-> -1] ELSE framed[d][n]
  IN
  /\ phase = "framing"
  /\ n < MaxPackets
  /\ t >= last.t
  /\ framed' = [framed EXCEPT ![d] = Append(@, [t |-> t, seq |-> last.seq + 1 + skip, shape |-> shape])]
  /\ UNCHANGED <<phase, merged, stack, out, errors>>

Merge ==
  /\ phase = "framing"
  /\ phase' = "merging"
  /\ UNCHANGED <<framed, merged, stack, out, errors>>

-----------------------------------------------------------------------------
Left(d) == merged[d] < Len(framed[d])
NextOf(d) == framed[d][merged[d] + 1]

\* Mutant: packet numbers before times.
PrecedesBySeq(d, e) ==
  LET a == NextOf(d) b == NextOf(e)
  IN  a.seq < b.seq \/ (a.seq = b.seq /\ d = "S2C")

\* heapq.merge on (t, seq); of equals, the direction listed first.
Precedes(d, e) ==
  LET a == NextOf(d) b == NextOf(e)
  IN  \/ a.t < b.t
      \/ a.t = b.t /\ a.seq < b.seq
      \/ a.t = b.t /\ a.seq = b.seq /\ d = "S2C"

Take(d) ==
  /\ phase = "merging"
  /\ stack = <<>>
  /\ Left(d)
  /\ \A e \in Directions \ {d} : Left(e) => Precedes(d, e)
  /\ merged' = [merged EXCEPT ![d] = @ + 1]
  /\ stack' = <<[direction |-> d, n |-> merged[d] + 1, path |-> <<>>]>>
  /\ UNCHANGED <<phase, framed, out, errors>>

Shape(x) == framed[x.direction][x.n].shape

Contents(x) ==
  LET held == {p \in Shape(x).paths : p # <<>> /\ Front(p) = x.path}
  IN  [i \in 1 .. Cardinality(held) |-> [x EXCEPT !.path = Append(x.path, i)]]

TooDeep(x) == Len(x.path) >= MaxExpansionDepth

\* _expand: the packet itself, then all it holds before anything else.
Expand ==
  LET x     == Head(stack)
      stops == TooDeep(x) \/ x.path \in Shape(x).bad
  IN
  /\ phase = "merging"
  /\ stack # <<>>
  /\ out' = Append(out, [seq |-> Len(out), t |-> framed[x.direction][x.n].t, from |-> x])
  /\ stack' = IF stops THEN Tail(stack) ELSE Contents(x) \o Tail(stack)
  /\ errors' = IF stops THEN errors \union {x} ELSE errors
  /\ UNCHANGED <<phase, framed, merged>>

Finish ==
  /\ phase = "merging"
  /\ stack = <<>>
  /\ \A d \in Directions : ~Left(d)
  /\ phase' = "done"
  /\ UNCHANGED <<framed, merged, stack, out, errors>>

Next ==
  \/ \E d \in Directions, t \in Times, shape \in Shapes, skip \in 0 .. 1 : Frame(d, t, shape, skip)
  \/ Merge
  \/ \E d \in Directions : Take(d)
  \/ Expand
  \/ Finish

Spec == Init /\ [][Next]_vars

-----------------------------------------------------------------------------
\* The stream is in time order, and numbered by position, over both directions
\* and everything unpacked: the analyzers and rules compare times as they come.
InTimeOrder ==
  \A i, j \in DOMAIN out : i < j => out[i].t <= out[j].t /\ out[i].seq < out[j].seq

\* Lexicographic order of paths: a container, then its contents in turn.
Before(p, q) ==
  \/ p # q /\ IsPrefix(p, q)
  \/ \E i \in DOMAIN p \intersect DOMAIN q :
       /\ p[i] < q[i]
       /\ \A k \in 1 .. (i - 1) : p[k] = q[k]

\* What should come of a packet: all it holds but what lies in a container that
\* cannot be unpacked, or deeper than the limit.
Reachable(shape) ==
  {p \in shape.paths : /\ Len(p) <= MaxExpansionDepth
                       /\ \A k \in 0 .. (Len(p) - 1) : SubSeq(p, 1, k) \notin shape.bad}

Promised ==
  UNION {UNION {{[direction |-> d, n |-> n, path |-> p] : p \in Reachable(framed[d][n].shape)} :
                n \in DOMAIN framed[d]} : d \in Directions}

\* And each packet of each direction comes out once, in its direction's order,
\* with what it holds: a container that fails costs its own contents and nothing
\* else ("one bad container, not the run").
EverythingOnceInOrder ==
  /\ InTimeOrder
  /\ \A i, j \in DOMAIN out :
       LET a == out[i].from b == out[j].from
       IN  i < j /\ a.direction = b.direction =>
             a.n < b.n \/ (a.n = b.n /\ Before(a.path, b.path))
  /\ phase = "done" => {out[i].from : i \in DOMAIN out} = Promised
=============================================================================

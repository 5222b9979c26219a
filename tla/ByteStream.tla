----------------------------- MODULE ByteStream -----------------------------
(***************************************************************************)
(* What a reader of one reassembled direction is promised: a stream that   *)
(* only grows, at its end, by the bytes that were sent in the order they   *)
(* were sent, with holes where the capture saw nothing, on a clock that    *)
(* only goes forward.  Copies, cuts and disorder of segments do not show.  *)
(***************************************************************************)
EXTENDS Integers

CONSTANT Hole      \* the filler of a byte that was never captured

VARIABLES
  origin,          \* position in the sender's stream of the first byte
  length,          \* bytes delivered
  out,             \* the bytes, a function on 0 .. length - 1
  clock            \* the capture time of the last delivery

vars == <<origin, length, out, clock>>

Init ==
  /\ length = 0
  /\ out = [k \in {} |-> Hole]
  /\ clock = 0

\* Before anything is delivered, where the stream starts is open.
Locate == length = 0 /\ UNCHANGED <<length, out, clock>>

\* A hole of h bytes, then n bytes as they were sent, at time t.
Deliver(h, n, t) ==
  /\ n > 0
  /\ t >= clock
  /\ length' = length + h + n
  /\ out' = [k \in 0 .. (length + h + n - 1) |->
               IF k < length THEN out[k]
               ELSE IF k < length + h THEN Hole ELSE origin + k]
  /\ clock' = t
  /\ UNCHANGED origin

Next ==
  \/ Locate
  \/ \E h \in 0 .. (length' - length), n \in 1 .. (length' - length) : Deliver(h, n, clock')

Spec == Init /\ [][Next]_vars
=============================================================================

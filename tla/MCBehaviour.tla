---------------------------- MODULE MCBehaviour ----------------------------
(* One spawn for long, two of them for a while: what they share is lines. *)
EXTENDS Behaviour

CONSTANTS MaxTimeOfTwo, MaxPacketsOfTwo   \* bounds when both did something

SpawnSymmetry == Permutations(Spawns)

Idle(s) == seen[s] = NewCreature /\ fights[s] = <<>>

Bounded == (\E s \in Spawns : Idle(s)) \/ (now <= MaxTimeOfTwo /\ Packets <= MaxPacketsOfTwo)
=============================================================================

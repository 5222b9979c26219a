---------------------------- MODULE MCDecodePath ----------------------------
(***************************************************************************)
(* DecodePath with bytes of two bits.  The walk's key of three bytes is    *)
(* longer than a header and no multiple of it; four client messages, or    *)
(* two server headers, use every slot of recovery's key of four.  The      *)
(* merge has a plain packet, a container that fails to unpack, and a batch *)
(* of one nested past the limit and one that fails beside it.  The run has *)
(* an opcode two modules decode, one that --only leaves to none, a filter  *)
(* that takes one fact of two, two analyzers and two sinks.                *)
(***************************************************************************)
EXTENDS DecodePath

\* Exclusive or of two-bit numbers.
MCXor(a, b) == (2 * (((a \div 2) + (b \div 2)) % 2)) + ((a + b) % 2)

MCWalkKeys == {[k \in 0 .. 2 |-> k + 1]}
MCBodies == {<<>>, <<3>>}

\* Up to two bytes lost, anywhere inside.
MCLosses(n) == {{}} \union {{a, b} : a, b \in 1 .. (n - 2)}

MCSessionKeys == {[k \in 0 .. 3 |-> (k * 3 + 1) % 4]}
MCClientMessages == {<<2, <<1>>>>}
MCServerMessages == {<<op, body>> : op \in {1, 2}, body \in {<<>>, <<1>>}}

MCShapes ==
  {[paths |-> {<<>>}, bad |-> {}],
   [paths |-> {<<>>, <<1>>}, bad |-> {<<>>}],
   [paths |-> {<<>>, <<1>>, <<1, 1>>, <<1, 1, 1>>, <<2>>, <<2, 1>>, <<3>>}, bad |-> {<<2>>}]}

MCHandlers == [op \in {1, 2} |-> IF op = 1 THEN <<"spawn", "aura">> ELSE <<"emote">>]
MCAnalyzers == <<"behaviour", "patrol">>
MCSinks == <<"text", "sql">>
MCFacts == {[scope |-> "session", entry |-> None, guid |-> None],
            [scope |-> "entry", entry |-> 7, guid |-> 1]}
MCFilters == [entry |-> 8, guid |-> None]
=============================================================================

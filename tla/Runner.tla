------------------------------- MODULE Runner -------------------------------
(***************************************************************************)
(* One run over a packet stream: decode, filter, analyze, hand to the      *)
(* sinks (core/dispatch.py, Runner and Filters; Registry.for_opcode).      *)
(*                                                                         *)
(* Modules, analyzers and sinks are other people's code, and any call into *)
(* them may raise; the run isolates each failure, counts it and goes on.   *)
(***************************************************************************)
EXTENDS Integers, FiniteSets, Sequences, SequencesExt

CONSTANTS
  Opcodes,
  Handlers,      \* Registry.for_opcode: the modules of each opcode, in order
  Only,          \* the modules --only names; every module when it is not given
  Analyzers,     \* the analyzers, in order
  Sinks,         \* the sinks, in order
  Facts,         \* what an event may be about: [scope, entry, guid]
  Filters,       \* [entry, guid], either of them None
  None,
  MaxPackets,    \* bound: packets in the stream
  MaxYields      \* bound: events of one decode, findings of one analyzer

AllModules == UNION {Range(Handlers[op]) : op \in Opcodes}

\* The modules that decode an opcode.
Chosen(op) == SelectSeq(Handlers[op], LAMBDA m : m \in Only)

RunnerAssumption ==
  /\ \A op \in Opcodes : /\ Handlers[op] \in Seq(AllModules) /\ IsInjective(Handlers[op])
                         /\ Chosen(op) \in Seq(AllModules)
  /\ Analyzers \in Seq(Range(Analyzers)) /\ IsInjective(Analyzers)
  /\ Sinks \in Seq(Range(Sinks)) /\ IsInjective(Sinks)
  /\ Range(Analyzers) \intersect (AllModules \union Range(Sinks)) = {}
  /\ MaxPackets \in Nat /\ MaxYields \in Nat

VARIABLES
  phase,     \* "decoding", "draining", "closing", "done"
  modules,   \* of the current packet, the modules still to decode it
  events,    \* the events still to hand on
  calls,     \* of the first of them, the receivers still to call
  left,      \* analyzers still to finish, then sinks still to close
  given,     \* for each analyzer and sink, the events it was called with
  closed,    \* the sinks that were closed
  stats      \* RunStats

vars == <<phase, modules, events, calls, left, given, closed, stats>>

Init ==
  /\ phase = "decoding"
  /\ modules = <<>> /\ events = <<>> /\ calls = <<>> /\ left = <<>>
  /\ given = [r \in Range(Analyzers \o Sinks) |-> <<>>]
  /\ closed = {}
  /\ stats = [packets |-> 0, covered |-> 0, uncovered |-> 0, events |-> 0,
              emitted |-> 0, findings |-> 0, errors |-> 0]

Errors(n) == [stats EXCEPT !.errors = @ + n]

\* What a generator may yield before it ends, or before it raises.
Yields == UNION {[1 .. n -> Facts] : n \in 0 .. MaxYields}

\* The events of a generator, each marked with whether the generator ended well.
EventsOf(by, yielded, raises) ==
  [k \in DOMAIN yielded |-> [packet |-> stats.packets, by |-> by, fact |-> yielded[k], whole |-> ~raises]]

Accept(fact) ==
  \/ fact.scope = "session"
  \/ /\ Filters.entry # None => fact.entry = Filters.entry
     /\ Filters.guid # None => fact.guid = Filters.guid

-----------------------------------------------------------------------------
Idle == events = <<>> /\ calls = <<>>

Read(op) ==
  /\ phase = "decoding"
  /\ modules = <<>> /\ Idle
  /\ stats.packets < MaxPackets
  /\ modules' = Chosen(op)
  /\ stats' = IF Chosen(op) = <<>>
              THEN [stats EXCEPT !.packets = @ + 1, !.uncovered = @ + 1]
              ELSE [stats EXCEPT !.packets = @ + 1, !.covered = @ + 1]
  /\ UNCHANGED <<phase, events, calls, left, given, closed>>

\* Mutant: events handed on as the decode yields them.
DecodeStreaming(yielded, raises) ==
  /\ modules' = Tail(modules)
  /\ events' = EventsOf(Head(modules), yielded, raises)
  /\ stats' = Errors(IF raises THEN 1 ELSE 0)
  /\ UNCHANGED <<phase, calls, left, given, closed>>

\* list(mod.decode(...)): a decode that raises gives nothing, even of what it
\* had yielded.
Decode(yielded, raises) ==
  /\ modules' = Tail(modules)
  /\ events' = IF raises THEN <<>> ELSE EventsOf(Head(modules), yielded, raises)
  /\ stats' = Errors(IF raises THEN 1 ELSE 0)
  /\ UNCHANGED <<phase, calls, left, given, closed>>

\* The first event is to go to each of the receivers in turn.
HandTo(receivers) ==
  /\ calls' = receivers
  /\ events' = IF receivers = <<>> THEN Tail(events) ELSE events

\* An event goes to every analyzer, then to every sink, if the filters take it.
Pass ==
  LET takes == Accept(Head(events).fact)
  IN
  /\ phase = "decoding"
  /\ events # <<>> /\ calls = <<>>
  /\ HandTo(IF takes THEN Analyzers \o Sinks ELSE <<>>)
  /\ stats' = [stats EXCEPT !.events = @ + 1, !.emitted = @ + (IF takes THEN 1 ELSE 0)]
  /\ UNCHANGED <<phase, modules, left, given, closed>>

\* A finding goes to every sink, and to no analyzer and no filter.
PassFinding ==
  /\ phase = "draining"
  /\ left = <<>>
  /\ events # <<>> /\ calls = <<>>
  /\ HandTo(Sinks)
  /\ stats' = [stats EXCEPT !.findings = @ + 1]
  /\ UNCHANGED <<phase, modules, left, given, closed>>

\* Mutant: the first receiver to raise is the last.
CallUntilOneRaises(raises) ==
  /\ calls # <<>>
  /\ given' = [given EXCEPT ![Head(calls)] = Append(@, Head(events))]
  /\ calls' = IF raises THEN <<>> ELSE Tail(calls)
  /\ events' = IF calls' = <<>> THEN Tail(events) ELSE events
  /\ stats' = Errors(IF raises THEN 1 ELSE 0)
  /\ UNCHANGED <<phase, modules, left, closed>>

\* feed or handle, which may raise.
Call(raises) ==
  /\ calls # <<>>
  /\ given' = [given EXCEPT ![Head(calls)] = Append(@, Head(events))]
  /\ calls' = Tail(calls)
  /\ events' = IF Tail(calls) = <<>> THEN Tail(events) ELSE events
  /\ stats' = Errors(IF raises THEN 1 ELSE 0)
  /\ UNCHANGED <<phase, modules, left, closed>>

EndOfPackets ==
  /\ phase = "decoding"
  /\ modules = <<>> /\ Idle
  /\ phase' = "draining"
  /\ left' = Analyzers
  /\ UNCHANGED <<modules, events, calls, given, closed, stats>>

\* out.extend(an.finish(...)): what a finish yields before it raises is kept.
Drain(yielded, raises) ==
  /\ events' = events \o EventsOf(Head(left), yielded, raises)
  /\ left' = Tail(left)
  /\ stats' = Errors(IF raises THEN 1 ELSE 0)
  /\ UNCHANGED <<phase, modules, calls, given, closed>>

StartClosing ==
  /\ phase = "draining"
  /\ left = <<>> /\ Idle
  /\ phase' = "closing"
  /\ left' = Sinks
  /\ UNCHANGED <<modules, events, calls, given, closed, stats>>

\* Mutant: the first sink to fail is the last closed.
CloseUntilOneRaises(raises) ==
  /\ phase = "closing"
  /\ left # <<>>
  /\ closed' = closed \union {Head(left)}
  /\ left' = IF raises THEN <<>> ELSE Tail(left)
  /\ stats' = Errors(IF raises THEN 1 ELSE 0)
  /\ UNCHANGED <<phase, modules, events, calls, given>>

Close(raises) ==
  /\ phase = "closing"
  /\ left # <<>>
  /\ closed' = closed \union {Head(left)}
  /\ left' = Tail(left)
  /\ stats' = Errors(IF raises THEN 1 ELSE 0)
  /\ UNCHANGED <<phase, modules, events, calls, given>>

Return ==
  /\ phase = "closing"
  /\ left = <<>>
  /\ phase' = "done"
  /\ UNCHANGED <<modules, events, calls, left, given, closed, stats>>

Next ==
  \/ \E op \in Opcodes : Read(op)
  \/ /\ phase = "decoding" /\ modules # <<>> /\ Idle
     /\ \E yielded \in Yields, raises \in BOOLEAN : Decode(yielded, raises)
  \/ Pass \/ PassFinding
  \/ \E raises \in BOOLEAN : Call(raises)
  \/ EndOfPackets
  \/ /\ phase = "draining" /\ left # <<>>
     /\ \E yielded \in Yields, raises \in BOOLEAN : Drain(yielded, raises)
  \/ StartClosing
  \/ \E raises \in BOOLEAN : Close(raises)
  \/ Return

Spec == Init /\ [][Next]_vars /\ WF_vars(Next)
-----------------------------------------------------------------------------
EventRecords == [packet : 0 .. MaxPackets, by : AllModules \union Range(Analyzers),
                 fact : Facts, whole : BOOLEAN]

IsFinding(ev) == ev.by \in Range(Analyzers)

Receivers == Range(Analyzers) \union Range(Sinks)

RunStats == [packets : 0 .. MaxPackets, covered : Nat, uncovered : Nat, events : Nat,
             emitted : Nat, findings : Nat, errors : Nat]

TypeOK ==
  /\ phase \in {"decoding", "draining", "closing", "done"}
  /\ modules \in Seq(AllModules)
  /\ events \in Seq(EventRecords)
  /\ calls \in Seq(Receivers) /\ left \in Seq(Receivers)
  /\ given \in [Receivers -> Seq(EventRecords)]
  /\ closed \subseteq Range(Sinks)
  /\ stats \in RunStats

\* What an analyzer was given, of all that a sink was: the decoded events, which
\* come before any finding.
IsDecodedPart(part, all) ==
  /\ IsPrefix(part, all)
  /\ \A k \in DOMAIN all : IsFinding(all[k]) <=> k > Len(part)

\* Whoever raises, nobody misses an event for it: between two events each sink
\* has been given the same ones in the same order, and each analyzer the
\* decoded ones among them, every one of them before the first finding.
EveryoneIsGivenTheSame ==
  calls = <<>> =>
    \A s \in Range(Sinks) :
      /\ \A r \in Range(Sinks) : given[r] = given[s]
      /\ \A a \in Range(Analyzers) : IsDecodedPart(given[a], given[s])

\* A packet that fails to decode gives nothing rather than a part: what it
\* yielded before the failure reaches no analyzer and no sink.
NoPartOfABadPacket ==
  \A r \in DOMAIN given : \A ev \in Range(given[r]) : IsFinding(ev) \/ ev.whole

\* The run ends with every sink closed, whatever raised: files are written when
\* a sink closes ("one sink failing to write must not leave the others unwritten").
EverySinkIsClosed == <>(phase = "done" /\ closed = Range(Sinks))
=============================================================================

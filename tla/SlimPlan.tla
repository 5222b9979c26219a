------------------------------ MODULE SlimPlan ------------------------------
(***************************************************************************)
(* What the slim copy of a capture keeps (wire/slim.py, plan and write),   *)
(* set against what a reader makes of a capture (wire/pcap.py,             *)
(* read_session; cli.py, _world).                                          *)
(*                                                                         *)
(* A capture is a sequence of records of many connections.  A reader finds *)
(* the world server in the logon server's realm list, takes the first      *)
(* client to write to it, and measures every time from the earliest        *)
(* record.  Slimming finds the same server by its own walk and drops       *)
(* records, so each of those choices could come out otherwise in the copy. *)
(***************************************************************************)
EXTENDS Integers, FiniteSets, Sequences, SequencesExt

CONSTANTS
  Realms,       \* world servers: endpoints [ip, port]
  Logon,        \* the logon server's endpoint
  Default,      \* the world server assumed when none is named or listed
  Kinds,        \* kinds of records: [server, client, up, payload, lists]
  Times,        \* capture times
  MaxRecords    \* bound: records in the capture

Addresses == {e.ip : e \in Realms}
NotTcp == [ip |-> "none", port |-> 0]    \* the server of a record that is not TCP

\* up: sent by the client.  lists: the realms a logon reply names.
ASSUME SlimAssumption ==
  /\ \A k \in Kinds : k.lists # {} => k.server = Logon /\ ~k.up /\ k.payload
  /\ \A k \in Kinds : k.lists \subseteq Realms
  /\ Default \in Realms /\ Logon \notin Realms /\ NotTcp \notin Realms \union {Logon}
  /\ Times \subseteq Nat /\ MaxRecords \in Nat

VARIABLES
  capture,    \* the records, in file order
  option,     \* what was named: "port", an address, or "nothing"
  phase,      \* "capturing", "slimmed", "refused"
  copy        \* the slim copy

vars == <<capture, option, phase, copy>>

Options == {"port", "nothing"} \union Addresses

-----------------------------------------------------------------------------
(* The world server of a capture. *)

SentTo(r, e) == r.server = e /\ r.up

\* _realms: every realm some logon reply lists.
Listed(records) == UNION {records[n].lists : n \in DOMAIN records}

\* _listed_world: the one listed realm, at the address named if one is, that a
\* client talked to.
Talked(records, named) ==
  {e \in Listed(records) :
     /\ named \in Addresses => e.ip = named
     /\ \E n \in DOMAIN records : SentTo(records[n], e)}

Writes(records, e) == {n \in DOMAIN records : SentTo(records[n], e) /\ records[n].payload}

\* plan's world: as named, or as listed; a set of at most one.
World(records, named) ==
  LET candidates == IF named = "port" THEN {Default} ELSE Talked(records, named)
  IN  IF Cardinality(candidates) = 1
      THEN {e \in candidates : Writes(records, e) # {}}
      ELSE {}

\* slim.plan and slim.write: the two conversations, and the earliest record.
Earliest(records) ==
  CHOOSE n \in DOMAIN records : \A m \in DOMAIN records :
    records[n].time < records[m].time \/ (records[n].time = records[m].time /\ n <= m)

\* Mutant: the earliest record is dropped like any other.
KeepsConversations(records, world) ==
  {n \in DOMAIN records : records[n].server \in {world, Logon}}

Keeps(records, world) ==
  {n \in DOMAIN records : records[n].server \in {world, Logon}} \union {Earliest(records)}

SlimOf(records, world) ==
  LET kept == SetToSortSeq(Keeps(records, world), <)
  IN  [i \in DOMAIN kept |-> records[kept[i]]]

HasForeign(records, world) == Keeps(records, world) # DOMAIN records

-----------------------------------------------------------------------------
(* The reader. *)

\* _world: the server the commands decode, the default port when none is found.
Decoded(records, named) ==
  IF World(records, named) # {} THEN CHOOSE e \in World(records, named) : TRUE
  ELSE IF named \in Addresses THEN [ip |-> named, port |-> Default.port] ELSE Default

\* read_session: the first client to write to the server, one clock, and what
\* each side wrote; <<>> when nobody did.
Session(records, server) ==
  LET writes == Writes(records, server)
      client == records[Min(writes)].client
      side(up) == SelectSeq(records, LAMBDA r :
                    r.server = server /\ r.client = client /\ r.up = up /\ r.payload)
  IN  IF writes = {} THEN <<>>
      ELSE <<client, records[Earliest(records)].time, side(TRUE), side(FALSE)>>

-----------------------------------------------------------------------------
Init ==
  /\ capture = <<>>
  /\ option \in Options
  /\ phase = "capturing"
  /\ copy = <<>>

\* The capture records whatever crosses the machine; id tells records apart.
Record(kind, time) ==
  /\ phase = "capturing"
  /\ Len(capture) < MaxRecords
  /\ capture' = Append(capture, [id |-> Len(capture), time |-> time] @@ kind)
  /\ UNCHANGED <<option, phase, copy>>

Slim ==
  /\ phase = "capturing"
  /\ World(capture, option) # {}
  /\ phase' = "slimmed"
  /\ copy' = SlimOf(capture, CHOOSE e \in World(capture, option) : TRUE)
  /\ UNCHANGED <<capture, option>>

\* SlimError: no realm list, nobody talking to a listed realm, or several.
Refuse ==
  /\ phase = "capturing"
  /\ World(capture, option) = {}
  /\ phase' = "refused"
  /\ UNCHANGED <<capture, option, copy>>

Next ==
  \/ \E kind \in Kinds, time \in Times : Record(kind, time)
  \/ Slim \/ Refuse

Spec == Init /\ [][Next]_vars

-----------------------------------------------------------------------------
Slimmed == phase = "slimmed"

\* With the same options the copy is read at the same world server, as the same
\* client, on the same clock, with the same segments in the same order: what
\* _write_verified compares, and _named_world promises.  And slimming the copy
\* again drops nothing: once a capture has been replaced by its copy, later runs
\* leave no copy of the copy beside it.
TheCopyReadsTheSame ==
  Slimmed =>
    /\ Decoded(copy, option) = Decoded(capture, option)
    /\ Session(copy, Decoded(copy, option)) = Session(capture, Decoded(capture, option))
    /\ Session(copy, Decoded(copy, option)) # <<>>
    /\ World(copy, option) = World(capture, option)
    /\ \A e \in World(copy, option) : ~HasForeign(copy, e)
=============================================================================

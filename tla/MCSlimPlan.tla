----------------------------- MODULE MCSlimPlan -----------------------------
(***************************************************************************)
(* SlimPlan with two realms at two addresses, two clients and a web server *)
(* on the same machine; records may be caught out of order of time.        *)
(***************************************************************************)
EXTENDS SlimPlan

here  == [ip |-> "local", port |-> 8090]
there == [ip |-> "remote", port |-> 8090]
logon == [ip |-> "local", port |-> 3724]
web   == [ip |-> "local", port |-> 80]

MCRealms == {here, there}
MCLogon == logon
MCDefault == here

Kind(server, client, up, payload, lists) ==
  [server |-> server, client |-> client, up |-> up, payload |-> payload, lists |-> lists]

MCKinds ==
  {Kind(logon, "a", FALSE, TRUE, {here}), Kind(logon, "a", FALSE, TRUE, {here, there}),
   Kind(here, "a", TRUE, TRUE, {}), Kind(here, "a", FALSE, TRUE, {}),
   Kind(here, "b", TRUE, TRUE, {}), Kind(here, "b", TRUE, FALSE, {}),
   Kind(there, "a", TRUE, TRUE, {}),
   Kind(web, "a", TRUE, TRUE, {}), Kind(NotTcp, "a", TRUE, FALSE, {})}
=============================================================================

------------------------------ MODULE MCBroker ------------------------------
(* Small instances of Broker for TLC. *)
EXTENDS Broker, TLC

CONSTANTS a1, mail, own, inspect

Say(a, v, t, sc, md) ==
    [agent |-> a, verb |-> v, complete |-> TRUE, transport |-> t, scope |-> sc,
     mode |-> md]

\* Local calls with either output and of an app that must be enabled, reflected
\* calls in and out of scope, one with a flag missing, and the built-in verb
\* over both transports.
RaceInputs ==
    { Say(a1, mail, "local", {}, "json"),
      Say(a1, mail, "local", {}, "body-only"),
      Say(a1, mail, "reflector", {mail}, "json"),
      Say(a1, mail, "reflector", {}, "json"),
      [Say(a1, mail, "local", {}, "json") EXCEPT !.complete = FALSE],
      Say(a1, inspect, "reflector", {mail}, "json"),
      Say(a1, own, "local", {}, "json"),
      Say(a1, inspect, "local", {}, "json") }
=============================================================================

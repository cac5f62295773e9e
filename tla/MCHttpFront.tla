----------------------------- MODULE MCHttpFront -----------------------------
(***************************************************************************)
(* Two administrators, one connection at a time or two, two tokens that    *)
(* share a prefix, a proxy token and a token with a user, and a limiter    *)
(* whose table holds two of the keys in use.                               *)
(***************************************************************************)
EXTENDS HttpFront, TLC

MCPrefixOf == [t \in Ids |-> "p"]

Mint(agent, user, proxy, rotate) ==
    [op |-> "mint", agent |-> agent, user |-> user, proxy |-> proxy, rotate |-> rotate]

MCCommands ==
    {Mint("bot", "ann", FALSE, FALSE), Mint("bot", "", FALSE, TRUE),
     Mint("sso", "", TRUE, FALSE),
     [op |-> "revoke", target |-> "bot"], [op |-> "revoke", target |-> "p"]}

Req(ip, auth, hdr, agent, user) ==
    [ip |-> ip, auth |-> auth, hdrUser |-> hdr, agent |-> agent, user |-> user]

MCInputs ==
    {Req("a", "t1", "", "", "eve"), Req("a", "t1", "bob", "sso", "eve"),
     Req("b", "t2", "bob", "bot", ""), Req("b", "none", "", "bot", "eve"),
     Req("b", "malformed", "", "bot", "eve")}

MCKeys == {<<"ip", i>> : i \in IPs} \cup {<<"addr", i>> : i \in IPs} \cup {<<"prefix", "p">>}

MCConfig == [loopback |-> TRUE, tls |-> FALSE, plaintextOK |-> FALSE,
             anon |-> TRUE, trustProxy |-> TRUE]

(* Many commands and a request, or a burst of requests over time.          *)
MCBounds ==
    {[commands |-> 3, requests |-> 1, time |-> 0],
     [commands |-> 1, requests |-> 2, time |-> 0],
     [commands |-> 0, requests |-> 5, time |-> 4]}

Interchangeable == Permutations(Clis) \cup Permutations(Peppers)
=============================================================================

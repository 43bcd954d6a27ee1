------------------------------ MODULE MCOracle ------------------------------
(* Instances of Oracle for TLC. *)
EXTENDS Oracle, FiniteSets

\* A deferred join of auctions with their bids, statistics over its results
\* and over a chain of two `on each` rules, and a close rule over the stream
\* and the end of the chain.
MCRules == <<
    [kind |-> "deferred", binds |-> << "auction" >>, target |-> "finals", join |-> "bid"],
    [kind |-> "stats", binds |-> << "finals", "mod2" >>, target |-> "out", join |-> None],
    [kind |-> "each", binds |-> << "bid" >>, target |-> "mod", join |-> None],
    [kind |-> "each", binds |-> << "mod" >>, target |-> "mod2", join |-> None],
    [kind |-> "close", binds |-> << "bid", "auction", "mod2" >>, target |-> "out", join |-> None] >>

\* Streams of at most MaxEvents events, in any order of time.
CONSTANTS MaxEvents, MaxTime
Shapes == [win : {"bid", "auction"}, key : Keys, ts : 0 .. MaxTime]
MCStreams ==
    UNION {{[m \in 1 .. n |-> [win |-> s[m].win, key |-> s[m].key, ts |-> s[m].ts,
                               due |-> s[m].ts + 2, id |-> m]] : s \in [1 .. n -> Shapes]}
           : n \in 1 .. MaxEvents}
=============================================================================

------------------------------- MODULE MCHeld -------------------------------
EXTENDS HeldCalls

\* A plan whose session is described by a set of flags: l leased, r reused, p
\* with a persistent connection, o read-only.
Plan(cmd, script, flags) ==
    [cmd |-> cmd, script |-> script,
     leased |-> "l" \in flags, reused |-> "r" \in flags,
     persistent |-> "p" \in flags, readOnly |-> "o" \in flags]

TwoChanges == <<"begin", "write", "write", "commit">>
Analyze == <<"beginro", "analyze", "rollback">>

\* apply on a pooled, a fresh and an unpooled PostgreSQL session and on Trino.
Applies ==
    {Plan("apply", TwoChanges, f) : f \in {{"l", "r", "p"}, {"l", "p"}, {"p"}}}
    \cup {Plan("apply", <<"write", "write">>, f) : f \in {{"l", "r"}, {"l", "r", "p"}, {}}}

\* explain ANALYZE, on Trino too, which has no transactions, and preview of a read and of a
\* write, from the pool; the read-only ones among them.
Reads ==
    {Plan("explain", Analyze, f) : f \in {{"l", "r", "p"}, {"l", "r", "p", "o"}, {"p"}}}
    \cup {Plan("explain", <<"analyze">>, {"l", "r"})}
    \cup {Plan("preview", <<"read">>, f) : f \in {{"l", "r", "p", "o"}, {"l", "r", "o"}}}
    \cup {Plan("preview", <<"write">>, f) : f \in {{"l", "r", "p"}, {"l", "r"}}}

AllPlans == Applies \cup Reads

\* The command line's preview of a write, on Trino: no lease.
CliWrite == {Plan("preview", <<"write">>, {})}

\* A pooled read.
PooledRead == {Plan("preview", <<"read">>, {"l", "r", "p"})}
==============================================================================

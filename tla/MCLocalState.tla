---------------------------- MODULE MCLocalState ----------------------------
(***************************************************************************)
(* A server and a command over three sites: a store, a second store of the *)
(* same harness whose path begins with the same string, and a database.    *)
(* The store's session moves to another directory, the second's cannot be  *)
(* parsed at first.                                                        *)
(***************************************************************************)
EXTENDS LocalState

CONSTANTS server, command, file, agent, row, d1, d2

MCSiteOf == [s \in Source |-> CASE s = file -> 1 [] s = agent -> 2 [] s = row -> 3]

MCShadow == {<<1, 2>>}

MCCwd == [s \in Source |->
            [n \in 1 .. MaxVersion |->
               CASE s = agent /\ n = 1 -> Garbled
                 [] s = file /\ n = 1 -> d2
                 [] OTHER -> d1]]

\* Every source exists at first; nobody has resolved a directory.
MCInit ==
    /\ Init
    /\ there = Source
    /\ origin = [d \in Dir |-> IF d = d1 THEN "none" ELSE "key"]

\* Requests of the server name d1 while it does not resolve, those of the
\* command a directory it knows.  One change fewer while the command runs, and
\* no source is locked then; a save of the server fails as the first change.
\* The second store and its session are always there and readable, as the
\* first's is enough for these.
CommandIsBrief ==
    /\ pc'[command] # "off" => changes' < MaxChanges /\ locked' = {}
    /\ pc'[command] = "idle" => ~dirty'[command]

ServerResolves ==
    pc[server] = "idle" /\ pc'[server] = "idle" =>
        /\ mem'[server].repo[d1] = "key" => mem[server].repo[d1] = "key"
        /\ mem'[server].repo[d2] \in {mem[server].repo[d2], "unknown"}

\* The last change comes between two requests of the server, and neither locks
\* a source nor moves a store; d2 is never deleted, and the second session is
\* only edited first.
ChangesAreFew ==
    /\ agent \in there' \ locked' /\ 2 \in present' /\ origin'[d2] = "key"
    /\ version'[agent] # version[agent] => changes' = 1
    /\ pc[server] = "pending" /\ pc'[server] = "idle" /\ dirty'[server] => changes' = 1
    /\ changes < changes' /\ changes' = MaxChanges =>
         /\ pc[server] \in {"off", "idle"}
         /\ locked' \subseteq locked /\ present' = present

MCNext == Next /\ CommandIsBrief /\ ServerResolves /\ ChangesAreFew

MCSpec == MCInit /\ [][MCNext]_vars /\ Fairness
=============================================================================

------------------------------- MODULE MCSpawner -------------------------------
EXTENDS Spawner

BringUp(cs) ==
    [controllers |-> cs, load_only |-> FALSE, inactive |-> FALSE, reconfigure |-> FALSE,
     as_group |-> FALSE, unload_on_kill |-> FALSE, params |-> FALSE, unspawner |-> FALSE]

\* Two controllers one by one, with parameters; as a group, to be unloaded when
\* killed; one that is configured again; one only loaded; and an unspawner.
OneByOne == [BringUp(<<"c1", "c2">>) EXCEPT !.params = TRUE]
Group == [BringUp(<<"c2", "c1">>) EXCEPT !.as_group = TRUE, !.unload_on_kill = TRUE]
Again == [BringUp(<<"c1">>) EXCEPT !.inactive = TRUE, !.reconfigure = TRUE]
LoadOnly == [BringUp(<<"c2">>) EXCEPT !.load_only = TRUE]
Unspawner == [BringUp(<<"c1">>) EXCEPT !.unspawner = TRUE]

MCPrograms == {OneByOne, Group, Again, LoadOnly, Unspawner}

\* The pairs of them that run together.
MCPairs ==
    {<<OneByOne, Again>>, <<Group, Again>>, <<Group, LoadOnly>>, <<Group, Unspawner>>,
     <<Again, LoadOnly>>, <<Again, Unspawner>>}

MCInit == Init /\ <<program["s1"], program["s2"]>> \in MCPairs

FairSpec == MCInit /\ [][Next]_vars /\ Fairness
=============================================================================

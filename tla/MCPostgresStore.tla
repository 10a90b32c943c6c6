-------------------------- MODULE MCPostgresStore --------------------------
(* Small instances of the Postgres store: three connections, of as many     *)
(* hubs.                                                                    *)
EXTENDS PostgresStore, Sequences, TLC

CONSTANTS c1, c2, c3, m1, m2, m3, t1, t2, t3, u1, u2

Interchangeable == Permutations({c1, c2, c3})

Args == {tx[c].arg : c \in {d \in Connections : tx[d] # None}}
UsersInUse == {x.user : x \in {y \in Args : "user" \in DOMAIN y}}
MemoriesInUse ==
    IF area # "memories" THEN {}
    ELSE {m \in Memories : db[Row("memory", m)] # None} \cup {x.memory : x \in Args}
BatchesInUse ==
    IF area # "memories" THEN {}
    ELSE UNION {{x.batch : x \in Args},
                UNION {db[k].column \cup db[k].payload : k \in Stored(MemoryRows)},
                UNION {acked[m] : m \in Memories},
                UNION {tx[c].seen : c \in {d \in Connections : At(d, Rewrites, 2) \/ At(d, Rewrites, 3)}}}

InTurn(name, used, names) ==
    name \in used \/ \E n \in DOMAIN names :
                        names[n] = name /\ \A k \in 1 .. n - 1 : names[k] \in used

(* Of the users, memories and batches that nothing in the state names, a    *)
(* call names the first: they are interchangeable.                          *)
FirstUnused ==
    \A c \in Connections : tx[c] = None /\ tx'[c] # None =>
        LET call == tx'[c].arg
        IN  /\ "memory" \in DOMAIN call =>
                 /\ InTurn(call.memory, MemoriesInUse, <<m1, m2, m3>>)
                 /\ InTurn(call.batch, BatchesInUse, <<t1, t2, t3>>)
            /\ "user" \in DOMAIN call => InTurn(call.user, UsersInUse, <<u1, u2>>)
=============================================================================

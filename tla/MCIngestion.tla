----------------------------- MODULE MCIngestion -----------------------------
(* Small instances of the ingestion pipeline.                               *)
EXTENDS Ingestion

CONSTANTS w1, w2, hub, cli, a, b, p1, m1, m2, m3, s1, t1

OneHub == [w \in Workers |-> hub]
TwoHubs == [w \in Workers |-> IF w = w1 THEN hub ELSE cli]

WritersOnly == [w \in Workers |-> {"ingest"}]

(* w1 also runs the maintenance, w2 also reads.                             *)
Everyone ==
    [w \in Workers |-> IF w = w1 THEN {"ingest", "hold", "approve", "reindex"}
                       ELSE {"ingest", "approve", "reject", "retrieve"}]

(* m1 is long enough for two token windows.                                 *)
MixedWindows == [m \in Msgs |-> IF m = m1 THEN 2 ELSE 1]

Payload(id, origin, thread, msgs, sensitive) ==
    [id |-> id, project |-> p1, origin |-> origin, thread |-> thread,
     msgs |-> msgs, sensitive |-> sensitive]

(* Growing snapshots of one imported session.                               *)
SessionSnapshots ==
    {Payload(a, s1, None, <<m1>>, FALSE), Payload(b, s1, None, <<m1, m2>>, FALSE)}

(* Direct saves of the same transcripts without an imported session.        *)
DirectSaves ==
    {Payload(a, None, None, <<m1>>, FALSE), Payload(b, None, None, <<m1, m2>>, FALSE)}

(* A payload whose title, not its messages, is sensitive.                   *)
SensitiveSaves == {Payload(b, None, None, <<m1>>, TRUE)}

(* Snapshots of one upstream thread, saved by clients that share its id.    *)
ThreadSnapshots ==
    {Payload(a, None, t1, <<m1>>, FALSE), Payload(b, None, t1, <<m1, m2>>, FALSE),
     Payload(b, None, t1, <<m1, m2, m3>>, FALSE), Payload(a, None, t1, <<m1, m3>>, FALSE)}

SessionsAndReviews == SessionSnapshots \cup DirectSaves \cup SensitiveSaves
=============================================================================

---------------------------- MODULE MemoryArchive ----------------------------
(***************************************************************************)
(* What the hub promises about stored memories, without stores, locks or   *)
(* pipeline steps: a project holds a transcript at most once, transcripts  *)
(* only gain messages at their end, and a memory waits for review until it *)
(* is approved or rejected, once.                                          *)
(***************************************************************************)
EXTENDS Sequences, SequencesExt

CONSTANTS Ids, Projects, Transcripts, None

VARIABLE archive  \* the memory stored under each id, or None

Held == {"pending_review", "quarantined"}
Memories == [project: Projects, msgs: Transcripts,
             status: Held \cup {"active", "rejected"}]

(* The transcript is new to the project.                                    *)
Unique(id, m) ==
    \A other \in Ids \ {id} : archive[other] # None =>
        <<archive[other].project, archive[other].msgs>> # <<m.project, m.msgs>>

Put(id, m) == Unique(id, m) /\ archive' = [archive EXCEPT ![id] = m]

ArchiveInit == archive = [id \in Ids |-> None]

Save(id) == /\ archive[id] = None
            /\ \E m \in Memories : m.status # "rejected" /\ Put(id, m)

Extend(id) ==
    /\ archive[id] # None /\ archive[id].status = "active"
    /\ \E t \in Transcripts : /\ IsStrictPrefix(archive[id].msgs, t)
                              /\ Put(id, [archive[id] EXCEPT !.msgs = t])

Decide(id) ==
    /\ archive[id] # None /\ archive[id].status \in Held
    /\ \E verdict \in {"active", "rejected"} :
           Put(id, [archive[id] EXCEPT !.status = verdict])

ArchiveNext == \E id \in Ids : Save(id) \/ Extend(id) \/ Decide(id)
ArchiveSpec == ArchiveInit /\ [][ArchiveNext]_archive
=============================================================================

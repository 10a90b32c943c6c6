---------------------------- MODULE MCWorkspace ----------------------------
(* Small instances of the workspace: one user with a default project, the   *)
(* project of local use, and a memory that was stored before projects.      *)
EXTENDS Workspace, TLC

CONSTANTS a, b, u1, local, home1, m1, m2, m3, f1, f2, f3

MCDefaultOf == u1 :> home1
MCLegacy == m1 :> u1

Interchangeable == Permutations({a, b}) \cup Permutations({m2, m3})

(* Bound: handoff records and new memories, which share no state, are not   *)
(* explored together.                                                       *)
OneAreaAtATime ==
    \/ \A f \in Handoffs : handoff[f] = None
    \/ /\ \A m \in Memories \ DOMAIN Legacy : memory[m] = None
       /\ \A h \in Processes : job[h] # None => job[h].kind = "supersede"
=============================================================================

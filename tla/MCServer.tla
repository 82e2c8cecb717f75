------------------------------ MODULE MCServer ------------------------------
(* The server process and what it keeps in its data directory. These meet only  *)
(* in that a server runs or does not, so a behaviour moves one of them.         *)
EXTENDS ServerProcess, SettingsStores, KisPerformanceTracker, RealtimeResearchJournal,
        ExecutionJournal
CONSTANTS p1, p2, p3

VARIABLE part

vars == <<serverVars, storeVars, fillVars, researchVars, journalVars, part>>

Init ==
    /\ ServerInit /\ StoresInit /\ FillsInit /\ ResearchInit /\ JournalInit
    /\ part \in {"lock", "stores", "fills", "research", "journal"}
    /\ clean \/ part = "journal"

Next ==
    /\ \/ /\ part = "lock" /\ ServerNext
          /\ UNCHANGED <<storeVars, fillVars, researchVars, journalVars>>
       \/ /\ part = "stores" /\ StoresNext
          /\ UNCHANGED <<serverVars, fillVars, researchVars, journalVars>>
       \/ /\ part = "fills" /\ FillsNext
          /\ UNCHANGED <<serverVars, storeVars, researchVars, journalVars>>
       \/ /\ part = "research" /\ ResearchNext
          /\ UNCHANGED <<serverVars, storeVars, fillVars, journalVars>>
       \/ /\ part = "journal" /\ JournalNext
          /\ UNCHANGED <<serverVars, storeVars, fillVars, researchVars>>
    /\ UNCHANGED part

Spec == Init /\ [][Next]_vars
=============================================================================

--------------------------- MODULE KeywordSources ---------------------------
(***************************************************************************)
(* Where a project's keywords come from: the owner's keyword store         *)
(* (api/v1/keywords.py), the rows that select keywords for a project       *)
(* (api/v1/projects.py), and the semantic sources that name those rows:    *)
(* manual exports and Bukvarix runs (api/v1/semantic_sources.py,           *)
(* services/bukvarix_queue.py).  A replaced selection gets new rows, also  *)
(* for the keywords it keeps: a row is a phrase and a generation.          *)
(***************************************************************************)
EXTENDS Naturals, FiniteSets, Sequences

CONSTANTS Phrases, MaxSelections, MaxSources, MaxRuns

ASSUME KeywordAssumption == {MaxSelections, MaxSources, MaxRuns} \subseteq Nat

VARIABLES stored,      \* phrases in the owner's store
          selection,   \* ProjectKeyword rows
          generation,  \* replacements so far
          sources,     \* project rows each semantic source run names
          runs         \* Bukvarix keyword runs

keywordVars == <<stored, selection, generation, sources, runs>>

Rows == [phrase : Phrases, gen : 0..MaxSelections]
\* A result names the seed row it was found with.
KeywordInit ==
  /\ stored = {} /\ selection = {} /\ generation = 0 /\ sources = <<>> /\ runs = <<>>

\* save_keywords: phrases already in the store are skipped.
ImportKeywords(phrases) ==
  /\ stored' = stored \cup phrases
  /\ UNCHANGED <<selection, generation, sources, runs>>

\* Mutant of NamedRows: results of runs that were not committed do not hold.
RowsOfSources == UNION {sources[s] : s \in DOMAIN sources}

\* The rows that foreign keys with RESTRICT hold: replacing the selection
\* while one of them is named fails as a whole.
NamedRows ==
  (UNION {sources[s] : s \in DOMAIN sources})
    \cup (UNION {{r.seed : r \in runs[k].results} : k \in DOMAIN runs})

ReplaceSelection(phrases) ==
  /\ generation < MaxSelections
  /\ phrases \subseteq stored
  /\ NamedRows \cap selection = {}
  /\ generation' = generation + 1
  /\ selection' = [phrase : phrases, gen : {generation + 1}]
  /\ UNCHANGED <<stored, sources, runs>>

RecordManualSource(rows) ==
  /\ Len(sources) < MaxSources
  /\ rows # {} /\ rows \subseteq selection
  /\ sources' = Append(sources, rows)
  /\ UNCHANGED <<stored, selection, generation, runs>>

CreateBukvarixRun(seeds) ==
  /\ Len(runs) < MaxRuns
  /\ seeds # {} /\ seeds \subseteq selection
  /\ runs' = Append(runs, [status |-> "queued", seeds |-> seeds, results |-> {}, committed |-> 0])
  /\ UNCHANGED <<stored, selection, generation, sources>>

StartBukvarixRun(k) ==
  /\ runs[k].status = "queued"
  /\ runs' = [runs EXCEPT ![k].status = "running"]
  /\ UNCHANGED <<stored, selection, generation, sources>>

\* The provider answers, every phrase with one seed.  A seed row that was
\* replaced meanwhile breaks the insertion, and the run ends failed.
FinishBukvarixRun(k, found) ==
  /\ runs[k].status = "running"
  /\ found \subseteq [phrase : Phrases, seed : runs[k].seeds]
  /\ \A r, s \in found : r.phrase = s.phrase => r = s
  /\ runs' = IF {r.seed : r \in found} \subseteq selection
             THEN [runs EXCEPT ![k].status = "completed", ![k].results = found]
             ELSE [runs EXCEPT ![k].status = "failed"]
  /\ UNCHANGED <<stored, selection, generation, sources>>

\* The provider fails, the lease lapses or the operator cancels.
EndBukvarixRun(k, status) ==
  /\ runs[k].status \in {"queued", "running"}
  /\ runs' = [runs EXCEPT ![k].status = status]
  /\ UNCHANGED <<stored, selection, generation, sources>>

\* commit_bukvarix_keyword_run, under the run's lock: missing phrases go to the
\* store and into the selection, the rows become a source.  A second commit
\* returns the first one's source.
CommitBukvarixRun(k, chosen) ==
  /\ runs[k].status = "completed" /\ runs[k].committed = 0
  /\ Len(sources) < MaxSources
  /\ chosen # {} /\ chosen \subseteq runs[k].results
  /\ LET phrases == {r.phrase : r \in chosen}
         missing == {p \in phrases : \A row \in selection : row.phrase # p}
     IN  /\ stored' = stored \cup phrases
         /\ selection' = selection \cup [phrase : missing, gen : {generation}]
         /\ sources' = Append(sources, {row \in selection' : row.phrase \in phrases})
         /\ runs' = [runs EXCEPT ![k].committed = Len(sources')]
  /\ UNCHANGED generation

KeywordNext ==
  \/ \E phrases \in (SUBSET Phrases) \ {{}} : ImportKeywords(phrases) \/ ReplaceSelection(phrases)
  \/ ReplaceSelection({})
  \/ \E rows \in SUBSET selection : RecordManualSource(rows) \/ CreateBukvarixRun(rows)
  \/ \E k \in DOMAIN runs :
       \/ StartBukvarixRun(k)
       \/ \E found \in SUBSET [phrase : Phrases, seed : runs[k].seeds] : FinishBukvarixRun(k, found)
       \/ \E status \in {"failed", "cancelled"} : EndBukvarixRun(k, status)
       \/ \E chosen \in SUBSET runs[k].results : CommitBukvarixRun(k, chosen)

KeywordSpec == KeywordInit /\ [][KeywordNext]_keywordVars

-----------------------------------------------------------------------------
\* What a semantic source or a Bukvarix result claims to come from is a row
\* that still exists: a run that was queued before the selection was replaced
\* must not end with results of rows that are gone (run_bukvarix_keyword_run),
\* and later replacements must not remove what is named.
ProvenanceHeld ==
  /\ \A s \in DOMAIN sources : sources[s] \subseteq selection
  /\ \A k \in DOMAIN runs :
       /\ {r.seed : r \in runs[k].results} \subseteq selection
       /\ runs[k].results # {} => runs[k].status = "completed"
       /\ runs[k].committed # 0 =>
            \A row \in sources[runs[k].committed] : \E r \in runs[k].results : r.phrase = row.phrase
=============================================================================

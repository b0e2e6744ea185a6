----------------------------- MODULE MCResearch -----------------------------
(***************************************************************************)
(* Five components that share no state, checked in one run: part is chosen *)
(* in the initial state, and only the actions of that component are taken. *)
(* The graph is the disjoint union of the five graphs.                     *)
(***************************************************************************)
EXTENDS Crawl, KeywordSources, CityFamily, AIRuns, Prompts

CONSTANTS root, about, deep, map1, map2

MCLinks == [u \in Urls |-> CASE u = root -> {about, root} [] u = about -> {deep, root}
                             [] u = deep -> {about} [] OTHER -> {}]
MCListed == [m \in Maps |-> IF m = map1 THEN {map2, about} ELSE {map1}]

VARIABLE part

vars == <<part, crawlVars, keywordVars, familyVars, aiVars, promptVars>>

Init == /\ part \in {"crawl", "keywords", "family", "ai", "prompts"}
        /\ CrawlInit /\ KeywordInit /\ FamilyInit /\ AIInit /\ PromptInit

CrawlPart == part = "crawl" /\ UNCHANGED <<part, keywordVars, familyVars, aiVars, promptVars>>
KeywordPart == part = "keywords" /\ UNCHANGED <<part, crawlVars, familyVars, aiVars, promptVars>>
FamilyPart == part = "family" /\ UNCHANGED <<part, crawlVars, keywordVars, aiVars, promptVars>>
AIPart == part = "ai" /\ UNCHANGED <<part, crawlVars, keywordVars, familyVars, promptVars>>
PromptPart == part = "prompts" /\ UNCHANGED <<part, crawlVars, keywordVars, familyVars, aiVars>>

Next == \/ CrawlPart /\ CrawlNext
        \/ KeywordPart /\ KeywordNext
        \/ FamilyPart /\ FamilyNext
        \/ AIPart /\ AINext
        \/ PromptPart /\ PromptNext

Spec == Init /\ [][Next]_vars /\ WF_vars(CrawlPart /\ Crawler)
=============================================================================

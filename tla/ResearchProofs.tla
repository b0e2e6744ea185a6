--------------------------- MODULE ResearchProofs ---------------------------
(***************************************************************************)
(* Theorems about AIRuns, Prompts, KeywordSources, CityFamily and Crawl,   *)
(* which share no state.                                                   *)
(*                                                                         *)
(* AIRuns implements the ledger of SpendLedger: the lemmas about Total     *)
(* reason on partial sums and on the least counterexample, since the       *)
(* provers cannot instantiate an induction theorem.                        *)
(***************************************************************************)
EXTENDS AIRuns, Prompts, KeywordSources, CityFamily, Crawl, SequenceTheorems, FiniteSetTheorems,
        WellFoundedInduction, TLAPS

-----------------------------------------------------------------------------
(* Numbers and tables.                                                     *)

\* Of a nonempty set of numbers one is the least.
LEMMA LeastElement ==
  ASSUME NEW S \in SUBSET Nat, S # {}
  PROVE  \E x \in S : \A y \in S : x <= y
<1>1. PICK x \in S : \A y \in S : ~(<<y, x>> \in OpToRel(<, Nat))
    BY NatLessThanWellFounded, WFMin
<1>2. ASSUME NEW y \in S PROVE x <= y
    <2>1. x \in Nat /\ y \in Nat
        OBVIOUS
    <2>2. ~(y < x)
        BY <1>1, <2>1 DEF OpToRel
    <2> QED
        BY <2>1, <2>2
<1> QED
    BY <1>2

\* A table as it is, with a row appended, and with a row overwritten.
LEMMA SeqRows ==
  ASSUME NEW S, NEW q \in Seq(S)
  PROVE  DOMAIN q = 1..Len(q) /\ Len(q) \in Nat /\ \A i \in DOMAIN q : q[i] \in S
BY LenProperties, ElementOfSeq

LEMMA SeqAppended ==
  ASSUME NEW S, NEW q \in Seq(S), NEW x \in S, NEW p, p = Append(q, x)
  PROVE  /\ p \in Seq(S) /\ Len(p) = Len(q) + 1 /\ DOMAIN p = DOMAIN q \cup {Len(p)}
         /\ p[Len(p)] = x /\ \A i \in DOMAIN q : p[i] = q[i] /\ i # Len(p)
BY AppendProperties, SeqRows

LEMMA SeqWritten ==
  ASSUME NEW S, NEW q \in Seq(S), NEW i \in DOMAIN q, NEW x \in S, NEW p, p = [q EXCEPT ![i] = x]
  PROVE  /\ p \in Seq(S) /\ DOMAIN p = DOMAIN q
         /\ \A j \in DOMAIN q : p[j] = IF j = i THEN x ELSE q[j]
BY ExceptSeq, SeqRows

-----------------------------------------------------------------------------
(***************************************************************************)
(* AIRuns, for any requests, budget, prices and number of runs: the types, *)
(* that a provider is called at most once for a row, that an approval is   *)
(* used at most once, and the budget.                                      *)
(***************************************************************************)

Calling(q) == proposals[q].phase = "calling"

\* A request holds what the operator was quoted, and then the row it reserved:
\* it alone, until the answer of the provider is written there.
AIRequestInv ==
  /\ \A q \in Proposals :
       /\ proposals[q].phase = "prepared" => proposals[q].est \in Estimates /\ proposals[q].max \in Estimates
       /\ proposals[q].phase \in {"queueing", "queue_error"} =>
            proposals[q].run \in DOMAIN aiRuns /\ aiRuns[proposals[q].run].kind \in Queued
       /\ Calling(q) =>
            /\ proposals[q].run \in DOMAIN aiRuns
            /\ LET row == aiRuns[proposals[q].run] IN
               /\ row.kind \notin Queued /\ row.status = "reserved" /\ row.cost = row.est
               /\ row.calls = 1 /\ row.made = 0
  /\ \A p, q \in Proposals : Calling(p) /\ Calling(q) /\ proposals[p].run = proposals[q].run => p = q

\* Only the worker's kinds are in the queue; they keep their reservation, and
\* are not called before they are claimed.
AIQueueInv ==
  /\ \A r \in aiQueue \cup executing : aiRuns[r].kind \in Queued
  /\ \A r \in DOMAIN aiRuns : aiRuns[r].kind \in Queued =>
       /\ aiRuns[r].est <= aiRuns[r].cost
       /\ aiRuns[r].status = "reserved" => aiRuns[r].calls = 0

\* What was called, and what was made of the answer.
AIRowOK(row) ==
  /\ row.calls <= 1 /\ row.made <= 1
  /\ row.status \in {"pending_approval", "approved"} => row.calls > 0
  /\ row.made = 1 => row.calls > 0
  /\ row.made = 1 /\ row.kind \in PageKinds => row.madeFrom = row.inputs

AIRowsInv == \A r \in DOMAIN aiRuns : AIRowOK(aiRuns[r])

\* The inductive invariant.
AIInv == AITypeOK /\ AIRequestInv /\ AIQueueInv /\ AIRowsInv


\* f holds the sums of the first amounts, up to the k-th.
PartialSums(f, amounts, k) ==
  f = [n \in 0..k |-> IF n = 0 THEN 0 ELSE f[n - 1] + amounts[n]]

\* Of every list of amounts there are partial sums; its total is the last.
LEMMA SumsExist ==
  ASSUME NEW amounts, NEW size \in Nat
  PROVE  \E f : PartialSums(f, amounts, size)
<1> DEFINE Without == {k \in Nat : ~ \E f : PartialSums(f, amounts, k)}
<1> SUFFICES ASSUME Without # {} PROVE FALSE
    BY SMT
<1> HIDE DEF Without
<1>1. PICK k \in Without : \A j \in Without : k <= j
    <2>1. Without \in SUBSET Nat
        BY DEF Without
    <2> QED
        BY <2>1, LeastElement
<1>2. k \in Nat /\ ~ \E f : PartialSums(f, amounts, k)
    BY DEF Without
<1>3. CASE k = 0
    <2> DEFINE f == [n \in 0..0 |-> 0]
    <2>1. PartialSums(f, amounts, 0)
        BY DEF PartialSums
    <2> QED
        BY <1>2, <1>3, <2>1
<1>4. CASE k # 0
    <2>1. k - 1 \in Nat /\ k - 1 \notin Without
        BY <1>1, <1>2, <1>4
    <2>2. PICK g : PartialSums(g, amounts, k - 1)
        BY <2>1 DEF Without
    <2> DEFINE f == [n \in 0..k |-> IF n = k THEN g[k - 1] + amounts[k] ELSE g[n]]
    <2>3. \A n \in 0..(k - 1) : g[n] = IF n = 0 THEN 0 ELSE g[n - 1] + amounts[n]
        BY <2>2, <1>2 DEF PartialSums
    <2>4. \A n \in 0..k : f[n] = IF n = 0 THEN 0 ELSE f[n - 1] + amounts[n]
        <3>1. ASSUME NEW n \in 0..k, n = k PROVE f[n] = IF n = 0 THEN 0 ELSE f[n - 1] + amounts[n]
            BY <1>2, <1>4, <2>1, <3>1
        <3>2. ASSUME NEW n \in 0..k, n # k PROVE f[n] = IF n = 0 THEN 0 ELSE f[n - 1] + amounts[n]
            BY <1>2, <1>4, <2>3, <3>2
        <3> QED
            BY <3>1, <3>2
    <2>5. PartialSums(f, amounts, k)
        <3> HIDE DEF f
        <3>1. f = [n \in 0..k |-> f[n]]
            BY DEF f
        <3> QED
            BY <2>4, <3>1 DEF PartialSums
    <2> QED
        BY <1>2, <2>5
<1> QED
    BY <1>3, <1>4

\* Each partial sum adds one amount to the one before.
Adds(f, amounts, k) == f[0] = 0 /\ \A n \in 1..k : f[n] = f[n - 1] + amounts[n]

LEMMA TotalIsLast ==
  ASSUME NEW amounts \in Seq(Nat)
  PROVE  \E f : Adds(f, amounts, Len(amounts)) /\ Total(amounts) = f[Len(amounts)]
<1> DEFINE f == CHOOSE g : PartialSums(g, amounts, Len(amounts))
<1>1. Len(amounts) \in Nat
    BY LenProperties
<1>2. PartialSums(f, amounts, Len(amounts))
    BY <1>1, SumsExist
<1>3. Total(amounts) = f[Len(amounts)]
    BY Zenon DEF Total, PartialSums
<1>4. \A n \in 0..Len(amounts) : f[n] = IF n = 0 THEN 0 ELSE f[n - 1] + amounts[n]
    <2> HIDE DEF f
    <2> QED
        BY <1>2 DEF PartialSums
<1>5. Adds(f, amounts, Len(amounts))
    <2> HIDE DEF f
    <2> QED
        BY <1>1, <1>4 DEF Adds
<1> QED
    BY <1>3, <1>5

\* Sums of smaller amounts are smaller.
LEMMA SumsOrdered ==
  ASSUME NEW a \in Seq(Nat), NEW b \in Seq(Nat), NEW f, NEW g, NEW size \in Nat,
         size <= Len(a), size <= Len(b), Adds(f, a, size), Adds(g, b, size),
         \A i \in 1..size : a[i] <= b[i]
  PROVE  f[size] \in Nat /\ g[size] \in Nat /\ f[size] <= g[size]
<1> DEFINE Ordered(n) == f[n] \in Nat /\ g[n] \in Nat /\ f[n] <= g[n]
           Bad == {n \in 0..size : ~Ordered(n)}
<1>a. Bad = {} => Ordered(size)
    <2>1. size \in 0..size
        OBVIOUS
    <2> QED
        BY <2>1, Zenon
<1>b. Bad \in SUBSET Nat /\ \A n \in Bad : n \in 0..size /\ ~Ordered(n)
    BY SMT
<1>c. \A n \in 0..size : n \notin Bad => Ordered(n)
    BY Zenon
<1> HIDE DEF Bad
<1> SUFFICES ASSUME Bad # {} PROVE FALSE
    BY <1>a
<1>1. PICK n \in Bad : \A m \in Bad : n <= m
    BY <1>b, LeastElement
<1>2. n \in 0..size /\ ~Ordered(n)
    BY <1>b
<1>3. n # 0
    BY <1>2 DEF Adds
<1>4. n - 1 \in 0..size /\ n \in 1..size /\ n - 1 \notin Bad
    BY <1>1, <1>2, <1>3
<1>5. Ordered(n - 1)
    BY <1>4, <1>c
<1>6. f[n] = f[n - 1] + a[n] /\ g[n] = g[n - 1] + b[n]
    BY <1>4 DEF Adds
<1>7. n \in 1..Len(a) /\ n \in 1..Len(b)
    BY <1>4, LenProperties
<1>8. a[n] \in Nat /\ b[n] \in Nat /\ a[n] <= b[n]
    BY <1>4, <1>7, ElementOfSeq
<1>9. Ordered(n)
    <2>1. /\ f[n - 1] \in Nat /\ g[n - 1] \in Nat /\ f[n - 1] <= g[n - 1]
        BY <1>5
    <2>2. \A p, q, x, y \in Nat : p <= q /\ x <= y => p + x \in Nat /\ q + y \in Nat /\ p + x <= q + y
        OBVIOUS
    <2>3. /\ f[n - 1] + a[n] \in Nat /\ g[n - 1] + b[n] \in Nat
          /\ f[n - 1] + a[n] <= g[n - 1] + b[n]
        BY <2>1, <2>2, <1>8
    <2> QED
        BY <2>3, <1>6
<1> QED
    BY <1>2, <1>9

\* The sum of the rows grows with its amounts.
LEMMA TotalOrdered ==
  ASSUME NEW a \in Seq(Nat), NEW b \in Seq(Nat), Len(a) = Len(b),
         \A i \in 1..Len(a) : a[i] <= b[i]
  PROVE  Total(a) \in Nat /\ Total(b) \in Nat /\ Total(a) <= Total(b)
<1>1. PICK f : Adds(f, a, Len(a)) /\ Total(a) = f[Len(a)]
    BY TotalIsLast
<1>2. PICK g : Adds(g, b, Len(b)) /\ Total(b) = g[Len(b)]
    BY TotalIsLast
<1>3. Len(a) \in Nat
    BY LenProperties
<1>4. Len(a) <= Len(a) /\ Len(a) <= Len(b) /\ Adds(g, b, Len(a))
    BY <1>2, <1>3
<1>5. f[Len(a)] \in Nat /\ g[Len(a)] \in Nat /\ f[Len(a)] <= g[Len(a)]
    BY <1>1, <1>3, <1>4, SumsOrdered, Zenon
<1> QED
    BY <1>1, <1>2, <1>5

LEMMA TotalNat ==
  ASSUME NEW a \in Seq(Nat)
  PROVE  Total(a) \in Nat
<1>1. \A i \in 1..Len(a) : a[i] <= a[i]
    <2>1. \A i \in 1..Len(a) : a[i] \in Nat
        BY ElementOfSeq
    <2> QED
        BY <2>1
<1> QED
    BY <1>1, TotalOrdered, Zenon

\* A new row adds its amount.
LEMMA TotalAppend ==
  ASSUME NEW a \in Seq(Nat), NEW x \in Nat
  PROVE  Total(Append(a, x)) = Total(a) + x
<1> DEFINE b == Append(a, x)
<1>1. /\ b \in Seq(Nat) /\ Len(b) = Len(a) + 1 /\ Len(a) \in Nat
      /\ \A i \in 1..Len(a) : b[i] = a[i] /\ a[i] \in Nat
      /\ b[Len(b)] = x
    BY AppendProperties, LenProperties, ElementOfSeq
<1> HIDE DEF b
<1>2. PICK f : Adds(f, a, Len(a)) /\ Total(a) = f[Len(a)]
    BY TotalIsLast
<1>3. PICK g : Adds(g, b, Len(b)) /\ Total(b) = g[Len(b)]
    BY <1>1, TotalIsLast
<1>4. Adds(g, b, Len(a))
    BY <1>1, <1>3 DEF Adds
<1>s. /\ Len(a) <= Len(a) /\ Len(a) <= Len(b)
      /\ \A i \in 1..Len(a) : a[i] <= b[i] /\ b[i] <= a[i]
    BY <1>1
<1>5. f[Len(a)] \in Nat /\ g[Len(a)] \in Nat /\ f[Len(a)] <= g[Len(a)]
    BY <1>1, <1>2, <1>4, <1>s, SumsOrdered, Zenon
<1>6. g[Len(a)] <= f[Len(a)]
    BY <1>1, <1>2, <1>4, <1>s, SumsOrdered, Zenon
<1>7. g[Len(b)] = g[Len(a)] + x
    BY <1>1, <1>3 DEF Adds
<1> QED
    BY <1>2, <1>3, <1>5, <1>6, <1>7 DEF b

LEMMA TotalEmpty == Total(<<>>) = 0
<1>1. <<>> \in Seq(Nat) /\ Len(<<>>) = 0
    BY EmptySeq
<1>2. PICK f : Adds(f, <<>>, 0) /\ Total(<<>>) = f[0]
    BY <1>1, TotalIsLast
<1> QED
    BY <1>2 DEF Adds

-----------------------------------------------------------------------------
(* Facts the steps share.                                                   *)

LEMMA AIRows ==
  ASSUME NEW rows \in Seq(AIRunRow)
  PROVE  /\ DOMAIN rows = 1..Len(rows) /\ Len(rows) \in Nat
         /\ \A r \in DOMAIN rows : rows[r] \in AIRunRow
<1>1. DOMAIN rows = 1..Len(rows) /\ Len(rows) \in Nat
    BY LenProperties
<1> QED
    BY <1>1, ElementOfSeq

LEMMA AITypes ==
  ASSUME AITypeOK
  PROVE  /\ aiRuns \in Seq(AIRunRow) /\ Len(aiRuns) <= MaxAIRuns
         /\ DOMAIN aiRuns = 1..Len(aiRuns) /\ Len(aiRuns) \in Nat
         /\ \A r \in DOMAIN aiRuns : aiRuns[r] \in AIRunRow
         /\ proposals \in [Proposals -> ProposalRow]
         /\ aiQueue \subseteq DOMAIN aiRuns /\ executing \subseteq DOMAIN aiRuns
         /\ inputs \in 1..MaxInputs
BY AIRows DEF AITypeOK

\* One row is written.
LEMMA AIRunWritten ==
  ASSUME AITypeOK, NEW r \in DOMAIN aiRuns, NEW row \in AIRunRow,
         aiRuns' = [aiRuns EXCEPT ![r] = row]
  PROVE  /\ aiRuns' \in Seq(AIRunRow) /\ Len(aiRuns') = Len(aiRuns)
         /\ DOMAIN aiRuns' = DOMAIN aiRuns
         /\ aiRuns'[r] = row
         /\ \A s \in DOMAIN aiRuns : s # r => aiRuns'[s] = aiRuns[s]
<1>1. /\ aiRuns' \in Seq(AIRunRow) /\ Len(aiRuns') = Len(aiRuns)
      /\ \A s \in 1..Len(aiRuns) : aiRuns'[s] = IF s = r THEN row ELSE aiRuns[s]
    BY AITypes, ExceptSeq
<1> QED
    BY <1>1, AITypes, AIRows

\* One request moves on.
LEMMA ProposalWritten ==
  ASSUME AITypeOK, NEW q \in Proposals, NEW p \in ProposalRow,
         proposals' = [proposals EXCEPT ![q] = p]
  PROVE  /\ proposals' \in [Proposals -> ProposalRow] /\ proposals'[q] = p
         /\ \A o \in Proposals : o # q => proposals'[o] = proposals[o]
    BY AITypes

LEMMA IdleProposal == Idle \in ProposalRow /\ Idle.phase = "idle" /\ Idle.kind = "geo"
    BY AIAssumption DEF Idle, ProposalRow, AIKinds

\* A row is written, and a request may end.  What no request waits for may be
\* written by others: here the row is of a request that ends, or of none.
LEMMA AIRowWritten ==
  ASSUME AIInv, NEW r \in DOMAIN aiRuns, NEW row \in AIRunRow,
         aiRuns' = [aiRuns EXCEPT ![r] = row],
         row.kind = aiRuns[r].kind, AIRowOK(row),
         row.kind \in Queued => row.est <= row.cost /\ (row.status = "reserved" => row.calls = 0),
         proposals' \in [Proposals -> ProposalRow],
         \A q \in Proposals : proposals'[q] \in {proposals[q], Idle},
         \A q \in Proposals : Calling(q)' => proposals[q].run # r,
         aiQueue' \subseteq aiQueue, executing' \subseteq executing \cup {r},
         executing' # executing => row.kind \in Queued, UNCHANGED inputs
  PROVE  AIInv'
<1>t. AITypeOK
    BY DEF AIInv
<1>1. /\ aiRuns' \in Seq(AIRunRow) /\ Len(aiRuns') = Len(aiRuns) /\ DOMAIN aiRuns' = DOMAIN aiRuns
      /\ \A s \in DOMAIN aiRuns : aiRuns'[s] = IF s = r THEN row ELSE aiRuns[s]
    BY <1>t, AIRunWritten
<1>2. AITypeOK'
    BY <1>1, <1>t, AITypes DEF AITypeOK
<1>3. AIRequestInv'
    <2>1. \A q \in Proposals : proposals'[q].phase # "idle" => proposals'[q] = proposals[q]
        BY IdleProposal
    <2>2. \A q \in Proposals : Calling(q)' => proposals'[q] = proposals[q] /\ Calling(q) /\ proposals[q].run # r
        BY <2>1 DEF Calling
    <2>3. \A s \in DOMAIN aiRuns : aiRuns'[s].kind = aiRuns[s].kind
        BY <1>1
    <2>4. ASSUME NEW q \in Proposals, proposals'[q].phase \in {"queueing", "queue_error"}
          PROVE  proposals'[q].run \in DOMAIN aiRuns' /\ aiRuns'[proposals'[q].run].kind \in Queued
        BY <2>1, <2>3, <2>4, <1>1 DEF AIInv, AIRequestInv
    <2>5. ASSUME NEW q \in Proposals, proposals'[q].phase = "prepared"
          PROVE  proposals'[q].est \in Estimates /\ proposals'[q].max \in Estimates
        BY <2>1, <2>5 DEF AIInv, AIRequestInv
    <2> QED
        BY <2>2, <2>4, <2>5, <1>1 DEF AIInv, AIRequestInv
<1>4. AIQueueInv'
    BY <1>1, <1>t, AITypes DEF AIInv, AIQueueInv
<1>5. AIRowsInv'
    BY <1>1 DEF AIInv, AIRowsInv
<1> QED
    BY <1>2, <1>3, <1>4, <1>5 DEF AIInv

LEMMA RequestEnds ==
  ASSUME AITypeOK, NEW q \in Proposals, Replied(q)
  PROVE  /\ proposals' \in [Proposals -> ProposalRow]
         /\ \A o \in Proposals : proposals'[o] = IF o = q THEN Idle ELSE proposals[o]
BY IdleProposal, ProposalWritten DEF Replied

\* The answer of a provider inside the request: its row alone is written.
LEMMA AnswerWritten ==
  ASSUME AIInv, NEW q \in Proposals, Calling(q), Replied(q), NEW row \in AIRunRow,
         aiRuns' = [aiRuns EXCEPT ![proposals[q].run] = row],
         row.kind = aiRuns[proposals[q].run].kind, AIRowOK(row),
         UNCHANGED <<aiQueue, executing, inputs>>
  PROVE  AIInv'
<1>1. proposals[q].run \in DOMAIN aiRuns /\ row.kind \notin Queued
    BY DEF AIInv, AIRequestInv
<1>2. /\ proposals' \in [Proposals -> ProposalRow]
      /\ \A o \in Proposals : proposals'[o] = IF o = q THEN Idle ELSE proposals[o]
    BY RequestEnds DEF AIInv
<1>3. \A o \in Proposals : Calling(o)' => proposals[o].run # proposals[q].run
    <2>1. \A o \in Proposals : Calling(o)' => o # q /\ Calling(o)
        BY <1>2, IdleProposal DEF Calling
    <2> QED
        BY <2>1 DEF AIInv, AIRequestInv
<1> QED
    BY <1>1, <1>2, <1>3, AIRowWritten

\* A request moves on and leaves the rows and the queue alone.
LEMMA RequestMoved ==
  ASSUME AIInv, NEW q \in Proposals, NEW p \in ProposalRow,
         proposals' = [proposals EXCEPT ![q] = p], p.phase # "calling",
         p.phase = "prepared" => p.est \in Estimates /\ p.max \in Estimates,
         p.phase \in {"queueing", "queue_error"} => p.run \in DOMAIN aiRuns /\ aiRuns[p.run].kind \in Queued,
         aiQueue' \subseteq aiQueue \cup {r \in DOMAIN aiRuns : aiRuns[r].kind \in Queued},
         UNCHANGED <<aiRuns, executing, inputs>>
  PROVE  AIInv'
<1>t. AITypeOK
    BY DEF AIInv
<1>1. /\ proposals' \in [Proposals -> ProposalRow] /\ proposals'[q] = p
      /\ \A o \in Proposals : o # q => proposals'[o] = proposals[o]
    BY <1>t, ProposalWritten
<1>2. AITypeOK'
    BY <1>1, <1>t, AITypes DEF AITypeOK
<1>3. AIRequestInv'
    BY <1>1 DEF AIInv, AIRequestInv, Calling
<1>4. AIQueueInv'
    BY <1>t, AITypes DEF AIInv, AIQueueInv
<1>5. AIRowsInv'
    BY DEF AIInv, AIRowsInv
<1> QED
    BY <1>2, <1>3, <1>4, <1>5 DEF AIInv

-----------------------------------------------------------------------------
(* The steps.                                                               *)

LEMMA AIInitInv == AIInit => AIInv
<1> SUFFICES ASSUME AIInit PROVE AIInv
    OBVIOUS
<1>1. aiRuns \in Seq(AIRunRow) /\ Len(aiRuns) = 0 /\ DOMAIN aiRuns = {}
    BY EmptySeq, LenProperties DEF AIInit
<1>2. AITypeOK
    BY <1>1, AIAssumption, IdleProposal DEF AIInit, AITypeOK
<1>3. AIRequestInv /\ AIQueueInv /\ AIRowsInv
    BY <1>1, IdleProposal DEF AIInit, AIRequestInv, AIQueueInv, AIRowsInv, Calling
<1> QED
    BY <1>2, <1>3 DEF AIInv

\* A quote is confirmed.
LEMMA PrepareKeeps ==
  ASSUME AIInv, NEW q \in Proposals, NEW kind \in AIKinds, NEW frozen \in 0..MaxInputs,
         NEW est \in Estimates, NEW max \in Estimates, Prepare(q, kind, frozen, est, max)
  PROVE  AIInv'
<1> DEFINE p == [phase |-> "prepared", kind |-> kind, est |-> est, max |-> max, inputs |-> frozen, run |-> 0]
<1>1. p \in ProposalRow
    BY AIAssumption DEF ProposalRow
<1>2. proposals' = [proposals EXCEPT ![q] = p] /\ UNCHANGED <<aiRuns, aiQueue, executing, inputs>>
    BY DEF Prepare
<1>3. p.phase = "prepared" /\ p.est = est /\ p.max = max
    OBVIOUS
<1> HIDE DEF p
<1> QED
    BY <1>1, <1>2, <1>3, RequestMoved

LEMMA PreparationsKeep ==
  ASSUME AIInv, NEW q \in Proposals, NEW est \in Estimates, NEW max \in Estimates,
         \/ PrepareArchitecture(q, est, max) \/ PrepareGeo(q, est, max)
         \/ PreparePageCopy(q, est, max) \/ PrepareSeoBrief(q, est, max)
         \/ PrepareBlockSlots(q, est, max) \/ PrepareIntent(q, est, max)
  PROVE  AIInv'
<1>1. 0 \in 0..MaxInputs /\ inputs \in 0..MaxInputs
    BY AIAssumption, AITypes DEF AIInv
<1>2. {"architecture", "geo", "page_copy", "brief", "slots", "intent"} \subseteq AIKinds
    BY DEF AIKinds, Queued, PageKinds
<1> QED
    BY <1>1, <1>2, PrepareKeeps
    DEF PrepareArchitecture, PrepareGeo, PreparePageCopy, PrepareSeoBrief, PrepareBlockSlots, PrepareIntent

\* The row of a reservation.
Reservation(p) ==
  [kind |-> p.kind, status |-> "reserved", est |-> p.est, max |-> p.max, cost |-> p.est,
   inputs |-> p.inputs, calls |-> IF p.kind \in Queued THEN 0 ELSE 1, made |-> 0, madeFrom |-> 0]

LEMMA ReservationRow ==
  ASSUME AIInv, NEW q \in Proposals, proposals[q].phase = "prepared"
  PROVE  Reservation(proposals[q]) \in AIRunRow
<1> DEFINE p == proposals[q]
<1>1. p \in ProposalRow /\ p.est \in Estimates /\ p.max \in Estimates
    BY AITypes DEF AIInv, AIRequestInv
<1>2. p.kind \in AIKinds /\ p.inputs \in 0..MaxInputs /\ 0 \in 0..MaxInputs
    BY <1>1, AIAssumption DEF ProposalRow
<1> HIDE DEF p
<1>3. (IF p.kind \in Queued THEN 0 ELSE 1) \in Nat
    OBVIOUS
<1> QED
    BY <1>1, <1>2, <1>3 DEF Reservation, AIRunRow, p

LEMMA RunAppended ==
  ASSUME AITypeOK, NEW row \in AIRunRow, aiRuns' = Append(aiRuns, row), Len(aiRuns) < MaxAIRuns
  PROVE  /\ aiRuns' \in Seq(AIRunRow) /\ Len(aiRuns') <= MaxAIRuns
         /\ Len(aiRuns') = Len(aiRuns) + 1 /\ DOMAIN aiRuns' = 1..(Len(aiRuns) + 1)
         /\ aiRuns'[Len(aiRuns) + 1] = row
         /\ \A r \in DOMAIN aiRuns : aiRuns'[r] = aiRuns[r]
         /\ \A r \in DOMAIN aiRuns' : r = Len(aiRuns) + 1 \/ r \in DOMAIN aiRuns
<1>1. /\ aiRuns' \in Seq(AIRunRow) /\ Len(aiRuns') = Len(aiRuns) + 1
      /\ \A r \in 1..Len(aiRuns) : aiRuns'[r] = aiRuns[r]
      /\ aiRuns'[Len(aiRuns) + 1] = row
    BY AITypes, AppendProperties
<1> QED
    BY <1>1, AIRows, AITypes, AIAssumption

LEMMA ReserveKeeps ==
  ASSUME AIInv, NEW q \in Proposals, ReserveAIRun(q)
  PROVE  AIInv'
<1> DEFINE p == proposals[q]
           new == Len(aiRuns) + 1
           row == Reservation(p)
           waiting == [Idle EXCEPT !.phase = IF p.kind \in Queued THEN "queueing" ELSE "calling",
                                   !.kind = p.kind, !.run = new]
<1>t. AITypeOK
    BY DEF AIInv
<1>1. CASE CanReserve(p.est) /\ Len(aiRuns) < MaxAIRuns
    <2>1. aiRuns' = Append(aiRuns, row) /\ proposals' = [proposals EXCEPT ![q] = waiting]
          /\ UNCHANGED <<aiQueue, executing, inputs>> /\ p.phase = "prepared"
        BY <1>1, Zenon DEF ReserveAIRun, Reservation
    <2>2. row \in AIRunRow
        BY <2>1, ReservationRow
    <2>3. /\ row.kind = p.kind /\ row.status = "reserved" /\ row.cost = row.est /\ row.made = 0
          /\ row.est \in Nat
          /\ row.calls = IF p.kind \in Queued THEN 0 ELSE 1
        BY <2>2, AIAssumption DEF Reservation, AIRunRow
    <2>4. p.kind \in AIKinds /\ new \in 0..MaxAIRuns
        BY <1>1, <1>t, AITypes, AIAssumption DEF ProposalRow
    <2>5. /\ waiting \in ProposalRow /\ waiting.run = new
          /\ waiting.phase = IF p.kind \in Queued THEN "queueing" ELSE "calling"
        BY <2>4, IdleProposal DEF ProposalRow, Idle
    <2> HIDE DEF row, waiting
    <2>6. /\ proposals' \in [Proposals -> ProposalRow] /\ proposals'[q] = waiting
          /\ \A o \in Proposals : o # q => proposals'[o] = proposals[o]
        BY <1>t, <2>1, <2>5, ProposalWritten
    <2>7. /\ aiRuns' \in Seq(AIRunRow) /\ Len(aiRuns') <= MaxAIRuns
          /\ DOMAIN aiRuns' = 1..(Len(aiRuns) + 1) /\ aiRuns'[new] = row
          /\ \A r \in DOMAIN aiRuns : aiRuns'[r] = aiRuns[r]
          /\ \A r \in DOMAIN aiRuns' : r = new \/ r \in DOMAIN aiRuns
        BY <1>1, <1>t, <2>1, <2>2, RunAppended
    <2>8. new \notin DOMAIN aiRuns /\ new \in DOMAIN aiRuns' /\ DOMAIN aiRuns \subseteq DOMAIN aiRuns'
        BY <1>t, <2>7, AITypes
    <2>9. AITypeOK'
        BY <1>t, <2>1, <2>6, <2>7, <2>8, AITypes DEF AITypeOK
    <2>10. AIRequestInv'
        <3>1. \A o \in Proposals : proposals'[o].phase = "prepared" =>
                proposals'[o].est \in Estimates /\ proposals'[o].max \in Estimates
            BY <2>5, <2>6 DEF AIInv, AIRequestInv
        <3>2. ASSUME NEW o \in Proposals, proposals'[o].phase \in {"queueing", "queue_error"}
              PROVE  proposals'[o].run \in DOMAIN aiRuns' /\ aiRuns'[proposals'[o].run].kind \in Queued
            <4>1. CASE o = q
                BY <3>2, <4>1, <2>3, <2>5, <2>6, <2>7, <2>8
            <4>2. CASE o # q
                BY <3>2, <4>2, <2>6, <2>7, <2>8 DEF AIInv, AIRequestInv
            <4> QED
                BY <4>1, <4>2
        <3>3. ASSUME NEW o \in Proposals, Calling(o)'
              PROVE  /\ proposals'[o].run \in DOMAIN aiRuns'
                     /\ o = q <=> proposals'[o].run = new
                     /\ LET a == aiRuns'[proposals'[o].run] IN
                        a.kind \notin Queued /\ a.status = "reserved" /\ a.cost = a.est /\ a.calls = 1 /\ a.made = 0
            <4>1. CASE o = q
                BY <3>3, <4>1, <2>3, <2>5, <2>6, <2>7, <2>8 DEF Calling
            <4>2. CASE o # q
                BY <3>3, <4>2, <2>6, <2>7, <2>8 DEF Calling, AIInv, AIRequestInv
            <4> QED
                BY <4>1, <4>2
        <3>4. ASSUME NEW o1 \in Proposals, NEW o2 \in Proposals, Calling(o1)', Calling(o2)',
                     proposals'[o1].run = proposals'[o2].run
              PROVE  o1 = o2
            <4>1. CASE o1 = q \/ o2 = q
                BY <3>3, <3>4, <4>1
            <4>2. CASE o1 # q /\ o2 # q
                BY <3>4, <4>2, <2>6 DEF Calling, AIInv, AIRequestInv
            <4> QED
                BY <4>1, <4>2
        <3> QED
            BY <3>1, <3>2, <3>3, <3>4 DEF AIRequestInv
    <2>11. AIQueueInv'
        <3>1. \A r \in aiQueue' \cup executing' : aiRuns'[r].kind \in Queued
            BY <1>t, <2>1, <2>7, AITypes DEF AIInv, AIQueueInv
        <3>2. \A r \in DOMAIN aiRuns' : aiRuns'[r].kind \in Queued =>
                 aiRuns'[r].est <= aiRuns'[r].cost /\ (aiRuns'[r].status = "reserved" => aiRuns'[r].calls = 0)
            BY <2>3, <2>7 DEF AIInv, AIQueueInv
        <3> QED
            BY <3>1, <3>2 DEF AIQueueInv
    <2>12. AIRowsInv'
        <3>1. AIRowOK(row)
            BY <2>3 DEF AIRowOK
        <3> QED
            BY <2>7, <3>1 DEF AIInv, AIRowsInv
    <2> QED
        BY <2>9, <2>10, <2>11, <2>12 DEF AIInv
<1>2. CASE ~(CanReserve(p.est) /\ Len(aiRuns) < MaxAIRuns)
    <2>1. proposals' = [proposals EXCEPT ![q] = Idle] /\ UNCHANGED <<aiRuns, aiQueue, executing, inputs>>
        BY <1>2 DEF ReserveAIRun
    <2> QED
        BY <2>1, IdleProposal, RequestMoved
<1> QED
    BY <1>1, <1>2

\* The fields of a row that steps write.
Statuses == {"reserved", "running", "pending_approval", "completed", "failed", "approved", "rejected"}

NewRow(old, cost, reached, calls, made, madeFrom) ==
  [old EXCEPT !.cost = cost, !.status = reached, !.calls = calls, !.made = made, !.madeFrom = madeFrom]

LEMMA RowFields ==
  ASSUME NEW old \in AIRunRow, NEW cost \in Estimates \cup Bills, NEW reached \in Statuses,
         NEW calls \in Nat, NEW made \in Nat, NEW madeFrom \in 0..MaxInputs
  PROVE  LET row == NewRow(old, cost, reached, calls, made, madeFrom)
         IN  /\ row \in AIRunRow /\ row.kind = old.kind /\ row.est = old.est /\ row.inputs = old.inputs
             /\ row.cost = cost /\ row.status = reached /\ row.calls = calls
             /\ row.made = made /\ row.madeFrom = madeFrom
BY DEF AIRunRow, Statuses, NewRow

LEMMA RowTypes ==
  ASSUME AITypeOK, NEW r \in DOMAIN aiRuns
  PROVE  /\ aiRuns[r] \in AIRunRow /\ aiRuns[r].cost \in Estimates \cup Bills /\ aiRuns[r].status \in Statuses
         /\ aiRuns[r].calls \in Nat /\ aiRuns[r].made \in Nat /\ aiRuns[r].madeFrom \in 0..MaxInputs
         /\ aiRuns[r].est \in Nat /\ aiRuns[r].est \in Estimates /\ aiRuns[r].cost \in Nat
         /\ aiRuns[r].kind \in AIKinds
BY AITypes, AIAssumption DEF AIRunRow, Statuses

\* What an answer in the request, or its failure, makes of the row.
Answered(q, cost, reached, made, madeFrom) ==
  LET r == proposals[q].run
  IN  aiRuns' = [aiRuns EXCEPT ![r] =
                   NewRow(aiRuns[r], cost, reached, aiRuns[r].calls, made, madeFrom)]

LEMMA AnsweredKeeps ==
  ASSUME AIInv, NEW q \in Proposals, Calling(q), Replied(q), UNCHANGED <<aiQueue, executing, inputs>>,
         NEW cost \in Estimates \cup Bills, NEW reached \in Statuses, NEW made \in {0, 1},
         NEW madeFrom \in 0..MaxInputs, Answered(q, cost, reached, made, madeFrom),
         made = 1 => madeFrom = aiRuns[proposals[q].run].inputs
  PROVE  AIInv'
<1>1. PICK r \in DOMAIN aiRuns : r = proposals[q].run
    BY DEF AIInv, AIRequestInv
<1> DEFINE old == aiRuns[r]
           row == NewRow(old, cost, reached, old.calls, made, madeFrom)
<1>2. old \in AIRunRow /\ old.calls = 1
    BY <1>1, RowTypes DEF AIInv, AIRequestInv
<1>3. /\ row \in AIRunRow /\ row.kind = old.kind /\ row.inputs = old.inputs /\ row.calls = 1
      /\ row.made = made /\ row.madeFrom = madeFrom
    BY <1>2, RowFields
<1>4. aiRuns' = [aiRuns EXCEPT ![r] = row]
    BY <1>1 DEF Answered
<1> HIDE DEF row
<1>5. AIRowOK(row)
    BY <1>1, <1>3 DEF AIRowOK
<1> QED
    BY <1>1, <1>3, <1>4, <1>5, AnswerWritten

LEMMA AnswersKeep ==
  ASSUME AIInv, NEW q \in Proposals, NEW cost \in Bills,
         \/ FinishSeoBrief(q, cost) \/ FinishBlockSlots(q, cost) \/ FinishGeo(q, cost)
         \/ FinishAIPageDraft(q, cost) \/ FailAIProposal(q, cost)
  PROVE  /\ AIInv'
         /\ \E reached \in Statuses, made \in {0, 1}, madeFrom \in 0..MaxInputs :
              Answered(q, cost, reached, made, madeFrom)
<1>1. PICK r \in DOMAIN aiRuns : r = proposals[q].run /\ Calling(q) /\ aiRuns[r].made = 0
    BY DEF AIInv, AIRequestInv, Calling, FinishSeoBrief, FinishBlockSlots, FinishGeo, FinishProposal,
           FinishAIPageDraft, FailAIProposal, Answering
<1>2. /\ aiRuns[r] \in AIRunRow /\ aiRuns[r].madeFrom \in 0..MaxInputs /\ aiRuns[r].inputs \in 0..MaxInputs
      /\ cost \in Estimates \cup Bills /\ {"failed", "pending_approval", "completed"} \subseteq Statuses
      /\ aiRuns \in Seq(AIRunRow)
    BY RowTypes, AITypes DEF AIInv, AIRunRow, Statuses
<1>3. Replied(q) /\ UNCHANGED <<aiQueue, executing, inputs>>
    BY DEF FinishSeoBrief, FinishBlockSlots, FinishGeo, FinishProposal, FinishAIPageDraft, FailAIProposal
<1>4. CASE FinishSeoBrief(q, cost) \/ FinishBlockSlots(q, cost) \/ FinishGeo(q, cost)
    <2> DEFINE reached == IF cost > aiRuns[r].max THEN "failed" ELSE "pending_approval"
    <2>1. aiRuns' = [aiRuns EXCEPT ![r].cost = cost, ![r].status = reached]
        BY <1>1, <1>4 DEF FinishSeoBrief, FinishBlockSlots, FinishGeo, FinishProposal
    <2>2. reached \in Statuses
        BY <1>2
    <2> HIDE DEF reached
    <2>3. Answered(q, cost, reached, 0, aiRuns[r].madeFrom)
        BY <1>1, <1>2, <2>1 DEF Answered, NewRow, AIRunRow
    <2> QED
        BY <1>1, <1>2, <1>3, <2>2, <2>3, AnsweredKeeps
<1>5. CASE FinishAIPageDraft(q, cost)
    <2> DEFINE reached == IF cost > aiRuns[r].max THEN "failed" ELSE "completed"
    <2> DEFINE row == [aiRuns[r] EXCEPT !.cost = cost, !.made = 1, !.madeFrom = aiRuns[r].inputs,
                                        !.status = reached]
    <2>1. aiRuns' = [aiRuns EXCEPT ![r] = row]
        <3>1. aiRuns' = [aiRuns EXCEPT ![r].cost = cost, ![r].made = aiRuns[r].made + 1,
                                      ![r].madeFrom = aiRuns[r].inputs, ![r].status = reached]
            BY <1>1, <1>5, Zenon DEF FinishAIPageDraft
        <3>2. aiRuns[r].made + 1 = 1
            BY <1>1
        <3>3. PICK one : one = aiRuns[r].made + 1
            OBVIOUS
        <3>4. PICK verdict : verdict = reached
            OBVIOUS
        <3>5. aiRuns' = [aiRuns EXCEPT ![r].cost = cost, ![r].made = one,
                                      ![r].madeFrom = aiRuns[r].inputs, ![r].status = verdict]
            BY <3>1, <3>3, <3>4, Zenon
        <3>6. row = [aiRuns[r] EXCEPT !.cost = cost, !.made = one, !.madeFrom = aiRuns[r].inputs,
                                      !.status = verdict]
            BY <3>2, <3>3, <3>4, Zenon
        <3> HIDE DEF row, reached
        <3> QED
            BY <1>2, <3>5, <3>6 DEF AIRunRow
    <2>2. reached \in Statuses
        BY <1>2
    <2>4. row = NewRow(aiRuns[r], cost, reached, aiRuns[r].calls, 1, aiRuns[r].inputs)
        <3> HIDE DEF reached
        <3> QED
            BY <1>2 DEF NewRow, AIRunRow
    <2> HIDE DEF reached, row
    <2>3. Answered(q, cost, reached, 1, aiRuns[r].inputs)
        BY <1>1, <2>1, <2>4 DEF Answered
    <2> QED
        BY <1>1, <1>2, <1>3, <2>2, <2>3, AnsweredKeeps
<1>6. CASE FailAIProposal(q, cost)
    <2>1. aiRuns' = [aiRuns EXCEPT ![r].cost = cost, ![r].status = "failed"]
        BY <1>1, <1>6 DEF FailAIProposal
    <2>3. Answered(q, cost, "failed", 0, aiRuns[r].madeFrom)
        BY <1>1, <1>2, <2>1 DEF Answered, NewRow, AIRunRow
    <2> QED
        BY <1>1, <1>2, <1>3, <2>3, AnsweredKeeps
<1> QED
    BY <1>4, <1>5, <1>6

LEMMA AbandonKeeps ==
  ASSUME AIInv, NEW q \in Proposals, AbandonAIProposal(q)
  PROVE  AIInv'
BY IdleProposal, RequestMoved DEF AbandonAIProposal, Replied

LEMMA EnqueueKeeps ==
  ASSUME AIInv, NEW q \in Proposals, NEW taken \in BOOLEAN, NEW error \in BOOLEAN,
         EnqueueAIRun(q, taken, error)
  PROVE  AIInv'
<1> DEFINE p == proposals[q]
           next == IF error /\ p.kind = "architecture" THEN [p EXCEPT !.phase = "queue_error"] ELSE Idle
<1>1. p \in ProposalRow /\ p.phase = "queueing"
    BY AITypes DEF AIInv, EnqueueAIRun
<1>2. p.run \in DOMAIN aiRuns /\ aiRuns[p.run].kind \in Queued
    BY <1>1 DEF AIInv, AIRequestInv
<1>3. /\ next \in ProposalRow /\ next.phase \in {"queue_error", "idle"}
      /\ next.phase = "queue_error" => next.run = p.run
    BY <1>1, IdleProposal DEF ProposalRow
<1>4. /\ proposals' = [proposals EXCEPT ![q] = next] /\ UNCHANGED <<aiRuns, executing, inputs>>
      /\ aiQueue' \subseteq aiQueue \cup {p.run}
    BY DEF EnqueueAIRun
<1> HIDE DEF next
<1> QED
    BY <1>2, <1>3, <1>4, RequestMoved

\* A write that leaves every request alone, of a row no request waits for.
LEMMA WorkerWrites ==
  ASSUME AIInv, NEW r \in DOMAIN aiRuns,
         NEW cost \in Estimates \cup Bills, NEW reached \in Statuses, NEW calls \in Nat,
         aiRuns' = [aiRuns EXCEPT ![r] =
                      NewRow(aiRuns[r], cost, reached, calls, aiRuns[r].made, aiRuns[r].madeFrom)],
         calls \in aiRuns[r].calls..1,
         reached \in {"pending_approval", "approved"} => calls > 0,
         aiRuns[r].kind \in Queued => aiRuns[r].est <= cost, reached # "reserved",
         \A q \in Proposals : Calling(q) => proposals[q].run # r,
         UNCHANGED <<proposals, inputs>>,
         aiQueue' \subseteq aiQueue, executing' \subseteq executing \cup {r},
         executing' # executing => aiRuns[r].kind \in Queued
  PROVE  AIInv'
<1> DEFINE old == aiRuns[r]
           row == NewRow(old, cost, reached, calls, old.made, old.madeFrom)
<1>1. old \in AIRunRow /\ old.made \in Nat /\ old.madeFrom \in 0..MaxInputs /\ old.calls \in Nat
    BY RowTypes DEF AIInv
<1>2. /\ row \in AIRunRow /\ row.kind = old.kind /\ row.est = old.est /\ row.inputs = old.inputs
      /\ row.cost = cost /\ row.status = reached /\ row.calls = calls
      /\ row.made = old.made /\ row.madeFrom = old.madeFrom
    BY <1>1, RowFields
<1>3. AIRowOK(row)
    <2>1. AIRowOK(old)
        BY DEF AIInv, AIRowsInv
    <2> HIDE DEF row, old
    <2> QED
        BY <1>1, <1>2, <2>1 DEF AIRowOK, old
<1>4. aiRuns' = [aiRuns EXCEPT ![r] = row] /\ proposals \in [Proposals -> ProposalRow]
    BY AITypes DEF AIInv
<1> HIDE DEF row
<1>5. \A q \in Proposals : (Calling(q)' => proposals[q].run # r) /\ proposals'[q] = proposals[q]
    BY DEF Calling
<1>6. row.kind \in Queued => row.est <= row.cost /\ (row.status = "reserved" => row.calls = 0)
    BY <1>2
<1> QED
    BY <1>2, <1>3, <1>4, <1>5, <1>6, AIRowWritten

\* No request waits for a run of the worker, or for one that was answered.
LEMMA NobodyWaits ==
  ASSUME AIInv, NEW r \in DOMAIN aiRuns, aiRuns[r].kind \in Queued \/ aiRuns[r].status # "reserved"
  PROVE  \A q \in Proposals : Calling(q) => proposals[q].run # r
BY DEF AIInv, AIRequestInv

LEMMA MarkKeeps ==
  ASSUME AIInv, NEW q \in Proposals, MarkQueueUnavailable(q)
  PROVE  AIInv'
<1>1. PICK r \in DOMAIN aiRuns : r = proposals[q].run /\ aiRuns[r].kind \in Queued
    BY DEF AIInv, AIRequestInv, MarkQueueUnavailable
<1> DEFINE row == [aiRuns[r] EXCEPT !.status = "failed"]
<1>2. /\ row \in AIRunRow /\ row.kind = aiRuns[r].kind /\ row.est = aiRuns[r].est
      /\ row.cost = aiRuns[r].cost /\ row.status = "failed" /\ row.calls = aiRuns[r].calls
      /\ row.made = aiRuns[r].made /\ row.madeFrom = aiRuns[r].madeFrom /\ row.inputs = aiRuns[r].inputs
    BY RowTypes DEF AIInv, AIRunRow
<1>3. aiRuns' = [aiRuns EXCEPT ![r] = row] /\ Replied(q) /\ UNCHANGED <<aiQueue, executing, inputs>>
    BY <1>1, AITypes DEF MarkQueueUnavailable, AIInv
<1> HIDE DEF row
<1>4. AIRowOK(row)
    BY <1>2 DEF AIInv, AIRowsInv, AIRowOK
<1>5. row.est <= row.cost
    BY <1>1, <1>2 DEF AIInv, AIQueueInv
<1>6. /\ proposals' \in [Proposals -> ProposalRow]
      /\ \A o \in Proposals : proposals'[o] = IF o = q THEN Idle ELSE proposals[o]
    BY <1>3, RequestEnds DEF AIInv
<1>7. \A o \in Proposals : Calling(o)' => proposals[o].run # r
    <2>1. \A o \in Proposals : Calling(o)' => Calling(o)
        BY <1>6, IdleProposal DEF Calling
    <2> QED
        BY <2>1, <1>1, NobodyWaits
<1> QED
    BY <1>2, <1>3, <1>4, <1>5, <1>6, <1>7, AIRowWritten

LEMMA ClaimKeeps ==
  ASSUME AIInv, NEW r \in DOMAIN aiRuns, NEW connected \in BOOLEAN, ClaimAIRun(r, connected)
  PROVE  AIInv'
<1>t. AITypeOK
    BY DEF AIInv
<1>0. aiRuns[r].kind \in Queued /\ UNCHANGED <<proposals, inputs>>
    BY DEF AIInv, AIQueueInv, ClaimAIRun
<1>1. CASE Claimable(r)
    <2> DEFINE calls == IF connected THEN 1 ELSE 0
    <2>1. aiRuns[r].calls = 0 /\ aiRuns[r].est <= aiRuns[r].cost
        BY <1>0, <1>1 DEF AIInv, AIQueueInv, Claimable
    <2>2. /\ aiRuns' = [aiRuns EXCEPT ![r].status = "running", ![r].calls = calls]
          /\ executing' = executing \cup {r} /\ aiQueue' = aiQueue
        BY <1>1, <2>1 DEF ClaimAIRun
    <2>3. calls \in Nat /\ calls \in 0..1
        OBVIOUS
    <2> HIDE DEF calls
    <2>4. aiRuns' = [aiRuns EXCEPT ![r] = NewRow(aiRuns[r], aiRuns[r].cost, "running", calls,
                                                aiRuns[r].made, aiRuns[r].madeFrom)]
        BY <1>t, <2>2, AITypes DEF NewRow, AIRunRow
    <2>5. "running" \in Statuses /\ aiRuns[r].cost \in Estimates \cup Bills
        BY <1>t, RowTypes DEF Statuses
    <2> QED
        BY <1>0, <2>1, <2>2, <2>3, <2>4, <2>5, NobodyWaits, WorkerWrites
<1>2. CASE ~Claimable(r)
    <2>1. aiQueue' \subseteq aiQueue /\ UNCHANGED <<aiRuns, executing, proposals, inputs>>
        BY <1>0, <1>2 DEF ClaimAIRun
    <2> QED
        BY <2>1 DEF AIInv, AITypeOK, AIRequestInv, AIQueueInv, AIRowsInv, Calling
<1> QED
    BY <1>1, <1>2

LEMMA QueuedEnds ==
  ASSUME AIInv, NEW r \in DOMAIN aiRuns, NEW cost \in Bills, FinishQueuedRun(r, cost) \/ FailQueuedRun(r, cost)
  PROVE  /\ AIInv'
         /\ \E reached \in Statuses :
              aiRuns' = [aiRuns EXCEPT ![r] = NewRow(aiRuns[r], Billed(r, cost), reached, aiRuns[r].calls,
                                                    aiRuns[r].made, aiRuns[r].madeFrom)]
<1>t. AITypeOK
    BY DEF AIInv
<1>0. aiRuns[r].kind \in Queued /\ UNCHANGED <<proposals, inputs>>
    BY DEF AIInv, AIQueueInv, FinishQueuedRun, FailQueuedRun
<1>1. /\ aiRuns[r] \in AIRunRow /\ aiRuns[r].est \in Nat /\ aiRuns[r].est \in Estimates
      /\ cost \in Nat /\ aiRuns[r].calls \in Nat /\ aiRuns[r].calls <= 1
    BY <1>t, RowTypes, AIAssumption DEF AIInv, AIRowsInv, AIRowOK
<1>2. Billed(r, cost) \in Estimates \cup Bills /\ aiRuns[r].est <= Billed(r, cost)
    BY <1>1 DEF Billed
<1>3. PICK reached \in {"failed", "pending_approval"} :
        /\ aiRuns' = [aiRuns EXCEPT ![r].cost = Billed(r, cost), ![r].status = reached]
        /\ reached = "pending_approval" => aiRuns[r].calls > 0
        /\ aiQueue' \subseteq aiQueue /\ executing' \subseteq executing
    <2>1. CASE FinishQueuedRun(r, cost)
        <3>1. PICK reached \in {"failed", "pending_approval"} :
                reached = IF Billed(r, cost) > aiRuns[r].max THEN "failed" ELSE "pending_approval"
            OBVIOUS
        <3>2. aiRuns' = [aiRuns EXCEPT ![r].cost = Billed(r, cost), ![r].status = reached]
            BY <2>1, <3>1, Zenon DEF FinishQueuedRun
        <3> QED
            BY <2>1, <3>2 DEF FinishQueuedRun
    <2>2. CASE FailQueuedRun(r, cost)
        BY <2>2 DEF FailQueuedRun
    <2> QED
        BY <2>1, <2>2
<1>4. aiRuns' = [aiRuns EXCEPT ![r] = NewRow(aiRuns[r], Billed(r, cost), reached, aiRuns[r].calls,
                                            aiRuns[r].made, aiRuns[r].madeFrom)]
    BY <1>t, <1>3, AITypes DEF NewRow, AIRunRow
<1>5. reached \in Statuses /\ reached # "reserved" /\ aiRuns[r].calls \in aiRuns[r].calls..1
      /\ executing' \subseteq executing \cup {r}
    BY <1>1, <1>3 DEF Statuses
<1>6. AIInv'
    BY <1>0, <1>1, <1>2, <1>3, <1>4, <1>5, NobodyWaits, WorkerWrites
<1> QED
    BY <1>4, <1>5, <1>6

LEMMA DecideKeeps ==
  ASSUME AIInv, NEW r \in DOMAIN aiRuns, NEW decision \in {"approved", "rejected"}, DecideAIRun(r, decision)
  PROVE  AIInv'
<1>t. AITypeOK
    BY DEF AIInv
<1>1. /\ aiRuns' = [aiRuns EXCEPT ![r].status = decision] /\ aiRuns[r].status = "pending_approval"
      /\ UNCHANGED <<proposals, aiQueue, executing, inputs>>
    BY DEF DecideAIRun
<1>2. aiRuns' = [aiRuns EXCEPT ![r] = NewRow(aiRuns[r], aiRuns[r].cost, decision, aiRuns[r].calls,
                                            aiRuns[r].made, aiRuns[r].madeFrom)]
    BY <1>t, <1>1, AITypes DEF NewRow, AIRunRow
<1>3. /\ aiRuns[r].calls > 0 /\ aiRuns[r].calls \in aiRuns[r].calls..1 /\ aiRuns[r].calls \in Nat
      /\ aiRuns[r].cost \in Estimates \cup Bills /\ decision \in Statuses /\ decision # "reserved"
    BY <1>t, <1>1, RowTypes DEF AIInv, AIRowsInv, AIRowOK, Statuses
<1>4. aiRuns[r].kind \in Queued => aiRuns[r].est <= aiRuns[r].cost
    BY DEF AIInv, AIQueueInv
<1> QED
    BY <1>1, <1>2, <1>3, <1>4, NobodyWaits, WorkerWrites

LEMMA UseKeeps ==
  ASSUME AIInv, NEW r \in DOMAIN aiRuns, NEW kind, Use(r, kind)
  PROVE  AIInv'
<1> DEFINE old == aiRuns[r]
           row == NewRow(old, old.cost, old.status, old.calls, 1, inputs)
<1>t. AITypeOK
    BY DEF AIInv
<1>1. /\ old.made = 0 /\ old.status = "approved" /\ (old.kind \in PageKinds => old.inputs = inputs)
      /\ UNCHANGED <<proposals, aiQueue, executing, inputs>>
    BY DEF Use, Usable
<1>2. aiRuns' = [aiRuns EXCEPT ![r].made = 1, ![r].madeFrom = inputs]
    BY <1>1 DEF Use
<1>3. aiRuns' = [aiRuns EXCEPT ![r] = row]
    BY <1>t, <1>2, AITypes DEF NewRow, AIRunRow
<1>4. /\ old \in AIRunRow /\ old.cost \in Estimates \cup Bills /\ old.status \in Statuses
      /\ old.calls \in Nat /\ inputs \in 0..MaxInputs
    BY <1>t, RowTypes, AITypes, AIAssumption
<1>5. /\ row \in AIRunRow /\ row.kind = old.kind /\ row.est = old.est /\ row.inputs = old.inputs
      /\ row.cost = old.cost /\ row.status = old.status /\ row.calls = old.calls
      /\ row.made = 1 /\ row.madeFrom = inputs
    BY <1>4, RowFields
<1>6. AIRowOK(old) /\ (old.kind \in Queued => old.est <= old.cost)
    BY DEF AIInv, AIRowsInv, AIQueueInv
<1> HIDE DEF row, old
<1>7. AIRowOK(row)
    BY <1>1, <1>5, <1>6 DEF AIRowOK
<1>8. \A q \in Proposals : (Calling(q)' => proposals[q].run # r) /\ proposals'[q] = proposals[q]
    BY <1>1, NobodyWaits DEF Calling, old
<1>9. /\ row.kind = aiRuns[r].kind /\ proposals' \in [Proposals -> ProposalRow]
      /\ row.kind \in Queued => row.est <= row.cost /\ (row.status = "reserved" => row.calls = 0)
    BY <1>t, <1>1, <1>5, <1>6, AITypes DEF old
<1> QED
    BY <1>1, <1>3, <1>5, <1>7, <1>8, <1>9, AIRowWritten

\* Every step keeps the invariant.
LEMMA AIStepInv == AIInv /\ [AINext]_aiVars => AIInv'
<1> SUFFICES ASSUME AIInv, [AINext]_aiVars PROVE AIInv'
    OBVIOUS
<1>1. ASSUME NEW q \in Proposals, NEW est \in Estimates, NEW max \in Estimates,
             \/ PrepareArchitecture(q, est, max) \/ PrepareGeo(q, est, max)
             \/ PreparePageCopy(q, est, max) \/ PrepareSeoBrief(q, est, max)
             \/ PrepareBlockSlots(q, est, max) \/ PrepareIntent(q, est, max)
      PROVE  AIInv'
    BY <1>1, PreparationsKeep
<1>2. ASSUME NEW q \in Proposals, ReserveAIRun(q) \/ MarkQueueUnavailable(q) \/ AbandonAIProposal(q)
      PROVE  AIInv'
    BY <1>2, ReserveKeeps, MarkKeeps, AbandonKeeps
<1>3. ASSUME NEW q \in Proposals, NEW taken \in BOOLEAN, NEW error \in BOOLEAN, EnqueueAIRun(q, taken, error)
      PROVE  AIInv'
    BY <1>3, EnqueueKeeps
<1>4. ASSUME NEW q \in Proposals, NEW cost \in Bills,
             \/ FinishSeoBrief(q, cost) \/ FinishBlockSlots(q, cost) \/ FinishGeo(q, cost)
             \/ FinishAIPageDraft(q, cost) \/ FailAIProposal(q, cost)
      PROVE  AIInv'
    BY <1>4, AnswersKeep
<1>5. ASSUME NEW r \in DOMAIN aiRuns,
             \/ CreateDraftFromSeoBrief(r) \/ CreateDraftFromBlockSlots(r) \/ MaterializeIntentDraft(r)
             \/ ImportArchitecture(r) \/ ApplyGeoProposal(r)
      PROVE  AIInv'
    BY <1>5, UseKeeps DEF CreateDraftFromSeoBrief, CreateDraftFromBlockSlots, MaterializeIntentDraft,
                          ImportArchitecture, ApplyGeoProposal
<1>6. ASSUME NEW r \in DOMAIN aiRuns, NEW connected \in BOOLEAN, ClaimAIRun(r, connected) PROVE AIInv'
    BY <1>6, ClaimKeeps
<1>7. ASSUME NEW r \in DOMAIN aiRuns, NEW cost \in Bills, FinishQueuedRun(r, cost) \/ FailQueuedRun(r, cost)
      PROVE  AIInv'
    BY <1>7, QueuedEnds
<1>8. ASSUME NEW r \in DOMAIN aiRuns, NEW decision \in {"approved", "rejected"}, DecideAIRun(r, decision)
      PROVE  AIInv'
    BY <1>8, DecideKeeps
<1>9. CASE CrashAIWorker
    BY <1>9 DEF CrashAIWorker, AIInv, AITypeOK, AIRequestInv, AIQueueInv, AIRowsInv, Calling
<1>10. CASE ChangeInputs
    <2>1. inputs' \in 1..MaxInputs /\ UNCHANGED <<aiRuns, proposals, aiQueue, executing>>
        BY <1>10, AITypes, AIAssumption DEF ChangeInputs, AIInv
    <2> QED
        BY <2>1 DEF AIInv, AITypeOK, AIRequestInv, AIQueueInv, AIRowsInv, Calling
<1>11. CASE UNCHANGED aiVars
    BY <1>11 DEF aiVars, AIInv, AITypeOK, AIRequestInv, AIQueueInv, AIRowsInv, Calling
<1> QED
    BY <1>1, <1>2, <1>3, <1>4, <1>5, <1>6, <1>7, <1>8, <1>9, <1>10, <1>11 DEF AINext

-----------------------------------------------------------------------------
(* The budget.                                                              *)

\* What of a row counts as committed.
Share(row) == IF row.cost < row.est THEN row.cost ELSE row.est

LEMMA FunctionsAreSeqs ==
  ASSUME NEW size \in Nat, NEW f \in [1..size -> Nat]
  PROVE  f \in Seq(Nat)
OBVIOUS

\* The rows' costs and shares are lists of amounts.
LEMMA Amounts ==
  ASSUME NEW rows \in Seq(AIRunRow)
  PROVE  /\ [r \in DOMAIN rows |-> Share(rows[r])] \in Seq(Nat)
         /\ [r \in DOMAIN rows |-> rows[r].cost] \in Seq(Nat)
         /\ Len([r \in DOMAIN rows |-> Share(rows[r])]) = Len(rows)
         /\ Len([r \in DOMAIN rows |-> rows[r].cost]) = Len(rows)
         /\ \A r \in 1..Len(rows) : Share(rows[r]) \in Nat /\ rows[r].cost \in Nat /\ Share(rows[r]) <= rows[r].cost
<1>1. DOMAIN rows = 1..Len(rows) /\ Len(rows) \in Nat /\ \A r \in DOMAIN rows : rows[r] \in AIRunRow
    BY AIRows
<1>2. \A r \in 1..Len(rows) : Share(rows[r]) \in Nat /\ rows[r].cost \in Nat /\ Share(rows[r]) <= rows[r].cost
    <2>1. \A row \in AIRunRow : row.est \in Nat /\ row.cost \in Nat
        BY AIAssumption DEF AIRunRow
    <2>2. \A r \in 1..Len(rows) : rows[r].est \in Nat /\ rows[r].cost \in Nat
        BY <1>1, <2>1
    <2> QED
        BY <2>2 DEF Share
<1>3. /\ [r \in 1..Len(rows) |-> Share(rows[r])] \in Seq(Nat)
      /\ [r \in 1..Len(rows) |-> rows[r].cost] \in Seq(Nat)
    <2>1. /\ [r \in 1..Len(rows) |-> Share(rows[r])] \in [1..Len(rows) -> Nat]
          /\ [r \in 1..Len(rows) |-> rows[r].cost] \in [1..Len(rows) -> Nat]
        BY <1>2
    <2> QED
        BY <1>1, <2>1, FunctionsAreSeqs, Zenon
<1>4. /\ Len([r \in 1..Len(rows) |-> Share(rows[r])]) = Len(rows)
      /\ Len([r \in 1..Len(rows) |-> rows[r].cost]) = Len(rows)
    BY <1>1, <1>3, LenProperties
<1> QED
    BY <1>1, <1>2, <1>3, <1>4

LEMMA CommittedIs == Committed = Total([r \in DOMAIN aiRuns |-> Share(aiRuns[r])])
BY DEF Committed, Share

\* What is committed is a part of what is spent.
LEMMA CommittedWithinSpent ==
  ASSUME AITypeOK
  PROVE  Committed \in Nat /\ Spent \in Nat /\ Committed <= Spent
<1> DEFINE a == [r \in DOMAIN aiRuns |-> Share(aiRuns[r])]
           b == [r \in DOMAIN aiRuns |-> aiRuns[r].cost]
<1>1. aiRuns \in Seq(AIRunRow) /\ DOMAIN aiRuns = 1..Len(aiRuns)
    BY AITypes
<1>2. /\ a \in Seq(Nat) /\ b \in Seq(Nat) /\ Len(a) = Len(b) /\ Len(a) = Len(aiRuns)
      /\ \A r \in 1..Len(aiRuns) : Share(aiRuns[r]) <= aiRuns[r].cost
    BY <1>1, Amounts
<1>3. \A r \in 1..Len(a) : a[r] <= b[r]
    BY <1>1, <1>2
<1> HIDE DEF a, b
<1>4. Total(a) \in Nat /\ Total(b) \in Nat /\ Total(a) <= Total(b)
    BY <1>2, <1>3, TotalOrdered, Zenon
<1> QED
    BY <1>4, CommittedIs DEF a, b, Spent

\* A step that keeps the estimates, and the costs of the rows billed below
\* theirs, commits nothing.
LEMMA NothingCommitted ==
  ASSUME AITypeOK, AITypeOK', DOMAIN aiRuns' = DOMAIN aiRuns,
         \A r \in DOMAIN aiRuns :
           /\ aiRuns'[r].est = aiRuns[r].est
           /\ aiRuns'[r].cost = aiRuns[r].cost \/ aiRuns[r].est <= aiRuns[r].cost
  PROVE  Committed' \in Nat /\ Committed' <= Committed
<1> DEFINE a == [r \in DOMAIN aiRuns |-> Share(aiRuns[r])]
           rows == aiRuns'
           b == [r \in DOMAIN rows |-> Share(rows[r])]
<1>1. /\ aiRuns \in Seq(AIRunRow) /\ rows \in Seq(AIRunRow) /\ DOMAIN rows = DOMAIN aiRuns
      /\ DOMAIN aiRuns = 1..Len(aiRuns) /\ DOMAIN rows = 1..Len(rows)
      /\ Len(aiRuns) \in Nat /\ Len(rows) \in Nat
    BY AIRows DEF AITypeOK
<1>2. \A r \in DOMAIN aiRuns : Share(rows[r]) <= Share(aiRuns[r])
    <2>1. \A r \in DOMAIN aiRuns : /\ aiRuns[r].est \in Nat /\ aiRuns[r].cost \in Nat
                                   /\ rows[r].est \in Nat /\ rows[r].cost \in Nat
        BY <1>1, AIRows, AIAssumption DEF AIRunRow
    <2> QED
        BY <2>1 DEF Share
<1>3. a \in Seq(Nat) /\ b \in Seq(Nat) /\ Len(a) = Len(aiRuns) /\ Len(b) = Len(rows)
    BY <1>1, Amounts
<1>4. Len(aiRuns) = Len(rows)
    BY <1>1
<1>5. \A r \in 1..Len(b) : b[r] <= a[r]
    BY <1>1, <1>2, <1>3, <1>4
<1>6. Committed = Total(a) /\ Committed' = Total(b)
    BY CommittedIs DEF Committed, Share
<1> HIDE DEF a, b
<1>7. Total(b) \in Nat /\ Total(b) <= Total(a)
    BY <1>3, <1>4, <1>5, TotalOrdered, Zenon
<1> QED
    BY <1>6, <1>7

\* A reservation commits its estimate, and leaves the limit.
LEMMA ReservedWithinLimit ==
  ASSUME AIInv, NEW q \in Proposals, ReserveAIRun(q), aiRuns' # aiRuns
  PROVE  Committed' >= Committed /\ Committed' <= BudgetLimit /\ Committed' \in Nat
<1> DEFINE p == proposals[q]
           row == Reservation(p)
           a == [r \in DOMAIN aiRuns |-> Share(aiRuns[r])]
           rows == aiRuns'
           b == [r \in DOMAIN rows |-> Share(rows[r])]
<1>t. AITypeOK
    BY DEF AIInv
<1>1. /\ p.phase = "prepared" /\ CanReserve(p.est) /\ Len(aiRuns) < MaxAIRuns
      /\ aiRuns' = Append(aiRuns, row)
    BY Zenon DEF ReserveAIRun, Reservation
<1>2. row \in AIRunRow /\ p.est \in Nat /\ row.est = p.est /\ row.cost = p.est
    <2>1. p.est \in Estimates
        BY <1>1 DEF AIInv, AIRequestInv
    <2> QED
        BY <1>1, <2>1, ReservationRow, AIAssumption DEF Reservation
<1>3. Share(row) = p.est
    BY <1>2 DEF Share
<1> HIDE DEF row
<1>4. /\ rows \in Seq(AIRunRow) /\ Len(rows) = Len(aiRuns) + 1
      /\ \A r \in DOMAIN aiRuns : rows[r] = aiRuns[r]
      /\ rows[Len(aiRuns) + 1] = row /\ DOMAIN rows = 1..(Len(aiRuns) + 1)
      /\ DOMAIN aiRuns = 1..Len(aiRuns) /\ Len(aiRuns) \in Nat /\ aiRuns \in Seq(AIRunRow)
    BY <1>t, <1>1, <1>2, RunAppended, AITypes
<1>5. /\ a \in Seq(Nat) /\ b \in Seq(Nat) /\ Len(a) = Len(aiRuns) /\ Len(b) = Len(aiRuns) + 1
      /\ \A r \in 1..Len(aiRuns) : a[r] \in Nat
    BY <1>4, Amounts
<1>6. b = Append(a, p.est)
    <2>1. /\ Append(a, p.est) \in Seq(Nat) /\ Len(Append(a, p.est)) = Len(a) + 1
          /\ \A r \in 1..Len(a) : Append(a, p.est)[r] = a[r]
          /\ Append(a, p.est)[Len(a) + 1] = p.est
        BY <1>2, <1>5, AppendProperties
    <2>2. \A r \in 1..Len(a) : b[r] = a[r]
        BY <1>4, <1>5
    <2>3. b[Len(a) + 1] = p.est
        BY <1>3, <1>4, <1>5
    <2> HIDE DEF a, b
    <2>4. \A r \in 1..Len(b) : b[r] = Append(a, p.est)[r]
        BY <1>4, <1>5, <2>1, <2>2, <2>3
    <2> QED
        BY <1>5, <2>1, <2>4, SeqEqual
<1>7. Committed = Total(a) /\ Committed' = Total(b)
    BY CommittedIs DEF Committed, Share
<1> HIDE DEF a, b
<1>8. Total(b) = Total(a) + p.est
    BY <1>2, <1>5, <1>6, TotalAppend
<1>9. Spent + p.est <= BudgetLimit
    BY <1>1 DEF CanReserve, WithinBudget
<1> QED
    BY <1>t, <1>2, <1>7, <1>8, <1>9, CommittedWithinSpent, AIAssumption

\* A bill is written only where the estimate is already covered.
LEMMA BillsCommitNothing ==
  ASSUME AIInv, AIInv', NEW r \in DOMAIN aiRuns, NEW row \in AIRunRow,
         aiRuns' = [aiRuns EXCEPT ![r] = row], row.est = aiRuns[r].est,
         row.cost = aiRuns[r].cost \/ aiRuns[r].est <= aiRuns[r].cost
  PROVE  Committed' \in Nat /\ Committed' <= Committed
<1>1. AITypeOK /\ AITypeOK'
    BY DEF AIInv
<1>2. /\ DOMAIN aiRuns' = DOMAIN aiRuns
      /\ \A s \in DOMAIN aiRuns : aiRuns'[s] = IF s = r THEN row ELSE aiRuns[s]
    BY <1>1, AIRunWritten
<1>3. \A s \in DOMAIN aiRuns : /\ aiRuns'[s].est = aiRuns[s].est
                               /\ aiRuns'[s].cost = aiRuns[s].cost \/ aiRuns[s].est <= aiRuns[s].cost
    BY <1>2
<1> QED
    BY <1>1, <1>2, <1>3, NothingCommitted

LEMMA RowsKeptCommitNothing ==
  ASSUME aiRuns' = aiRuns
  PROVE  Committed' = Committed
BY DEF Committed

\* An answer in the request, or a mark by it, commits nothing.
LEMMA RequestsCommitNothing ==
  ASSUME AIInv, AIInv', NEW q \in Proposals, NEW cost \in Bills,
         \/ FinishSeoBrief(q, cost) \/ FinishBlockSlots(q, cost) \/ FinishGeo(q, cost)
         \/ FinishAIPageDraft(q, cost) \/ FailAIProposal(q, cost)
  PROVE  Committed' \in Nat /\ Committed' <= Committed
<1>t. AITypeOK /\ AITypeOK'
    BY DEF AIInv
<1>1. PICK r \in DOMAIN aiRuns : r = proposals[q].run /\ aiRuns[r].est <= aiRuns[r].cost
    <2>1. PICK r \in DOMAIN aiRuns : r = proposals[q].run /\ aiRuns[r].cost = aiRuns[r].est
        BY DEF AIInv, AIRequestInv, Calling, FinishSeoBrief, FinishBlockSlots, FinishGeo, FinishProposal,
               FinishAIPageDraft, FailAIProposal, Answering
    <2>2. aiRuns[r].est \in Nat
        BY <1>t, RowTypes
    <2> QED
        BY <2>1, <2>2
<1>2. PICK reached \in Statuses, made \in {0, 1}, madeFrom \in 0..MaxInputs :
        Answered(q, cost, reached, made, madeFrom)
    BY AnswersKeep
<1> DEFINE row == NewRow(aiRuns[r], cost, reached, aiRuns[r].calls, made, madeFrom)
<1>3. row \in AIRunRow /\ row.est = aiRuns[r].est
    BY <1>t, RowTypes, RowFields
<1>4. aiRuns' = [aiRuns EXCEPT ![r] = row]
    BY <1>1, <1>2 DEF Answered
<1> HIDE DEF row
<1> QED
    BY <1>1, <1>3, <1>4, BillsCommitNothing

\* No step of the worker or of a decision commits anything either.
LEMMA RunsCommitNothing ==
  ASSUME AIInv, AIInv', NEW r \in DOMAIN aiRuns,
         \/ \E kind \in AIKinds : Use(r, kind)
         \/ \E connected \in BOOLEAN : ClaimAIRun(r, connected)
         \/ \E cost \in Bills : FinishQueuedRun(r, cost) \/ FailQueuedRun(r, cost)
         \/ \E decision \in {"approved", "rejected"} : DecideAIRun(r, decision)
  PROVE  Committed' \in Nat /\ Committed' <= Committed
<1>t. AITypeOK /\ AITypeOK'
    BY DEF AIInv
<1>2. aiRuns \in Seq(AIRunRow) /\ \A s \in DOMAIN aiRuns : aiRuns[s] \in AIRunRow
    BY <1>t, AITypes
<1>3. /\ DOMAIN aiRuns' = DOMAIN aiRuns
      /\ \A s \in DOMAIN aiRuns : s # r => aiRuns'[s] = aiRuns[s]
      /\ aiRuns'[r].est = aiRuns[r].est
      /\ aiRuns'[r].cost = aiRuns[r].cost \/ aiRuns[r].est <= aiRuns[r].cost
    <2>1. ASSUME NEW kind, Use(r, kind) PROVE <1>3!:
        BY <2>1, <1>2 DEF Use, AIRunRow
    <2>2. ASSUME NEW connected \in BOOLEAN, ClaimAIRun(r, connected) PROVE <1>3!:
        BY <2>2, <1>2 DEF ClaimAIRun, AIRunRow
    <2>3. ASSUME NEW cost \in Bills, FinishQueuedRun(r, cost) \/ FailQueuedRun(r, cost) PROVE <1>3!:
        <3>1. aiRuns[r].est <= aiRuns[r].cost
            BY <2>3 DEF AIInv, AIQueueInv, FinishQueuedRun, FailQueuedRun
        <3>2. PICK reached \in Statuses :
                aiRuns' = [aiRuns EXCEPT ![r] = NewRow(aiRuns[r], Billed(r, cost), reached, aiRuns[r].calls,
                                                      aiRuns[r].made, aiRuns[r].madeFrom)]
            BY <2>3, QueuedEnds
        <3> QED
            BY <3>1, <3>2, <1>2 DEF NewRow, AIRunRow
    <2>4. ASSUME NEW decision, DecideAIRun(r, decision) PROVE <1>3!:
        BY <2>4, <1>2 DEF DecideAIRun, AIRunRow
    <2> QED
        BY <2>1, <2>2, <2>3, <2>4
<1>4. \A s \in DOMAIN aiRuns : /\ aiRuns'[s].est = aiRuns[s].est
                               /\ aiRuns'[s].cost = aiRuns[s].cost \/ aiRuns[s].est <= aiRuns[s].cost
    BY <1>3
<1> QED
    BY <1>t, <1>3, <1>4, NothingCommitted

\* A step of the ledger, or a stutter.
LedgerStep == [Ledger!LedgerNext]_Committed

LEMMA GivenBack ==
  ASSUME AIInv, Committed' \in Nat, Committed' <= Committed
  PROVE  LedgerStep
<1>1. Committed \in Nat
    BY CommittedWithinSpent DEF AIInv
<1> QED
    BY <1>1 DEF LedgerStep, Ledger!LedgerNext, Ledger!GiveBack

LEMMA AILedgerStep == AIInv /\ AIInv' /\ [AINext]_aiVars => LedgerStep
<1> SUFFICES ASSUME AIInv, AIInv', [AINext]_aiVars PROVE LedgerStep
    OBVIOUS
<1>t. Committed \in Nat
    BY CommittedWithinSpent DEF AIInv
<1>k. ASSUME aiRuns' = aiRuns PROVE LedgerStep
    BY <1>k, <1>t, RowsKeptCommitNothing, GivenBack
<1>1. ASSUME NEW q \in Proposals, NEW est \in Estimates, NEW max \in Estimates,
             \/ PrepareArchitecture(q, est, max) \/ PrepareGeo(q, est, max)
             \/ PreparePageCopy(q, est, max) \/ PrepareSeoBrief(q, est, max)
             \/ PrepareBlockSlots(q, est, max) \/ PrepareIntent(q, est, max)
      PROVE  LedgerStep
    BY <1>1, <1>k DEF PrepareArchitecture, PrepareGeo, PreparePageCopy, PrepareSeoBrief, PrepareBlockSlots,
                     PrepareIntent, Prepare
<1>2. ASSUME NEW q \in Proposals, ReserveAIRun(q) PROVE LedgerStep
    <2>1. CASE aiRuns' # aiRuns
        <3>1. Committed' >= Committed /\ Committed' <= BudgetLimit /\ Committed' \in Nat
            BY <1>2, <2>1, ReservedWithinLimit
        <3> QED
            BY <3>1, <1>t DEF LedgerStep, Ledger!LedgerNext, Ledger!Commit
    <2> QED
        BY <2>1, <1>k
<1>3. ASSUME NEW q \in Proposals, MarkQueueUnavailable(q) PROVE LedgerStep
    <2>1. PICK r \in DOMAIN aiRuns : r = proposals[q].run
        BY <1>3 DEF AIInv, AIRequestInv, MarkQueueUnavailable
    <2> DEFINE row == [aiRuns[r] EXCEPT !.status = "failed"]
    <2>2. row \in AIRunRow /\ row.est = aiRuns[r].est /\ row.cost = aiRuns[r].cost
        BY RowTypes DEF AIInv, AIRunRow
    <2>3. aiRuns' = [aiRuns EXCEPT ![r] = row]
        BY <1>3, <2>1, AITypes DEF MarkQueueUnavailable, AIInv
    <2> HIDE DEF row
    <2> QED
        BY <2>2, <2>3, BillsCommitNothing, GivenBack
<1>4. ASSUME NEW q \in Proposals, NEW taken \in BOOLEAN, NEW error \in BOOLEAN,
             AbandonAIProposal(q) \/ EnqueueAIRun(q, taken, error)
      PROVE  LedgerStep
    BY <1>4, <1>k DEF AbandonAIProposal, EnqueueAIRun
<1>5. ASSUME NEW q \in Proposals, NEW cost \in Bills,
             \/ FinishSeoBrief(q, cost) \/ FinishBlockSlots(q, cost) \/ FinishGeo(q, cost)
             \/ FinishAIPageDraft(q, cost) \/ FailAIProposal(q, cost)
      PROVE  LedgerStep
    BY <1>5, RequestsCommitNothing, GivenBack
<1>6. ASSUME NEW r \in DOMAIN aiRuns,
             \/ CreateDraftFromSeoBrief(r) \/ CreateDraftFromBlockSlots(r) \/ MaterializeIntentDraft(r)
             \/ ImportArchitecture(r) \/ ApplyGeoProposal(r)
             \/ \E connected \in BOOLEAN : ClaimAIRun(r, connected)
             \/ \E cost \in Bills : FinishQueuedRun(r, cost) \/ FailQueuedRun(r, cost)
             \/ \E decision \in {"approved", "rejected"} : DecideAIRun(r, decision)
      PROVE  LedgerStep
    <2>1. {"brief", "slots", "intent", "architecture", "geo"} \subseteq AIKinds
        BY DEF AIKinds, PageKinds, Queued
    <2>2. \/ \E kind \in AIKinds : Use(r, kind)
          \/ \E connected \in BOOLEAN : ClaimAIRun(r, connected)
          \/ \E cost \in Bills : FinishQueuedRun(r, cost) \/ FailQueuedRun(r, cost)
          \/ \E decision \in {"approved", "rejected"} : DecideAIRun(r, decision)
        BY <1>6, <2>1 DEF CreateDraftFromSeoBrief, CreateDraftFromBlockSlots, MaterializeIntentDraft,
                          ImportArchitecture, ApplyGeoProposal
    <2>3. Committed' \in Nat /\ Committed' <= Committed
        BY <2>2, RunsCommitNothing
    <2> QED
        BY <2>3, GivenBack
<1>7. CASE CrashAIWorker \/ ChangeInputs \/ UNCHANGED aiVars
    BY <1>7, <1>k DEF CrashAIWorker, ChangeInputs, aiVars
<1>8. CASE \E q \in Proposals : \E taken \in BOOLEAN, error \in BOOLEAN : EnqueueAIRun(q, taken, error)
    BY <1>4, <1>8
<1>9. CASE \E q \in Proposals : AbandonAIProposal(q)
    BY <1>4, <1>9
<1> QED
    BY <1>1, <1>2, <1>3, <1>5, <1>6, <1>7, <1>8, <1>9 DEF AINext

-----------------------------------------------------------------------------
\* Every variable keeps its type, for any number of requests, rows, versions
\* and amounts.
THEOREM AITypeCorrect == AISpec => []AITypeOK
<1>1. AIInv => AITypeOK
    BY DEF AIInv
<1> QED
    BY AIInitInv, AIStepInv, <1>1, PTL DEF AISpec

\* The provider is called at most once for a run, however often its job is
\* delivered and wherever the worker dies (architecture_proposal_task).
THEOREM ProviderCalledOnce == AISpec => []CalledOnce
<1>1. AIInv => CalledOnce
    BY DEF AIInv, AIRowsInv, AIRowOK, CalledOnce
<1> QED
    BY AIInitInv, AIStepInv, <1>1, PTL DEF AISpec

\* One approval makes one draft, import or application, of the plan and facts
\* the operator was quoted (create_draft_from_seo_brief).
THEOREM ApprovalUsedOnce == AISpec => []UsedOnce
<1>1. AIInv => UsedOnce
    BY DEF AIInv, AIRowsInv, AIRowOK, UsedOnce
<1> QED
    BY AIInitInv, AIStepInv, <1>1, PTL DEF AISpec

\* The runs implement the ledger: however many requests are prepared at once,
\* what they commit never exceeds the budget (reserve_ai_budget).
THEOREM RunsImplementLedger == AISpec => WithinLedger
<1>1. AIInit => AIInv /\ Ledger!LedgerInit
    <2>1. ASSUME AIInit PROVE Committed = Total(<<>>)
        <3> DEFINE a == [r \in DOMAIN aiRuns |-> Share(aiRuns[r])]
        <3>1. aiRuns \in Seq(AIRunRow) /\ Len(aiRuns) = 0
            BY <2>1 DEF AIInit
        <3>2. a \in Seq(Nat) /\ Len(a) = 0
            BY <3>1, Amounts
        <3>3. a = <<>>
            BY <3>2, EmptySeq
        <3> QED
            BY <3>3, CommittedIs
    <2> QED
        BY <2>1, AIInitInv, TotalEmpty DEF Ledger!LedgerInit
<1>2. AIInv /\ [AINext]_aiVars => AIInv' /\ LedgerStep
    BY AIStepInv, AILedgerStep
<1> QED
    BY <1>1, <1>2, PTL DEF AISpec, WithinLedger, Ledger!LedgerSpec, LedgerStep

-----------------------------------------------------------------------------
(***************************************************************************)
(* Prompts, for any revisions, reviewers and releases of the packaged      *)
(* prompt: the types, and that instructions which reach a provider were    *)
(* decided on and evaluated.                                               *)
(***************************************************************************)

-----------------------------------------------------------------------------
(* The inductive invariant.                                                *)

\* A revision that exists was made against a packaged prompt, and a request
\* holds a revision that exists.
PromptsExist ==
  /\ \A v \in Revisions : revisions[v].state # "none" \/ revisions[v].active => revisions[v].base # 0
  /\ \A u \in Reviewers : reviews[u] # NoReview =>
       /\ revisions[reviews[u].rev].state # "none"
       /\ reviews[u].read.base # 0

\* What was decided on, and what passed the evaluation with the packaged prompt
\* it extends.
Vetted(v) ==
  /\ revisions[v].reviewed
  /\ [rev |-> v, base |-> revisions[v].base] \in evaluations

\* Only vetted revisions are active or about to be activated: no request takes
\* back a decision or an evaluation, or changes what a revision extends.
PromptsVetted ==
  /\ \A v \in Revisions : revisions[v].state = "approved" => revisions[v].reviewed
  /\ \A v \in Revisions : revisions[v].active => Vetted(v)
  /\ \A u \in Reviewers : reviews[u].op = "activate" => Vetted(reviews[u].rev)

PromptInv == PromptTypeOK /\ PromptsExist /\ PromptsVetted

LEMMA PromptInitInv == PromptInit => PromptInv
BY PromptAssumption
DEF PromptInit, PromptInv, PromptTypeOK, PromptsExist, PromptsVetted, Vetted, NoRevision, NoReview, RevisionRow, Ops

-----------------------------------------------------------------------------
(* What every step keeps.                                                  *)

\* No step unmakes a revision, changes the packaged prompt it extends, or takes
\* back a decision or an evaluation.
PromptsKept ==
  /\ \A v \in Revisions : revisions[v].state # "none" =>
       /\ revisions'[v].state # "none"
       /\ revisions'[v].base = revisions[v].base
       /\ revisions[v].reviewed => revisions'[v].reviewed
  /\ evaluations \subseteq evaluations'

\* A request in progress names a revision of the table.
LEMMA PromptRequest ==
  ASSUME PromptTypeOK, NEW u \in Reviewers, reviews[u] # NoReview
  PROVE  reviews[u] \in [op : Ops, rev : Revisions, read : RevisionRow]
BY DEF PromptTypeOK

\* The request of a handler that has one is not the empty one.
LEMMA PromptWorking ==
  ASSUME NEW u \in Reviewers, reviews[u].op \in Ops
  PROVE  reviews[u] # NoReview
BY DEF NoReview, Ops

\* Ending a request leaves the requests of the others.
LEMMA PromptRequestDone ==
  ASSUME PromptTypeOK, NEW u \in Reviewers, Done(u)
  PROVE  /\ reviews' \in [Reviewers -> [op : Ops, rev : Revisions, read : RevisionRow] \cup {NoReview}]
         /\ \A w \in Reviewers : reviews'[w] = IF w = u THEN NoReview ELSE reviews[w]
BY DEF PromptTypeOK, Done

\* Requests that are kept or ended go on holding what they held.
LEMMA PromptRequestsKept ==
  ASSUME PromptInv, PromptsKept, revisions' \in [Revisions -> RevisionRow],
         \A w \in Reviewers : reviews'[w] \in {reviews[w], NoReview}
  PROVE  /\ \A w \in Reviewers : reviews'[w] # NoReview =>
              revisions'[reviews'[w].rev].state # "none" /\ reviews'[w].read.base # 0
         /\ \A w \in Reviewers : (reviews[w].op = "activate" => Vetted(reviews[w].rev))'
<1>1. \A v \in Revisions : revisions[v].state # "none" /\ Vetted(v) => Vetted(v)'
    BY DEF PromptsKept, Vetted
<1>2. ASSUME NEW w \in Reviewers, reviews'[w] # NoReview
      PROVE  /\ reviews'[w] = reviews[w] /\ reviews[w].rev \in Revisions
             /\ revisions[reviews[w].rev].state # "none" /\ reviews[w].read.base # 0
             /\ reviews[w].op = "activate" => Vetted(reviews[w].rev)
    <2>1. reviews'[w] = reviews[w] /\ reviews[w] # NoReview
        BY <1>2
    <2>2. reviews[w].rev \in Revisions
        BY <2>1, PromptRequest DEF PromptInv
    <2> QED
        BY <2>1, <2>2 DEF PromptInv, PromptsExist, PromptsVetted
<1>3. \A w \in Reviewers : reviews'[w] # NoReview =>
         revisions'[reviews'[w].rev].state # "none" /\ reviews'[w].read.base # 0
    BY <1>2 DEF PromptsKept
<1>4. ASSUME NEW w \in Reviewers PROVE (reviews[w].op = "activate" => Vetted(reviews[w].rev))'
    <2>1. CASE reviews'[w] = NoReview
        BY <2>1 DEF NoReview
    <2>2. CASE reviews'[w] # NoReview
        <3>1. reviews[w].op = "activate" => Vetted(reviews[w].rev)'
            <4>1. PICK v \in Revisions : v = reviews[w].rev
                BY <1>2, <2>2
            <4>2. reviews[w].op = "activate" => Vetted(v) /\ revisions[v].state # "none"
                BY <1>2, <2>2, <4>1
            <4>3. reviews'[w].rev = v /\ reviews'[w].op = reviews[w].op
                BY <1>2, <2>2, <4>1
            <4>4. reviews[w].op = "activate" => Vetted(v)'
                BY <1>1, <4>2
            <4> QED
                BY <4>3, <4>4 DEF Vetted
        <3> QED
            BY <3>1, <1>2, <2>2
    <2> QED
        BY <2>1, <2>2
<1> QED
    BY <1>3, <1>4

\* A step that changes one row to a state that is neither approved nor active,
\* and ends a request, keeps the invariant.
LEMMA RevisionMoved ==
  ASSUME PromptInv, NEW u \in Reviewers, reviews[u].op \in Ops, Done(u), UNCHANGED <<evaluations, baseline>>,
         NEW row \in RevisionRow,
         LET v == reviews[u].rev IN
           /\ revisions' = [revisions EXCEPT ![v] = row]
           /\ row.state # "none" /\ row.base = revisions[v].base
           /\ revisions[v].reviewed => row.reviewed
           /\ row.active => revisions[v].active
           /\ row.state = "approved" => row.reviewed
  PROVE  PromptInv'
<1> DEFINE v == reviews[u].rev
<1>1. reviews[u] # NoReview
    BY PromptWorking
<1>2. v \in Revisions /\ revisions[v].state # "none"
    BY <1>1, PromptRequest DEF PromptInv, PromptsExist
<1>3. revisions \in [Revisions -> RevisionRow] /\ revisions' \in [Revisions -> RevisionRow]
    BY <1>2 DEF PromptInv, PromptTypeOK
<1>4. \A w \in Revisions : revisions'[w] = IF w = v THEN row ELSE revisions[w]
    BY <1>2, <1>3
<1>5. PromptsKept
    BY <1>2, <1>4 DEF PromptsKept
<1>6. PromptTypeOK' /\ \A w \in Reviewers : reviews'[w] \in {reviews[w], NoReview}
    BY <1>3, PromptRequestDone DEF PromptInv, PromptTypeOK
<1>7. PromptsExist'
    <2>1. \A w \in Revisions : revisions'[w].state # "none" \/ revisions'[w].active => revisions'[w].base # 0
        BY <1>2, <1>4 DEF PromptInv, PromptsExist
    <2> QED
        BY <2>1, <1>3, <1>5, <1>6, PromptRequestsKept DEF PromptsExist
<1>8. PromptsVetted'
    <2>1. \A w \in Revisions : revisions'[w].state = "approved" => revisions'[w].reviewed
        BY <1>4 DEF PromptInv, PromptsVetted
    <2>2. \A w \in Revisions : revisions'[w].active => Vetted(w)'
        <3> SUFFICES ASSUME NEW w \in Revisions, revisions'[w].active PROVE Vetted(w)'
            OBVIOUS
        <3>1. revisions[w].active
            BY <1>2, <1>4
        <3>2. Vetted(w)
            BY <3>1 DEF PromptInv, PromptsVetted
        <3> QED
            BY <3>2, <1>4 DEF Vetted
    <2> QED
        BY <2>1, <2>2, <1>3, <1>5, <1>6, PromptRequestsKept DEF PromptsVetted
<1> QED
    BY <1>6, <1>7, <1>8 DEF PromptInv

\* A row whose state, activity and review are written keeps the rest.
LEMMA RevisionWritten ==
  ASSUME NEW old \in RevisionRow, NEW active \in BOOLEAN, NEW reviewed \in BOOLEAN,
         NEW state \in {"review", "approved", "rejected", "active"}
  PROVE  LET row == [old EXCEPT !.state = state, !.active = active, !.reviewed = reviewed]
         IN  /\ row \in RevisionRow
             /\ row.state = state /\ row.base = old.base
             /\ row.active = active /\ row.reviewed = reviewed
BY DEF RevisionRow

\* Superseding the active revisions only takes activity away.
LEMMA SupersededRows ==
  ASSUME PromptInv
  PROVE  /\ Superseded \in [Revisions -> RevisionRow]
         /\ \A v \in Revisions :
              /\ ~Superseded[v].active
              /\ Superseded[v].base = revisions[v].base
              /\ Superseded[v].reviewed = revisions[v].reviewed
              /\ Superseded[v].state = "approved" => revisions[v].state = "approved"
              /\ Superseded[v].state = "none" => revisions[v].state = "none"
              /\ Superseded[v].state # "none" => revisions[v].state # "none" \/ revisions[v].active
<1>1. revisions \in [Revisions -> RevisionRow]
    BY DEF PromptInv, PromptTypeOK
<1> QED
    BY <1>1 DEF Superseded, RevisionRow

-----------------------------------------------------------------------------
\* Every step keeps the invariant.
LEMMA PromptStepInv == PromptInv /\ [PromptNext]_promptVars => PromptInv'
<1> SUFFICES ASSUME PromptInv, [PromptNext]_promptVars PROVE PromptInv'
    OBVIOUS
<1>t. /\ revisions \in [Revisions -> RevisionRow] /\ evaluations \subseteq [rev : Revisions, base : 1..MaxBaseline]
      /\ baseline \in 1..MaxBaseline
      /\ reviews \in [Reviewers -> [op : Ops, rev : Revisions, read : RevisionRow] \cup {NoReview}]
    BY DEF PromptInv, PromptTypeOK
<1>n. MaxBaseline \in Nat \ {0} /\ 0 \notin Revisions
    BY PromptAssumption
<1>1. ASSUME NEW v \in Revisions, CreateRevision(v) PROVE PromptInv'
    <2> DEFINE new == [state |-> "draft", active |-> FALSE, base |-> baseline, reviewed |-> FALSE]
    <2>1. new \in RevisionRow /\ baseline # 0
        BY <1>t, <1>n DEF RevisionRow
    <2>2. revisions' \in [Revisions -> RevisionRow] /\ UNCHANGED <<evaluations, baseline, reviews>>
        BY <1>1, <1>t, <2>1 DEF CreateRevision
    <2>3. \A w \in Revisions : revisions'[w] = IF w = v THEN new ELSE revisions[w]
        BY <1>1, <1>t DEF CreateRevision
    <2>4. revisions[v].state = "none"
        BY <1>1 DEF CreateRevision
    <2>5. PromptsKept
        BY <2>2, <2>3, <2>4 DEF PromptsKept
    <2>6. PromptTypeOK'
        BY <1>t, <2>2 DEF PromptTypeOK
    <2>7. PromptsExist'
        <3>1. \A w \in Revisions : revisions'[w].state # "none" \/ revisions'[w].active => revisions'[w].base # 0
            BY <2>1, <2>3 DEF PromptInv, PromptsExist
        <3> QED
            BY <3>1, <2>2, <2>5, PromptRequestsKept DEF PromptsExist
    <2>8. PromptsVetted'
        <3>1. \A w \in Revisions : revisions'[w].state = "approved" => revisions'[w].reviewed
            BY <2>3 DEF PromptInv, PromptsVetted
        <3>2. \A w \in Revisions : revisions'[w].active => Vetted(w)'
            BY <2>2, <2>3 DEF PromptInv, PromptsVetted, Vetted
        <3> QED
            BY <3>1, <3>2, <2>2, <2>5, PromptRequestsKept DEF PromptsVetted
    <2> QED
        BY <2>6, <2>7, <2>8 DEF PromptInv
<1>2. ASSUME NEW u \in Reviewers, NEW op \in Ops, NEW v \in Revisions, BeginPromptReview(u, op, v)
      PROVE  PromptInv'
    <2> DEFINE req == [op |-> op, rev |-> v, read |-> revisions[v]]
    <2>1. UNCHANGED <<revisions, evaluations, baseline>> /\ Admitted(op, v)
        BY <1>2 DEF BeginPromptReview
    <2>2. \A w \in Reviewers : reviews'[w] = IF w = u THEN req ELSE reviews[w]
        BY <1>2, <1>t DEF BeginPromptReview
    <2>3. PromptTypeOK'
        BY <1>2, <1>t, <2>1 DEF PromptTypeOK, BeginPromptReview
    <2>4. revisions[v].state # "none"
        BY <2>1 DEF Admitted, Ops
    <2>5. PromptsExist'
        BY <2>1, <2>2, <2>4 DEF PromptInv, PromptsExist
    <2>6. op = "activate" => Vetted(v)
        BY <2>1 DEF Admitted, Evaluated, Vetted, PromptInv, PromptsVetted
    <2>7. PromptsVetted'
        BY <2>1, <2>2, <2>6 DEF PromptInv, PromptsVetted, Vetted
    <2> QED
        BY <2>3, <2>5, <2>7 DEF PromptInv
<1>3. ASSUME NEW u \in Reviewers, SubmitRevision(u) PROVE PromptInv'
    <2> DEFINE v == reviews[u].rev
               row == [revisions[v] EXCEPT !.state = "review"]
    <2>1. reviews[u].op \in Ops
        BY <1>3 DEF SubmitRevision, Ops
    <2>2. v \in Revisions
        BY <2>1, PromptWorking, PromptRequest DEF PromptInv
    <2>3. row \in RevisionRow
        BY <1>t, <2>2 DEF RevisionRow
    <2>4. revisions' = [revisions EXCEPT ![v] = row]
        BY <1>3, <1>t, <2>2 DEF SubmitRevision, RevisionRow
    <2>5. row.state = "review" /\ row.base = revisions[v].base /\ row.active = revisions[v].active
          /\ row.reviewed = revisions[v].reviewed
        BY <1>t, <2>2 DEF RevisionRow
    <2> QED
        BY <1>3, <2>1, <2>3, <2>4, <2>5, RevisionMoved DEF SubmitRevision
<1>4. ASSUME NEW u \in Reviewers, ApproveRevision(u) PROVE PromptInv'
    <2> DEFINE v == reviews[u].rev
               row == [revisions[v] EXCEPT !.state = "approved", !.active = revisions[v].active,
                                           !.reviewed = TRUE]
    <2>1. reviews[u].op \in Ops
        BY <1>4 DEF ApproveRevision, Ops
    <2>2. v \in Revisions
        BY <2>1, PromptWorking, PromptRequest DEF PromptInv
    <2>a. revisions[v] \in RevisionRow /\ revisions[v].active \in BOOLEAN
        BY <1>t, <2>2 DEF RevisionRow
    <2>3. row \in RevisionRow
        BY <2>a, RevisionWritten
    <2>4. revisions' = [revisions EXCEPT ![v] = row]
        BY <1>4, <1>t, <2>2 DEF ApproveRevision, RevisionRow
    <2>5. row.state = "approved" /\ row.base = revisions[v].base /\ row.active = revisions[v].active
          /\ row.reviewed = TRUE
        BY <1>t, <2>2 DEF RevisionRow
    <2> QED
        BY <1>4, <2>1, <2>3, <2>4, <2>5, RevisionMoved DEF ApproveRevision
<1>5. ASSUME NEW u \in Reviewers, RejectRevision(u) PROVE PromptInv'
    <2> DEFINE v == reviews[u].rev
               still == revisions[v].active /\ ~reviews[u].read.active
               row == [revisions[v] EXCEPT !.state = "rejected", !.active = still, !.reviewed = TRUE]
    <2>1. reviews[u].op \in Ops
        BY <1>5 DEF RejectRevision, Ops
    <2>2. v \in Revisions
        BY <2>1, PromptWorking, PromptRequest DEF PromptInv
    <2>a. revisions[v] \in RevisionRow /\ still \in BOOLEAN
        BY <1>t, <2>2 DEF RevisionRow
    <2>3. row \in RevisionRow
        BY <2>a, RevisionWritten
    <2>4. revisions' = [revisions EXCEPT ![v] = row]
        BY <1>5, <1>t, <2>2 DEF RejectRevision, RevisionRow
    <2>5. row.state = "rejected" /\ row.base = revisions[v].base /\ (row.active => revisions[v].active)
          /\ row.reviewed = TRUE
        BY <1>t, <2>2 DEF RevisionRow
    <2> QED
        BY <1>5, <2>1, <2>3, <2>4, <2>5, RevisionMoved DEF RejectRevision
<1>6. ASSUME NEW u \in Reviewers, EvaluateRevision(u) PROVE PromptInv'
    <2> DEFINE new == [rev |-> reviews[u].rev, base |-> reviews[u].read.base]
    <2>1. reviews[u] # NoReview
        BY <1>6, PromptWorking DEF EvaluateRevision, Ops
    <2>2. reviews[u] \in [op : Ops, rev : Revisions, read : RevisionRow] /\ reviews[u].read.base # 0
        BY <2>1, PromptRequest DEF PromptInv, PromptsExist
    <2>3. new \in [rev : Revisions, base : 1..MaxBaseline]
        BY <2>2, <1>n DEF RevisionRow
    <2>4. evaluations' = evaluations \cup {new} /\ UNCHANGED <<revisions, baseline>>
        BY <1>6 DEF EvaluateRevision
    <2>5. PromptTypeOK' /\ \A w \in Reviewers : reviews'[w] \in {reviews[w], NoReview}
        BY <1>6, <1>t, <2>3, <2>4, PromptRequestDone DEF PromptInv, PromptTypeOK, EvaluateRevision
    <2>6. PromptsKept /\ revisions' \in [Revisions -> RevisionRow]
        BY <1>t, <2>4 DEF PromptsKept
    <2>7. PromptsExist'
        BY <2>4, <2>5, <2>6, PromptRequestsKept DEF PromptInv, PromptsExist
    <2>8. PromptsVetted'
        BY <2>4, <2>5, <2>6, PromptRequestsKept DEF PromptInv, PromptsVetted, Vetted
    <2> QED
        BY <2>5, <2>7, <2>8 DEF PromptInv
<1>7. ASSUME NEW u \in Reviewers, ActivateRevision(u) PROVE PromptInv'
    <2>0. reviews[u] # NoReview /\ reviews[u].rev \in Revisions /\ Vetted(reviews[u].rev)
        BY <1>7, PromptWorking, PromptRequest DEF ActivateRevision, Ops, PromptInv, PromptsVetted
    <2>1. PICK v \in Revisions : v = reviews[u].rev /\ Vetted(v)
        BY <2>0
    <2> DEFINE row == [Superseded[v] EXCEPT !.active = TRUE, !.state = "active"]
    <2>a. Superseded[v] \in RevisionRow /\ Superseded \in [Revisions -> RevisionRow]
        BY <2>1, SupersededRows
    <2>b. /\ row \in RevisionRow /\ row.state = "active" /\ row.base = Superseded[v].base
          /\ row.reviewed = Superseded[v].reviewed
        BY <2>a DEF RevisionRow
    <2>c. revisions' = [Superseded EXCEPT ![v] = row]
        BY <1>7, <2>1, <2>a DEF ActivateRevision, RevisionRow
    <2>2. /\ revisions' \in [Revisions -> RevisionRow]
          /\ \A w \in Revisions \ {v} : revisions'[w] = Superseded[w]
          /\ revisions'[v].state = "active" /\ revisions'[v].base = revisions[v].base
          /\ revisions'[v].reviewed = revisions[v].reviewed
        <3> HIDE DEF row
        <3> QED
            BY <2>1, <2>a, <2>b, <2>c, SupersededRows
    <2>3. UNCHANGED <<evaluations, baseline>>
        BY <1>7 DEF ActivateRevision
    <2>4. PromptsKept
        BY <2>2, <2>3, SupersededRows DEF PromptsKept
    <2>5. PromptTypeOK' /\ \A w \in Reviewers : reviews'[w] \in {reviews[w], NoReview}
        BY <1>7, <1>t, <2>2, <2>3, PromptRequestDone DEF PromptInv, PromptTypeOK, ActivateRevision
    <2>6. PromptsExist'
        <3>1. revisions[v].base # 0
            BY <2>1, <1>t DEF Vetted
        <3>2. \A w \in Revisions : revisions'[w].state # "none" \/ revisions'[w].active => revisions'[w].base # 0
            BY <3>1, <2>2, SupersededRows DEF PromptInv, PromptsExist
        <3> QED
            BY <3>2, <2>2, <2>4, <2>5, PromptRequestsKept DEF PromptsExist
    <2>7. PromptsVetted'
        <3>1. \A w \in Revisions : revisions'[w].state = "approved" => revisions'[w].reviewed
            BY <2>2, SupersededRows DEF PromptInv, PromptsVetted
        <3>2. Vetted(v)'
            BY <2>1, <2>2, <2>3 DEF Vetted
        <3>3. \A w \in Revisions : revisions'[w].active => w = v
            BY <2>2, SupersededRows
        <3> QED
            BY <3>1, <3>2, <3>3, <2>2, <2>4, <2>5, PromptRequestsKept DEF PromptsVetted
    <2> QED
        BY <2>5, <2>6, <2>7 DEF PromptInv
<1>8. CASE ReleaseBaseline
    <2>1. UNCHANGED <<revisions, evaluations, reviews>> /\ baseline' \in 1..MaxBaseline
        BY <1>8, <1>t, <1>n DEF ReleaseBaseline
    <2> QED
        BY <2>1 DEF PromptInv, PromptTypeOK, PromptsExist, PromptsVetted, Vetted
<1>9. CASE RollbackBaseline
    <2>1. revisions' = Superseded /\ UNCHANGED <<evaluations, baseline, reviews>>
        BY <1>9 DEF RollbackBaseline
    <2>2. PromptsKept /\ revisions' \in [Revisions -> RevisionRow]
        BY <2>1, SupersededRows DEF PromptsKept
    <2>3. PromptTypeOK'
        BY <1>t, <2>1, <2>2 DEF PromptTypeOK
    <2>4. PromptsExist'
        BY <2>1, <2>2, SupersededRows, PromptRequestsKept DEF PromptInv, PromptsExist
    <2>5. PromptsVetted'
        BY <2>1, <2>2, SupersededRows, PromptRequestsKept DEF PromptInv, PromptsVetted
    <2> QED
        BY <2>3, <2>4, <2>5 DEF PromptInv
<1>10. CASE UNCHANGED promptVars
    BY <1>10 DEF promptVars, PromptInv, PromptTypeOK, PromptsExist, PromptsVetted, Vetted
<1> QED
    BY <1>1, <1>2, <1>3, <1>4, <1>5, <1>6, <1>7, <1>8, <1>9, <1>10 DEF PromptNext

-----------------------------------------------------------------------------
\* Every variable keeps its type, for any revisions and reviewers.
THEOREM PromptTypeCorrect == PromptSpec => []PromptTypeOK
<1>1. PromptInv => PromptTypeOK
    BY DEF PromptInv
<1> QED
    BY PromptInitInv, PromptStepInv, <1>1, PTL DEF PromptSpec

\* Instructions that reach a provider were decided on by a reviewer and passed
\* the offline evaluation with the packaged prompt they extend, however many
\* reviewers overlap (activate_prompt_revision, active_prompt).
THEOREM OnlyVettedRun == PromptSpec => []PromptVetted
<1>1. PromptInv => PromptVetted
    BY DEF PromptInv, PromptsVetted, Vetted, PromptVetted, Runtime, Active
<1> QED
    BY PromptInitInv, PromptStepInv, <1>1, PTL DEF PromptSpec

-----------------------------------------------------------------------------
(***************************************************************************)
(* KeywordSources, for any keywords, uploads and runs: every stored        *)
(* keyword has the source that named it.                                   *)
(***************************************************************************)

-----------------------------------------------------------------------------
(* The inductive invariant of KeywordSources.                               *)

Found == [phrase : Phrases, seed : Rows]
KeywordRun == [status : {"queued", "running", "completed", "failed", "cancelled"},
               seeds : SUBSET Rows, results : SUBSET Found, committed : Nat]

\* Columns of the tables.
KeywordTypeOK ==
  /\ stored \subseteq Phrases /\ selection \subseteq Rows /\ generation \in 0..MaxSelections
  /\ sources \in Seq(SUBSET Rows) /\ runs \in Seq(KeywordRun)

\* Results name rows of the selection and belong to a completed run; what was
\* committed is a source whose rows were found.
ResultsHeld(run) ==
  /\ {r.seed : r \in run.results} \subseteq selection
  /\ run.results # {} => run.status = "completed"
  /\ run.committed # 0 =>
       /\ run.committed \in DOMAIN sources
       /\ \A row \in sources[run.committed] : \E r \in run.results : r.phrase = row.phrase

KeywordInv ==
  /\ KeywordTypeOK
  /\ \A s \in DOMAIN sources : sources[s] \subseteq selection
  /\ \A k \in DOMAIN runs : ResultsHeld(runs[k])

-----------------------------------------------------------------------------
(* Every step of KeywordSources keeps it.                                   *)

LEMMA KeywordTypes ==
  ASSUME KeywordTypeOK
  PROVE  /\ DOMAIN sources = 1..Len(sources) /\ Len(sources) \in Nat
         /\ \A s \in DOMAIN sources : sources[s] \subseteq Rows
         /\ \A k \in DOMAIN runs : runs[k] \in KeywordRun
BY SeqRows DEF KeywordTypeOK

\* One run is written, and holds what it claims.
LEMMA RunWritten ==
  ASSUME KeywordInv, NEW k \in DOMAIN runs, NEW run \in KeywordRun, runs' = [runs EXCEPT ![k] = run],
         ResultsHeld(run), UNCHANGED <<stored, selection, generation, sources>>
  PROVE  KeywordInv'
<1>1. /\ runs' \in Seq(KeywordRun) /\ DOMAIN runs' = DOMAIN runs
      /\ \A j \in DOMAIN runs : runs'[j] = IF j = k THEN run ELSE runs[j]
    BY SeqWritten, Zenon DEF KeywordInv, KeywordTypeOK
<1>2. KeywordTypeOK'
    BY <1>1 DEF KeywordInv, KeywordTypeOK
<1>3. \A j \in DOMAIN runs' : ResultsHeld(runs'[j])
    BY <1>1 DEF KeywordInv
<1>4. (\A j \in DOMAIN runs : ResultsHeld(runs[j]))'
    BY <1>3 DEF ResultsHeld
<1>5. (\A s \in DOMAIN sources : sources[s] \subseteq selection)'
    BY DEF KeywordInv
<1> QED
    BY <1>2, <1>4, <1>5 DEF KeywordInv

LEMMA ImportKeywordsKeeps ==
  ASSUME KeywordInv, NEW phrases \in SUBSET Phrases, ImportKeywords(phrases)
  PROVE  KeywordInv'
BY DEF ImportKeywords, KeywordInv, KeywordTypeOK, ResultsHeld

LEMMA SeedsNamed ==
  ASSUME NEW k \in DOMAIN runs
  PROVE  {r.seed : r \in runs[k].results} \subseteq NamedRows
<1> DEFINE Seeds(j) == {r.seed : r \in runs[j].results}
<1> HIDE DEF Seeds
<1>1. Seeds(k) \subseteq UNION {Seeds(j) : j \in DOMAIN runs}
    OBVIOUS
<1> QED
    BY <1>1, Zenon DEF Seeds, NamedRows

LEMMA ReplaceSelectionKeeps ==
  ASSUME KeywordInv, NEW phrases \in SUBSET Phrases, ReplaceSelection(phrases)
  PROVE  KeywordInv'
<1>1. generation + 1 \in 0..MaxSelections
    BY KeywordAssumption DEF ReplaceSelection, KeywordInv, KeywordTypeOK
<1>2. KeywordTypeOK'
    BY <1>1 DEF ReplaceSelection, KeywordInv, KeywordTypeOK, Rows
<1>3. \A s \in DOMAIN sources : sources[s] = {}
    BY DEF ReplaceSelection, NamedRows, KeywordInv
<1>4. \A k \in DOMAIN runs : {r.seed : r \in runs[k].results} = {}
    <2>1. ASSUME NEW k \in DOMAIN runs, NEW seed \in {r.seed : r \in runs[k].results}
          PROVE  FALSE
        <3>1. seed \in selection
            BY <2>1 DEF KeywordInv, ResultsHeld
        <3>2. seed \in NamedRows
            BY <2>1, SeedsNamed
        <3> QED
            BY <3>1, <3>2 DEF ReplaceSelection
    <2> QED
        BY <2>1
<1>5. (\A k \in DOMAIN runs : ResultsHeld(runs[k]))'
    BY <1>4 DEF ReplaceSelection, KeywordInv, ResultsHeld
<1>6. (\A s \in DOMAIN sources : sources[s] \subseteq selection)'
    BY <1>3 DEF ReplaceSelection
<1> QED
    BY <1>2, <1>5, <1>6 DEF KeywordInv

LEMMA RecordManualSourceKeeps ==
  ASSUME KeywordInv, NEW rows \in SUBSET selection, RecordManualSource(rows)
  PROVE  KeywordInv'
<1>1. rows \in SUBSET Rows
    BY DEF KeywordInv, KeywordTypeOK
<1>0. sources \in Seq(SUBSET Rows) /\ sources' = Append(sources, rows)
    BY DEF KeywordInv, KeywordTypeOK, RecordManualSource
<1>2. /\ sources' \in Seq(SUBSET Rows) /\ DOMAIN sources' = DOMAIN sources \cup {Len(sources')}
      /\ sources'[Len(sources')] = rows /\ \A s \in DOMAIN sources : sources'[s] = sources[s]
    BY <1>0, <1>1, SeqAppended
<1>3. KeywordTypeOK'
    BY <1>2 DEF RecordManualSource, KeywordInv, KeywordTypeOK
<1>4. (\A s \in DOMAIN sources : sources[s] \subseteq selection)'
    BY <1>2 DEF RecordManualSource, KeywordInv
<1>5. (\A k \in DOMAIN runs : ResultsHeld(runs[k]))'
    BY <1>2 DEF RecordManualSource, KeywordInv, ResultsHeld
<1> QED
    BY <1>3, <1>4, <1>5 DEF KeywordInv

LEMMA CreateBukvarixRunKeeps ==
  ASSUME KeywordInv, NEW seeds \in SUBSET selection, CreateBukvarixRun(seeds)
  PROVE  KeywordInv'
<1>1. [status |-> "queued", seeds |-> seeds, results |-> {}, committed |-> 0] \in KeywordRun
    BY DEF KeywordInv, KeywordTypeOK, KeywordRun
<1>2. PICK run \in KeywordRun : run = [status |-> "queued", seeds |-> seeds, results |-> {}, committed |-> 0]
    BY <1>1
<1>3. run.results = {} /\ run.committed = 0
    BY <1>2
<1>0. runs \in Seq(KeywordRun) /\ runs' = Append(runs, run)
    BY <1>2 DEF KeywordInv, KeywordTypeOK, CreateBukvarixRun
<1>4. /\ runs' \in Seq(KeywordRun) /\ DOMAIN runs' = DOMAIN runs \cup {Len(runs')}
      /\ runs'[Len(runs')] = run /\ \A k \in DOMAIN runs : runs'[k] = runs[k]
    BY <1>0, SeqAppended
<1>5. KeywordTypeOK'
    BY <1>4 DEF CreateBukvarixRun, KeywordInv, KeywordTypeOK
<1>6. \A k \in DOMAIN runs' : ResultsHeld(runs'[k])
    <2>1. ResultsHeld(run)
        BY <1>3 DEF ResultsHeld
    <2> QED
        BY <1>4, <2>1 DEF KeywordInv
<1>7. (\A k \in DOMAIN runs : ResultsHeld(runs[k]))'
    BY <1>6 DEF CreateBukvarixRun, ResultsHeld
<1> QED
    BY <1>5, <1>7 DEF KeywordInv, CreateBukvarixRun

LEMMA RunEndsKeeps ==
  ASSUME KeywordInv, NEW k \in DOMAIN runs,
         \/ StartBukvarixRun(k)
         \/ \E reached \in {"failed", "cancelled"} : EndBukvarixRun(k, reached)
         \/ \E found \in SUBSET [phrase : Phrases, seed : runs[k].seeds] : FinishBukvarixRun(k, found)
  PROVE  KeywordInv'
<1>1. runs[k] \in KeywordRun /\ ResultsHeld(runs[k])
    BY KeywordTypes DEF KeywordInv
<1>2. runs[k].status \in {"queued", "running"}
    BY DEF StartBukvarixRun, EndBukvarixRun, FinishBukvarixRun
<1>3. runs[k].results = {}
    BY <1>1, <1>2 DEF ResultsHeld
<1>4. UNCHANGED <<stored, selection, generation, sources>>
    BY DEF StartBukvarixRun, EndBukvarixRun, FinishBukvarixRun
<1>5. CASE \E reached \in {"running", "failed", "cancelled"} : runs' = [runs EXCEPT ![k].status = reached]
    <2>1. PICK reached \in {"running", "failed", "cancelled"} : runs' = [runs EXCEPT ![k].status = reached]
        BY <1>5
    <2>2. PICK run : run = [runs[k] EXCEPT !.status = reached]
        OBVIOUS
    <2>3. run \in KeywordRun /\ run.results = {} /\ run.committed = runs[k].committed
        BY <1>1, <1>3, <2>2 DEF KeywordRun
    <2>4. ResultsHeld(run)
        BY <1>1, <1>3, <2>3 DEF ResultsHeld
    <2>5. runs' = [runs EXCEPT ![k] = run]
        BY <2>1, <2>2
    <2> QED
        BY <1>4, <2>3, <2>4, <2>5, RunWritten
<1>6. CASE \E found \in SUBSET [phrase : Phrases, seed : runs[k].seeds] :
             /\ {r.seed : r \in found} \subseteq selection
             /\ runs' = [runs EXCEPT ![k].status = "completed", ![k].results = found]
    <2>1. PICK found \in SUBSET [phrase : Phrases, seed : runs[k].seeds] :
             /\ {r.seed : r \in found} \subseteq selection
             /\ runs' = [runs EXCEPT ![k].status = "completed", ![k].results = found]
        BY <1>6
    <2>2. PICK run : run = [runs[k] EXCEPT !.status = "completed", !.results = found]
        OBVIOUS
    <2>3. found \subseteq Found
        BY <1>1 DEF KeywordRun, Found
    <2>4. run \in KeywordRun /\ run.results = found /\ run.status = "completed" /\ run.committed = runs[k].committed
        BY <1>1, <2>2, <2>3 DEF KeywordRun
    <2>5. ResultsHeld(run)
        BY <1>1, <1>3, <2>1, <2>4 DEF ResultsHeld
    <2>6. runs' = [runs EXCEPT ![k] = run]
        BY <2>1, <2>2
    <2> QED
        BY <1>4, <2>4, <2>5, <2>6, RunWritten
<1> QED
    BY <1>5, <1>6 DEF StartBukvarixRun, EndBukvarixRun, FinishBukvarixRun

LEMMA CommitBukvarixRunKeeps ==
  ASSUME KeywordInv, NEW k \in DOMAIN runs, NEW chosen \in SUBSET runs[k].results, CommitBukvarixRun(k, chosen)
  PROVE  KeywordInv'
<1> DEFINE phrases == {r.phrase : r \in chosen}
           missing == {p \in phrases : \A row \in selection : row.phrase # p}
           named == {row \in selection' : row.phrase \in phrases}
<1>t. KeywordTypeOK /\ sources \in Seq(SUBSET Rows) /\ runs \in Seq(KeywordRun)
    BY DEF KeywordInv, KeywordTypeOK
<1>1. runs[k] \in KeywordRun /\ ResultsHeld(runs[k]) /\ runs[k].status = "completed"
    BY <1>t, KeywordTypes DEF KeywordInv, CommitBukvarixRun
<1>2. chosen \subseteq Found /\ phrases \subseteq Phrases
    BY <1>1 DEF KeywordRun, Found
<1>3. /\ selection' = selection \cup [phrase : missing, gen : {generation}]
      /\ stored' = stored \cup phrases /\ generation' = generation
      /\ sources' = Append(sources, named)
      /\ runs' = [runs EXCEPT ![k].committed = Len(sources')]
    BY DEF CommitBukvarixRun
<1>4. selection \subseteq selection' /\ selection' \subseteq Rows /\ stored' \subseteq Phrases
    BY <1>2, <1>3, <1>t DEF KeywordTypeOK, Rows
<1>5. PICK added \in SUBSET Rows : added = named
    BY <1>4
<1>6. /\ added \subseteq selection' /\ \A row \in added : \E r \in runs[k].results : r.phrase = row.phrase
    BY <1>5
<1>7. /\ sources' \in Seq(SUBSET Rows) /\ DOMAIN sources' = DOMAIN sources \cup {Len(sources')}
      /\ sources'[Len(sources')] = added /\ \A s \in DOMAIN sources : sources'[s] = sources[s]
    <2>1. sources' = Append(sources, added)
        BY <1>3, <1>5
    <2> QED
        BY <2>1, <1>t, SeqAppended
<1>8. Len(sources') \in Nat
    BY <1>7, LenProperties
<1>9. PICK run : run = [runs[k] EXCEPT !.committed = Len(sources')]
    OBVIOUS
<1>10. /\ run \in KeywordRun /\ run.committed = Len(sources') /\ run.results = runs[k].results
       /\ run.status = "completed"
    BY <1>1, <1>8, <1>9 DEF KeywordRun
<1>11. runs' = [runs EXCEPT ![k] = run]
    BY <1>3, <1>9
<1>12. /\ runs' \in Seq(KeywordRun) /\ DOMAIN runs' = DOMAIN runs
       /\ \A j \in DOMAIN runs : runs'[j] = IF j = k THEN run ELSE runs[j]
    BY <1>10, <1>11, <1>t, SeqWritten, Zenon
<1>13. KeywordTypeOK'
    BY <1>3, <1>4, <1>7, <1>12, <1>t DEF KeywordTypeOK
<1>14. (\A s \in DOMAIN sources : sources[s] \subseteq selection)'
    BY <1>4, <1>6, <1>7 DEF KeywordInv
<1>15. ASSUME NEW j \in DOMAIN runs
       PROVE  /\ {r.seed : r \in runs'[j].results} \subseteq selection'
              /\ runs'[j].results # {} => runs'[j].status = "completed"
              /\ runs'[j].committed # 0 =>
                   /\ runs'[j].committed \in DOMAIN sources'
                   /\ \A row \in sources'[runs'[j].committed] : \E r \in runs'[j].results : r.phrase = row.phrase
    <2>1. CASE j = k
        BY <1>1, <1>4, <1>6, <1>7, <1>10, <1>12, <2>1 DEF ResultsHeld
    <2>2. CASE j # k
        <3>1. runs'[j] = runs[j] /\ ResultsHeld(runs[j])
            BY <1>12, <2>2 DEF KeywordInv
        <3> QED
            BY <1>4, <1>7, <3>1 DEF ResultsHeld
    <2> QED
        BY <2>1, <2>2
<1>16. (\A j \in DOMAIN runs : ResultsHeld(runs[j]))'
    BY <1>12, <1>15 DEF ResultsHeld
<1> QED
    BY <1>13, <1>14, <1>16 DEF KeywordInv

LEMMA KeywordInitInv ==
  ASSUME KeywordInit
  PROVE  KeywordInv
<1>1. stored = {} /\ selection = {} /\ generation = 0 /\ sources = <<>> /\ runs = <<>>
    BY DEF KeywordInit
<1>2. KeywordTypeOK
    <2>1. stored \subseteq Phrases /\ selection \subseteq Rows
        BY <1>1
    <2>2. generation \in 0..MaxSelections
        BY <1>1, KeywordAssumption
    <2>3. sources \in Seq(SUBSET Rows) /\ runs \in Seq(KeywordRun)
        BY <1>1
    <2> QED
        BY <2>1, <2>2, <2>3 DEF KeywordTypeOK
<1> QED
    BY <1>1, <1>2 DEF KeywordInv

LEMMA KeywordStepInv ==
  ASSUME KeywordInv, [KeywordNext]_keywordVars
  PROVE  KeywordInv'
<1>1. CASE UNCHANGED keywordVars
    BY <1>1 DEF keywordVars, KeywordInv, KeywordTypeOK, ResultsHeld
<1>2. CASE \E phrases \in SUBSET Phrases : ImportKeywords(phrases) \/ ReplaceSelection(phrases)
    BY <1>2, ImportKeywordsKeeps, ReplaceSelectionKeeps
<1>3. CASE \E rows \in SUBSET selection : RecordManualSource(rows) \/ CreateBukvarixRun(rows)
    BY <1>3, RecordManualSourceKeeps, CreateBukvarixRunKeeps
<1>4. CASE \E k \in DOMAIN runs :
             \/ StartBukvarixRun(k)
             \/ \E reached \in {"failed", "cancelled"} : EndBukvarixRun(k, reached)
             \/ \E found \in SUBSET [phrase : Phrases, seed : runs[k].seeds] : FinishBukvarixRun(k, found)
    BY <1>4, RunEndsKeeps
<1>5. CASE \E k \in DOMAIN runs : \E chosen \in SUBSET runs[k].results : CommitBukvarixRun(k, chosen)
    BY <1>5, CommitBukvarixRunKeeps
<1> QED
    BY <1>1, <1>2, <1>3, <1>4, <1>5 DEF KeywordNext

LEMMA KeywordInvariant == KeywordSpec => []KeywordInv
BY KeywordInitInv, KeywordStepInv, PTL DEF KeywordSpec

-----------------------------------------------------------------------------
(* Theorems about KeywordSources.                                           *)

\* Sources and results name rows that exist, however replacements, runs and
\* commits interleave (run_bukvarix_keyword_run, commit_bukvarix_keyword_run).
THEOREM ProvenanceKept == KeywordSpec => []ProvenanceHeld
<1>1. KeywordInv => ProvenanceHeld
    BY DEF KeywordInv, ResultsHeld, ProvenanceHeld
<1> QED
    BY <1>1, KeywordInvariant, PTL

-----------------------------------------------------------------------------
(***************************************************************************)
(* CityFamily, for any cities, addresses and number of structures and      *)
(* plans: a structure makes its plans in a city project once, and no       *)
(* address has two open plans.                                             *)
(***************************************************************************)

-----------------------------------------------------------------------------
(* The inductive invariant of CityFamily.                                   *)

ChildRow == [facts : {"draft", "confirmed"}, keywords : BOOLEAN, site : BOOLEAN,
             plans : Seq(PlanOfChild)]

FamilyTypes ==
  /\ structuresOf \in Seq(SUBSET PageSlugs) /\ Len(structuresOf) <= MaxStructuresOfMaster
  /\ children = [c \in DOMAIN children |-> children[c]]
  /\ \A c \in DOMAIN children : children[c] \in ChildRow

Open(plan) == plan.state \in {"draft", "review"}
MadeBy(plans, s) == {p \in DOMAIN plans : plans[p].from = s}

\* The plans of a child come from structures, each of which made all of its
\* pages once or none, and an open plan is the latest of its address.
OnceInv(plans, structures) ==
  /\ \A p \in DOMAIN plans : plans[p].from \in DOMAIN structures
  /\ \A s \in DOMAIN structures : MadeBy(plans, s) # {} =>
       /\ {plans[p].slug : p \in MadeBy(plans, s)} = structures[s]
       /\ Cardinality(MadeBy(plans, s)) = Cardinality(structures[s])
  /\ \A p, q \in DOMAIN plans : Open(plans[p]) /\ plans[q].slug = plans[p].slug => q <= p

FamilyInv == FamilyTypes /\ \A c \in DOMAIN children : OnceInv(children[c].plans, structuresOf)

-----------------------------------------------------------------------------
(* Every step of CityFamily keeps it.                                       *)

LEMMA FamilyInitInv == FamilyInit => FamilyInv
<1> SUFFICES ASSUME FamilyInit PROVE FamilyInv
    OBVIOUS
<1>1. structuresOf \in Seq(SUBSET PageSlugs) /\ Len(structuresOf) = 0
    BY EmptySeq DEF FamilyInit
<1>2. children \in Seq({}) /\ DOMAIN children = {}
    BY EmptySeq DEF FamilyInit
<1>3. children = [c \in DOMAIN children |-> children[c]]
    BY <1>2, SeqDef
<1> QED
    BY <1>1, <1>2, <1>3, FamilyAssumption DEF FamilyInv, FamilyTypes

LEMMA MasterKeeps ==
  ASSUME FamilyInv, ConfirmMasterFacts
  PROVE  FamilyInv'
BY DEF FamilyInv, FamilyTypes, ConfirmMasterFacts

\* A new structure has made nothing.
LEMMA ApproveKeeps ==
  ASSUME FamilyInv, NEW addresses \in SUBSET PageSlugs, ApproveMasterStructure(addresses)
  PROVE  FamilyInv'
<1>1. structuresOf \in Seq(SUBSET PageSlugs) /\ structuresOf' = Append(structuresOf, addresses)
    BY DEF FamilyInv, FamilyTypes, ApproveMasterStructure
<1>2. /\ structuresOf' \in Seq(SUBSET PageSlugs) /\ Len(structuresOf') = Len(structuresOf) + 1
      /\ DOMAIN structuresOf' = DOMAIN structuresOf \cup {Len(structuresOf')}
      /\ \A i \in DOMAIN structuresOf : structuresOf'[i] = structuresOf[i] /\ i # Len(structuresOf')
    BY <1>1, SeqAppended, SMT
<1>3. children' = children /\ Len(structuresOf) < MaxStructuresOfMaster /\ Len(structuresOf) \in Nat
    BY <1>1, SeqRows DEF ApproveMasterStructure
<1>4. FamilyTypes'
    BY <1>2, <1>3, FamilyAssumption DEF FamilyInv, FamilyTypes
<1>5. ASSUME NEW plans, OnceInv(plans, structuresOf)
      PROVE  OnceInv(plans, structuresOf')
    <2>1. MadeBy(plans, Len(structuresOf')) = {}
        BY <1>2, <1>5 DEF OnceInv, MadeBy
    <2>2. \A p \in DOMAIN plans : plans[p].from \in DOMAIN structuresOf'
        BY <1>2, <1>5 DEF OnceInv
    <2>3. ASSUME NEW s \in DOMAIN structuresOf', MadeBy(plans, s) # {}
          PROVE  /\ {plans[p].slug : p \in MadeBy(plans, s)} = structuresOf'[s]
                 /\ Cardinality(MadeBy(plans, s)) = Cardinality(structuresOf'[s])
        <3>1. s \in DOMAIN structuresOf /\ structuresOf'[s] = structuresOf[s]
            BY <1>2, <2>1, <2>3
        <3> QED
            BY <1>5, <2>3, <3>1 DEF OnceInv
    <2> QED
        BY <1>5, <2>2, <2>3 DEF OnceInv
<1> QED
    BY <1>3, <1>4, <1>5 DEF FamilyInv

LEMMA CreateChildKeeps ==
  ASSUME FamilyInv, NEW city \in Cities, CreateCityProject(city)
  PROVE  FamilyInv'
<1>1. NewChild \in ChildRow /\ NewChild.plans = <<>>
    BY EmptySeq DEF NewChild, ChildRow
<1>2. /\ DOMAIN children' = DOMAIN children \cup {city} /\ children'[city] = NewChild
      /\ \A c \in DOMAIN children : children'[c] = children[c]
      /\ children' = [c \in DOMAIN children' |-> children'[c]]
      /\ UNCHANGED structuresOf
    BY DEF CreateCityProject
<1>3. FamilyTypes'
    BY <1>1, <1>2 DEF FamilyInv, FamilyTypes
<1>4. OnceInv(<<>>, structuresOf)'
    BY DEF OnceInv, MadeBy
<1>5. \A c \in DOMAIN children : OnceInv(children[c].plans, structuresOf)'
    BY <1>2 DEF FamilyInv
<1> QED
    BY <1>1, <1>2, <1>3, <1>4, <1>5 DEF FamilyInv

\* A child whose plans keep their address and structure, and do not reopen.
LEMMA ChildWritten ==
  ASSUME FamilyInv, NEW c \in DOMAIN children, NEW row \in ChildRow, UNCHANGED structuresOf,
         children' = [children EXCEPT ![c] = row], DOMAIN row.plans = DOMAIN children[c].plans,
         \A p \in DOMAIN row.plans :
           /\ row.plans[p].slug = children[c].plans[p].slug
           /\ row.plans[p].from = children[c].plans[p].from
           /\ Open(row.plans[p]) => Open(children[c].plans[p])
  PROVE  FamilyInv'
<1>1. /\ DOMAIN children' = DOMAIN children /\ children'[c] = row
      /\ \A d \in DOMAIN children : d # c => children'[d] = children[d]
      /\ children' = [d \in DOMAIN children' |-> children'[d]]
    OBVIOUS
<1>2. FamilyTypes'
    BY <1>1 DEF FamilyInv, FamilyTypes
<1>3. OnceInv(row.plans, structuresOf)'
    <2> DEFINE old == children[c].plans
    <2>1. OnceInv(old, structuresOf)
        BY DEF FamilyInv
    <2>2. \A s : MadeBy(row.plans, s) = MadeBy(old, s)
        BY DEF MadeBy
    <2>3. ASSUME NEW s
          PROVE  {row.plans[p].slug : p \in MadeBy(row.plans, s)} = {old[p].slug : p \in MadeBy(old, s)}
        BY <2>2 DEF MadeBy
    <2>4. \A s \in DOMAIN structuresOf : MadeBy(row.plans, s) # {} =>
            /\ {row.plans[p].slug : p \in MadeBy(row.plans, s)} = structuresOf[s]
            /\ Cardinality(MadeBy(row.plans, s)) = Cardinality(structuresOf[s])
        BY <2>1, <2>2, <2>3 DEF OnceInv
    <2>5. \A p \in DOMAIN row.plans : row.plans[p].from \in DOMAIN structuresOf
        BY <2>1 DEF OnceInv
    <2>6. \A p, q \in DOMAIN row.plans :
            Open(row.plans[p]) /\ row.plans[q].slug = row.plans[p].slug => q <= p
        BY <2>1 DEF OnceInv
    <2>7. OnceInv(row.plans, structuresOf)
        BY <2>4, <2>5, <2>6 DEF OnceInv
    <2> QED
        BY <2>7
<1>4. \A d \in DOMAIN children : d # c => OnceInv(children[d].plans, structuresOf)'
    BY <1>1 DEF FamilyInv
<1> QED
    BY <1>1, <1>2, <1>3, <1>4 DEF FamilyInv

LEMMA ChildWorkKeeps ==
  ASSUME FamilyInv, NEW c \in DOMAIN children, ReviewChild(c) \/ ApplyChildPage(c)
  PROVE  FamilyInv'
<1>t. children[c] \in ChildRow
    BY DEF FamilyInv, FamilyTypes
<1>1. PICK row \in ChildRow : row.plans = children[c].plans /\ children' = [children EXCEPT ![c] = row]
    <2>1. CASE children' = [children EXCEPT ![c].facts = "confirmed"]
        BY <1>t, <2>1 DEF ChildRow
    <2>2. CASE children' = [children EXCEPT ![c].keywords = TRUE]
        BY <1>t, <2>2 DEF ChildRow
    <2>3. CASE children' = [children EXCEPT ![c].site = TRUE]
        BY <1>t, <2>3 DEF ChildRow
    <2> QED
        BY <2>1, <2>2, <2>3 DEF ReviewChild, ApplyChildPage
<1>2. UNCHANGED structuresOf
    BY DEF ReviewChild, ApplyChildPage
<1> QED
    BY <1>1, <1>2, ChildWritten

LEMMA MovePlanKeeps ==
  ASSUME FamilyInv, NEW c \in DOMAIN children, NEW p \in DOMAIN children[c].plans,
         NEW to \in {"review", "approved", "rejected"}, MoveChildPlan(c, p, to)
  PROVE  FamilyInv'
<1> DEFINE old == children[c].plans
<1>t. children[c] \in ChildRow /\ old \in Seq(PlanOfChild) /\ old[p] \in PlanOfChild
    BY SeqRows DEF FamilyInv, FamilyTypes, ChildRow
<1>1. PICK plan \in PlanOfChild : plan = [old[p] EXCEPT !.state = to]
    BY <1>t DEF PlanOfChild
<1>2. plan.state = to /\ plan.slug = old[p].slug /\ plan.from = old[p].from
    BY <1>t, <1>1 DEF PlanOfChild
<1>3. PICK plans : plans = [old EXCEPT ![p] = plan]
    OBVIOUS
<1>4. /\ plans \in Seq(PlanOfChild) /\ DOMAIN plans = DOMAIN old
      /\ \A q \in DOMAIN old : plans[q] = IF q = p THEN plan ELSE old[q]
    BY <1>t, <1>3, SeqWritten
<1>5. PICK row \in ChildRow : row = [children[c] EXCEPT !.plans = plans]
    BY <1>t, <1>4 DEF ChildRow
<1>6. row.plans = plans
    BY <1>t, <1>5 DEF ChildRow
<1>7. children' = [children EXCEPT ![c] = row] /\ UNCHANGED structuresOf
    BY <1>t, <1>1, <1>3, <1>5 DEF MoveChildPlan, ChildRow
<1>8. Open(plan) => Open(old[p])
    BY <1>2 DEF MoveChildPlan, Open
<1> QED
    BY <1>2, <1>4, <1>6, <1>7, <1>8, ChildWritten

-----------------------------------------------------------------------------
(* A structure makes its plans.                                             *)

\* The order of the rows, which meets every page once.
Order(s) == CHOOSE o \in MadePlans(s) : TRUE

LEMMA OrderExists ==
  ASSUME FamilyInv, NEW s \in DOMAIN structuresOf, NEW k, k = Cardinality(structuresOf[s]),
         NEW order, order = Order(s)
  PROVE  /\ k \in Nat /\ order \in [1..k -> structuresOf[s]]
         /\ \A i, j \in 1..k : order[i] = order[j] => i = j
         /\ \A slug \in structuresOf[s] : \E i \in 1..k : order[i] = slug
<1>1. structuresOf[s] \in SUBSET PageSlugs
    BY SeqRows DEF FamilyInv, FamilyTypes
<1>2. IsFiniteSet(structuresOf[s])
    BY <1>1, FS_Subset, FamilyAssumption
<1>3. k \in Nat /\ ExistsBijection(1..k, structuresOf[s])
    BY <1>2, FS_CardinalityType
<1>4. PICK o \in [1..k -> structuresOf[s]] : \A i, j \in 1..k : o[i] = o[j] => i = j
    BY <1>3 DEF ExistsBijection, Bijection, Injection, IsInjective
<1>5. o \in MadePlans(s)
    BY <1>4 DEF MadePlans
<1>6. order \in MadePlans(s)
    BY <1>5 DEF Order
<1>7. order \in [1..k -> structuresOf[s]] /\ \A i, j \in 1..k : order[i] = order[j] => i = j
    BY <1>6 DEF MadePlans
<1>8. order \in Injection(1..k, structuresOf[s])
    BY <1>7 DEF Injection, IsInjective
<1>9. Cardinality(1..k) = k
    BY <1>3, FS_Interval
<1>10. order \in Surjection(1..k, structuresOf[s])
    BY <1>2, <1>8, <1>9, FS_Injection
<1> QED
    BY <1>3, <1>7, <1>10 DEF Surjection

\* Before a structure makes its plans, no plan of its addresses is open.
LEMMA NoneOpen ==
  ASSUME FamilyInv, NEW s \in DOMAIN structuresOf, NEW c \in DOMAIN children, CanMaterialize(c, s)
  PROVE  \A p \in DOMAIN children[c].plans :
           Open(children[c].plans[p]) => children[c].plans[p].slug \notin structuresOf[s]
<1> DEFINE plans == children[c].plans
<1>1. SUFFICES ASSUME NEW p \in DOMAIN plans, Open(plans[p]), plans[p].slug \in structuresOf[s]
               PROVE  FALSE
    OBVIOUS
<1> DEFINE of == {q \in DOMAIN plans : plans[q].slug = plans[p].slug}
<1>2. DOMAIN plans \subseteq Nat
    BY SeqRows DEF FamilyInv, FamilyTypes, ChildRow
<1>3. p \in of /\ \A q \in of : q <= p
    BY <1>1 DEF FamilyInv, OnceInv
<1>4. (CHOOSE x \in of : \A q \in of : q <= x) = p
    <2>1. \A x \in of : (\A q \in of : q <= x) => x = p
        BY <1>2, <1>3
    <2> QED
        BY <1>3, <2>1
<1>5. LatestOf(c, plans[p].slug) = plans[p].state
    BY <1>3, <1>4 DEF LatestOf
<1> QED
    BY <1>1, <1>5 DEF CanMaterialize, Open

\* The plans of a selected child, with those of structure s at their end.
LEMMA PlansMade ==
  ASSUME FamilyInv, NEW s \in DOMAIN structuresOf, NEW c \in DOMAIN children, CanMaterialize(c, s),
         NEW order, order = Order(s), NEW made,
         made = [i \in DOMAIN order |-> [slug |-> order[i], state |-> "draft", from |-> s]]
  PROVE  children[c].plans \o made \in Seq(PlanOfChild) /\ OnceInv(children[c].plans \o made, structuresOf)
<1>1. PICK old \in Seq(PlanOfChild) : old = children[c].plans
    BY DEF FamilyInv, FamilyTypes, ChildRow
<1>2. PICK k : k = Cardinality(structuresOf[s])
    OBVIOUS
<1>3. /\ k \in Nat /\ order \in [1..k -> structuresOf[s]]
      /\ \A i, j \in 1..k : order[i] = order[j] => i = j
      /\ \A slug \in structuresOf[s] : \E i \in 1..k : order[i] = slug
    BY <1>2, OrderExists
<1>4. /\ structuresOf[s] \subseteq PageSlugs /\ s \in 0..MaxStructuresOfMaster
    <2>1. structuresOf \in Seq(SUBSET PageSlugs) /\ Len(structuresOf) <= MaxStructuresOfMaster
        BY DEF FamilyInv, FamilyTypes
    <2> QED
        BY <2>1, SeqRows, FamilyAssumption
<1>5. DOMAIN made = 1..k /\ \A i \in 1..k :
        made[i] = [slug |-> order[i], state |-> "draft", from |-> s]
    BY <1>3
<1>6. \A i \in 1..k : /\ made[i] \in PlanOfChild /\ made[i].slug = order[i] /\ made[i].from = s
                      /\ Open(made[i])
    <2>1. ASSUME NEW slug \in PageSlugs
          PROVE  [slug |-> slug, state |-> "draft", from |-> s] \in PlanOfChild
        BY <1>4 DEF PlanOfChild
    <2>2. \A i \in 1..k : order[i] \in PageSlugs
        BY <1>3, <1>4
    <2> QED
        BY <1>5, <2>1, <2>2 DEF Open
<1>7. made \in Seq(PlanOfChild) /\ Len(made) = k
    <2>1. made \in [1..k -> PlanOfChild]
        BY <1>5, <1>6
    <2> QED
        BY <1>3, <2>1, LenProperties
<1>8. PICK n \in Nat : n = Len(old) /\ DOMAIN old = 1..n
    BY SeqRows
<1>9. PICK new \in Seq(PlanOfChild) : new = old \o made
    BY <1>7, ConcatProperties
<1>10. /\ Len(new) = n + k /\ DOMAIN new = 1..(n + k)
       /\ \A i \in 1..(n + k) : new[i] = IF i <= n THEN old[i] ELSE made[i - n]
    <2>1. /\ Len(old \o made) = Len(old) + Len(made)
          /\ \A i \in 1..(Len(old) + Len(made)) :
               (old \o made)[i] = IF i <= Len(old) THEN old[i] ELSE made[i - Len(old)]
        BY <1>7, ConcatProperties
    <2>2. DOMAIN new = 1..Len(new)
        BY SeqRows
    <2>3. \A i \in 1..(n + k) : new[i] = IF i <= n THEN old[i] ELSE made[i - n]
        BY <1>7, <1>8, <1>9, <2>1, Zenon
    <2>4. Len(new) = n + k
        BY <1>7, <1>8, <1>9, <2>1, Zenon
    <2> QED
        BY <2>2, <2>3, <2>4, Zenon
<1>11. /\ \A i \in 1..n : i \in DOMAIN new /\ new[i] = old[i]
       /\ \A i \in 1..k : n + i \in DOMAIN new /\ new[n + i] = made[i]
       /\ \A i \in DOMAIN new : i \in 1..n \/ \E j \in 1..k : i = n + j
    <2>1. \A i \in 1..n : i \in DOMAIN new /\ new[i] = old[i]
        BY <1>3, <1>8, <1>10
    <2>2. ASSUME NEW i \in 1..k
          PROVE  n + i \in DOMAIN new /\ new[n + i] = made[i]
        <3>1. n + i \in 1..(n + k) /\ ~(n + i <= n) /\ (n + i) - n = i
            BY <1>3, <1>8
        <3> QED
            BY <1>10, <3>1
    <2>3. ASSUME NEW i \in DOMAIN new
          PROVE  i \in 1..n \/ \E j \in 1..k : i = n + j
        <3>1. i \in 1..(n + k)
            BY <1>10
        <3>2. CASE i > n
            <4>1. i - n \in 1..k /\ i = n + (i - n)
                BY <1>3, <1>8, <3>1, <3>2
            <4> QED
                BY <4>1
        <3> QED
            BY <1>3, <1>8, <3>1, <3>2
    <2> QED
        BY <2>1, <2>2, <2>3
<1>12. OnceInv(old, structuresOf) /\ \A p \in 1..n : old[p].from # s /\ (Open(old[p]) => old[p].slug \notin structuresOf[s])
    BY <1>1, <1>8, NoneOpen DEF FamilyInv, CanMaterialize
<1>13. MadeBy(new, s) = (n + 1)..(n + k)
    <2>1. ASSUME NEW i \in DOMAIN new
          PROVE  new[i].from = s <=> i > n
        <3>1. CASE i \in 1..n
            <4>1. new[i].from # s /\ i <= n
                BY <1>11, <1>12, <3>1
            <4> QED
                BY <1>8, <3>1, <4>1
        <3>2. CASE \E j \in 1..k : i = n + j
            <4>1. PICK j \in 1..k : i = n + j
                BY <3>2
            <4>2. new[i].from = s
                BY <1>6, <1>11, <4>1
            <4> QED
                BY <1>3, <1>8, <4>1, <4>2
        <3> QED
            BY <1>11, <3>1, <3>2
    <2> QED
        BY <1>3, <1>8, <1>10, <2>1 DEF MadeBy
<1>14. Cardinality(MadeBy(new, s)) = k
    <2>1. n + 1 \in Int /\ n + k \in Int /\ (IF n + 1 > n + k THEN 0 ELSE (n + k) - (n + 1) + 1) = k
        BY <1>3, <1>8
    <2> QED
        BY <1>13, <2>1, FS_Interval
<1>15. {new[p].slug : p \in MadeBy(new, s)} = structuresOf[s]
    <2>1. \A p \in MadeBy(new, s) : new[p].slug \in structuresOf[s]
        <3>1. ASSUME NEW p \in MadeBy(new, s)
              PROVE  new[p].slug \in structuresOf[s]
            <4>1. p \in DOMAIN new /\ p \notin 1..n
                BY <1>3, <1>8, <1>10, <1>13 DEF MadeBy
            <4>2. PICK j \in 1..k : p = n + j
                BY <1>11, <4>1
            <4>3. new[p] = made[j] /\ made[j].slug = order[j] /\ order[j] \in structuresOf[s]
                BY <1>3, <1>6, <1>11, <4>2
            <4> QED
                BY <4>3
        <3> QED
            BY <3>1
    <2>2. ASSUME NEW slug \in structuresOf[s]
          PROVE  \E p \in MadeBy(new, s) : new[p].slug = slug
        <3>1. PICK i \in 1..k : order[i] = slug
            BY <1>3
        <3>2. n + i \in MadeBy(new, s)
            BY <1>3, <1>8, <1>13
        <3> QED
            BY <1>6, <1>11, <3>1, <3>2
    <2> QED
        BY <2>1, <2>2
<1>16. ASSUME NEW r \in DOMAIN structuresOf, r # s, MadeBy(new, r) # {}
       PROVE  /\ {new[p].slug : p \in MadeBy(new, r)} = structuresOf[r]
              /\ Cardinality(MadeBy(new, r)) = Cardinality(structuresOf[r])
    <2>1. MadeBy(new, r) = MadeBy(old, r)
        <3>1. ASSUME NEW i \in 1..k PROVE new[n + i].from = s
            BY <1>6, <1>11
        <3>2. \A i \in DOMAIN new : new[i].from = r => i \in 1..n /\ old[i].from = r
            BY <1>11, <1>16, <3>1
        <3>3. \A i \in 1..n : old[i].from = r => i \in DOMAIN new /\ new[i].from = r
            BY <1>11
        <3> QED
            BY <1>8, <3>2, <3>3 DEF MadeBy
    <2>2. \A p \in MadeBy(old, r) : new[p].slug = old[p].slug
        BY <1>8, <1>11 DEF MadeBy
    <2>3. {new[p].slug : p \in MadeBy(new, r)} = {old[p].slug : p \in MadeBy(old, r)}
        BY <2>1, <2>2
    <2> QED
        BY <1>12, <1>16, <2>1, <2>3 DEF OnceInv
<1>17. \A p \in DOMAIN new : new[p].from \in DOMAIN structuresOf
    <2>1. \A i \in 1..n : new[i].from \in DOMAIN structuresOf
        BY <1>8, <1>11, <1>12 DEF OnceInv
    <2>2. \A i \in 1..k : new[n + i].from = s
        BY <1>6, <1>11
    <2>3. ASSUME NEW p \in DOMAIN new PROVE new[p].from \in DOMAIN structuresOf
        <3>1. CASE p \in 1..n
            BY <2>1, <3>1
        <3>2. CASE \E j \in 1..k : p = n + j
            BY <2>2, <3>2
        <3> QED
            BY <1>11, <3>1, <3>2
    <2> QED
        BY <2>3
<1>18. ASSUME NEW p \in DOMAIN new, NEW q \in DOMAIN new, Open(new[p]), new[q].slug = new[p].slug
       PROVE  q <= p
    <2>1. CASE p \in 1..n /\ q \in 1..n
        BY <1>8, <1>11, <1>12, <1>18, <2>1 DEF OnceInv
    <2>2. CASE p \in 1..n /\ q \notin 1..n
        <3>1. PICK j \in 1..k : q = n + j
            BY <1>11, <2>2
        <3>2. new[q] = made[j] /\ made[j].slug = order[j] /\ order[j] \in structuresOf[s]
            BY <1>3, <1>6, <1>11, <3>1
        <3>3. new[p] = old[p]
            BY <1>11, <2>2
        <3> QED
            BY <1>12, <1>18, <2>2, <3>2, <3>3
    <2>3. CASE p \notin 1..n /\ q \in 1..n
        <3>1. p \in Nat /\ p > n /\ q <= n
            BY <1>3, <1>8, <1>10, <2>3
        <3> QED
            BY <1>8, <2>3, <3>1
    <2>4. CASE p \notin 1..n /\ q \notin 1..n
        <3>1. PICK i \in 1..k : p = n + i
            BY <1>11, <2>4
        <3>2. PICK j \in 1..k : q = n + j
            BY <1>11, <2>4
        <3>3. order[i] = order[j]
            BY <1>6, <1>11, <1>18, <3>1, <3>2
        <3>4. i = j
            BY <1>3, <3>3
        <3> QED
            BY <1>3, <1>8, <3>1, <3>2, <3>4
    <2> QED
        BY <2>1, <2>2, <2>3, <2>4
<1>19. OnceInv(new, structuresOf)
    BY <1>2, <1>14, <1>15, <1>16, <1>17, <1>18 DEF OnceInv
<1> QED
    BY <1>1, <1>9, <1>19

LEMMA MaterializeKeeps ==
  ASSUME FamilyInv, NEW s \in DOMAIN structuresOf, NEW selected \in SUBSET DOMAIN children,
         MaterializeCityChildren(s, selected)
  PROVE  FamilyInv'
<1>1. PICK order : order = Order(s)
    OBVIOUS
<1>2. PICK made : made = [i \in DOMAIN order |-> [slug |-> order[i], state |-> "draft", from |-> s]]
    OBVIOUS
<1>3. children' = [c \in DOMAIN children |->
            IF c \in selected THEN [children[c] EXCEPT !.plans = children[c].plans \o made] ELSE children[c]]
    BY <1>1, <1>2 DEF MaterializeCityChildren, Order
<1>4. UNCHANGED structuresOf
    BY DEF MaterializeCityChildren
<1>5. ASSUME NEW c \in DOMAIN children
      PROVE  children'[c] \in ChildRow /\ OnceInv(children'[c].plans, structuresOf)
    <2>t. children[c] \in ChildRow /\ OnceInv(children[c].plans, structuresOf)
        BY DEF FamilyInv, FamilyTypes
    <2>1. CASE c \in selected
        <3>1. CanMaterialize(c, s)
            BY <2>1 DEF MaterializeCityChildren
        <3>2. children[c].plans \o made \in Seq(PlanOfChild) /\ OnceInv(children[c].plans \o made, structuresOf)
            BY <1>1, <1>2, <3>1, PlansMade
        <3>3. PICK new \in Seq(PlanOfChild) : new = children[c].plans \o made
            BY <3>2
        <3>4. /\ [children[c] EXCEPT !.plans = new] \in ChildRow
              /\ [children[c] EXCEPT !.plans = new].plans = new
            BY <2>t, <3>3 DEF ChildRow
        <3>5. children'[c] = [children[c] EXCEPT !.plans = new]
            BY <1>3, <2>1, <3>3
        <3> QED
            BY <3>2, <3>3, <3>4, <3>5
    <2>2. CASE c \notin selected
        BY <1>3, <2>t, <2>2
    <2> QED
        BY <2>1, <2>2
<1>6. DOMAIN children' = DOMAIN children /\ children' = [c \in DOMAIN children' |-> children'[c]]
    BY <1>3
<1>7. FamilyTypes'
    BY <1>4, <1>5, <1>6 DEF FamilyInv, FamilyTypes
<1>8. \A c \in DOMAIN children : OnceInv(children[c].plans, structuresOf)'
    BY <1>4, <1>5
<1> QED
    BY <1>6, <1>7, <1>8 DEF FamilyInv

LEMMA FamilyStepInv == FamilyInv /\ [FamilyNext]_familyVars => FamilyInv'
<1> SUFFICES ASSUME FamilyInv, [FamilyNext]_familyVars PROVE FamilyInv'
    OBVIOUS
<1>1. CASE ConfirmMasterFacts
    BY <1>1, MasterKeeps
<1>2. CASE \E addresses \in (SUBSET PageSlugs) \ {{}} : ApproveMasterStructure(addresses)
    BY <1>2, ApproveKeeps
<1>3. CASE \E city \in Cities : CreateCityProject(city)
    BY <1>3, CreateChildKeeps
<1>4. ASSUME NEW c \in DOMAIN children, ReviewChild(c) \/ ApplyChildPage(c)
      PROVE  FamilyInv'
    BY <1>4, ChildWorkKeeps
<1>5. ASSUME NEW c \in DOMAIN children, NEW p \in DOMAIN children[c].plans,
             NEW to \in {"review", "approved", "rejected"}, MoveChildPlan(c, p, to)
      PROVE  FamilyInv'
    BY <1>5, MovePlanKeeps
<1>6. ASSUME NEW s \in DOMAIN structuresOf, NEW selected \in SUBSET DOMAIN children,
             MaterializeCityChildren(s, selected)
      PROVE  FamilyInv'
    BY <1>6, MaterializeKeeps
<1>7. CASE UNCHANGED familyVars
    BY <1>7 DEF familyVars, FamilyInv, FamilyTypes
<1> QED
    BY <1>1, <1>2, <1>3, <1>4, <1>5, <1>6, <1>7 DEF FamilyNext

LEMMA FamilyInvariant == FamilySpec => []FamilyInv
BY FamilyInitInv, FamilyStepInv, PTL DEF FamilySpec

-----------------------------------------------------------------------------
\* MaterializedOnce: in every city project each structure of the master made
\* the plans of all its pages once or of none, and an address never has two
\* open plans (materialize_structure_city_children).
THEOREM PagesMadeOnce == FamilySpec => []MaterializedOnce
<1>1. ASSUME FamilyInv
      PROVE  MaterializedOnce
    <2>1. ASSUME NEW c \in DOMAIN children
          PROVE  LET plans == children[c].plans IN
                 /\ \A s \in DOMAIN structuresOf : MadeBy(plans, s) # {} =>
                      /\ {plans[p].slug : p \in MadeBy(plans, s)} = structuresOf[s]
                      /\ Cardinality(MadeBy(plans, s)) = Cardinality(structuresOf[s])
                 /\ \A p, q \in DOMAIN plans :
                      {plans[p].state, plans[q].state} \subseteq {"draft", "review"}
                      /\ plans[p].slug = plans[q].slug => p = q
        <3>1. OnceInv(children[c].plans, structuresOf)
            BY <1>1 DEF FamilyInv
        <3>2. DOMAIN children[c].plans \subseteq Nat
            BY <1>1, SeqRows DEF FamilyInv, FamilyTypes, ChildRow
        <3>3. ASSUME NEW p \in DOMAIN children[c].plans, NEW q \in DOMAIN children[c].plans,
                     {children[c].plans[p].state, children[c].plans[q].state} \subseteq {"draft", "review"},
                     children[c].plans[p].slug = children[c].plans[q].slug
              PROVE  p = q
            <4>1. q <= p /\ p <= q
                BY <3>1, <3>3 DEF OnceInv, Open
            <4> QED
                BY <3>2, <4>1
        <3> QED
            BY <3>1, <3>3 DEF OnceInv
    <2> QED
        BY <2>1 DEF MaterializedOnce, MadeBy
<1> QED
    BY <1>1, FamilyInvariant, PTL

-----------------------------------------------------------------------------
(***************************************************************************)
(* Crawl, for any site, any robots file and any limits: the types with the *)
(* bound of remembered addresses, and that a crawl which is done left out  *)
(* nothing it should have visited.                                         *)
(***************************************************************************)

-----------------------------------------------------------------------------
(* The inductive invariant of Crawl.                                        *)

CrawlTypes ==
  /\ status \in {"queued", "running"} \cup CrawlFinal
  /\ step \in {"idle", "robots", "maps", "pages", "fetching", "end", "ssrf", "unavailable"}
  /\ mapQueue \in Seq(Maps) /\ mapsSeen \subseteq Maps
  /\ queue \in Seq(Urls) /\ seen \subseteq Urls /\ Cardinality(seen) <= MaxSeen
  /\ depthOf \in [Urls -> Nat] /\ pages \in PageRows /\ evidence \in 0..1

\* Before the first page nothing is discovered or stored.
FreshInv ==
  /\ status = "queued" => step = "idle" /\ queue = <<>> /\ seen = {} /\ DOMAIN pages = {}
  /\ step = "robots" => DOMAIN pages = {}
  /\ step = "fetching" => queue # <<>>

\* What is stored or queued was discovered; what a running crawl discovered is
\* stored or queued, and what a finished one discovered is stored.
DiscoveredInv ==
  /\ DOMAIN pages \subseteq seen /\ ToSet(queue) \subseteq seen
  /\ status = "running" => seen \subseteq DOMAIN pages \cup ToSet(queue)
  /\ status = "done" => step = "idle" /\ seen \subseteq DOMAIN pages

\* The links of a fetched page were discovered, unless the limit was hit.
LinkedInv ==
  \A u \in DOMAIN pages : pages[u] = "fetched" /\ depthOf[u] < MaxDepth =>
    Links[u] \ disallowed \subseteq seen \/ Cardinality(seen) >= MaxSeen

CrawlInv == CrawlTypes /\ FreshInv /\ DiscoveredInv /\ LinkedInv

-----------------------------------------------------------------------------
(* Queues.                                                                  *)

\* SetToSeq lists a finite set, each element once.
LEMMA InSomeOrder ==
  ASSUME NEW S, IsFiniteSet(S)
  PROVE  /\ SetToSeq(S) \in Seq(S) /\ Len(SetToSeq(S)) = Cardinality(S) /\ Cardinality(S) \in Nat
         /\ ToSet(SetToSeq(S)) = S
         /\ \A i, j \in 1..Cardinality(S) : SetToSeq(S)[i] = SetToSeq(S)[j] => i = j
<1> DEFINE n == Cardinality(S)
           f == SetToSeq(S)
<1>1. n \in Nat /\ \E g \in Bijection(1..n, S) : TRUE
    BY FS_CardinalityType DEF ExistsBijection
<1>2. \E g \in [1..n -> S] : IsInjective(g)
    BY <1>1 DEF Bijection, Injection, IsInjective
<1>3. f \in [1..n -> S] /\ IsInjective(f)
    BY <1>2 DEF SetToSeq
<1>4. f \in Injection(1..n, S)
    BY <1>3 DEF Injection, IsInjective
<1>5. Cardinality(1..n) = n
    BY <1>1, FS_Interval
<1>6. f \in Surjection(1..n, S)
    BY <1>4, <1>5, FS_Injection
<1>7. \A x \in S : \E i \in 1..n : f[i] = x
    BY <1>6 DEF Surjection
<1>8. ToSet(f) = S
    BY <1>3, <1>7 DEF ToSet
<1>9. f \in Seq(S) /\ Len(f) = n
    BY <1>1, <1>3, LenProperties
<1>10. \A i, j \in 1..n : f[i] = f[j] => i = j
    BY <1>3 DEF IsInjective
<1> QED
    BY <1>1, <1>8, <1>9, <1>10

\* The first elements of a list without repetition.
LEMMA CutOff ==
  ASSUME NEW S, NEW q \in Seq(S), NEW n \in 0..Len(q),
         \A i, j \in 1..Len(q) : q[i] = q[j] => i = j
  PROVE  /\ SubSeq(q, 1, n) \in Seq(S) /\ Len(SubSeq(q, 1, n)) = n
         /\ ToSet(SubSeq(q, 1, n)) \subseteq ToSet(q)
         /\ IsFiniteSet(ToSet(SubSeq(q, 1, n))) /\ Cardinality(ToSet(SubSeq(q, 1, n))) = n
<1> DEFINE p == SubSeq(q, 1, n)
<1>1. DOMAIN q = 1..Len(q) /\ Len(q) \in Nat /\ \A i \in DOMAIN q : q[i] \in S
    BY SeqRows
<1>2. \A i \in 1..n : q[i] \in S
    BY <1>1
<1>3. /\ p \in Seq(S) /\ Len(p) = IF 1 <= n THEN n - 1 + 1 ELSE 0
      /\ \A i \in 1..(n - 1 + 1) : p[i] = q[1 + i - 1]
    BY <1>2, SubSeqProperties
<1> HIDE DEF p
<1>4. Len(p) = n /\ DOMAIN p = 1..n /\ \A i \in 1..n : p[i] = q[i]
    <2>1. Len(p) = n
        BY <1>3
    <2>2. DOMAIN p = 1..n
        BY <1>3, <2>1, SeqRows
    <2>3. \A i \in 1..n : i \in 1..(n - 1 + 1) /\ 1 + i - 1 = i
        OBVIOUS
    <2> QED
        BY <1>3, <2>1, <2>2, <2>3
<1>5. ToSet(p) \subseteq ToSet(q)
    BY <1>1, <1>4 DEF ToSet
<1>6. p \in Surjection(1..n, ToSet(p))
    <2>1. p \in [1..n -> ToSet(p)]
        BY <1>3, <1>4, LenProperties DEF ToSet
    <2>2. \A x \in ToSet(p) : \E i \in 1..n : p[i] = x
        BY <1>4 DEF ToSet
    <2> QED
        BY <2>1, <2>2 DEF Surjection
<1>7. p \in Injection(1..n, ToSet(p))
    <2>1. \A i, j \in 1..n : p[i] = p[j] => i = j
        BY <1>1, <1>4
    <2> QED
        BY <1>6, <2>1 DEF Surjection, Injection, IsInjective
<1>8. IsFiniteSet(1..n) /\ Cardinality(1..n) = n
    BY FS_Interval
<1>9. ExistsBijection(1..n, ToSet(p))
    BY <1>6, <1>7 DEF ExistsBijection, Bijection
<1>10. IsFiniteSet(ToSet(p)) /\ Cardinality(ToSet(p)) = n
    BY <1>8, <1>9, FS_Bijection
<1> QED
    BY <1>3, <1>4, <1>5, <1>10 DEF p

LEMMA ConcatSet ==
  ASSUME NEW S, NEW p \in Seq(S), NEW q \in Seq(S)
  PROVE  p \o q \in Seq(S) /\ ToSet(p \o q) = ToSet(p) \cup ToSet(q)
<1> DEFINE r == p \o q
           m == Len(p)
           n == Len(q)
<1>1. /\ r \in Seq(S) /\ Len(r) = m + n
      /\ \A i \in 1..(m + n) : r[i] = IF i <= m THEN p[i] ELSE q[i - m]
    BY ConcatProperties
<1> HIDE DEF r
<1>2. /\ DOMAIN p = 1..m /\ m \in Nat /\ DOMAIN q = 1..n /\ n \in Nat
    BY SeqRows
<1>3. DOMAIN r = 1..(m + n)
    BY <1>1, SeqRows
<1> HIDE DEF m, n
<1>4. ASSUME NEW i \in 1..(m + n)
      PROVE  r[i] \in ToSet(p) \cup ToSet(q)
    <2>1. CASE i <= m
        <3>1. i \in 1..m /\ r[i] = p[i]
            BY <1>1, <1>2, <2>1
        <3> QED
            BY <1>2, <3>1 DEF ToSet
    <2>2. CASE ~(i <= m)
        <3>1. i - m \in 1..n /\ r[i] = q[i - m]
            BY <1>1, <1>2, <2>2
        <3> QED
            BY <1>2, <3>1 DEF ToSet
    <2> QED
        BY <2>1, <2>2
<1>5. ASSUME NEW i \in 1..m
      PROVE  p[i] \in ToSet(r)
    <2>1. i \in 1..(m + n) /\ i <= m
        BY <1>2
    <2>2. r[i] = p[i]
        BY <1>1, <2>1
    <2> QED
        BY <1>3, <2>1, <2>2 DEF ToSet
<1>6. ASSUME NEW i \in 1..n
      PROVE  q[i] \in ToSet(r)
    <2>1. m + i \in 1..(m + n) /\ ~(m + i <= m) /\ (m + i) - m = i
        BY <1>2
    <2>2. r[m + i] = q[i]
        BY <1>1, <2>1
    <2> QED
        BY <1>3, <2>1, <2>2 DEF ToSet
<1>7. ToSet(r) \subseteq ToSet(p) \cup ToSet(q)
    BY <1>3, <1>4 DEF ToSet
<1>8. ToSet(p) \subseteq ToSet(r) /\ ToSet(q) \subseteq ToSet(r)
    BY <1>2, <1>5, <1>6 DEF ToSet
<1>9. ToSet(r) = ToSet(p) \cup ToSet(q)
    BY <1>7, <1>8
<1> QED
    BY <1>1, <1>9 DEF r

LEMMA TailSet ==
  ASSUME NEW S, NEW q \in Seq(S), q # <<>>
  PROVE  /\ Head(q) \in S /\ Tail(q) \in Seq(S)
         /\ Head(q) \in ToSet(q) /\ ToSet(q) = {Head(q)} \cup ToSet(Tail(q))
<1>1. /\ Head(q) \in S /\ Tail(q) \in Seq(S) /\ Len(Tail(q)) = Len(q) - 1
      /\ \A i \in 1..Len(Tail(q)) : Tail(q)[i] = q[i + 1]
    BY HeadTailProperties
<1> DEFINE n == Len(q)
<1>2. DOMAIN q = 1..n /\ n \in Nat /\ n >= 1 /\ Head(q) = q[1]
    <2>1. Len(q) # 0
        BY EmptySeq, LenProperties
    <2> QED
        BY <2>1, SeqRows
<1>3. DOMAIN Tail(q) = 1..(n - 1)
    BY <1>1, SeqRows
<1> HIDE DEF n
<1>4. ASSUME NEW i \in 1..n PROVE q[i] \in {Head(q)} \cup ToSet(Tail(q))
    <2>1. CASE i = 1
        BY <1>2, <2>1
    <2>2. CASE i # 1
        <3>1. i - 1 \in 1..(n - 1) /\ (i - 1) + 1 = i
            BY <1>2, <2>2
        <3>2. Tail(q)[i - 1] = q[i]
            BY <1>1, <1>3, <3>1, SeqRows DEF n
        <3> QED
            BY <1>3, <3>1, <3>2 DEF ToSet
    <2> QED
        BY <2>1, <2>2
<1>5. ASSUME NEW i \in 1..(n - 1) PROVE Tail(q)[i] \in ToSet(q)
    <2>1. i + 1 \in 1..n
        BY <1>2
    <2>2. Tail(q)[i] = q[i + 1]
        BY <1>1 DEF n
    <2> QED
        BY <1>2, <2>1, <2>2 DEF ToSet
<1>6. Head(q) \in ToSet(q)
    BY <1>2 DEF ToSet
<1>7. ToSet(q) \subseteq {Head(q)} \cup ToSet(Tail(q))
    BY <1>2, <1>4 DEF ToSet
<1>8. ToSet(Tail(q)) \subseteq ToSet(q)
    BY <1>3, <1>5 DEF ToSet
<1> QED
    BY <1>1, <1>6, <1>7, <1>8

-----------------------------------------------------------------------------
(* enqueue.                                                                 *)

\* The addresses added are new; all of those found are, unless the limit is hit.
LEMMA AddedType ==
  ASSUME CrawlTypes, NEW found \in SUBSET Urls, NEW depth, NEW added, added = Added(found, depth)
  PROVE  /\ added \in Seq(Urls) /\ ToSet(added) \subseteq Urls /\ ToSet(added) \cap seen = {}
         /\ Cardinality(seen \cup ToSet(added)) <= MaxSeen
         /\ \/ {u \in found : Enqueueable(u, depth)} \subseteq ToSet(added)
            \/ Cardinality(seen \cup ToSet(added)) >= MaxSeen
<1> DEFINE fit == {u \in found : Enqueueable(u, depth)}
           room == IF MaxSeen > Cardinality(seen) THEN MaxSeen - Cardinality(seen) ELSE 0
<1>1. IsFiniteSet(seen) /\ Cardinality(seen) \in Nat /\ Cardinality(seen) <= MaxSeen /\ MaxSeen \in Nat
    BY CrawlAssumption, FS_Subset, FS_CardinalityType DEF CrawlTypes
<1>2. IsFiniteSet(fit)
    <2>1. fit \subseteq Urls
        OBVIOUS
    <2> QED
        BY <2>1, CrawlAssumption, FS_Subset
<1>3. PICK new \in Seq(fit) : new = SetToSeq(fit)
    BY <1>2, InSomeOrder
<1>4. /\ Len(new) \in Nat /\ ToSet(new) = fit /\ Cardinality(fit) = Len(new)
      /\ \A i, j \in 1..Len(new) : new[i] = new[j] => i = j
    BY <1>2, <1>3, InSomeOrder
<1>5. room \in Nat /\ room = MaxSeen - Cardinality(seen)
    BY <1>1
<1>6. added = IF Len(new) <= room THEN new ELSE SubSeq(new, 1, room)
    BY <1>3 DEF Added
<1>7. fit \cap seen = {} /\ fit \subseteq Urls
    BY DEF Enqueueable
<1> HIDE DEF fit, room
<1>8. \A T : T \subseteq fit /\ IsFiniteSet(T) => Cardinality(seen \cup T) = Cardinality(seen) + Cardinality(T)
    <2>1. ASSUME NEW T, T \subseteq fit, IsFiniteSet(T)
          PROVE  Cardinality(seen \cup T) = Cardinality(seen) + Cardinality(T)
        <3>1. seen \cap T = {}
            BY <1>7, <2>1
        <3>2. Cardinality(seen \cup T) = Cardinality(seen) + Cardinality(T) - Cardinality(seen \cap T)
            BY <1>1, <2>1, FS_Union
        <3>3. Cardinality(T) \in Nat
            BY <2>1, FS_CardinalityType
        <3>4. Cardinality(seen \cap T) = 0
            BY <3>1, FS_EmptySet
        <3> QED
            BY <1>1, <3>2, <3>3, <3>4
    <2> QED
        BY <2>1
<1>9. CASE Len(new) <= room
    <2>1. added = new /\ added \in Seq(Urls)
        <3>1. \A i \in 1..Len(new) : new[i] \in Urls
            BY <1>3, <1>7, SeqRows
        <3> QED
            BY <1>3, <1>4, <1>6, <1>9, <3>1, LenProperties
    <2>2. Cardinality(seen \cup ToSet(added)) = Cardinality(seen) + Len(new)
        BY <1>2, <1>4, <1>8, <2>1
    <2> QED
        BY <1>1, <1>4, <1>5, <1>7, <1>9, <2>1, <2>2 DEF fit
<1>10. CASE ~(Len(new) <= room)
    <2>1. room \in 0..Len(new) /\ added = SubSeq(new, 1, room)
        BY <1>4, <1>5, <1>6, <1>10
    <2>2. /\ added \in Seq(fit) /\ ToSet(added) \subseteq fit
          /\ IsFiniteSet(ToSet(added)) /\ Cardinality(ToSet(added)) = room
        BY <1>3, <1>4, <2>1, CutOff
    <2>3. added \in Seq(Urls)
        <3>1. \A i \in 1..Len(added) : added[i] \in Urls
            BY <1>7, <2>2, SeqRows
        <3> QED
            BY <2>2, <3>1, LenProperties
    <2>4. Cardinality(seen \cup ToSet(added)) = Cardinality(seen) + room
        BY <1>8, <2>2
    <2> QED
        BY <1>1, <1>5, <1>7, <2>2, <2>3, <2>4
<1> QED
    BY <1>9, <1>10

LEMMA EnqueueAdds ==
  ASSUME CrawlTypes, NEW found \in SUBSET Urls, NEW depth \in Nat, NEW rest \in Seq(Urls),
         Enqueue(found, depth, rest)
  PROVE  /\ queue' \in Seq(Urls) /\ seen' \subseteq Urls /\ Cardinality(seen') <= MaxSeen
         /\ seen \subseteq seen' /\ ToSet(queue') = ToSet(rest) \cup (seen' \ seen)
         /\ depthOf' \in [Urls -> Nat] /\ \A u \in seen : depthOf'[u] = depthOf[u]
         /\ \/ {u \in found : Enqueueable(u, depth)} \subseteq seen'
            \/ Cardinality(seen') >= MaxSeen
<1>1. PICK added : added = Added(found, depth)
    OBVIOUS
<1>2. /\ queue' = rest \o added /\ seen' = seen \cup ToSet(added)
      /\ depthOf' = [u \in Urls |-> IF u \in ToSet(added) THEN depth ELSE depthOf[u]]
    BY <1>1 DEF Enqueue
<1>3. /\ added \in Seq(Urls) /\ ToSet(added) \subseteq Urls /\ ToSet(added) \cap seen = {}
      /\ Cardinality(seen \cup ToSet(added)) <= MaxSeen
      /\ \/ {u \in found : Enqueueable(u, depth)} \subseteq ToSet(added)
         \/ Cardinality(seen \cup ToSet(added)) >= MaxSeen
    BY <1>1, AddedType
<1>4. queue' \in Seq(Urls) /\ ToSet(queue') = ToSet(rest) \cup ToSet(added)
    BY <1>2, <1>3, ConcatSet
<1>5. seen' \ seen = ToSet(added) /\ seen' \subseteq Urls
    BY <1>2, <1>3 DEF CrawlTypes
<1>6. depthOf' \in [Urls -> Nat] /\ \A u \in seen : depthOf'[u] = depthOf[u]
    BY <1>2, <1>3 DEF CrawlTypes
<1> QED
    BY <1>2, <1>3, <1>4, <1>5, <1>6

\* The limit of remembered addresses stays hit.
LEMMA SeenGrows ==
  ASSUME NEW S, NEW T, S \subseteq T, T \subseteq Urls, Cardinality(S) >= MaxSeen
  PROVE  Cardinality(T) >= MaxSeen
<1>1. IsFiniteSet(T) /\ IsFiniteSet(S)
    BY CrawlAssumption, FS_Subset
<1>2. Cardinality(S) <= Cardinality(T) /\ Cardinality(S) \in Nat /\ Cardinality(T) \in Nat
    BY <1>1, FS_Subset, FS_CardinalityType
<1> QED
    BY <1>2, CrawlAssumption

-----------------------------------------------------------------------------
(* Every step of Crawl keeps the invariant.                                 *)

LEMMA CrawlInitInv == CrawlInit => CrawlInv
<1> SUFFICES ASSUME CrawlInit PROVE CrawlInv
    OBVIOUS
<1>1. <<>> \in Seq(Maps) /\ <<>> \in Seq(Urls) /\ DOMAIN <<>> = {} /\ ToSet(<<>>) = {}
    BY EmptySeq DEF ToSet
<1>2. <<>> \in PageRows
    <2>1. <<>> \in [{} -> Outcomes]
        BY <1>1
    <2> QED
        BY <2>1 DEF PageRows
<1>3. Cardinality(seen) = 0 /\ MaxSeen \in Nat
    BY FS_EmptySet, CrawlAssumption DEF CrawlInit
<1>4. CrawlTypes
    BY <1>1, <1>2, <1>3 DEF CrawlInit, CrawlTypes
<1>5. FreshInv /\ DiscoveredInv /\ LinkedInv
    BY <1>1 DEF CrawlInit, FreshInv, DiscoveredInv, LinkedInv
<1> QED
    BY <1>4, <1>5 DEF CrawlInv

\* Only the status and the place of the crawler change.
LEMMA StatusKeeps ==
  ASSUME CrawlInv, StartCrawl \/ SitemapBlocked \/ LeaveLoop \/ EndCrawl \/ CancelCrawl
                   \/ RecoverLegacyCrawl \/ ApproveCrawlEvidence
  PROVE  CrawlInv'
<1>1. UNCHANGED <<disallowed, mapQueue, mapsSeen, queue, seen, depthOf, pages>>
    BY DEF StartCrawl, SitemapBlocked, LeaveLoop, EndCrawl, CancelCrawl, RecoverLegacyCrawl,
           ApproveCrawlEvidence
<1>2. /\ status' \in {"queued", "running"} \cup CrawlFinal /\ evidence' \in 0..1
      /\ step' \in {"idle", "robots", "maps", "pages", "fetching", "end", "ssrf", "unavailable"}
    BY DEF CrawlInv, CrawlTypes, CrawlFinal, StartCrawl, SitemapBlocked, LeaveLoop, EndCrawl, EndStatus,
           CancelCrawl, RecoverLegacyCrawl, ApproveCrawlEvidence
<1>3. CrawlTypes'
    BY <1>1, <1>2 DEF CrawlInv, CrawlTypes, PageRows
<1>4. FreshInv'
    BY <1>1 DEF CrawlInv, FreshInv, CrawlFinal, StartCrawl, SitemapBlocked, LeaveLoop, EndCrawl, EndStatus,
           CancelCrawl, RecoverLegacyCrawl, ApproveCrawlEvidence
<1>5. DiscoveredInv'
    <2>1. ToSet(queue)' = ToSet(queue)
        BY <1>1
    <2>2. CASE EndCrawl
        <3>1. ToSet(<<>>) = {}
            BY DEF ToSet
        <3>2. status' = "done" => (status = "running" /\ queue = <<>>) \/ status = "done"
            BY <2>2 DEF EndCrawl, EndStatus
        <3>3. status' = "running" => status = "running"
            BY <2>2 DEF EndCrawl, EndStatus
        <3>4. step' = "idle"
            BY <2>2 DEF EndCrawl
        <3> QED
            BY <1>1, <2>1, <3>1, <3>2, <3>3, <3>4 DEF CrawlInv, DiscoveredInv
    <2>3. CASE StartCrawl
        BY <1>1, <2>1, <2>3 DEF CrawlInv, DiscoveredInv, FreshInv, StartCrawl
    <2>4. CASE SitemapBlocked \/ LeaveLoop \/ CancelCrawl \/ RecoverLegacyCrawl \/ ApproveCrawlEvidence
        BY <1>1, <2>1, <2>4 DEF CrawlInv, DiscoveredInv, SitemapBlocked, LeaveLoop, CancelCrawl,
           RecoverLegacyCrawl, ApproveCrawlEvidence
    <2> QED
        BY <2>2, <2>3, <2>4
<1>6. LinkedInv'
    BY <1>1 DEF CrawlInv, LinkedInv
<1> QED
    BY <1>3, <1>4, <1>5, <1>6 DEF CrawlInv

LEMMA ReadRobotsKeeps ==
  ASSUME CrawlInv, ReadRobots
  PROVE  CrawlInv'
<1>1. /\ step = "robots" /\ step' \in {"maps", "unavailable", "ssrf"}
      /\ UNCHANGED <<status, mapsSeen, queue, seen, depthOf, pages, evidence>>
    BY DEF ReadRobots
<1>2. mapQueue' \in Seq(Maps)
    <2>1. ASSUME NEW maps \in SUBSET Maps
          PROVE  Append(SetToSeq(maps), RootMap) \in Seq(Maps)
        <3>1. IsFiniteSet(maps)
            BY CrawlAssumption, FS_Subset
        <3>2. SetToSeq(maps) \in Seq(maps)
            BY <3>1, InSomeOrder
        <3>3. SetToSeq(maps) \in Seq(Maps)
            <4>1. \A i \in 1..Len(SetToSeq(maps)) : SetToSeq(maps)[i] \in Maps
                BY <3>2, SeqRows
            <4> QED
                BY <3>2, <4>1, LenProperties
        <3> QED
            BY <3>3, CrawlAssumption, AppendProperties
    <2> QED
        BY <2>1 DEF ReadRobots, CrawlInv, CrawlTypes
<1>3. CrawlTypes'
    BY <1>1, <1>2 DEF CrawlInv, CrawlTypes, PageRows
<1>4. FreshInv' /\ DiscoveredInv' /\ LinkedInv'
    BY <1>1 DEF CrawlInv, FreshInv, DiscoveredInv, LinkedInv
<1> QED
    BY <1>3, <1>4 DEF CrawlInv

\* Addresses are discovered and no page is stored.
LEMMA DiscoverKeeps ==
  ASSUME CrawlInv, NEW found \in SUBSET Urls, NEW depth \in Nat, Enqueue(found, depth, queue),
         mapQueue' \in Seq(Maps), mapsSeen' \subseteq Maps, step = "maps", step' \in {"maps", "pages"},
         UNCHANGED <<status, disallowed, fetched, pages, evidence>>
  PROVE  CrawlInv'
<1>t. CrawlTypes /\ queue \in Seq(Urls)
    BY DEF CrawlInv, CrawlTypes
<1>1. /\ queue' \in Seq(Urls) /\ seen' \subseteq Urls /\ Cardinality(seen') <= MaxSeen
      /\ seen \subseteq seen' /\ ToSet(queue)' = ToSet(queue) \cup (seen' \ seen)
      /\ depthOf' \in [Urls -> Nat] /\ \A u \in seen : depthOf'[u] = depthOf[u]
    BY <1>t, EnqueueAdds
<1>2. CrawlTypes'
    BY <1>1 DEF CrawlInv, CrawlTypes, PageRows
<1>3. FreshInv'
    BY DEF CrawlInv, FreshInv
<1>4. DiscoveredInv'
    BY <1>1 DEF CrawlInv, DiscoveredInv
<1>5. LinkedInv'
    <2>1. DOMAIN pages \subseteq seen
        BY DEF CrawlInv, DiscoveredInv
    <2>2. Cardinality(seen) >= MaxSeen => Cardinality(seen') >= MaxSeen
        BY <1>1, <1>t, CrawlAssumption, SeenGrows DEF CrawlTypes
    <2> QED
        BY <1>1, <2>1, <2>2 DEF CrawlInv, LinkedInv
<1> QED
    BY <1>2, <1>3, <1>4, <1>5 DEF CrawlInv

LEMMA ReadSitemapKeeps ==
  ASSUME CrawlInv, NEW readable \in BOOLEAN, ReadSitemap(readable)
  PROVE  CrawlInv'
<1> DEFINE map == Head(mapQueue)
           rest == Tail(mapQueue)
           found == SetToSeq(Listed[map] \cap Maps)
           room == IF MaxMaps > Len(rest) THEN MaxMaps - Len(rest) ELSE 0
           more == IF Len(found) <= room THEN found ELSE SubSeq(found, 1, room)
<1>1. map \in Maps /\ rest \in Seq(Maps) /\ Len(rest) \in Nat
    BY HeadTailProperties, SeqRows DEF ReadSitemap, CrawlInv, CrawlTypes
<1>2. /\ mapsSeen' \subseteq Maps /\ step = "maps" /\ step' = "maps"
      /\ UNCHANGED <<status, disallowed, fetched, pages, evidence>>
    BY <1>1 DEF ReadSitemap, CrawlInv, CrawlTypes
<1>3. CASE mapQueue' = rest /\ UNCHANGED <<queue, seen, depthOf>>
    <2>1. CrawlTypes'
        BY <1>1, <1>2, <1>3 DEF CrawlInv, CrawlTypes, PageRows
    <2>2. FreshInv' /\ DiscoveredInv' /\ LinkedInv'
        BY <1>2, <1>3 DEF CrawlInv, FreshInv, DiscoveredInv, LinkedInv
    <2> QED
        BY <2>1, <2>2 DEF CrawlInv
<1>4. CASE mapQueue' = rest \o more /\ Enqueue(Listed[map] \ ToSet(more), 0, queue)
    <2>1. IsFiniteSet(Listed[map] \cap Maps) /\ Listed[map] \subseteq Urls
        BY <1>1, CrawlAssumption, FS_Subset
    <2>2. /\ found \in Seq(Listed[map] \cap Maps)
          /\ \A i, j \in 1..Len(found) : found[i] = found[j] => i = j
        BY <2>1, InSomeOrder
    <2>3. found \in Seq(Maps) /\ Len(found) \in Nat
        <3>1. \A i \in 1..Len(found) : found[i] \in Maps
            BY <2>2, SeqRows
        <3> QED
            BY <2>2, <3>1, LenProperties
    <2>4. more \in Seq(Maps)
        <3>1. room \in Nat
            BY <1>1, CrawlAssumption
        <3> HIDE DEF found, room
        <3>2. CASE Len(found) <= room
            BY <2>3, <3>2
        <3>3. CASE ~(Len(found) <= room)
            <4>1. room \in 0..Len(found)
                BY <2>3, <3>1, <3>3
            <4> QED
                BY <2>2, <2>3, <3>3, <4>1, CutOff
        <3> QED
            BY <3>2, <3>3
    <2>5. rest \o more \in Seq(Maps)
        BY <1>1, <2>4, ConcatProperties
    <2>6. mapQueue' \in Seq(Maps) /\ (Listed[map] \ ToSet(more)) \in SUBSET Urls
        BY <1>4, <2>1, <2>5
    <2> HIDE DEF map, more
    <2> QED
        BY <1>2, <1>4, <2>6, DiscoverKeeps
<1>5. \/ mapQueue' = rest /\ UNCHANGED <<queue, seen, depthOf>>
      \/ mapQueue' = rest \o more /\ Enqueue(Listed[map] \ ToSet(more), 0, queue)
    BY DEF ReadSitemap
<1> QED
    BY <1>3, <1>4, <1>5

LEMMA SeedPagesKeeps ==
  ASSUME CrawlInv, SeedPages
  PROVE  CrawlInv'
<1>1. {Seed} \in SUBSET Urls
    BY CrawlAssumption
<1>2. /\ Enqueue({Seed}, 0, queue) /\ step = "maps" /\ step' = "pages"
      /\ UNCHANGED <<status, disallowed, mapQueue, mapsSeen, fetched, pages, evidence>>
    BY DEF SeedPages
<1>3. mapQueue' \in Seq(Maps) /\ mapsSeen' \subseteq Maps
    BY <1>2 DEF CrawlInv, CrawlTypes
<1> QED
    BY <1>1, <1>2, <1>3, DiscoverKeeps

LEMMA TakePageKeeps ==
  ASSUME CrawlInv, TakePage
  PROVE  CrawlInv'
<1>1. /\ step = "pages" /\ queue # <<>> /\ step' \in {"fetching", "end"}
      /\ UNCHANGED <<status, disallowed, mapQueue, mapsSeen, seen, depthOf, pages, evidence>>
      /\ \/ status = "running" /\ queue' = queue
         \/ status # "running" /\ step' = "end" /\ queue' = Tail(queue)
    BY DEF TakePage
<1>2. Tail(queue) \in Seq(Urls) /\ ToSet(Tail(queue)) \subseteq ToSet(queue)
    BY <1>1, TailSet DEF CrawlInv, CrawlTypes
<1>3. CrawlTypes'
    BY <1>1, <1>2 DEF CrawlInv, CrawlTypes, PageRows
<1>4. ToSet(queue)' \subseteq ToSet(queue) /\ (status = "running" => ToSet(queue)' = ToSet(queue))
    BY <1>1, <1>2
<1>5. FreshInv' /\ LinkedInv'
    BY <1>1 DEF CrawlInv, FreshInv, LinkedInv
<1>6. DiscoveredInv'
    BY <1>1, <1>4 DEF CrawlInv, DiscoveredInv
<1> QED
    BY <1>3, <1>5, <1>6 DEF CrawlInv

\* The page at the head of the queue is stored, and the links of a fetched one
\* are discovered.
LEMMA StorePageKeeps ==
  ASSUME CrawlInv, NEW outcome \in Outcomes, StorePage(outcome)
  PROVE  CrawlInv'
<1>1. PICK url \in Urls : url = Head(queue)
    BY TailSet DEF StorePage, CrawlInv, CrawlTypes, FreshInv
<1>2. /\ step = "fetching" /\ step' = "pages"
      /\ UNCHANGED <<status, disallowed, mapQueue, mapsSeen, evidence>>
      /\ pages' = [u \in DOMAIN pages \cup {url} |-> IF u = url THEN outcome ELSE pages[u]]
      /\ \/ outcome = "fetched" /\ Enqueue(Links[url], depthOf[url] + 1, Tail(queue))
         \/ outcome # "fetched" /\ queue' = Tail(queue) /\ UNCHANGED <<seen, depthOf>>
    BY <1>1 DEF StorePage
<1>3. /\ Tail(queue) \in Seq(Urls) /\ ToSet(queue) = {url} \cup ToSet(Tail(queue))
      /\ url \in seen /\ ToSet(Tail(queue)) \subseteq seen
    BY <1>1, <1>2, TailSet DEF CrawlInv, CrawlTypes, FreshInv, DiscoveredInv
<1>4. depthOf[url] \in Nat /\ Links[url] \in SUBSET Urls /\ MaxDepth \in Nat
    BY CrawlAssumption DEF CrawlInv, CrawlTypes
<1>5. pages' \in PageRows /\ DOMAIN pages' = DOMAIN pages \cup {url}
    <2>1. PICK P \in SUBSET Urls : pages \in [P -> Outcomes]
        BY DEF CrawlInv, CrawlTypes, PageRows
    <2>2. pages' \in [P \cup {url} -> Outcomes] /\ P \cup {url} \in SUBSET Urls
        BY <1>2, <2>1
    <2> QED
        BY <1>2, <2>2 DEF PageRows
<1>6. /\ queue' \in Seq(Urls) /\ seen' \subseteq Urls /\ Cardinality(seen') <= MaxSeen
      /\ seen \subseteq seen' /\ ToSet(queue)' = ToSet(Tail(queue)) \cup (seen' \ seen)
      /\ depthOf' \in [Urls -> Nat] /\ \A u \in seen : depthOf'[u] = depthOf[u]
      /\ outcome = "fetched" =>
           \/ {u \in Links[url] : Enqueueable(u, depthOf[url] + 1)} \subseteq seen'
           \/ Cardinality(seen') >= MaxSeen
    <2>1. CASE outcome = "fetched"
        <3>1. Enqueue(Links[url], depthOf[url] + 1, Tail(queue)) /\ depthOf[url] + 1 \in Nat /\ CrawlTypes
            BY <1>2, <1>4, <2>1 DEF CrawlInv
        <3> QED
            BY <1>3, <1>4, <3>1, EnqueueAdds
    <2>2. CASE outcome # "fetched"
        <3>1. seen' \ seen = {} /\ ToSet(queue)' = ToSet(Tail(queue))
            BY <1>2, <2>2
        <3> QED
            BY <1>2, <1>3, <2>2, <3>1 DEF CrawlInv, CrawlTypes
    <2> QED
        BY <2>1, <2>2
<1>7. CrawlTypes'
    BY <1>2, <1>5, <1>6 DEF CrawlInv, CrawlTypes
<1>8. FreshInv'
    BY <1>2 DEF CrawlInv, FreshInv
<1>9. DiscoveredInv'
    BY <1>2, <1>3, <1>5, <1>6 DEF CrawlInv, DiscoveredInv
<1>10. LinkedInv'
    <2>1. Cardinality(seen) >= MaxSeen => Cardinality(seen') >= MaxSeen
        BY <1>6, CrawlAssumption, SeenGrows DEF CrawlInv, CrawlTypes
    <2>2. ASSUME NEW u \in DOMAIN pages', pages'[u] = "fetched", depthOf'[u] < MaxDepth
          PROVE  Links[u] \ disallowed \subseteq seen' \/ Cardinality(seen') >= MaxSeen
        <3>1. u \in seen /\ depthOf'[u] = depthOf[u]
            BY <1>3, <1>5, <1>6 DEF CrawlInv, DiscoveredInv
        <3>2. CASE u = url
            <4>1. outcome = "fetched"
                BY <1>2, <2>2, <3>2
            <4>2. depthOf[url] + 1 <= MaxDepth
                BY <1>4, <2>2, <3>1, <3>2
            <4>3. Links[url] \ disallowed \subseteq
                    seen \cup {v \in Links[url] : Enqueueable(v, depthOf[url] + 1)}
                BY <4>2 DEF Enqueueable
            <4> QED
                BY <1>6, <3>2, <4>1, <4>3
        <3>3. CASE u # url
            <4>1. u \in DOMAIN pages /\ pages[u] = "fetched" /\ depthOf[u] < MaxDepth
                BY <1>2, <2>2, <3>1, <3>3
            <4> QED
                BY <1>6, <2>1, <4>1 DEF CrawlInv, LinkedInv
        <3> QED
            BY <3>2, <3>3
    <2> QED
        BY <1>2, <2>2 DEF LinkedInv
<1> QED
    BY <1>7, <1>8, <1>9, <1>10 DEF CrawlInv

LEMMA CrawlStepInv == CrawlInv /\ [CrawlNext]_crawlVars => CrawlInv'
<1> SUFFICES ASSUME CrawlInv, [CrawlNext]_crawlVars PROVE CrawlInv'
    OBVIOUS
<1>1. CASE StartCrawl \/ SitemapBlocked \/ LeaveLoop \/ EndCrawl \/ CancelCrawl \/ RecoverLegacyCrawl
           \/ ApproveCrawlEvidence
    BY <1>1, StatusKeeps
<1>2. CASE ReadRobots
    BY <1>2, ReadRobotsKeeps
<1>3. CASE SeedPages
    BY <1>3, SeedPagesKeeps
<1>4. CASE \E readable \in BOOLEAN : ReadSitemap(readable)
    BY <1>4, ReadSitemapKeeps
<1>5. CASE TakePage
    BY <1>5, TakePageKeeps
<1>6. CASE \E outcome \in Outcomes : StorePage(outcome)
    BY <1>6, StorePageKeeps
<1>7. CASE UNCHANGED crawlVars
    BY <1>7 DEF crawlVars, CrawlInv, CrawlTypes, PageRows, FreshInv, DiscoveredInv, LinkedInv
<1> QED
    BY <1>1, <1>2, <1>3, <1>4, <1>5, <1>6, <1>7 DEF CrawlNext, Crawler

LEMMA CrawlInvariant == CrawlSpec => []CrawlInv
BY CrawlInitInv, CrawlStepInv, PTL DEF CrawlSpec

-----------------------------------------------------------------------------
\* Every variable has its type, and the crawler never remembers more addresses
\* than the limit, for any site and any limits (enqueue).
THEOREM CrawlTypeCorrect == CrawlSpec => []CrawlTypeOK
<1>1. CrawlInv => CrawlTypeOK
    BY DEF CrawlInv, CrawlTypes, CrawlTypeOK
<1> QED
    BY CrawlInvariant, <1>1, PTL

\* DoneIsComplete: a crawl that ended as done visited every allowed page that a
\* page it fetched links to within the depth limit, unless it hit the limit of
\* remembered addresses (run_competitor_crawl).
THEOREM DoneVisitedAll == CrawlSpec => []DoneIsComplete
<1>1. CrawlInv => DoneIsComplete
    <2> SUFFICES ASSUME CrawlInv, status = "done", Cardinality(seen) < MaxSeen,
                        NEW u \in DOMAIN pages, pages[u] = "fetched", depthOf[u] < MaxDepth
                 PROVE  Links[u] \ disallowed \subseteq DOMAIN pages
        BY DEF DoneIsComplete
    <2>1. Cardinality(seen) \in Nat /\ MaxSeen \in Nat
        BY CrawlAssumption, FS_Subset, FS_CardinalityType DEF CrawlInv, CrawlTypes
    <2> QED
        BY <2>1 DEF CrawlInv, DiscoveredInv, LinkedInv
<1> QED
    BY CrawlInvariant, <1>1, PTL
=============================================================================

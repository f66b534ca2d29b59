------------------------- MODULE BackupLibrary_proofs -------------------------
(***************************************************************************)
(* Proofs about BackupLibrary for every number of stacks, processes, runs, *)
(* days and faults, and for every retention policy.                        *)
(***************************************************************************)
EXTENDS BackupLibrary, FiniteSetTheorems, TLAPS

-----------------------------------------------------------------------------
(* The inductive invariant of the theorems below, in three parts.          *)

Real(r) == row[r].status # "none"
Taking(k) == kpc[k] \in {"member", "parts"}

(* Sets are taken by one process each, in the order of their members, and  *)
(* the run that is taken is unfinished.                                    *)
RowsCounted ==
    \A r \in Run :
        /\ Real(r) <=> r <= made
        /\ Real(r) => row[r].set <= sets
        /\ ~Real(r) => artifacts[r] = {}

OwnSets ==
    \A k \in Keeper : Taking(k) =>
        /\ kset[k] \in 1 .. sets
        /\ \A j \in Keeper : Taking(j) /\ kset[j] = kset[k] => j = k

InOrder ==
    \A k \in Keeper : Taking(k) =>
        \A r \in Run : Real(r) /\ row[r].set = kset[k] =>
            /\ \A n \in ktodo[k] : row[r].member < n
            /\ kpc[k] = "parts" => row[r].member <= row[krun[k]].member

OwnRuns ==
    \A k \in Keeper :
        /\ kpc[k] \in {"parts", "rows"} => krun[k] \in Run
        /\ kpc[k] = "parts" =>
              /\ row[krun[k]].status = "running" /\ row[krun[k]].set = kset[k]
              /\ artifacts[krun[k]] \subseteq objects[krun[k]]

TakingInv == RowsCounted /\ OwnSets /\ InOrder /\ OwnRuns

(* What a process is about to delete has a newer run that is kept, and so  *)
(* every run that has ended well has a whole one that is not older.        *)
DaysFrom(r) == {DayOf(q) : q \in {p \in Candidates : p >= r}}

Later(r) == \E q \in Candidates : q > r
LaterOfDay(r) ==
    \/ Cardinality(DaysFrom(r)) > Daily
    \/ \E q \in Candidates : q > r /\ DayOf(q) = DayOf(r)

ToPrune(k) == doomed[k] \cup (IF kpc[k] = "rows" THEN {krun[k]} ELSE {})

GivenInv ==
    \A k \in Keeper : \A r \in ToPrune(k) :
        r \in Candidates /\ Later(r) /\ (cap = 0 => LaterOfDay(r))

CoveredInv ==
    \A c \in Candidates :
        /\ \E q \in Candidates : q >= c /\ Whole(q)
        /\ cap = 0 =>
              \/ Cardinality(DaysFrom(c)) > Daily
              \/ \E q \in Candidates : q >= c /\ DayOf(q) = DayOf(c) /\ Whole(q)

AllOrNone ==
    \A r \in Run : row[r].status = "succeeded" =>
        artifacts[r] \in {PartsOf[row[r].member], {}}

CopiesInv == GivenInv /\ CoveredInv /\ AllOrNone

(* A restore goes through the runs of one set, the platform first.         *)
Restoring == rpc \in {"verify", "load"}
Tried(r)  == back[r] # {} \/ verdict[r] # "none" \/ r \in rtodo

TriedInv ==
    /\ rpc = "idle" => \A r \in Run : ~Tried(r)
    /\ Restoring => rrun \in rtodo
    /\ \A r \in Run : Tried(r) => r \in Candidates
    /\ \A r, q \in Run : Tried(r) /\ Tried(q) => row[r].set = row[q].set
    /\ \A r \in rtodo : verdict[r] # "succeeded"
    /\ \A r \in rtodo : back[r] # {} => rpc = "load" /\ r = rrun

FirstInv ==
    \A r \in Run, q \in Candidates :
        (Tried(r) /\ row[r].member # Platform /\ row[q].set = row[r].set
           /\ row[q].member = Platform)
        => /\ r \in rtodo => q \in rtodo \/ verdict[q] = "succeeded"
           /\ back[r] # {} \/ (Restoring /\ r = rrun) => verdict[q] = "succeeded"

PartsInv ==
    (Restoring /\ row[rrun].status = "succeeded") =>
        \/ rparts = {} /\ back[rrun] = {}
        \/ PartsOf[row[rrun].member] \cap Fatal \subseteq rparts \cup back[rrun]

RestoreInv == TriedInv /\ FirstInv /\ PartsInv /\ AllOrNothing

LibraryInv == LibraryTypeOK /\ TakingInv /\ CopiesInv /\ RestoreInv

LEMMA Bounds ==
  /\ MaxRuns \in Nat /\ MaxLibFaults \in Nat /\ MaxDay \in Nat /\ MaxSets \in Nat
  /\ MaxRestores \in Nat /\ Daily \in Nat
  /\ Member \subseteq Nat /\ Platform = 0
  /\ \A m \in Member : PartsOf[m] \subseteq Part /\ PartsOf[m] # {}
  /\ \A targets \in Asked : targets \subseteq Member
BY LibBoundAssumption, LibPolicyAssumption, LibStackAssumption, LibPartAssumption,
   LibAskedAssumption DEF Member, Platform

LEMMA LibraryInitInv == LibraryInit => LibraryInv
<1> SUFFICES ASSUME LibraryInit PROVE LibraryInv
  OBVIOUS
<1> USE DEF LibraryInit
<1>1. LibraryTypeOK
  <2>1. row \in [Run -> [set : Nat, member : Member, day : Nat,
                        status : {"none", "running", "succeeded", "partial", "failed"}]]
    BY Bounds DEF Member
  <2>2. MaxRuns >= 0 /\ 1 \in 1 .. MaxDay
    BY LibBoundAssumption
  <2> QED
    BY <2>1, <2>2, Bounds DEF LibraryTypeOK
<1>2. \A r \in Run : ~Real(r) /\ r \notin Candidates
  BY DEF Real, Candidates
<1>3. TakingInv
  BY <1>2, Bounds DEF TakingInv, RowsCounted, OwnSets, InOrder, OwnRuns, Taking, Run
<1>4. CopiesInv
  BY <1>2 DEF CopiesInv, GivenInv, CoveredInv, AllOrNone, ToPrune, Candidates
<1>5. RestoreInv
  BY <1>2 DEF RestoreInv, TriedInv, FirstInv, PartsInv, AllOrNothing, Tried, Restoring, Candidates
<1> QED
  BY <1>1, <1>3, <1>4, <1>5 DEF LibraryInv

-----------------------------------------------------------------------------
(* What the invariant says depends only on some of the variables.          *)

LEMMA SameRestore ==
  ASSUME RestoreInv, UNCHANGED <<row, restoreVars>>
  PROVE  RestoreInv'
BY DEF RestoreInv, TriedInv, FirstInv, PartsInv, AllOrNothing, Tried, Restoring, Candidates,
       restoreVars

LEMMA SameTaking ==
  ASSUME TakingInv, UNCHANGED <<recordVars, keeperVars>>
  PROVE  TakingInv'
BY DEF TakingInv, RowsCounted, OwnSets, InOrder, OwnRuns, Taking, Real, recordVars, keeperVars

LEMMA SameDays ==
  ASSUME UNCHANGED row
  PROVE  Candidates' = Candidates /\ \A r : DaysFrom(r)' = DaysFrom(r) /\ DayOf(r)' = DayOf(r)
BY DEF Candidates, DaysFrom, DayOf

LEMMA SameCopies ==
  ASSUME CopiesInv, UNCHANGED <<recordVars, cap, keeperVars>>
  PROVE  CopiesInv'
<1>1. UNCHANGED <<row, artifacts, objects, cap, kpc, krun, doomed>>
  BY DEF recordVars, keeperVars
<1>2. Candidates' = Candidates /\ \A r \in Run : Later(r)' = Later(r) /\ LaterOfDay(r)' = LaterOfDay(r)
  BY <1>1, SameDays DEF Later, LaterOfDay
<1>3. GivenInv'
  BY <1>1, <1>2 DEF CopiesInv, GivenInv, ToPrune, Candidates
<1>4. CoveredInv'
  BY <1>1, SameDays DEF CopiesInv, CoveredInv, Whole
<1>5. AllOrNone'
  BY <1>1 DEF CopiesInv, AllOrNone
<1> QED
  BY <1>3, <1>4, <1>5 DEF CopiesInv

LEMMA SelectKeepsNewest ==
  ASSUME NEW c, c \subseteq Run, NEW r \in SelectForDeletion(c)
  PROVE  /\ r \in c /\ \E q \in c : q > r
         /\ cap = 0 => \/ \E q \in c : q > r /\ DayOf(q) = DayOf(r)
                       \/ ~(Cardinality({DayOf(q) : q \in {p \in c : p >= r}}) <= Daily)
<1>1. r \in c /\ r \notin Newest(c)
  BY DEF SelectForDeletion, KeepMarked, WithinCap
<1>2. \E q \in c : q > r
  BY <1>1 DEF Newest, Run
<1>3. cap = 0 => r \notin Marked(c, Daily, DayOf)
  BY DEF SelectForDeletion, KeepMarked
<1>4. cap = 0 => \/ \E q \in c : DayOf(q) = DayOf(r) /\ ~(q <= r)
                 \/ ~(Cardinality({DayOf(q) : q \in {p \in c : p >= r}}) <= Daily)
  BY <1>1, <1>3 DEF Marked
<1> QED
  BY <1>1, <1>2, <1>4 DEF Run

(* the days of more runs are not fewer                                     *)
LEMMA DaysFinite == \A r : IsFiniteSet(DaysFrom(r)) /\ Cardinality(DaysFrom(r)) \in Nat
<1> TAKE r
<1>1. IsFiniteSet(Run)
  BY Bounds, FS_Interval DEF Run
<1>2. IsFiniteSet({p \in Candidates : p >= r})
  BY <1>1, FS_Subset DEF Candidates
<1>3. IsFiniteSet(DaysFrom(r))
  <2> DEFINE S == {p \in Candidates : p >= r}
             f == [q \in S |-> DayOf(q)]
  <2>1. f \in Surjection(S, DaysFrom(r))
    BY DEF Surjection, DaysFrom
  <2> QED
    BY <1>2, <2>1, FS_Surjection
<1> QED
  BY <1>3, FS_CardinalityType

LEMMA DaysFiniteNext == (\A r : IsFiniteSet(DaysFrom(r)) /\ Cardinality(DaysFrom(r)) \in Nat)'
BY DaysFinite, PTL

LEMMA MoreDays ==
  ASSUME NEW r \in Run, NEW q \in Run, r <= q
  PROVE  Cardinality(DaysFrom(q)) <= Cardinality(DaysFrom(r))
<1>1. DaysFrom(q) \subseteq DaysFrom(r)
  BY DEF DaysFrom, Candidates, Run
<1> QED
  BY <1>1, DaysFinite, FS_Subset

(* When no run has come to end well, and none has lost a part              *)
LEMMA KeptCopies ==
  ASSUME CopiesInv, Candidates' = Candidates, \A r \in Candidates : DayOf(r)' = DayOf(r),
         UNCHANGED cap, \A k \in Keeper : ToPrune(k)' \subseteq ToPrune(k),
         \A q \in Candidates : Whole(q) => Whole(q)', AllOrNone'
  PROVE  CopiesInv'
<1>1. \A r \in Candidates : DaysFrom(r)' = DaysFrom(r)
  BY DEF DaysFrom
<1>2. \A r \in Candidates : (Later(r) => Later(r)') /\ (LaterOfDay(r) => LaterOfDay(r)')
  BY <1>1 DEF Later, LaterOfDay
<1>3. GivenInv'
  BY <1>2 DEF CopiesInv, GivenInv
<1>4. CoveredInv'
  BY <1>1 DEF CopiesInv, CoveredInv
<1> QED
  BY <1>3, <1>4 DEF CopiesInv

(* When no platform run ends well of which a stack is being restored       *)
LEMMA KeptRestore ==
  ASSUME RestoreInv, Candidates \subseteq Candidates', \A r \in Candidates : row'[r] = row[r],
         \A r \in Run, q \in Candidates' \ Candidates :
            ~(Tried(r) /\ row[r].member # Platform /\ row'[q].set = row[r].set
                /\ row'[q].member = Platform),
         rtodo \subseteq Run,
         UNCHANGED <<rpc, rtodo, rrun, rparts, verdict, back>>
  PROVE  RestoreInv'
<1>1. \A r \in Run : Tried(r)' = Tried(r) /\ (Tried(r) => r \in Candidates)
  BY DEF Tried, RestoreInv, TriedInv
<1>2. TriedInv'
  BY <1>1 DEF RestoreInv, TriedInv, Restoring
<1>3. FirstInv'
  BY <1>1 DEF RestoreInv, FirstInv, Restoring, Candidates
<1>4. PartsInv'
  BY <1>1 DEF RestoreInv, PartsInv, TriedInv, Restoring, Tried
<1>5. AllOrNothing'
  BY <1>1 DEF RestoreInv, AllOrNothing, Tried
<1> QED
  BY <1>2, <1>3, <1>4, <1>5 DEF RestoreInv

-----------------------------------------------------------------------------
LEMMA BeginSetInv ==
  ASSUME LibraryInv, NEW k \in Keeper, BeginSet(k)
  PROVE  LibraryInv'
<1> USE DEF BeginSet, LibGo, recordVars, budgetVars, restoreVars
<1>t. LibraryTypeOK'
  <2>1. kpc' \in [Keeper -> {"idle", "member", "parts", "prune", "rows"}]
    BY DEF LibraryInv, LibraryTypeOK, TakingInv, OwnRuns
  <2>2. ktodo' \in [Keeper -> SUBSET Member]
    BY Bounds DEF LibraryInv, LibraryTypeOK, TakingInv, OwnRuns
  <2>3. sets' \in 0 .. MaxSets
    BY Bounds DEF LibraryInv, LibraryTypeOK, TakingInv, OwnRuns
  <2>4. kset' \in [Keeper -> Nat]
    BY Bounds DEF LibraryInv, LibraryTypeOK, TakingInv, OwnRuns
  <2> QED
    BY <2>1, <2>2, <2>3, <2>4 DEF LibraryInv, LibraryTypeOK
<1>2. TakingInv'
  <2>1. RowsCounted'
    BY Bounds DEF LibraryInv, LibraryTypeOK, TakingInv, RowsCounted, OwnSets, InOrder, OwnRuns, Taking, Real, Run
  <2>2. OwnSets'
    BY Bounds DEF LibraryInv, LibraryTypeOK, TakingInv, RowsCounted, OwnSets, InOrder, OwnRuns, Taking, Real, Run
  <2>3. InOrder'
    BY Bounds DEF LibraryInv, LibraryTypeOK, TakingInv, RowsCounted, OwnSets, InOrder, OwnRuns, Taking, Real, Run
  <2>4. OwnRuns'
    BY Bounds DEF LibraryInv, LibraryTypeOK, TakingInv, RowsCounted, OwnSets, InOrder, OwnRuns, Taking, Real, Run
  <2> QED
    BY <2>1, <2>2, <2>3, <2>4 DEF TakingInv
<1>3. CopiesInv'
  <2>1. Candidates' = Candidates /\ \A r \in Candidates : DayOf(r)' = DayOf(r)
    BY DEF Candidates, DayOf, LibraryInv, LibraryTypeOK, TakingInv, OwnRuns, RowsCounted, Real, Run, recordVars
  <2>2. \A j \in Keeper : ToPrune(j)' \subseteq ToPrune(j)
    BY DEF LibraryInv, LibraryTypeOK, ToPrune
  <2>3. \A q \in Candidates : Whole(q) => Whole(q)'
    BY DEF Whole, Candidates, LibraryInv, LibraryTypeOK, TakingInv, OwnRuns, recordVars
  <2>4. AllOrNone'
    BY DEF AllOrNone, LibraryInv, LibraryTypeOK, CopiesInv, TakingInv, OwnRuns, recordVars
  <2> QED
    BY <2>1, <2>2, <2>3, <2>4, KeptCopies DEF LibraryInv
<1>4. RestoreInv'
  BY SameRestore DEF LibraryInv
<1> QED
  BY <1>t, <1>2, <1>3, <1>4 DEF LibraryInv

LEMMA TakeMemberInv ==
  ASSUME LibraryInv, NEW k \in Keeper, NEW m \in ktodo[k], TakeMember(k, m)
  PROVE  LibraryInv'
<1> DEFINE n   == made + 1
           new == [set |-> kset[k], member |-> m, day |-> today, status |-> "running"]
<1>1. /\ kpc[k] = "member" /\ ktodo' = [ktodo EXCEPT ![k] = @ \ {m}]
      /\ UNCHANGED <<artifacts, objects, today, cap, sets, kset, kgood, doomed, restoreVars, restores>>
  BY DEF TakeMember
<1>2. LibraryTypeOK
  BY DEF LibraryInv
<1>3. m \in Member
  BY <1>2 DEF LibraryTypeOK
<1>a. CASE made < MaxRuns /\ made' = n /\ row' = [row EXCEPT ![n] = new] /\ krun' = [krun EXCEPT ![k] = n]
           /\ kparts' = [kparts EXCEPT ![k] = PartsOf[m]] /\ kpc' = [kpc EXCEPT ![k] = "parts"]
           /\ UNCHANGED libFaults
  <2>1. n \in Run /\ n \in 0 .. MaxRuns /\ ~Real(n) /\ made \in Nat
    BY <1>2, <1>a, Bounds DEF LibraryTypeOK, Run, LibraryInv, TakingInv, RowsCounted
  <2>2. new \in [set : Nat, member : Member, day : Nat,
                 status : {"none", "running", "succeeded", "partial", "failed"}]
    BY <1>2, <1>3, Bounds DEF LibraryTypeOK
  <2>3. /\ \A r \in Run : r # n => row'[r] = row[r]
        /\ row'[n] = new /\ krun'[k] = n /\ kpc'[k] = "parts"
        /\ \A j \in Keeper : j # k => kpc'[j] = kpc[j] /\ krun'[j] = krun[j] /\ ktodo'[j] = ktodo[j]
        /\ ktodo'[k] = ktodo[k] \ {m}
    BY <1>1, <1>2, <1>a, <2>1 DEF LibraryTypeOK
  <2>4. LibraryTypeOK'
    <3>1. row' \in [Run -> [set : Nat, member : Member, day : Nat,
                            status : {"none", "running", "succeeded", "partial", "failed"}]]
      BY <1>2, <1>a, <2>1, <2>2 DEF LibraryTypeOK
    <3>2. krun' \in [Keeper -> 0 .. MaxRuns] /\ kparts' \in [Keeper -> SUBSET Part] /\ made' \in 0 .. MaxRuns
      BY <1>2, <1>3, <1>a, <2>1, Bounds DEF LibraryTypeOK
    <3>3. ktodo' \in [Keeper -> SUBSET Member]
      BY <1>1, <1>2 DEF LibraryTypeOK
    <3>4. kpc' \in [Keeper -> {"idle", "member", "parts", "prune", "rows"}]
      BY <1>2, <1>a DEF LibraryTypeOK
    <3> QED
      BY <1>1, <1>2, <1>a, <3>1, <3>2, <3>3, <3>4 DEF LibraryTypeOK, restoreVars
  <2>5. Candidates' = Candidates /\ n \notin Candidates
    BY <2>1, <2>3 DEF Candidates, Real
  <2>6. \A r \in Run : Real(r)' <=> Real(r) \/ r = n
    BY <2>1, <2>3 DEF Real
  <2>7. TakingInv'
    <3> USE DEF LibraryInv, TakingInv
    <3>1. RowsCounted'
      <4>1. \A r \in Run : r <= made' <=> r <= made \/ r = n
        BY <1>a, <2>1 DEF Run
      <4>2. kset[k] <= sets
        BY <1>1, <1>2 DEF OwnSets, Taking, LibraryTypeOK
      <4> QED
        BY <1>1, <2>3, <2>6, <4>1, <4>2 DEF RowsCounted
    <3>2. OwnSets'
      BY <1>1, <2>3 DEF OwnSets, Taking
    <3>3. InOrder'
      <4> SUFFICES ASSUME NEW j \in Keeper, Taking(j)', NEW r \in Run, Real(r)', row'[r].set = kset'[j]
                   PROVE  /\ \A l \in ktodo'[j] : row'[r].member < l
                          /\ kpc'[j] = "parts" => row'[r].member <= row'[krun'[j]].member
        BY DEF InOrder
      <4>1. Taking(j) /\ kset'[j] = kset[j]
        BY <1>1, <2>3 DEF Taking
      <4>2. CASE j = k /\ r = n
        <5>1. \A l \in ktodo'[k] : m < l
          BY <1>2, <1>3, <2>3, Bounds DEF TakeMember, LibraryTypeOK
        <5> QED
          BY <2>3, <4>2, <5>1, <1>3, Bounds
      <4>3. CASE j = k /\ r # n
        <5>1. Real(r) /\ row[r].set = kset[k]
          BY <1>1, <2>3, <2>6, <4>3
        <5>2. \A l \in ktodo[k] : row[r].member < l
          BY <4>1, <4>3, <5>1 DEF InOrder
        <5>3. row[r].member \in Nat /\ m \in Nat /\ row[r].member < m
          BY <1>2, <1>3, <5>2, Bounds DEF LibraryTypeOK
        <5>4. row'[r] = row[r] /\ row'[krun'[k]].member = m /\ ktodo'[k] \subseteq ktodo[k]
          BY <2>3, <4>3
        <5> QED
          BY <4>3, <5>2, <5>3, <5>4
      <4>4. CASE j # k /\ r = n
        BY <1>1, <2>3, <4>1, <4>4 DEF OwnSets, Taking
      <4>5. CASE j # k /\ r # n
        <5>1. Real(r) /\ row[r].set = kset[j] /\ kpc'[j] = kpc[j] /\ krun'[j] = krun[j]
          BY <1>1, <2>3, <2>6, <4>5
        <5>2. kpc[j] = "parts" => krun[j] # n
          BY <2>1, <2>3 DEF OwnRuns, Real
        <5> QED
          BY <2>3, <4>1, <4>5, <5>1, <5>2 DEF InOrder, OwnRuns
      <4> QED
        BY <4>2, <4>3, <4>4, <4>5
    <3>4. OwnRuns'
      <4> SUFFICES ASSUME NEW j \in Keeper
                   PROVE  /\ kpc'[j] \in {"parts", "rows"} => krun'[j] \in Run
                          /\ kpc'[j] = "parts" =>
                                /\ row'[krun'[j]].status = "running" /\ row'[krun'[j]].set = kset'[j]
                                /\ artifacts'[krun'[j]] \subseteq objects'[krun'[j]]
        BY DEF OwnRuns
      <4>1. CASE j = k
        BY <1>1, <2>1, <2>3, <4>1 DEF RowsCounted
      <4>2. CASE j # k
        BY <1>1, <2>1, <2>3, <4>2 DEF OwnRuns, Real
      <4> QED
        BY <4>1, <4>2
    <3> QED
      BY <3>1, <3>2, <3>3, <3>4
  <2>8. CopiesInv'
    <3>1. \A r \in Candidates : row'[r] = row[r]
      BY <2>3, <2>5 DEF Candidates
    <3>2. \A r \in Candidates : DayOf(r)' = DayOf(r)
      BY <3>1 DEF DayOf
    <3>3. \A j \in Keeper : ToPrune(j)' \subseteq ToPrune(j)
      BY <1>1, <2>3 DEF ToPrune
    <3>4. AllOrNone'
      BY <1>1, <2>3 DEF AllOrNone, LibraryInv, CopiesInv
    <3>5. \A q \in Candidates : Whole(q) => Whole(q)'
      BY <1>1 DEF Whole
    <3> QED
      BY <1>1, <2>5, <3>2, <3>3, <3>4, <3>5, KeptCopies DEF LibraryInv
  <2>9. RestoreInv'
    <3>1. \A r \in Candidates : row'[r] = row[r]
      BY <2>3, <2>5 DEF Candidates
    <3> QED
      BY <1>1, <1>2, <2>5, <3>1, KeptRestore DEF LibraryInv, LibraryTypeOK, restoreVars
  <2> QED
    BY <2>4, <2>7, <2>8, <2>9 DEF LibraryInv
<1>b. CASE LibFault /\ UNCHANGED <<made, row, kpc, krun, kparts>>
  <2>1. LibraryTypeOK'
    BY <1>1, <1>2, <1>b, Bounds DEF LibraryTypeOK, LibFault, restoreVars
  <2>2. TakingInv'
    BY <1>1, <1>2, <1>b DEF LibraryTypeOK, LibraryInv, TakingInv, RowsCounted, OwnSets, InOrder, OwnRuns, Taking, Real
  <2>3. CopiesInv'
    BY <1>1, <1>b, SameDays, KeptCopies
       DEF LibraryInv, CopiesInv, AllOrNone, ToPrune, Whole
  <2>4. RestoreInv'
    BY <1>1, <1>b, SameRestore DEF LibraryInv
  <2> QED
    BY <2>1, <2>2, <2>3, <2>4 DEF LibraryInv
<1> QED
  BY <1>a, <1>b DEF TakeMember, LibGo, LibNoFault

LEMMA StorePartInv ==
  ASSUME LibraryInv, NEW k \in Keeper, NEW p \in kparts[k], StorePart(k, p)
  PROVE  LibraryInv'
<1> DEFINE n == krun[k]
<1>1. /\ kpc[k] = "parts" /\ kparts' = [kparts EXCEPT ![k] = @ \ {p}]
      /\ UNCHANGED <<made, row, today, cap, sets, kpc, kset, ktodo, krun, kgood, doomed,
                     restoreVars, restores>>
  BY DEF StorePart
<1>2. LibraryTypeOK
  BY DEF LibraryInv
<1>3. n \in Run /\ row[n].status = "running" /\ artifacts[n] \subseteq objects[n] /\ p \in Part
  BY <1>1, <1>2 DEF LibraryInv, TakingInv, OwnRuns, LibraryTypeOK
<1>4. /\ objects' \in [Run -> SUBSET Part] /\ artifacts' \in [Run -> SUBSET Part]
      /\ \A r \in Run : r # n => objects'[r] = objects[r] /\ artifacts'[r] = artifacts[r]
      /\ artifacts'[n] \subseteq objects'[n]
  <2>1. CASE objects' = [objects EXCEPT ![n] = @ \cup {p}] /\ artifacts' = [artifacts EXCEPT ![n] = @ \cup {p}]
    BY <1>2, <1>3, <2>1 DEF LibraryTypeOK
  <2>2. CASE objects' = [objects EXCEPT ![n] = @ \cup {p}] /\ artifacts' = artifacts
    BY <1>2, <1>3, <2>2 DEF LibraryTypeOK
  <2>3. CASE objects' = objects /\ artifacts' = artifacts
    BY <1>2, <1>3, <2>3 DEF LibraryTypeOK
  <2> QED
    BY <2>1, <2>2, <2>3 DEF StorePart
<1>5. LibraryTypeOK'
  <2>1. kparts' \in [Keeper -> SUBSET Part]
    BY <1>1, <1>2 DEF LibraryTypeOK
  <2>2. libFaults' \in 0 .. MaxLibFaults
    BY <1>2, Bounds DEF StorePart, LibFault, LibNoFault, LibraryTypeOK
  <2> QED
    BY <1>1, <1>2, <1>4, <2>1, <2>2 DEF LibraryTypeOK, restoreVars
<1>6. TakingInv'
  BY <1>1, <1>3, <1>4 DEF LibraryInv, TakingInv, RowsCounted, OwnSets, InOrder, OwnRuns, Taking, Real
<1>7. CopiesInv'
  <2>1. n \notin Candidates
    BY <1>3 DEF Candidates
  <2>2. \A q \in Candidates : Whole(q) => Whole(q)'
    BY <1>4, <2>1 DEF Whole, Candidates
  <2>3. AllOrNone'
    BY <1>1, <1>3, <1>4 DEF AllOrNone, LibraryInv, CopiesInv
  <2> QED
    BY <1>1, <2>2, <2>3, SameDays, KeptCopies DEF LibraryInv, ToPrune
<1>8. RestoreInv'
  BY <1>1, SameRestore DEF LibraryInv
<1> QED
  BY <1>5, <1>6, <1>7, <1>8 DEF LibraryInv

LEMMA FinishRunInv ==
  ASSUME LibraryInv, NEW k \in Keeper, FinishRun(k)
  PROVE  LibraryInv'
<1> DEFINE n == krun[k]
<1>1. /\ kpc[k] = "parts" /\ kpc' = [kpc EXCEPT ![k] = "member"]
      /\ krun' = [krun EXCEPT ![k] = 0] /\ kparts' = [kparts EXCEPT ![k] = {}]
      /\ UNCHANGED <<made, artifacts, objects, today, cap, sets, kset, ktodo, doomed, restoreVars,
                     restores>>
  BY DEF FinishRun, LibGo
<1>2. LibraryTypeOK
  BY DEF LibraryInv
<1>3. n \in Run /\ row[n].status = "running" /\ artifacts[n] \subseteq objects[n] /\ row[n].set = kset[k]
  BY <1>1, <1>2 DEF LibraryInv, TakingInv, OwnRuns
<1>4. /\ row' \in [Run -> [set : Nat, member : Member, day : Nat,
                           status : {"none", "running", "succeeded", "partial", "failed"}]]
      /\ \A r \in Run : r # n => row'[r] = row[r]
      /\ row'[n].set = row[n].set /\ row'[n].member = row[n].member /\ row'[n].day = row[n].day
      /\ row'[n].status \in {Complete(n), "running", "failed"}
  <2>1. Complete(n) \in {"succeeded", "partial", "failed"}
    BY DEF Complete
  <2>2. PICK st \in {Complete(n), "running", "failed"} : row' = [row EXCEPT ![n].status = st]
    <3>1. CASE row' = [row EXCEPT ![n].status = Complete(n)]
      BY <3>1
    <3>2. CASE row' = row
      <4>1. row = [row EXCEPT ![n].status = "running"]
        BY <1>2, <1>3 DEF LibraryTypeOK
      <4> QED
        BY <3>2, <4>1
    <3>3. CASE row' = [row EXCEPT ![n].status = "failed"]
      BY <3>3
    <3> QED
      BY <3>1, <3>2, <3>3 DEF FinishRun
  <2>3. row[n] \in [set : Nat, member : Member, day : Nat,
                    status : {"none", "running", "succeeded", "partial", "failed"}]
    BY <1>2, <1>3 DEF LibraryTypeOK
  <2>4. row'[n] = [row[n] EXCEPT !.status = st] /\ \A r \in Run : r # n => row'[r] = row[r]
    BY <1>2, <1>3, <2>2 DEF LibraryTypeOK
  <2>5. row'[n] \in [set : Nat, member : Member, day : Nat,
                     status : {"none", "running", "succeeded", "partial", "failed"}]
    BY <2>1, <2>2, <2>3, <2>4
  <2>6. row' \in [Run -> [set : Nat, member : Member, day : Nat,
                          status : {"none", "running", "succeeded", "partial", "failed"}]]
    BY <1>2, <1>3, <2>1, <2>2, <2>3 DEF LibraryTypeOK
  <2> QED
    BY <2>2, <2>3, <2>4, <2>6
<1>5. LibraryTypeOK'
  <2>1. kparts' \in [Keeper -> SUBSET Part] /\ krun' \in [Keeper -> 0 .. MaxRuns]
    BY <1>1, <1>2, Bounds DEF LibraryTypeOK
  <2>2. libFaults' \in 0 .. MaxLibFaults
    BY <1>2, Bounds DEF FinishRun, LibFault, LibNoFault, LibraryTypeOK
  <2>3. kpc' \in [Keeper -> {"idle", "member", "parts", "prune", "rows"}]
    BY <1>1, <1>2 DEF LibraryTypeOK
  <2>4. kgood' \in [Keeper -> BOOLEAN]
    BY <1>2 DEF FinishRun, LibraryTypeOK
  <2> QED
    BY <1>1, <1>2, <1>4, <2>1, <2>2, <2>3, <2>4 DEF LibraryTypeOK, restoreVars
<1>a. /\ kpc'[k] = "member"
      /\ \A j \in Keeper : j # k => kpc'[j] = kpc[j] /\ krun'[j] = krun[j]
      /\ \A r \in Run : Real(r)' <=> Real(r)
      /\ \A r \in Run : row'[r].set = row[r].set /\ row'[r].member = row[r].member /\ row'[r].day = row[r].day
  BY <1>1, <1>2, <1>3, <1>4 DEF LibraryTypeOK, Real, Complete
<1>6. TakingInv'
  <2> USE DEF LibraryInv, TakingInv
  <2>1. RowsCounted'
    BY <1>1, <1>a DEF RowsCounted
  <2>2. OwnSets'
    BY <1>1, <1>a DEF OwnSets, Taking
  <2>3. InOrder'
    <3>1. \A j \in Keeper : Taking(j)' => Taking(j)
      BY <1>1, <1>a DEF Taking
    <3>2. \A j \in Keeper : kpc'[j] = "parts" => j # k /\ kpc[j] = "parts" /\ krun'[j] = krun[j] /\ krun[j] \in Run
      BY <1>1, <1>a DEF OwnRuns
    <3> QED
      BY <1>1, <1>a, <3>1, <3>2 DEF InOrder
  <2>4. OwnRuns'
    <3> SUFFICES ASSUME NEW j \in Keeper, kpc'[j] \in {"parts", "rows"}
                 PROVE  /\ krun'[j] \in Run
                        /\ kpc'[j] = "parts" =>
                              /\ row'[krun'[j]].status = "running" /\ row'[krun'[j]].set = kset'[j]
                              /\ artifacts'[krun'[j]] \subseteq objects'[krun'[j]]
      BY DEF OwnRuns
    <3>1. j # k /\ kpc[j] = kpc'[j] /\ krun'[j] = krun[j] /\ krun[j] \in Run
      BY <1>a DEF OwnRuns
    <3>2. kpc[j] = "parts" => krun[j] # n
      BY <1>1, <1>3, <3>1 DEF OwnRuns, OwnSets, Taking
    <3> QED
      BY <1>1, <1>4, <3>1, <3>2 DEF OwnRuns
  <2> QED
    BY <2>1, <2>2, <2>3, <2>4
<1>7. /\ Candidates \subseteq Candidates' /\ Candidates' \subseteq Candidates \cup {n} /\ n \notin Candidates
      /\ \A r \in Candidates : row'[r] = row[r]
      /\ n \in Candidates' => artifacts[n] # {}
      /\ row'[n].status = "succeeded" => artifacts[n] = PartsOf[row[n].member]
  BY <1>3, <1>4 DEF Candidates, Complete
<1>8. CopiesInv'
  <2>1. \A r \in Run : DayOf(r)' = DayOf(r)
    BY <1>a DEF DayOf
  <2>2. \A r \in Run : DaysFrom(r) \subseteq DaysFrom(r)'
    BY <1>7, <2>1 DEF DaysFrom, Candidates
  <2>3. \A r \in Run : Cardinality(DaysFrom(r)) > Daily => Cardinality(DaysFrom(r)') > Daily
    <3> TAKE r \in Run
    <3>1. IsFiniteSet(DaysFrom(r)') /\ Cardinality(DaysFrom(r)') \in Nat
      BY DaysFiniteNext
    <3>2. Cardinality(DaysFrom(r)) <= Cardinality(DaysFrom(r)')
      BY <2>2, <3>1, FS_Subset
    <3> QED
      BY <3>1, <3>2, DaysFinite, Bounds
  <2>4. \A r \in Run : (Later(r) => Later(r)') /\ (LaterOfDay(r) => LaterOfDay(r)')
    BY <1>7, <2>1, <2>3 DEF Later, LaterOfDay, Candidates
  <2>5. GivenInv'
    <3>1. \A j \in Keeper : ToPrune(j)' \subseteq ToPrune(j)
      BY <1>1, <1>a DEF ToPrune
    <3> QED
      BY <1>1, <1>7, <2>4, <3>1 DEF LibraryInv, CopiesInv, GivenInv, Candidates
  <2>6. CoveredInv'
    <3> SUFFICES ASSUME NEW c \in Candidates'
                 PROVE  /\ \E q \in Candidates' : q >= c /\ Whole(q)'
                        /\ cap' = 0 =>
                              \/ Cardinality(DaysFrom(c)') > Daily
                              \/ \E q \in Candidates' : q >= c /\ DayOf(q)' = DayOf(c)' /\ Whole(q)'
      BY DEF CoveredInv
    <3>1. CASE c = n
      BY <1>1, <1>3, <1>7, <3>1 DEF Whole, Run
    <3>2. CASE c \in Candidates
      <4>1. \A q \in Candidates : Whole(q)' = Whole(q) /\ DayOf(q)' = DayOf(q)
        BY <1>1, <2>1 DEF Whole, Candidates
      <4>2. Cardinality(DaysFrom(c)) > Daily => Cardinality(DaysFrom(c)') > Daily
        BY <2>3, <3>2 DEF Candidates
      <4> QED
        BY <1>1, <1>7, <3>2, <4>1, <4>2 DEF LibraryInv, CopiesInv, CoveredInv
    <3> QED
      BY <1>7, <3>1, <3>2
  <2>7. AllOrNone'
    BY <1>1, <1>4, <1>7, <1>a DEF AllOrNone, LibraryInv, CopiesInv
  <2> QED
    BY <2>5, <2>6, <2>7 DEF CopiesInv
<1>9. RestoreInv'
  <2>1. \A r \in Run, q \in Candidates' \ Candidates :
            ~(Tried(r) /\ row[r].member # Platform /\ row'[q].set = row[r].set
                /\ row'[q].member = Platform)
    <3> SUFFICES ASSUME NEW r \in Run, Tried(r), row[r].member # Platform, row[r].set = row[n].set,
                        row[n].member = Platform
                 PROVE  FALSE
      BY <1>7, <1>a, <1>3
    <3>1. Real(r) /\ row[r].set = kset[k]
      BY <1>3 DEF LibraryInv, RestoreInv, TriedInv, Candidates, Real
    <3>2. row[r].member <= row[n].member
      BY <1>1, <3>1 DEF LibraryInv, TakingInv, InOrder, Taking
    <3>3. row[r].member \in Nat /\ row[r].member # 0 /\ row[n].member = 0
      BY <1>2, Bounds DEF LibraryTypeOK
    <3> QED
      BY <3>2, <3>3
  <2> QED
    BY <1>1, <1>2, <1>7, <2>1, KeptRestore DEF LibraryInv, LibraryTypeOK, restoreVars
<1> QED
  BY <1>5, <1>6, <1>8, <1>9 DEF LibraryInv

LEMMA EndSetInv ==
  ASSUME LibraryInv, NEW k \in Keeper, EndSet(k)
  PROVE  LibraryInv'
<1>1. /\ kpc[k] = "member"
      /\ doomed' = [doomed EXCEPT ![k] = IF k \in Scheduled /\ kgood[k] THEN SelectForDeletion(Candidates) ELSE {}]
      /\ kpc' = [kpc EXCEPT ![k] = IF doomed'[k] = {} THEN "idle" ELSE "prune"]
      /\ ktodo' = [ktodo EXCEPT ![k] = {}] /\ kset' = [kset EXCEPT ![k] = 0]
      /\ kgood' = [kgood EXCEPT ![k] = FALSE]
      /\ UNCHANGED <<recordVars, today, cap, sets, krun, kparts, restoreVars, restores>>
  BY DEF EndSet, PruneOrEnd, LibGo
<1>2. LibraryTypeOK
  BY DEF LibraryInv
<1>3. Candidates \subseteq Run /\ SelectForDeletion(Candidates) \subseteq Run
  BY DEF Candidates, SelectForDeletion
<1>4. /\ kpc'[k] \in {"idle", "prune"} /\ doomed'[k] \subseteq SelectForDeletion(Candidates)
      /\ \A j \in Keeper : j # k => kpc'[j] = kpc[j] /\ doomed'[j] = doomed[j] /\ kset'[j] = kset[j]
                                      /\ ktodo'[j] = ktodo[j]
  BY <1>1, <1>2 DEF LibraryTypeOK
<1>5. LibraryTypeOK'
  <2>1. doomed' \in [Keeper -> SUBSET Run]
    BY <1>1, <1>2, <1>3 DEF LibraryTypeOK
  <2>2. kpc' \in [Keeper -> {"idle", "member", "parts", "prune", "rows"}]
    BY <1>1, <1>2 DEF LibraryTypeOK
  <2>3. ktodo' \in [Keeper -> SUBSET Member] /\ kset' \in [Keeper -> Nat]
    BY <1>1, <1>2 DEF LibraryTypeOK
  <2>4. kgood' \in [Keeper -> BOOLEAN]
    BY <1>1, <1>2 DEF LibraryTypeOK
  <2>5. libFaults' \in 0 .. MaxLibFaults
    BY <1>2, Bounds DEF EndSet, LibFault, LibNoFault, LibraryTypeOK
  <2> QED
    BY <1>1, <1>2, <2>1, <2>2, <2>3, <2>4, <2>5 DEF LibraryTypeOK, recordVars, restoreVars
<1>6. TakingInv'
  BY <1>1, <1>4 DEF LibraryInv, TakingInv, RowsCounted, OwnSets, InOrder, OwnRuns, Taking, Real,
                    recordVars
<1>7. CopiesInv'
  <2>1. UNCHANGED <<row, artifacts, objects, cap>>
    BY <1>1 DEF recordVars
  <2>2. \A r \in Run : Later(r)' = Later(r) /\ LaterOfDay(r)' = LaterOfDay(r)
    BY <2>1, SameDays DEF Later, LaterOfDay
  <2>3. GivenInv'
    <3> SUFFICES ASSUME NEW j \in Keeper, NEW r \in ToPrune(j)'
                 PROVE  r \in Candidates /\ Later(r) /\ (cap = 0 => LaterOfDay(r))
      BY <1>3, <2>1, <2>2, SameDays DEF GivenInv
    <3>1. CASE j = k
      <4>1. r \in SelectForDeletion(Candidates)
        BY <1>4, <3>1 DEF ToPrune
      <4>2. Cardinality(DaysFrom(r)) \in Nat
        BY DaysFinite
      <4>3. /\ r \in Candidates /\ \E q \in Candidates : q > r
            /\ cap = 0 => \/ \E q \in Candidates : q > r /\ DayOf(q) = DayOf(r)
                          \/ ~(Cardinality(DaysFrom(r)) <= Daily)
        BY <1>3, <4>1, SelectKeepsNewest DEF DaysFrom
      <4> QED
        BY <4>2, <4>3, Bounds DEF Later, LaterOfDay
    <3>2. CASE j # k
      BY <1>1, <1>4, <3>2 DEF LibraryInv, CopiesInv, GivenInv, ToPrune
    <3> QED
      BY <3>1, <3>2
  <2>4. CoveredInv'
    BY <2>1, SameDays DEF LibraryInv, CopiesInv, CoveredInv, Whole
  <2>5. AllOrNone'
    BY <2>1 DEF LibraryInv, CopiesInv, AllOrNone
  <2> QED
    BY <2>3, <2>4, <2>5 DEF CopiesInv
<1>8. RestoreInv'
  BY <1>1, SameRestore DEF LibraryInv, recordVars
<1> QED
  BY <1>5, <1>6, <1>7, <1>8 DEF LibraryInv

(* A run that is given up has a newer one, and that one a whole one: what  *)
(* it loses leaves every run covered.                                      *)
LEMMA GivenUp ==
  ASSUME LibraryInv, NEW k \in Keeper, NEW r \in ToPrune(k), UNCHANGED <<row, cap>>,
         \A q \in Run : q # r => objects'[q] = objects[q] /\ artifacts'[q] = artifacts[q],
         artifacts'[r] \in {artifacts[r], {}},
         \A j \in Keeper : ToPrune(j)' \subseteq ToPrune(j)
  PROVE  CopiesInv'
<1>1. r \in Run /\ r \in Candidates /\ Later(r) /\ (cap = 0 => LaterOfDay(r))
  BY DEF LibraryInv, CopiesInv, GivenInv, Candidates
<1>2. \A q \in Candidates : q # r => (Whole(q)' <=> Whole(q))
  BY DEF Whole, Candidates
<1>3. GivenInv'
  <2>1. \A q \in Run : Later(q)' = Later(q) /\ LaterOfDay(q)' = LaterOfDay(q)
    BY SameDays DEF Later, LaterOfDay
  <2> QED
    BY <2>1, SameDays DEF LibraryInv, CopiesInv, GivenInv, Candidates
<1>4. CoveredInv'
  <2> SUFFICES ASSUME NEW c \in Candidates
               PROVE  /\ \E q \in Candidates : q >= c /\ Whole(q)'
                      /\ cap = 0 =>
                            \/ Cardinality(DaysFrom(c)) > Daily
                            \/ \E q \in Candidates : q >= c /\ DayOf(q) = DayOf(c) /\ Whole(q)'
    BY SameDays DEF CoveredInv
  <2> USE DEF LibraryInv, CopiesInv
  <2>1. \E q \in Candidates : q >= c /\ Whole(q)'
    <3>1. PICK q \in Candidates : q >= c /\ Whole(q)
      BY DEF CoveredInv
    <3>2. CASE q # r
      BY <1>2, <3>1, <3>2
    <3>3. CASE q = r
      <4>1. PICK p \in Candidates : p > r
        BY <1>1 DEF Later
      <4>2. PICK w \in Candidates : w >= p /\ Whole(w)
        BY DEF CoveredInv
      <4>3. w # r /\ w >= c
        BY <3>1, <3>3, <4>1, <4>2 DEF Candidates, Run
      <4> QED
        BY <1>2, <4>2, <4>3
    <3> QED
      BY <3>2, <3>3
  <2>2. ASSUME cap = 0
        PROVE  \/ Cardinality(DaysFrom(c)) > Daily
               \/ \E q \in Candidates : q >= c /\ DayOf(q) = DayOf(c) /\ Whole(q)'
    <3>1. CASE Cardinality(DaysFrom(c)) > Daily
      BY <3>1
    <3>2. CASE \E q \in Candidates : q >= c /\ DayOf(q) = DayOf(c) /\ Whole(q)
      <4>1. PICK q \in Candidates : q >= c /\ DayOf(q) = DayOf(c) /\ Whole(q)
        BY <3>2
      <4>2. CASE q # r
        BY <1>2, <4>1, <4>2
      <4>3. CASE q = r /\ Cardinality(DaysFrom(r)) > Daily
        <5>1. Cardinality(DaysFrom(r)) <= Cardinality(DaysFrom(c))
          BY <4>1, <4>3, MoreDays DEF Candidates, Run
        <5> QED
          BY <4>3, <5>1, DaysFinite, Bounds
      <4>4. CASE q = r /\ ~(Cardinality(DaysFrom(r)) > Daily)
        <5>1. PICK p \in Candidates : p > r /\ DayOf(p) = DayOf(r)
          BY <1>1, <2>2, <4>4 DEF LaterOfDay
        <5>2. CASE Cardinality(DaysFrom(p)) > Daily
          <6>1. c <= p
            BY <4>1, <4>4, <5>1 DEF Candidates, Run
          <6>2. Cardinality(DaysFrom(p)) <= Cardinality(DaysFrom(c))
            BY <6>1, MoreDays DEF Candidates
          <6> QED
            BY <5>2, <6>2, DaysFinite, Bounds
        <5>3. CASE ~(Cardinality(DaysFrom(p)) > Daily)
          <6>1. PICK w \in Candidates : w >= p /\ DayOf(w) = DayOf(p) /\ Whole(w)
            BY <2>2, <5>3 DEF CoveredInv
          <6>2. w # r /\ w >= c /\ DayOf(w) = DayOf(c)
            BY <4>1, <4>4, <5>1, <6>1 DEF Candidates, Run
          <6> QED
            BY <1>2, <6>1, <6>2
        <5> QED
          BY <5>2, <5>3
      <4> QED
        BY <4>2, <4>3, <4>4
    <3> QED
      BY <2>2, <3>1, <3>2 DEF CoveredInv
  <2> QED
    BY <2>1, <2>2
<1>5. AllOrNone'
  BY <1>1 DEF LibraryInv, CopiesInv, AllOrNone
<1> QED
  BY <1>3, <1>4, <1>5 DEF CopiesInv

LEMMA DeleteObjectsInv ==
  ASSUME LibraryInv, NEW k \in Keeper, NEW r \in Newest(doomed[k]), DeleteObjects(k, r)
  PROVE  LibraryInv'
<1>1. /\ kpc[k] = "prune" /\ doomed' = [doomed EXCEPT ![k] = @ \ {r}]
      /\ UNCHANGED <<made, row, artifacts, today, cap, sets, kset, ktodo, kparts, kgood,
                     restoreVars, restores>>
  BY DEF DeleteObjects
<1>2. LibraryTypeOK
  BY DEF LibraryInv
<1>3. r \in doomed[k] /\ r \in Run /\ r \in ToPrune(k)
  BY <1>2 DEF Newest, LibraryTypeOK, ToPrune
<1>4. /\ objects' \in [Run -> SUBSET Part]
      /\ \A q \in Run : q # r => objects'[q] = objects[q]
      /\ \/ kpc' = [kpc EXCEPT ![k] = "rows"] /\ krun' = [krun EXCEPT ![k] = r]
         \/ \E next \in {"idle", "prune"} : kpc' = [kpc EXCEPT ![k] = next] /\ krun' = krun
  <2>1. CASE objects' = [objects EXCEPT ![r] = {}] /\ LibGo(k, "rows") /\ krun' = [krun EXCEPT ![k] = r]
    BY <1>2, <2>1 DEF LibraryTypeOK, LibGo
  <2>2. CASE /\ \E left \in SUBSET objects[r] : objects' = [objects EXCEPT ![r] = left]
             /\ PruneOrEnd(k) /\ krun' = krun
    <3>1. PICK left \in SUBSET objects[r] : objects' = [objects EXCEPT ![r] = left]
      BY <2>2
    <3>2. objects' \in [Run -> SUBSET Part] /\ \A q \in Run : q # r => objects'[q] = objects[q]
      BY <1>2, <1>3, <3>1 DEF LibraryTypeOK
    <3>3. \E next \in {"idle", "prune"} : kpc' = [kpc EXCEPT ![k] = next]
      BY <2>2 DEF PruneOrEnd, LibGo
    <3> QED
      BY <2>2, <3>2, <3>3
  <2> QED
    BY <2>1, <2>2 DEF DeleteObjects
<1>5. LibraryTypeOK'
  <2>1. doomed' \in [Keeper -> SUBSET Run]
    BY <1>1, <1>2 DEF LibraryTypeOK
  <2>2. kpc' \in [Keeper -> {"idle", "member", "parts", "prune", "rows"}]
    BY <1>2, <1>4 DEF LibraryTypeOK
  <2>3. krun' \in [Keeper -> 0 .. MaxRuns]
    <3>1. r \in 0 .. MaxRuns
      BY <1>3, Bounds DEF Run
    <3> QED
      BY <1>2, <1>4, <3>1 DEF LibraryTypeOK
  <2>4. libFaults' \in 0 .. MaxLibFaults
    BY <1>2, Bounds DEF DeleteObjects, LibFault, LibNoFault, LibraryTypeOK
  <2> QED
    BY <1>1, <1>2, <1>4, <2>1, <2>2, <2>3, <2>4 DEF LibraryTypeOK, restoreVars
<1>6. /\ \A j \in Keeper : j # k => kpc'[j] = kpc[j] /\ krun'[j] = krun[j] /\ doomed'[j] = doomed[j]
      /\ doomed'[k] = doomed[k] \ {r}
      /\ kpc'[k] \in {"rows", "idle", "prune"} /\ (kpc'[k] = "rows" => krun'[k] = r)
  BY <1>1, <1>2, <1>4 DEF LibraryTypeOK
<1>7. TakingInv'
  <2>1. \A j \in Keeper : kpc'[j] = "parts" => krun[j] # r
    BY <1>1, <1>3, <1>6 DEF LibraryInv, TakingInv, OwnRuns, CopiesInv, GivenInv, Candidates
  <2>2. OwnRuns'
    BY <1>1, <1>3, <1>4, <1>6, <2>1 DEF LibraryInv, TakingInv, OwnRuns
  <2> QED
    BY <1>1, <1>6, <2>2 DEF LibraryInv, TakingInv, RowsCounted, OwnSets, InOrder, Taking, Real
<1>8. CopiesInv'
  <2>1. \A j \in Keeper : ToPrune(j)' \subseteq ToPrune(j)
    BY <1>3, <1>6 DEF ToPrune
  <2> QED
    BY <1>1, <1>3, <1>4, <2>1, GivenUp
<1>9. RestoreInv'
  BY <1>1, SameRestore DEF LibraryInv
<1> QED
  BY <1>5, <1>7, <1>8, <1>9 DEF LibraryInv

LEMMA DeleteArtifactsInv ==
  ASSUME LibraryInv, NEW k \in Keeper, DeleteArtifacts(k)
  PROVE  LibraryInv'
<1> DEFINE r == krun[k]
<1>1. /\ kpc[k] = "rows" /\ krun' = [krun EXCEPT ![k] = 0]
      /\ kpc' = [kpc EXCEPT ![k] = IF doomed'[k] = {} THEN "idle" ELSE "prune"]
      /\ artifacts' = [artifacts EXCEPT ![r] = {}] \/ artifacts' = artifacts
      /\ UNCHANGED <<made, row, objects, doomed, today, cap, sets, kset, ktodo, kparts, kgood,
                     restoreVars, restores>>
  BY DEF DeleteArtifacts, PruneOrEnd, LibGo
<1>2. LibraryTypeOK
  BY DEF LibraryInv
<1>3. r \in Run /\ r \in ToPrune(k)
  BY <1>1 DEF LibraryInv, TakingInv, OwnRuns, ToPrune
<1>4. /\ artifacts' \in [Run -> SUBSET Part] /\ artifacts'[r] \in {artifacts[r], {}}
      /\ \A q \in Run : q # r => artifacts'[q] = artifacts[q]
  BY <1>1, <1>2, <1>3 DEF LibraryTypeOK
<1>5. LibraryTypeOK'
  <2>1. kpc' \in [Keeper -> {"idle", "member", "parts", "prune", "rows"}]
    BY <1>1, <1>2 DEF LibraryTypeOK
  <2>2. krun' \in [Keeper -> 0 .. MaxRuns]
    BY <1>1, <1>2, Bounds DEF LibraryTypeOK
  <2>3. libFaults' \in 0 .. MaxLibFaults
    BY <1>2, Bounds DEF DeleteArtifacts, LibFault, LibNoFault, LibraryTypeOK
  <2> QED
    BY <1>1, <1>2, <1>4, <2>1, <2>2, <2>3 DEF LibraryTypeOK, restoreVars
<1>6. /\ \A j \in Keeper : j # k => kpc'[j] = kpc[j] /\ krun'[j] = krun[j]
      /\ kpc'[k] \in {"idle", "prune"}
  BY <1>1, <1>2 DEF LibraryTypeOK
<1>7. TakingInv'
  <2>1. \A j \in Keeper : kpc'[j] = "parts" => krun[j] # r
    BY <1>3, <1>6 DEF LibraryInv, TakingInv, OwnRuns, CopiesInv, GivenInv, Candidates
  <2>2. OwnRuns'
    BY <1>1, <1>3, <1>4, <1>6, <2>1 DEF LibraryInv, TakingInv, OwnRuns
  <2>3. RowsCounted'
    BY <1>1, <1>3, <1>4 DEF LibraryInv, TakingInv, RowsCounted, Real
  <2> QED
    BY <1>1, <1>6, <2>2, <2>3 DEF LibraryInv, TakingInv, OwnSets, InOrder, Taking, Real
<1>8. CopiesInv'
  <2>1. \A j \in Keeper : ToPrune(j)' \subseteq ToPrune(j)
    BY <1>1, <1>6 DEF ToPrune
  <2> QED
    BY <1>1, <1>3, <1>4, <2>1, GivenUp
<1>9. RestoreInv'
  BY <1>1, SameRestore DEF LibraryInv
<1> QED
  BY <1>5, <1>7, <1>8, <1>9 DEF LibraryInv

LEMMA RestartKeeperInv ==
  ASSUME LibraryInv, NEW k \in Keeper, RestartKeeper(k)
  PROVE  LibraryInv'
<1>1. /\ kpc' = [kpc EXCEPT ![k] = "idle"] /\ ktodo' = [ktodo EXCEPT ![k] = {}]
      /\ krun' = [krun EXCEPT ![k] = 0] /\ kparts' = [kparts EXCEPT ![k] = {}]
      /\ doomed' = [doomed EXCEPT ![k] = {}] /\ kset' = [kset EXCEPT ![k] = 0]
      /\ kgood' = [kgood EXCEPT ![k] = FALSE]
      /\ UNCHANGED <<recordVars, today, cap, sets, restoreVars, restores>>
  BY DEF RestartKeeper, LibGo
<1>2. LibraryTypeOK
  BY DEF LibraryInv
<1>3. /\ kpc'[k] = "idle" /\ doomed'[k] = {}
      /\ \A j \in Keeper : j # k => /\ kpc'[j] = kpc[j] /\ krun'[j] = krun[j] /\ doomed'[j] = doomed[j]
                                    /\ kset'[j] = kset[j] /\ ktodo'[j] = ktodo[j]
  BY <1>1, <1>2 DEF LibraryTypeOK
<1>4. LibraryTypeOK'
  <2>1. /\ kpc' \in [Keeper -> {"idle", "member", "parts", "prune", "rows"}]
        /\ ktodo' \in [Keeper -> SUBSET Member] /\ kparts' \in [Keeper -> SUBSET Part]
        /\ doomed' \in [Keeper -> SUBSET Run]
    BY <1>1, <1>2 DEF LibraryTypeOK
  <2>2. krun' \in [Keeper -> 0 .. MaxRuns] /\ kset' \in [Keeper -> Nat]
    BY <1>1, <1>2, Bounds DEF LibraryTypeOK
  <2>3. kgood' \in [Keeper -> BOOLEAN]
    BY <1>1, <1>2 DEF LibraryTypeOK
  <2>4. libFaults' \in 0 .. MaxLibFaults
    BY <1>2, Bounds DEF RestartKeeper, LibFault, LibraryTypeOK
  <2> QED
    BY <1>1, <1>2, <2>1, <2>2, <2>3, <2>4 DEF LibraryTypeOK, recordVars, restoreVars
<1>5. TakingInv'
  BY <1>1, <1>3 DEF LibraryInv, TakingInv, RowsCounted, OwnSets, InOrder, OwnRuns, Taking, Real,
                    recordVars
<1>6. CopiesInv'
  <2>1. UNCHANGED <<row, artifacts, objects, cap>>
    BY <1>1 DEF recordVars
  <2>2. \A j \in Keeper : ToPrune(j)' \subseteq ToPrune(j)
    BY <1>3 DEF ToPrune
  <2> QED
    BY <2>1, <2>2, SameDays, KeptCopies DEF LibraryInv, CopiesInv, AllOrNone, Whole
<1>7. RestoreInv'
  BY <1>1, SameRestore DEF LibraryInv, recordVars
<1> QED
  BY <1>4, <1>5, <1>6, <1>7 DEF LibraryInv

LEMMA NextDayInv ==
  ASSUME LibraryInv, NextDay
  PROVE  LibraryInv'
<1>1. LibraryTypeOK'
  BY Bounds DEF NextDay, LibraryInv, LibraryTypeOK, recordVars, keeperVars, restoreVars, budgetVars
<1>2. TakingInv'
  BY SameTaking DEF NextDay, LibraryInv
<1>3. CopiesInv'
  BY SameCopies DEF NextDay, LibraryInv
<1>4. RestoreInv'
  BY SameRestore DEF NextDay, LibraryInv, recordVars
<1> QED
  BY <1>1, <1>2, <1>3, <1>4 DEF LibraryInv

-----------------------------------------------------------------------------
(* A restore touches neither the runs nor the processes that take them.    *)

LEMMA RestoreApart ==
  ASSUME LibraryInv, UNCHANGED <<recordVars, today, cap, keeperVars>>,
         libFaults' \in 0 .. MaxLibFaults, restores' \in 0 .. MaxRestores,
         rpc' \in {"idle", "member", "verify", "load"},
         rtodo' \in SUBSET Run, rrun' \in 0 .. MaxRuns, rparts' \in SUBSET Part,
         verdict' \in [Run -> {"none", "running", "succeeded", "failed"}],
         back' \in [Run -> SUBSET Part], RestoreInv'
  PROVE  LibraryInv'
<1>1. LibraryTypeOK'
  BY DEF LibraryInv, LibraryTypeOK, recordVars, keeperVars
<1> QED
  BY <1>1, SameTaking, SameCopies DEF LibraryInv

LEMMA BeginRestoreInv ==
  ASSUME LibraryInv, BeginRestore
  PROVE  LibraryInv'
<1>1. LibraryTypeOK /\ RestoreInv /\ rpc = "idle" /\ rpc' = "member" /\ rtodo' \subseteq Candidates
  BY DEF BeginRestore, LibraryInv, PlanSetRestore
<1>2. PICK s \in 1 .. sets : rtodo' = PlanSetRestore(s)
  BY DEF BeginRestore
<1>3. UNCHANGED <<recordVars, today, cap, keeperVars, rrun, rparts, verdict, back, libFaults>>
  BY DEF BeginRestore
<1>4. \A r \in Run : back[r] = {} /\ verdict[r] = "none"
  BY <1>1 DEF RestoreInv, TriedInv, Tried
<1>5. UNCHANGED row /\ Candidates' = Candidates /\ Candidates \subseteq Run
  BY <1>3 DEF recordVars, Candidates
<1>6. \A r \in Run : Tried(r)' <=> r \in Candidates /\ row[r].set = s
  BY <1>2, <1>3, <1>4 DEF Tried, PlanSetRestore, SetRuns, Candidates
<1>7. RestoreInv'
  <2>1. TriedInv'
    BY <1>1, <1>3, <1>4, <1>5, <1>6 DEF TriedInv, Restoring
  <2>2. FirstInv'
    <3>1. \A q \in Candidates : row[q].set = s => q \in rtodo'
      BY <1>2 DEF PlanSetRestore, SetRuns, Candidates
    <3> QED
      BY <1>1, <1>3, <1>4, <1>5, <1>6, <3>1 DEF FirstInv, Restoring
  <2>3. PartsInv' /\ AllOrNothing'
    BY <1>1, <1>3, <1>4 DEF PartsInv, AllOrNothing, Restoring
  <2> QED
    BY <2>1, <2>2, <2>3 DEF RestoreInv
<1>8. restores' \in 0 .. MaxRestores
  BY <1>1, Bounds DEF BeginRestore, LibraryTypeOK
<1> QED
  BY <1>1, <1>3, <1>5, <1>7, <1>8, RestoreApart DEF LibraryTypeOK

(* the failure of the run that is being restored, or is next               *)
LEMMA FailRestoreInv ==
  ASSUME LibraryInv, NEW r \in rtodo, FailRestore(r), Restoring => r = rrun,
         UNCHANGED <<recordVars, today, cap, keeperVars, back, restores>>,
         libFaults' \in 0 .. MaxLibFaults
  PROVE  LibraryInv'
<1>1. LibraryTypeOK /\ RestoreInv /\ r \in Run
  BY DEF LibraryInv, LibraryTypeOK
<1>2. rpc' = "member" /\ verdict' = [verdict EXCEPT ![r] = "failed"] /\ rrun' = 0 /\ rparts' = {}
  BY DEF FailRestore
<1>3. /\ rtodo' = IF row[r].member = Platform THEN {} ELSE rtodo \ {r}
      /\ rtodo' \subseteq rtodo /\ r \notin rtodo'
  BY DEF FailRestore, AfterFailure
<1>4. verdict'[r] = "failed" /\ \A q \in Run : q # r => verdict'[q] = verdict[q]
  BY <1>1, <1>2 DEF LibraryTypeOK
<1>5. UNCHANGED row /\ Candidates' = Candidates
  BY DEF recordVars, Candidates
<1>6. \A q \in Run : Tried(q)' => Tried(q)
  BY <1>3, <1>4 DEF Tried
<1>7. TriedInv'
  BY <1>1, <1>2, <1>3, <1>4, <1>5, <1>6 DEF RestoreInv, TriedInv, Restoring, LibraryTypeOK
<1>8. FirstInv'
  <2> SUFFICES ASSUME NEW p \in Run, NEW q \in Candidates, Tried(p)', row[p].member # Platform,
                      row[q].set = row[p].set, row[q].member = Platform
               PROVE  /\ p \in rtodo' => q \in rtodo' \/ verdict'[q] = "succeeded"
                      /\ back[p] # {} => verdict'[q] = "succeeded"
    BY <1>2, <1>5 DEF FirstInv, Restoring
  <2>1. /\ Tried(p)
        /\ p \in rtodo => q \in rtodo \/ verdict[q] = "succeeded"
        /\ back[p] # {} => verdict[q] = "succeeded"
    BY <1>1, <1>6 DEF RestoreInv, FirstInv
  <2>2. verdict[r] # "succeeded" /\ q \in Run
    BY <1>1 DEF RestoreInv, TriedInv, Candidates
  <2> QED
    BY <1>3, <1>4, <2>1, <2>2
<1>9. PartsInv' /\ AllOrNothing'
  BY <1>1, <1>2, <1>4, <1>5 DEF RestoreInv, PartsInv, AllOrNothing, Restoring
<1>10. verdict' \in [Run -> {"none", "running", "succeeded", "failed"}]
  BY <1>1, <1>2 DEF LibraryTypeOK
<1> QED
  BY <1>1, <1>2, <1>3, <1>7, <1>8, <1>9, <1>10, RestoreApart, Bounds DEF RestoreInv, LibraryTypeOK

LEMMA RestoreMemberInv ==
  ASSUME LibraryInv, NEW r \in rtodo, RestoreMember(r)
  PROVE  LibraryInv'
<1>1. /\ LibraryTypeOK /\ RestoreInv /\ r \in Run /\ rpc = "member"
      /\ \A q \in rtodo : row[r].member <= row[q].member
      /\ UNCHANGED <<recordVars, today, cap, keeperVars, back, restores>>
  BY DEF LibraryInv, LibraryTypeOK, RestoreMember
<1>2. libFaults' \in 0 .. MaxLibFaults
  BY <1>1, Bounds DEF RestoreMember, LibFault, LibNoFault, LibraryTypeOK
<1>3. CASE FailRestore(r)
  BY <1>1, <1>2, <1>3, FailRestoreInv DEF Restoring
<1>4. CASE /\ rpc' = "verify" /\ rrun' = r /\ rparts' = artifacts[r] /\ UNCHANGED rtodo
           /\ verdict' = [verdict EXCEPT ![r] = "running"]
  <2>1. verdict'[r] = "running" /\ \A q \in Run : q # r => verdict'[q] = verdict[q]
    BY <1>1, <1>4 DEF LibraryTypeOK
  <2>2. UNCHANGED <<row, artifacts>> /\ Candidates' = Candidates
    BY <1>1 DEF recordVars, Candidates
  <2>3. \A q \in Run : Tried(q)' <=> Tried(q)
    BY <1>1, <1>4, <2>1 DEF Tried
  <2>4. back[r] = {} /\ verdict[r] # "succeeded"
    BY <1>1 DEF RestoreInv, TriedInv
  <2>5. TriedInv'
    BY <1>1, <1>4, <2>1, <2>2, <2>3 DEF RestoreInv, TriedInv, Restoring
  <2>6. FirstInv'
    <3> SUFFICES ASSUME NEW p \in Run, NEW q \in Candidates, Tried(p), row[p].member # Platform,
                        row[q].set = row[p].set, row[q].member = Platform
                 PROVE  /\ p \in rtodo => q \in rtodo \/ verdict'[q] = "succeeded"
                        /\ back[p] # {} \/ p = r => verdict'[q] = "succeeded"
      BY <1>1, <1>4, <2>2, <2>3 DEF FirstInv, Restoring
    <3>1. /\ p \in rtodo => q \in rtodo \/ verdict[q] = "succeeded"
          /\ back[p] # {} => verdict[q] = "succeeded"
      BY <1>1 DEF RestoreInv, FirstInv
    <3>2. verdict[q] = "succeeded" => verdict'[q] = "succeeded"
      BY <2>1, <2>4 DEF Candidates
    <3>3. p = r => q \notin rtodo
      <4>1. row[p].member \in Nat /\ Platform = 0
        BY <1>1, Bounds DEF LibraryTypeOK
      <4> QED
        BY <1>1, <4>1
    <3> QED
      BY <3>1, <3>2, <3>3
  <2>7. PartsInv'
    <3>1. row[r].status = "succeeded" => artifacts[r] \in {PartsOf[row[r].member], {}}
      BY <1>1 DEF LibraryInv, CopiesInv, AllOrNone
    <3> QED
      BY <1>1, <1>4, <2>2, <2>4, <3>1 DEF PartsInv, Restoring
  <2>8. AllOrNothing'
    BY <1>1, <2>1, <2>2 DEF RestoreInv, AllOrNothing
  <2>9. /\ verdict' \in [Run -> {"none", "running", "succeeded", "failed"}]
        /\ rrun' \in 0 .. MaxRuns /\ rparts' \in SUBSET Part
    BY <1>1, <1>4, Bounds DEF LibraryTypeOK, Run
  <2> QED
    BY <1>1, <1>2, <1>4, <2>5, <2>6, <2>7, <2>8, <2>9, RestoreApart DEF RestoreInv, LibraryTypeOK
<1> QED
  BY <1>3, <1>4 DEF RestoreMember

LEMMA VerifyArtifactsInv ==
  ASSUME LibraryInv, VerifyArtifacts
  PROVE  LibraryInv'
<1>1. /\ LibraryTypeOK /\ RestoreInv /\ rpc = "verify" /\ rrun \in rtodo
      /\ UNCHANGED <<recordVars, today, cap, keeperVars, back, restores>>
  BY DEF LibraryInv, VerifyArtifacts, RestoreInv, TriedInv, Restoring
<1>2. libFaults' \in 0 .. MaxLibFaults
  BY <1>1, Bounds DEF VerifyArtifacts, LibFault, LibNoFault, LibraryTypeOK
<1>3. CASE FailRestore(rrun)
  BY <1>1, <1>2, <1>3, FailRestoreInv
<1>4. CASE rpc' = "load" /\ UNCHANGED <<verdict, rtodo, rrun, rparts>>
  <2>1. UNCHANGED row
    BY <1>1 DEF recordVars
  <2>2. RestoreInv'
    BY <1>1, <1>4, <2>1 DEF RestoreInv, TriedInv, FirstInv, PartsInv, AllOrNothing, Tried, Restoring,
                            Candidates
  <2> QED
    BY <1>1, <1>2, <1>4, <2>2, RestoreApart DEF LibraryTypeOK
<1> QED
  BY <1>3, <1>4 DEF VerifyArtifacts

LEMMA PullPartInv ==
  ASSUME LibraryInv, NEW p \in rparts, PullPart(p)
  PROVE  LibraryInv'
<1>1. /\ LibraryTypeOK /\ RestoreInv /\ rpc = "load" /\ rrun \in rtodo /\ rrun \in Run
      /\ UNCHANGED <<recordVars, today, cap, keeperVars, restores>>
  BY DEF LibraryInv, LibraryTypeOK, PullPart, RestoreInv, TriedInv, Restoring
<1>2. libFaults' \in 0 .. MaxLibFaults
  BY <1>1, Bounds DEF PullPart, LibFault, LibNoFault, LibraryTypeOK
<1>3. UNCHANGED row /\ Candidates' = Candidates
  BY <1>1 DEF recordVars, Candidates
<1>4. CASE FailRestore(rrun) /\ UNCHANGED back
  BY <1>1, <1>2, <1>4, FailRestoreInv
<1>5. CASE /\ rparts' = rparts \ {p} /\ UNCHANGED <<rpc, verdict, rtodo, rrun>>
           /\ \/ back' = [back EXCEPT ![rrun] = @ \cup {p}]
              \/ p \notin Fatal /\ UNCHANGED back
  <2>1. /\ \A r \in Run : r # rrun => back'[r] = back[r]
        /\ back' \in [Run -> SUBSET Part]
        /\ rparts \cup back[rrun] \subseteq rparts' \cup back'[rrun] \cup (Part \ Fatal)
        /\ rparts # {}
    BY <1>1, <1>5 DEF LibraryTypeOK
  <2>2. Tried(rrun)
    BY <1>1 DEF Tried
  <2>3. \A r \in Run : Tried(r)' <=> Tried(r)
    BY <1>1, <1>5, <2>1, <2>2 DEF Tried
  <2>4. TriedInv'
    <3>1. TriedInv /\ rpc' = "load" /\ rrun' = rrun /\ rtodo' = rtodo /\ verdict' = verdict
      BY <1>1, <1>5 DEF RestoreInv
    <3>2. Restoring /\ Restoring'
      BY <1>1, <3>1 DEF Restoring
    <3>3. \A r \in Run : r # rrun => back'[r] = back[r]
      BY <2>1
    <3>4. \A r \in Run : Tried(r)' => r \in Candidates'
      BY <1>3, <2>3, <3>1 DEF TriedInv
    <3>5. \A r, q \in Run : Tried(r)' /\ Tried(q)' => row'[r].set = row'[q].set
      BY <1>3, <2>3, <3>1 DEF TriedInv
    <3>6. \A r \in rtodo' : back'[r] # {} => rpc' = "load" /\ r = rrun'
      BY <1>1, <3>1, <3>3 DEF TriedInv, LibraryTypeOK
    <3>7. rpc' # "idle" /\ (Restoring' => rrun' \in rtodo') /\ \A r \in rtodo' : verdict'[r] # "succeeded"
      BY <1>1, <3>1, <3>2 DEF TriedInv
    <3> QED
      BY <3>4, <3>5, <3>6, <3>7 DEF TriedInv
  <2>5. FirstInv'
    BY <1>1, <1>3, <1>5, <2>1, <2>3 DEF RestoreInv, FirstInv, Restoring
  <2>6. PartsInv'
    BY <1>1, <1>3, <1>5, <2>1 DEF RestoreInv, PartsInv, Restoring
  <2>7. AllOrNothing'
    BY <1>1, <1>3, <1>5, <2>1 DEF RestoreInv, TriedInv, AllOrNothing
  <2>8. rparts' \in SUBSET Part
    BY <1>1, <1>5 DEF LibraryTypeOK
  <2> QED
    BY <1>1, <1>2, <1>5, <2>1, <2>4, <2>5, <2>6, <2>7, <2>8, RestoreApart
       DEF RestoreInv, LibraryTypeOK
<1> QED
  BY <1>4, <1>5 DEF PullPart, LosePart

LEMMA FinishRestoreInv ==
  ASSUME LibraryInv, FinishRestore
  PROVE  LibraryInv'
<1>1. /\ LibraryTypeOK /\ RestoreInv /\ rpc = "load" /\ rparts = {} /\ rrun \in rtodo /\ rrun \in Run
      /\ UNCHANGED <<recordVars, today, cap, keeperVars, rparts, back, budgetVars>>
      /\ rpc' = "member" /\ rtodo' = rtodo \ {rrun} /\ rrun' = 0
      /\ verdict' = [verdict EXCEPT ![rrun] = "succeeded"]
  BY DEF LibraryInv, LibraryTypeOK, FinishRestore, RestoreInv, TriedInv, Restoring
<1>2. verdict'[rrun] = "succeeded" /\ \A q \in Run : q # rrun => verdict'[q] = verdict[q]
  BY <1>1 DEF LibraryTypeOK
<1>3. UNCHANGED row /\ Candidates' = Candidates
  BY <1>1 DEF recordVars, Candidates
<1>4. \A q \in Run : Tried(q)' <=> Tried(q)
  BY <1>1, <1>2 DEF Tried
<1>5. TriedInv'
  BY <1>1, <1>2, <1>3, <1>4 DEF RestoreInv, TriedInv, Restoring
<1>6. FirstInv'
  <2> SUFFICES ASSUME NEW p \in Run, NEW q \in Candidates, Tried(p), row[p].member # Platform,
                      row[q].set = row[p].set, row[q].member = Platform
               PROVE  /\ p \in rtodo' => q \in rtodo' \/ verdict'[q] = "succeeded"
                      /\ back[p] # {} => verdict'[q] = "succeeded"
    BY <1>1, <1>3, <1>4 DEF FirstInv, Restoring
  <2>1. /\ p \in rtodo => q \in rtodo \/ verdict[q] = "succeeded"
        /\ back[p] # {} => verdict[q] = "succeeded"
    BY <1>1 DEF RestoreInv, FirstInv
  <2> QED
    BY <1>1, <1>2, <2>1 DEF Candidates
<1>7. PartsInv' /\ AllOrNothing'
  BY <1>1, <1>2, <1>3 DEF RestoreInv, PartsInv, AllOrNothing, Restoring
<1>8. verdict' \in [Run -> {"none", "running", "succeeded", "failed"}] /\ rtodo' \in SUBSET Run
  BY <1>1 DEF LibraryTypeOK
<1> QED
  BY <1>1, <1>5, <1>6, <1>7, <1>8, RestoreApart, Bounds DEF RestoreInv, LibraryTypeOK, budgetVars

LEMMA EndRestoreInv ==
  ASSUME LibraryInv, EndRestore
  PROVE  LibraryInv'
<1>1. /\ LibraryTypeOK /\ rtodo = {} /\ rpc' = "idle"
      /\ verdict' = [r \in Run |-> "none"] /\ back' = [r \in Run |-> {}]
      /\ UNCHANGED <<recordVars, today, cap, keeperVars, rtodo, rrun, rparts, budgetVars>>
  BY DEF LibraryInv, EndRestore
<1>2. \A r \in Run : ~Tried(r)'
  BY <1>1 DEF Tried
<1>3. RestoreInv'
  BY <1>1, <1>2 DEF RestoreInv, TriedInv, FirstInv, PartsInv, AllOrNothing, Restoring
<1> QED
  BY <1>1, <1>3, RestoreApart DEF LibraryTypeOK, budgetVars

-----------------------------------------------------------------------------
LEMMA LibraryStepInv == LibraryInv /\ [LibraryNext]_libraryVars => LibraryInv'
<1> SUFFICES ASSUME LibraryInv, [LibraryNext]_libraryVars PROVE LibraryInv'
  OBVIOUS
<1>1. ASSUME NEW k \in Keeper, KeeperStep(k) PROVE LibraryInv'
  BY <1>1, BeginSetInv, TakeMemberInv, StorePartInv, FinishRunInv, EndSetInv, DeleteObjectsInv,
     DeleteArtifactsInv, RestartKeeperInv DEF KeeperStep
<1>2. CASE RestoreStep
  BY <1>2, BeginRestoreInv, RestoreMemberInv, VerifyArtifactsInv, PullPartInv, FinishRestoreInv,
     EndRestoreInv DEF RestoreStep
<1>3. CASE NextDay
  BY <1>3, NextDayInv
<1>4. CASE UNCHANGED libraryVars
  <2> USE <1>4 DEF libraryVars
  <2>1. LibraryTypeOK'
    BY DEF LibraryInv, LibraryTypeOK, recordVars, keeperVars, restoreVars, budgetVars
  <2> QED
    BY <2>1, SameTaking, SameCopies, SameRestore DEF LibraryInv, recordVars
<1> QED
  BY <1>1, <1>2, <1>3, <1>4 DEF LibraryNext

(* Every variable holds a value of its type.                               *)
THEOREM LibraryTypeCorrect == LibrarySpec => []LibraryTypeOK
<1>1. LibraryInv => LibraryTypeOK
  BY DEF LibraryInv
<1> QED
  BY LibraryInitInv, LibraryStepInv, <1>1, PTL DEF LibrarySpec

(* Retention leaves a newer whole run behind whatever it takes, for every  *)
(* policy, every number of processes that prune, and however many deletes  *)
(* fail half-way (retention.go SelectForDeletion).                         *)
THEOREM LibraryKeepsNewer == LibrarySpec => NewerCopyRemains
<1> DEFINE Newer ==
      \A r \in Run :
          ~(objects[r] \subseteq objects'[r] /\ artifacts[r] \subseteq artifacts'[r])
            => \E q \in Run : q > r /\ Whole(q) /\ Whole(q)'
<1>1. LibraryInv /\ [LibraryNext]_libraryVars => [Newer]_libraryVars
  <2> SUFFICES ASSUME LibraryInv, LibraryNext, NEW r \in Run,
                      ~(objects[r] \subseteq objects'[r] /\ artifacts[r] \subseteq artifacts'[r])
               PROVE  \E q \in Run : q > r /\ Whole(q) /\ Whole(q)'
    OBVIOUS
  <2>1. \E k \in Keeper : /\ r \in ToPrune(k)
                          /\ \A q \in Run : q # r => objects'[q] = objects[q] /\ artifacts'[q] = artifacts[q]
    <3>1. ~NextDay /\ ~RestoreStep
      BY DEF NextDay, RestoreStep, BeginRestore, VerifyArtifacts, FinishRestore, EndRestore, RestoreMember,
             PullPart, recordVars
    <3>2. PICK k \in Keeper : KeeperStep(k)
      BY <3>1 DEF LibraryNext
    <3>3. ~BeginSet(k) /\ ~FinishRun(k) /\ ~EndSet(k) /\ ~RestartKeeper(k)
      BY DEF BeginSet, FinishRun, EndSet, RestartKeeper, recordVars
    <3>4. \A m : ~TakeMember(k, m)
      BY DEF TakeMember
    <3>5. ASSUME NEW p, StorePart(k, p) PROVE FALSE
      <4>1. artifacts \in [Run -> SUBSET Part] /\ objects \in [Run -> SUBSET Part]
        BY DEF LibraryInv, LibraryTypeOK
      <4>2. \/ objects' = [objects EXCEPT ![krun[k]] = @ \cup {p}]
            \/ objects' = objects
        BY <3>5 DEF StorePart
      <4>3. \/ artifacts' = [artifacts EXCEPT ![krun[k]] = @ \cup {p}]
            \/ artifacts' = artifacts
        BY <3>5 DEF StorePart
      <4>4. objects[r] \subseteq objects'[r]
        BY <4>1, <4>2
      <4>5. artifacts[r] \subseteq artifacts'[r]
        BY <4>1, <4>3
      <4> QED
        BY <4>4, <4>5
    <3>6. CASE DeleteArtifacts(k)
      <4>1. artifacts' = [artifacts EXCEPT ![krun[k]] = {}] /\ objects' = objects /\ kpc[k] = "rows"
        BY <3>6 DEF DeleteArtifacts
      <4>2. krun[k] = r
        BY <4>1 DEF LibraryInv, LibraryTypeOK
      <4> QED
        BY <4>1, <4>2 DEF ToPrune, LibraryInv, LibraryTypeOK
    <3>7. ASSUME NEW q \in Newest(doomed[k]), DeleteObjects(k, q)
          PROVE  r = q /\ r \in ToPrune(k)
                 /\ \A p \in Run : p # r => objects'[p] = objects[p] /\ artifacts'[p] = artifacts[p]
      <4>1. artifacts' = artifacts /\ q \in doomed[k] /\ q \in Run
        BY <3>7 DEF DeleteObjects, Newest, LibraryInv, LibraryTypeOK
      <4>2. PICK left : objects' = [objects EXCEPT ![q] = left]
        BY <3>7 DEF DeleteObjects
      <4>3. \A p \in Run : p # q => objects'[p] = objects[p]
        BY <4>2 DEF LibraryInv, LibraryTypeOK
      <4> QED
        BY <4>1, <4>3 DEF ToPrune
    <3> QED
      BY <3>2, <3>3, <3>4, <3>5, <3>6, <3>7 DEF KeeperStep
  <2>2. PICK p \in Candidates : p > r
    BY <2>1 DEF LibraryInv, CopiesInv, GivenInv, Later
  <2>3. PICK q \in Candidates : q >= p /\ Whole(q)
    BY DEF LibraryInv, CopiesInv, CoveredInv
  <2>4. q \in Run /\ q > r /\ q # r
    BY <2>2, <2>3 DEF Candidates, Run
  <2> QED
    BY <2>1, <2>3, <2>4 DEF Whole
<1> QED
  BY LibraryInitInv, LibraryStepInv, <1>1, PTL DEF LibrarySpec, NewerCopyRemains

(* Without a limit on the total the last Daily days stay covered.          *)
THEOREM LibraryCoversDays == LibrarySpec => []DaysCovered
<1>1. LibraryInv => DaysCovered
  <2> SUFFICES ASSUME LibraryInv, cap = 0, NEW r \in Candidates, Cardinality(DaysFrom(r)) <= Daily
               PROVE  \E q \in Candidates : DayOf(q) = DayOf(r) /\ Whole(q)
    BY DEF DaysCovered, DaysFrom
  <2>1. ~(Cardinality(DaysFrom(r)) > Daily)
    BY DaysFinite, Bounds
  <2> QED
    BY <2>1 DEF LibraryInv, CopiesInv, CoveredInv
<1> QED
  BY LibraryInitInv, LibraryStepInv, <1>1, PTL DEF LibrarySpec

(* No part of a stack comes back before the platform of its set has been   *)
(* restored, whatever fails on the way (run_restore_set.go).               *)
THEOREM LibraryPlatformFirst == LibrarySpec => []PlatformFirst
<1>1. LibraryInv => PlatformFirst
  BY DEF LibraryInv, RestoreInv, FirstInv, PlatformFirst, Tried
<1> QED
  BY LibraryInitInv, LibraryStepInv, <1>1, PTL DEF LibrarySpec

(* A restore that succeeds puts back all the fatal parts or none.          *)
THEOREM LibraryAllOrNothing == LibrarySpec => []AllOrNothing
<1>1. LibraryInv => AllOrNothing
  BY DEF LibraryInv, RestoreInv
<1> QED
  BY LibraryInitInv, LibraryStepInv, <1>1, PTL DEF LibrarySpec
=============================================================================

---------------------------- MODULE Ruleset_proofs ----------------------------
(* Proofs about Ruleset, for every list of devices and every set of        *)
(* configurations: a load that succeeds is whole, counters survive it, it  *)
(* is not refused, and the chains of the user outlive it.  And about what  *)
(* such a load is made of, RulePolicy, for every list of rules, zones,     *)
(* interfaces and blocked addresses: the blocklist is kept out, what is to *)
(* be logged is logged, and what is shaped has its classes.                *)
EXTENDS Ruleset, RulePolicy, FiniteSetTheorems, FunctionTheorems, TLAPS

-----------------------------------------------------------------------------
(* Induction over the natural numbers, said of sets: a set of numbers that *)
(* has 0 and, with every number, the next one, has them all.               *)

(* A smallest number outside of S would be the top of a smallest interval. *)
LEMMA NatSets ==
    ASSUME NEW S, 0 \in S, \A n \in Nat : n \in S => n + 1 \in S
    PROVE  Nat \subseteq S
  <1> DEFINE T == {A \in FiniteSubsetsOf(Nat) : \E n \in Nat \ S : A = 0..n}
  <1> SUFFICES ASSUME NEW m \in Nat \ S PROVE FALSE
    OBVIOUS
  <1>1. \A n \in Nat : 0..n \in FiniteSubsetsOf(Nat)
    BY FS_Interval DEF FiniteSubsetsOf
  <1>2. 0..m \in T
    BY <1>1
  <1>3. PICK A \in T : \A B \in T : ~ (<<B, A>> \in StrictSubsetOrdering(Nat))
    <2> HIDE DEF T
    <2>1. IsWellFoundedOn(StrictSubsetOrdering(Nat), FiniteSubsetsOf(Nat))
      BY FS_StrictSubsetOrderingWellFounded
    <2>2. T \subseteq FiniteSubsetsOf(Nat)
      BY DEF T
    <2>3. QED
      BY <1>2, <2>1, <2>2, WFMin
  <1>4. PICK x \in Nat \ S : A = 0..x
    BY <1>3
  <1>5. x # 0 /\ x - 1 \in Nat
    BY <1>4
  <1>6. 0..(x - 1) \in SUBSET Nat /\ A \in SUBSET Nat /\ 0..(x - 1) \subseteq A /\ 0..(x - 1) # A
    <2>1. x \in A /\ x \notin 0..(x - 1)
      BY <1>4, <1>5
    <2>2. QED
      BY <1>4, <1>5, <2>1
  <1>7. <<0..(x - 1), A>> \in StrictSubsetOrdering(Nat)
    BY <1>6 DEF StrictSubsetOrdering
  <1>8. x - 1 \in S
    BY <1>1, <1>3, <1>5, <1>7
  <1>9. QED
    BY <1>4, <1>5, <1>8

-----------------------------------------------------------------------------

Counts  == [ToSet(Devices) -> [INPUT : 0..MaxCount, ACC : 0..MaxCount]]
Reading == {"save", "create", "list", "shape"}

\* a table is a record, whatever its chains are
IsTable(x) ==
    x = [ver |-> x.ver, chains |-> x.chains, counts |-> x.counts] /\ x.ver \in 0..MaxVersion
    /\ x.counts \subseteq ToSet(Devices)

TypeOK ==
    /\ config \in Configs /\ version \in 1..MaxVersion
    /\ up \in BOOLEAN /\ first \in BOOLEAN /\ blind \in BOOLEAN
    /\ fam \in Family /\ pc \in {"idle", "done"} \union Reading \union ToSet(Tables(fam))
    /\ saved \in Counts /\ carried \in Counts /\ atSave \in Counts /\ counters \in Counts
    /\ result \in {"none", "ok", "failed", "refused"}
    /\ kernel = [f \in Family |-> [t \in ToSet(Tables(f)) |-> kernel[f][t]]]
    /\ \A f \in Family : \A t \in ToSet(Tables(f)) : IsTable(kernel[f][t])
    /\ shaped \in 0..MaxVersion
    /\ forwarding \in [Family -> BOOLEAN]

\* the tables of family f that this load has committed
Committed(f) ==
    IF pc = "idle" THEN {}
    ELSE IF f # fam THEN IF f = 4 THEN ToSet(Tables(4)) ELSE {}
    ELSE IF pc = "done" THEN ToSet(Tables(f))
    ELSE CASE pc = "mangle" -> {"raw"}
           [] pc = "nat"    -> {"raw", "mangle"}
           [] pc = "filter" -> ToSet(Tables(f)) \ {"filter"}
           [] OTHER         -> {}

\* what was done up to here was done for the configuration in memory
Progress ==
    /\ pc # "idle" => up /\ result = "none"
    /\ \A f \in Family : \A t \in Committed(f) : kernel[f][t].ver = version
    /\ pc # "idle" /\ (fam = 6 \/ pc \notin Reading) => shaped = version
    /\ pc # "idle" /\ fam = 6 /\ pc \notin {"save", "create"} /\ config.sysctl =>
          forwarding = [f \in Family |-> config.forward[6]]

WholeInv == TypeOK /\ Progress /\ SuccessIsOneVersion /\ (result = "ok" => up)

\* the counters of INPUT go unchanged from the kernel into the lines
CarriedInv ==
    /\ TypeOK
    /\ fam = 4 =>
        /\ pc = "create" => \A d \in ToSet(Devices) : saved[d].INPUT = atSave[d].INPUT
        /\ pc \in {"list", "shape"} \union ToSet(Tables(4)) =>
              \A d \in ToSet(Devices) : carried[d].INPUT = atSave[d].INPUT

-----------------------------------------------------------------------------
(* Facts about the operators.                                               *)

LEMMA TablesLemma ==
    /\ ToSet(Tables(4)) = {"raw", "mangle", "nat", "filter"}
    /\ ToSet(Tables(6)) = {"raw", "mangle", "filter"}
    /\ Tables(4)[1] = "raw" /\ Tables(6)[1] = "raw"
  BY DEF Tables, ToSet

LEMMA NextTable4 ==
    ASSUME fam = 4
    PROVE  /\ NextTable("raw") = "mangle"
           /\ NextTable("mangle") = "nat"
           /\ NextTable("nat") = "filter"
           /\ NextTable("filter") = "done"
  <1> DEFINE s == << "raw", "mangle", "nat", "filter" >>
  <1>1. Tables(fam) = s
    BY DEF Tables
  <1>2. DOMAIN s = 1..4 /\ Len(s) = 4
    OBVIOUS
  <1>3. (CHOOSE k \in DOMAIN s : s[k] = "raw") = 1
    BY <1>2
  <1>4. (CHOOSE k \in DOMAIN s : s[k] = "mangle") = 2
    BY <1>2
  <1>5. (CHOOSE k \in DOMAIN s : s[k] = "nat") = 3
    BY <1>2
  <1>6. (CHOOSE k \in DOMAIN s : s[k] = "filter") = 4
    BY <1>2
  <1> QED
    BY <1>1, <1>2, <1>3, <1>4, <1>5, <1>6 DEF NextTable

LEMMA NextTable6 ==
    ASSUME fam = 6
    PROVE  /\ NextTable("raw") = "mangle"
           /\ NextTable("mangle") = "filter"
           /\ NextTable("filter") = "done"
  <1> DEFINE s == << "raw", "mangle", "filter" >>
  <1>1. Tables(fam) = s
    BY DEF Tables
  <1>2. DOMAIN s = 1..3 /\ Len(s) = 3
    OBVIOUS
  <1>3. (CHOOSE k \in DOMAIN s : s[k] = "raw") = 1
    BY <1>2
  <1>4. (CHOOSE k \in DOMAIN s : s[k] = "mangle") = 2
    BY <1>2
  <1>5. (CHOOSE k \in DOMAIN s : s[k] = "filter") = 3
    BY <1>2
  <1> QED
    BY <1>1, <1>2, <1>3, <1>4, <1>5 DEF NextTable

LEMMA TypeOfConfig ==
    ASSUME NEW c \in Configs
    PROVE  c.counted \subseteq ToSet(Devices) /\ c.forward \in [Family -> BOOLEAN] /\ c.sysctl \in BOOLEAN
  BY RulesetAssumption

LEMMA CountsInLemma ==
    ASSUME NEW c \in Configs, NEW f, NEW t
    PROVE  CountsIn(f, t, c) \subseteq ToSet(Devices)
  BY TypeOfConfig DEF CountsIn, CountedBy

LEMMA CountingLemma == TypeOK => Counting \subseteq ToSet(Devices)
  <1>1. \E t \in ToSet(Tables(4)) : t = "filter"
    BY TablesLemma
  <1>2. QED
    BY <1>1 DEF TypeOK, IsTable, Counting, Family

LEMMA CountsLemma ==
    /\ NoCounts \in Counts
    /\ counters \in Counts => Stats \in Counts
  <1>1. 0 \in 0..MaxCount
    BY RulesetAssumption
  <1>2. NoCounts \in Counts
    BY <1>1 DEF NoCounts, Counts
  <1>3. ASSUME counters \in Counts, NEW d \in ToSet(Devices)
        PROVE  Stat("INPUT", d) \in 0..MaxCount /\ Stat("ACC", d) \in 0..MaxCount
    <2>1. counters[d].INPUT \in 0..MaxCount /\ counters[d].ACC \in 0..MaxCount
      BY <1>3 DEF Counts
    <2>2. QED
      BY <1>1, <2>1 DEF Stat
  <1>4. QED
    BY <1>2, <1>3 DEF Stats, Counts

-----------------------------------------------------------------------------
(* Types.                                                                   *)

LEMMA InitType == Init => TypeOK
  <1> SUFFICES ASSUME Init PROVE TypeOK
    OBVIOUS
  <1>1. 0 \in 0..MaxVersion /\ 1 \in 1..MaxVersion
    BY RulesetAssumption
  <1>2. \A f \in Family : \A t \in ToSet(Tables(f)) : kernel[f][t] = Empty
    BY DEF Init
  <1>3. IsTable(Empty)
    BY <1>1 DEF IsTable, Empty
  <1>4. kernel = [f \in Family |-> [t \in ToSet(Tables(f)) |-> kernel[f][t]]]
    BY DEF Init
  <1>5. QED
    BY <1>1, <1>2, <1>3, <1>4, CountsLemma DEF Init, TypeOK, Family

LEMMA SwitchesLemma == ASSUME TypeOK, SetForwarding PROVE forwarding' \in [Family -> BOOLEAN]
  <1>1. config.forward[fam] \in BOOLEAN
    BY TypeOfConfig DEF TypeOK
  <1>2. QED
    BY <1>1 DEF SetForwarding, TypeOK

\* what a load that fails leaves behind
LEMMA FailType ==
    ASSUME TypeOK, NEW r \in {"failed", "refused"}, Fail(r), UNCHANGED << config, version, first, fam, saved, system >>
    PROVE  TypeOK'
  BY CountsLemma DEF TypeOK, Fail, system

LEMMA DaemonStepType ==
    ASSUME TypeOK,
           Configure \/ Load \/ CreateFails \/ FileFails \/ GetSystemChains \/ LoadFails \/ LoadDone \/ Stop
    PROVE  TypeOK'
  <1>1. CASE Configure
    <2>1. version' \in 1..MaxVersion
      BY <1>1, RulesetAssumption DEF Configure, TypeOK
    <2>2. QED
      BY <1>1, <2>1 DEF Configure, TypeOK, system
  <1>2. CASE Load
    BY <1>2 DEF Load, TypeOK, system, Reading, Family
  <1>3. CASE CreateFails
    <2>1. forwarding' \in [Family -> BOOLEAN]
      BY <1>3, SwitchesLemma DEF CreateFails, TypeOK
    <2>2. UNCHANGED << config, version, first, fam, saved, kernel, counters, shaped >> /\ Fail("failed")
      BY <1>3 DEF CreateFails
    <2>3. QED
      BY <2>1, <2>2, CountsLemma DEF TypeOK, Fail
  <1>4. CASE FileFails
    BY <1>4, FailType DEF FileFails
  <1>5. CASE LoadFails
    BY <1>5, FailType DEF LoadFails
  <1>6. CASE GetSystemChains
    <2>1. pc' \in {"shape"} \union ToSet(Tables(fam))
      <3>1. fam = 4 \/ fam = 6
        BY DEF TypeOK, Family
      <3>2. QED
        BY <1>6, <3>1, TablesLemma DEF GetSystemChains
    <2>2. QED
      BY <1>6, <2>1 DEF GetSystemChains, TypeOK, system, Reading
  <1>7. CASE LoadDone
    BY <1>7, CountsLemma DEF LoadDone, TypeOK, system, Reading, Family
  <1>8. CASE Stop
    BY <1>8, CountsLemma DEF Stop, TypeOK, system, Family
  <1>9. QED
    BY <1>1, <1>2, <1>3, <1>4, <1>5, <1>6, <1>7, <1>8

LEMMA SaveType == TypeOK /\ SaveInterfaceCounters => TypeOK'
  <1> SUFFICES ASSUME TypeOK, SaveInterfaceCounters PROVE TypeOK'
    OBVIOUS
  <1>1. [d \in ToSet(Devices) |-> IF d \in Counting THEN counters[d] ELSE NoCounts[d]] \in Counts
    <2>1. ASSUME NEW d \in ToSet(Devices)
          PROVE  counters[d] \in [INPUT : 0..MaxCount, ACC : 0..MaxCount]
                 /\ NoCounts[d] \in [INPUT : 0..MaxCount, ACC : 0..MaxCount]
      BY CountsLemma DEF TypeOK, Counts
    <2>2. QED
      BY <2>1 DEF Counts
  <1>2. saved' \in Counts /\ atSave' \in Counts
    BY <1>1, CountsLemma DEF SaveInterfaceCounters, TypeOK
  <1>3. QED
    BY <1>2 DEF SaveInterfaceCounters, TypeOK, system, Reading

LEMMA CreateType == TypeOK /\ CreateRuleset => TypeOK'
  <1> SUFFICES ASSUME TypeOK, CreateRuleset PROVE TypeOK'
    OBVIOUS
  <1>1. forwarding' \in [Family -> BOOLEAN]
    BY SwitchesLemma DEF CreateRuleset
  <1>2. QED
    BY <1>1, CountsLemma DEF CreateRuleset, TypeOK, Reading

LEMMA ShapeType == TypeOK /\ LoadShape => TypeOK'
  <1> SUFFICES ASSUME TypeOK, LoadShape PROVE TypeOK'
    OBVIOUS
  <1>1. shaped' \in 0..MaxVersion
    BY RulesetAssumption DEF LoadShape, TypeOK
  <1>2. pc' \in {"idle"} \union ToSet(Tables(fam))
    BY TablesLemma DEF LoadShape, Fail, TypeOK, Family
  <1>3. UNCHANGED << config, version, first, fam, saved, kernel, counters, forwarding >>
    BY DEF LoadShape
  <1>4. /\ up' \in BOOLEAN /\ blind' \in BOOLEAN /\ result' \in {"none", "ok", "failed", "refused"}
        /\ carried' \in Counts /\ atSave' \in Counts
    BY CountsLemma DEF LoadShape, Fail, TypeOK
  <1>5. QED
    BY <1>1, <1>2, <1>3, <1>4 DEF TypeOK

\* a table with other chains
LEMMA TableExcept ==
    ASSUME NEW x, IsTable(x), NEW c
    PROVE  [x EXCEPT !.chains = c] = [ver |-> x.ver, chains |-> c, counts |-> x.counts]
  <1>1. PICK v, k, n : x = [ver |-> v, chains |-> k, counts |-> n]
    BY DEF IsTable
  <1>2. x.ver = v /\ x.counts = n
    BY <1>1
  <1>3. [[ver |-> v, chains |-> k, counts |-> n] EXCEPT !.chains = c] = [ver |-> v, chains |-> c, counts |-> n]
    OBVIOUS
  <1>4. QED
    BY <1>1, <1>2, <1>3

\* a table that is changed is the only one that is
LEMMA CommitLemma ==
    ASSUME TypeOK, NEW f \in Family, NEW t \in ToSet(Tables(f)), NEW new,
           kernel' = [kernel EXCEPT ![f][t] = new]
    PROVE  /\ kernel' = [g \in Family |-> [u \in ToSet(Tables(g)) |-> kernel'[g][u]]]
           /\ \A g \in Family : \A u \in ToSet(Tables(g)) :
                 kernel'[g][u] = IF g = f /\ u = t THEN new ELSE kernel[g][u]
  BY DEF TypeOK

\* LoadTable commits a table of this version or fails
LEMMA LoadTableLemma ==
    ASSUME LoadTable
    PROVE  /\ pc \in ToSet(Tables(fam))
           /\ UNCHANGED << config, version, first, fam, saved, shaped, forwarding >>
           /\ \/ \E r \in {"failed", "refused"} : Fail(r) /\ UNCHANGED << kernel, counters >>
              \/ /\ pc' = NextTable(pc)
                 /\ UNCHANGED << up, result, listed, blind, carried, atSave >>
                 /\ \E new : kernel' = [kernel EXCEPT ![fam][pc] = [ver |-> version, chains |-> new,
                                                                   counts |-> CountsIn(fam, pc, config)]]
                 /\ counters' = IF fam = 4 /\ pc = "filter"
                                THEN [d \in ToSet(Devices) |->
                                        IF d \in config.counted THEN carried[d] ELSE counters[d]]
                                ELSE counters
  <1> DEFINE new == After(kernel[fam][pc].chains, Commands(fam, pc, config, listed))
  <1>1. CASE new = Refused
    BY <1>1 DEF LoadTable
  <1>2. CASE new # Refused
    BY <1>2 DEF LoadTable
  <1>3. QED
    BY <1>1, <1>2

LEMMA LoadTableType == TypeOK /\ LoadTable => TypeOK'
  <1> SUFFICES ASSUME TypeOK, LoadTable PROVE TypeOK'
    OBVIOUS
  <1>1. /\ pc \in ToSet(Tables(fam))
        /\ UNCHANGED << config, version, first, fam, saved, shaped, forwarding >>
    BY LoadTableLemma
  <1>2. ASSUME NEW r \in {"failed", "refused"}, Fail(r), UNCHANGED << kernel, counters >>
        PROVE  TypeOK'
    BY <1>1, <1>2, FailType DEF system
  <1>3. ASSUME pc' = NextTable(pc), UNCHANGED << up, result, listed, blind, carried, atSave >>,
               NEW new, kernel' = [kernel EXCEPT ![fam][pc] = [ver |-> version, chains |-> new,
                                                               counts |-> CountsIn(fam, pc, config)]],
               counters' = IF fam = 4 /\ pc = "filter"
                           THEN [d \in ToSet(Devices) |->
                                   IF d \in config.counted THEN carried[d] ELSE counters[d]]
                           ELSE counters
        PROVE  TypeOK'
    <2>1. fam \in Family /\ (fam = 4 \/ fam = 6)
      BY DEF TypeOK, Family
    <2>2. pc' \in {"done"} \union ToSet(Tables(fam))
      BY <1>1, <1>3, <2>1, TablesLemma, NextTable4, NextTable6
    <2>3. IsTable([ver |-> version, chains |-> new, counts |-> CountsIn(fam, pc, config)])
      BY RulesetAssumption, CountsInLemma DEF IsTable, TypeOK
    <2>4. kernel' = [g \in Family |-> [u \in ToSet(Tables(g)) |-> kernel'[g][u]]]
      BY <1>1, <1>3, <2>1, CommitLemma
    <2>5. \A g \in Family : \A u \in ToSet(Tables(g)) : IsTable(kernel'[g][u])
      BY <1>1, <1>3, <2>1, <2>3, CommitLemma DEF TypeOK
    <2>6. counters' \in Counts
      BY <1>3 DEF TypeOK, Counts
    <2>7. QED
      BY <1>1, <1>3, <2>2, <2>4, <2>5, <2>6 DEF TypeOK
  <1>4. QED
    BY <1>2, <1>3, LoadTableLemma

\* what is flushed or emptied has no version any more
LEMMA ClearLemma ==
    ASSUME TypeOK, ClearVuurmuurRules \/ ClearAllRules
    PROVE  /\ ~up /\ UNCHANGED << config, version, daemon, counters, shaped, forwarding >>
           /\ kernel' = [g \in Family |-> [u \in ToSet(Tables(g)) |-> kernel'[g][u]]]
           /\ \A g \in Family : \A u \in ToSet(Tables(g)) : IsTable(kernel'[g][u])
  <1>1. 0 \in 0..MaxVersion
    BY RulesetAssumption
  <1>2. ASSUME NEW x, IsTable(x) PROVE IsTable(Flushed(x)) /\ IsTable(EmptyTable(x))
    BY <1>1 DEF IsTable, Flushed, EmptyTable, Empty
  <1>3. CASE ClearVuurmuurRules
    <2>1. kernel' = [f \in Family |-> [t \in ToSet(Tables(f)) |->
                        IF t = "raw" THEN kernel[f][t] ELSE Flushed(kernel[f][t])]]
      BY <1>3 DEF ClearVuurmuurRules, Cleared
    <2>2. QED
      BY <1>2, <1>3, <2>1 DEF ClearVuurmuurRules, TypeOK
  <1>4. CASE ClearAllRules
    <2>1. kernel' = [f \in Family |-> [t \in ToSet(Tables(f)) |->
                        IF t = "raw" THEN kernel[f][t] ELSE EmptyTable(kernel[f][t])]]
      BY <1>4 DEF ClearAllRules, Cleared
    <2>2. QED
      BY <1>2, <1>4, <2>1 DEF ClearAllRules, TypeOK
  <1>5. QED
    BY <1>3, <1>4

LEMMA TrafficType == ASSUME TypeOK, NEW d \in ToSet(Devices), Traffic(d) PROVE TypeOK'
  <1>1. counters \in Counts /\ counters[d].INPUT \in 0..MaxCount /\ counters[d].ACC \in 0..MaxCount
    BY DEF TypeOK, Counts
  <1>2. counters[d].INPUT + 1 \in 0..MaxCount /\ counters[d].ACC + 1 \in 0..MaxCount
    BY <1>1, RulesetAssumption DEF Traffic
  <1>3. counters' = [counters EXCEPT ![d] = [INPUT |-> counters[d].INPUT + 1, ACC |-> counters[d].ACC + 1]]
    BY DEF Traffic
  <1>4. counters' \in Counts
    BY <1>1, <1>2, <1>3 DEF Counts
  <1>5. UNCHANGED << config, version, daemon, kernel, shaped, forwarding >>
    BY DEF Traffic
  <1>6. QED
    BY <1>4, <1>5 DEF TypeOK, daemon

\* a user who fills a chain leaves the version of the table
LEMMA UserFillsLemma ==
    ASSUME TypeOK, NEW f \in Family, NEW chain, UserFills(f, chain)
    PROVE  /\ pc = "idle" /\ UNCHANGED << config, version, daemon, counters, shaped, forwarding >>
           /\ kernel' = [g \in Family |-> [u \in ToSet(Tables(g)) |-> kernel'[g][u]]]
           /\ \A g \in Family : \A u \in ToSet(Tables(g)) :
                 IsTable(kernel'[g][u]) /\ kernel'[g][u].ver = kernel[g][u].ver
  <1>1. PICK t \in ToSet(Tables(f)) : t = "filter"
    BY TablesLemma DEF Family
  <1>2. PICK c : kernel' = [kernel EXCEPT ![f][t] = [kernel[f][t] EXCEPT !.chains = c]]
    BY <1>1 DEF UserFills, TypeOK
  <1>3. PICK new : new = [ver |-> kernel[f][t].ver, chains |-> c, counts |-> kernel[f][t].counts]
    OBVIOUS
  <1>4. kernel' = [kernel EXCEPT ![f][t] = new]
    BY <1>1, <1>2, <1>3, TableExcept DEF TypeOK
  <1>5. /\ kernel' = [g \in Family |-> [u \in ToSet(Tables(g)) |-> kernel'[g][u]]]
        /\ \A g \in Family : \A u \in ToSet(Tables(g)) :
              kernel'[g][u] = IF g = f /\ u = t THEN new ELSE kernel[g][u]
    BY <1>1, <1>4 DEF TypeOK
  <1>6. new.ver = kernel[f][t].ver /\ IsTable(new)
    BY <1>1, <1>3 DEF TypeOK, IsTable
  <1>7. \A g \in Family : \A u \in ToSet(Tables(g)) :
           IsTable(kernel'[g][u]) /\ kernel'[g][u].ver = kernel[g][u].ver
    BY <1>5, <1>6 DEF TypeOK
  <1>8. QED
    BY <1>5, <1>7 DEF UserFills

LEMMA NextType == TypeOK /\ [Next]_vars => TypeOK'
  <1> SUFFICES ASSUME TypeOK, [Next]_vars PROVE TypeOK'
    OBVIOUS
  <1>1. CASE UNCHANGED vars
    BY <1>1 DEF TypeOK, vars, daemon, system
  <1>2. CASE ClearVuurmuurRules \/ ClearAllRules
    BY <1>2, ClearLemma DEF TypeOK, daemon
  <1>3. CASE \E f \in Family : \E chain \in OfUser(f) : UserFills(f, chain)
    BY <1>3, UserFillsLemma DEF TypeOK, daemon
  <1>4. QED
    BY <1>1, <1>2, <1>3, DaemonStepType, SaveType, CreateType, ShapeType, LoadTableType, TrafficType DEF Next

\* The variables keep their types, for every list of devices, every set of
\* configurations and every bound.
THEOREM TypeTheorem == Spec => []TypeOK
  <1>1. QED
    BY InitType, NextType, PTL DEF Spec

-----------------------------------------------------------------------------
(* A load that succeeds has loaded everything.                              *)

LEMMA InitWhole == Init => WholeInv
  <1> SUFFICES ASSUME Init PROVE WholeInv
    OBVIOUS
  <1>1. pc = "idle" /\ result = "none"
    BY DEF Init
  <1>2. Progress /\ SuccessIsOneVersion
    BY <1>1 DEF Progress, SuccessIsOneVersion, Committed
  <1>3. QED
    BY <1>1, <1>2, InitType DEF WholeInv

\* a daemon that is idle has nothing under way
LEMMA IdleWhole ==
    ASSUME TypeOK', pc' = "idle", result' # "ok"
    PROVE  WholeInv'
  BY DEF WholeInv, Progress, Committed, SuccessIsOneVersion

LEMMA ReadingWhole ==
    ASSUME WholeInv, TypeOK',
           Load \/ SaveInterfaceCounters \/ CreateRuleset \/ GetSystemChains \/ LoadShape
    PROVE  WholeInv'
  <1>1. fam = 4 \/ fam = 6
    BY DEF WholeInv, TypeOK, Family
  <1>2. CASE Load
    <2>1. /\ pc' = "save" /\ fam' = 4 /\ up' = TRUE /\ result' = "none"
      BY <1>2 DEF Load
    <2>2. Progress' /\ SuccessIsOneVersion'
      BY <2>1 DEF Progress, Committed, SuccessIsOneVersion, Reading
    <2>3. QED
      BY <2>1, <2>2 DEF WholeInv
  <1>3. CASE SaveInterfaceCounters
    <2>1. pc = "save" /\ pc' = "create" /\ UNCHANGED << config, version, up, fam, result, system >>
      BY <1>3 DEF SaveInterfaceCounters
    <2>2. \A f : Committed(f)' = Committed(f)
      BY <2>1 DEF Committed
    <2>3. Progress' /\ SuccessIsOneVersion'
      BY <1>1, <2>1, <2>2 DEF WholeInv, Progress, SuccessIsOneVersion, Reading, system
    <2>4. QED
      BY <2>1, <2>3 DEF WholeInv
  <1>4. CASE CreateRuleset
    <2>1. /\ pc = "create" /\ pc' = "list" /\ UNCHANGED << config, version, up, fam, result, kernel, shaped >>
          /\ config.sysctl => forwarding' = [f \in Family |-> config.forward[fam]]
      BY <1>4 DEF CreateRuleset, SetForwarding
    <2>2. \A f : Committed(f)' = Committed(f)
      BY <2>1 DEF Committed
    <2>3. fam = 6 /\ config'.sysctl => forwarding' = [f \in Family |-> config'.forward[6]]
      BY <2>1
    <2>4. Progress' /\ SuccessIsOneVersion'
      BY <1>1, <2>1, <2>2, <2>3 DEF WholeInv, Progress, SuccessIsOneVersion, Reading
    <2>5. QED
      BY <2>1, <2>4 DEF WholeInv
  <1>5. CASE GetSystemChains
    <2>1. /\ pc = "list" /\ UNCHANGED << config, version, up, fam, result, system >>
          /\ fam = 4 => pc' = "shape"
          /\ fam = 6 => pc' = "raw"
      BY <1>5, TablesLemma DEF GetSystemChains
    <2>2. \A f : Committed(f)' = Committed(f)
      BY <1>1, <2>1 DEF Committed
    <2>3. Progress' /\ SuccessIsOneVersion'
      BY <1>1, <2>1, <2>2 DEF WholeInv, Progress, SuccessIsOneVersion, Reading, system
    <2>4. QED
      BY <2>1, <2>3 DEF WholeInv
  <1>6. CASE LoadShape
    <2>1. CASE pc' = "idle" /\ result' = "failed"
      BY <2>1, IdleWhole
    <2>2. CASE shaped' = version /\ pc' = Tables(fam)[1] /\ UNCHANGED << up, result >>
      <3>1. pc = "shape" /\ pc' = "raw" /\ UNCHANGED << config, version, up, fam, result, kernel, forwarding >>
        BY <1>1, <1>6, <2>2, TablesLemma DEF LoadShape
      <3>2. \A f : Committed(f)' = Committed(f)
        BY <3>1 DEF Committed
      <3>3. Progress' /\ SuccessIsOneVersion'
        BY <1>1, <2>2, <3>1, <3>2 DEF WholeInv, Progress, SuccessIsOneVersion
      <3>4. QED
        BY <3>1, <3>3 DEF WholeInv
    <2>3. QED
      BY <1>6, <2>1, <2>2 DEF LoadShape, Fail
  <1>7. QED
    BY <1>2, <1>3, <1>4, <1>5, <1>6

LEMMA LoadTableWhole == ASSUME WholeInv, TypeOK', LoadTable PROVE WholeInv'
  <1>1. fam \in Family /\ (fam = 4 \/ fam = 6) /\ TypeOK
    BY DEF WholeInv, TypeOK, Family
  <1>2. /\ pc \in ToSet(Tables(fam))
        /\ UNCHANGED << config, version, first, fam, saved, shaped, forwarding >>
    BY LoadTableLemma
  <1>3. ASSUME NEW r \in {"failed", "refused"}, Fail(r)
        PROVE  WholeInv'
    BY <1>3, IdleWhole DEF Fail
  <1>4. ASSUME pc' = NextTable(pc), UNCHANGED << up, result, listed, blind, carried, atSave >>,
               NEW new, kernel' = [kernel EXCEPT ![fam][pc] = [ver |-> version, chains |-> new,
                                                               counts |-> CountsIn(fam, pc, config)]]
        PROVE  WholeInv'
    <2>1. \A g \in Family : \A u \in ToSet(Tables(g)) :
             kernel'[g][u].ver = IF g = fam /\ u = pc THEN version ELSE kernel[g][u].ver
      <3>1. \A g \in Family : \A u \in ToSet(Tables(g)) :
               kernel'[g][u] = IF g = fam /\ u = pc
                               THEN [ver |-> version, chains |-> new, counts |-> CountsIn(fam, pc, config)]
                               ELSE kernel[g][u]
        BY <1>1, <1>2, <1>4 DEF TypeOK
      <3>2. QED
        BY <3>1
    <2>2. pc # "idle" /\ pc \notin Reading /\ pc' # "idle" /\ pc' \notin Reading
      BY <1>1, <1>2, <1>4, TablesLemma, NextTable4, NextTable6 DEF Reading
    <2>3. Committed(fam)' = Committed(fam) \union {pc}
      BY <1>1, <1>2, <1>4, TablesLemma, NextTable4, NextTable6 DEF Committed
    <2>4. \A f \in Family \ {fam} : Committed(f)' = Committed(f)
      BY <1>2, <2>2 DEF Committed
    <2>5. \A f \in Family : Committed(f) \subseteq ToSet(Tables(f))
      BY TablesLemma DEF Committed, Family
    <2>6. \A f \in Family : \A t \in Committed(f)' : kernel'[f][t].ver = version
      BY <1>1, <1>2, <2>1, <2>3, <2>4, <2>5 DEF WholeInv, Progress
    <2>7. Progress'
      BY <1>2, <1>4, <2>2, <2>6 DEF WholeInv, Progress, Reading
    <2>8. result' = "none"
      BY <1>4, <2>2 DEF WholeInv, Progress
    <2>9. QED
      BY <2>7, <2>8 DEF WholeInv, SuccessIsOneVersion
  <1>5. QED
    BY <1>3, <1>4, LoadTableLemma

LEMMA LoadDoneWhole == ASSUME WholeInv, TypeOK', LoadDone PROVE WholeInv'
  <1>1. /\ pc = "done" /\ up /\ UNCHANGED << config, version, up, first, saved, system >>
    BY DEF LoadDone, WholeInv, Progress
  <1>2. CASE fam = 4
    <2>1. fam' = 6 /\ pc' = "save" /\ result' = "none"
      BY <1>1, <1>2 DEF LoadDone, WholeInv, Progress
    <2>2. \A f \in Family : Committed(f)' = Committed(f)
      BY <1>1, <1>2, <2>1 DEF Committed, Family
    <2>3. shaped = version
      BY <1>1, <1>2 DEF WholeInv, Progress, Reading
    <2>4. Progress'
      BY <1>1, <2>1, <2>2, <2>3 DEF WholeInv, Progress, system
    <2>5. QED
      BY <2>1, <2>4 DEF WholeInv, SuccessIsOneVersion
  <1>3. CASE fam = 6
    <2>1. fam' = 4 /\ pc' = "idle" /\ result' = "ok"
      BY <1>3 DEF LoadDone
    <2>2. Committed(4) = ToSet(Tables(4)) /\ Committed(6) = ToSet(Tables(6))
      BY <1>1, <1>3 DEF Committed
    <2>3. \A f \in Family : \A t \in ToSet(Tables(f)) : kernel[f][t].ver = version
      BY <2>2 DEF WholeInv, Progress, Family
    <2>4. shaped = version /\ (config.sysctl => forwarding = [f \in Family |-> config.forward[6]])
      BY <1>1, <1>3 DEF WholeInv, Progress
    <2>5. SuccessIsOneVersion'
      BY <1>1, <2>3, <2>4 DEF SuccessIsOneVersion, system
    <2>6. Progress'
      BY <2>1 DEF Progress, Committed
    <2>7. QED
      BY <1>1, <2>5, <2>6 DEF WholeInv
  <1>4. QED
    BY <1>2, <1>3 DEF WholeInv, TypeOK, Family

LEMMA WorldWhole ==
    ASSUME WholeInv, TypeOK',
           \/ ClearVuurmuurRules \/ ClearAllRules
           \/ \E d \in ToSet(Devices) : Traffic(d)
           \/ \E f \in Family : \E chain \in OfUser(f) : UserFills(f, chain)
    PROVE  WholeInv'
  <1>1. TypeOK
    BY DEF WholeInv
  <1>2. CASE ClearVuurmuurRules \/ ClearAllRules
    <2>1. ~up /\ UNCHANGED daemon
      BY <1>1, <1>2, ClearLemma
    <2>2. pc' = "idle" /\ result' # "ok"
      BY <2>1 DEF WholeInv, Progress, daemon
    <2>3. QED
      BY <2>2, IdleWhole
  <1>3. CASE \E d \in ToSet(Devices) : Traffic(d)
    <2>1. UNCHANGED << config, version, daemon, kernel, shaped, forwarding >>
      BY <1>3 DEF Traffic
    <2>2. \A f : Committed(f)' = Committed(f)
      BY <2>1 DEF Committed, daemon
    <2>3. Progress' /\ SuccessIsOneVersion'
      BY <2>1, <2>2 DEF WholeInv, Progress, SuccessIsOneVersion, daemon
    <2>4. QED
      BY <2>1, <2>3 DEF WholeInv, daemon
  <1>4. CASE \E f \in Family : \E chain \in OfUser(f) : UserFills(f, chain)
    <2>1. /\ pc = "idle" /\ UNCHANGED << config, version, daemon, shaped, forwarding >>
          /\ \A g \in Family : \A u \in ToSet(Tables(g)) : kernel'[g][u].ver = kernel[g][u].ver
      BY <1>1, <1>4, UserFillsLemma
    <2>2. Progress' /\ SuccessIsOneVersion'
      BY <2>1 DEF WholeInv, Progress, SuccessIsOneVersion, Committed, daemon
    <2>3. QED
      BY <2>1, <2>2 DEF WholeInv, daemon
  <1>5. QED
    BY <1>2, <1>3, <1>4

LEMMA NextWhole == WholeInv /\ [Next]_vars => WholeInv'
  <1> SUFFICES ASSUME WholeInv, [Next]_vars PROVE WholeInv'
    OBVIOUS
  <1>1. TypeOK'
    BY NextType DEF WholeInv
  <1>2. CASE UNCHANGED vars
    BY <1>2 DEF WholeInv, TypeOK, Progress, SuccessIsOneVersion, Committed, vars, daemon, system
  <1>3. CASE Configure
    BY <1>1, <1>3, IdleWhole DEF Configure
  <1>4. CASE CreateFails \/ FileFails \/ LoadFails
    BY <1>1, <1>4, IdleWhole DEF CreateFails, FileFails, LoadFails, Fail
  <1>5. CASE Stop
    BY <1>1, <1>5, IdleWhole DEF Stop
  <1>6. QED
    BY <1>1, <1>2, <1>3, <1>4, <1>5, ReadingWhole, LoadTableWhole, LoadDoneWhole, WorldWhole DEF Next

\* When load_ruleset() says that it worked, the file of tc that was run and those
\* that were loaded into the tables of both families are of the version in memory,
\* wherever earlier loads broke off, and forwarding is as its last part has set it.
THEOREM WholeTheorem == Spec => []SuccessIsOneVersion
  <1>1. WholeInv => SuccessIsOneVersion
    BY DEF WholeInv
  <1>2. QED
    BY <1>1, InitWhole, NextWhole, PTL DEF Spec

-----------------------------------------------------------------------------
(* The counters survive a load.                                             *)

\* A device that is counted has its line in INPUT behind at least one line, its
\* own, so that it is never before the first rule that is read.
LEMMA LineLemma ==
    ASSUME TypeOK, NEW d \in ToSet(Devices), d \in Counting
    PROVE  LineOf("INPUT", d) \in Nat /\ LineOf("INPUT", d) >= FirstRule
  <1> DEFINE upto == {e \in Counting : \E i, j \in DOMAIN Devices : Devices[i] = e /\ Devices[j] = d /\ i <= j}
  <1>1. Devices \in Seq(STRING) /\ DOMAIN Devices = 1..Len(Devices) /\ Len(Devices) \in Nat
    BY RulesetAssumption
  <1>2. IsFiniteSet(ToSet(Devices))
    <2>1. IsFiniteSet(1..Len(Devices))
      BY <1>1, FS_Interval
    <2>2. Devices \in Surjection(1..Len(Devices), ToSet(Devices))
      BY <1>1, Fun_IsSurj DEF ToSet
    <2>3. QED
      BY <2>1, <2>2, FS_Surjection
  <1>3. upto \subseteq ToSet(Devices)
    BY CountingLemma
  <1>4. IsFiniteSet(upto)
    BY <1>2, <1>3, FS_Subset
  <1>5. d \in upto
    BY <1>1 DEF ToSet
  <1>6. Cardinality(upto) \in Nat /\ Cardinality(upto) # 0
    BY <1>4, <1>5, FS_CardinalityType, FS_EmptySet
  <1>7. LineOf("INPUT", d) = 2 + Cardinality(upto)
    BY DEF LineOf
  <1> HIDE DEF upto
  <1>8. QED
    BY <1>6, <1>7 DEF FirstRule

LEMMA InitCarried == Init => CarriedInv
  BY InitType DEF Init, CarriedInv

LEMMA NextCarried == CarriedInv /\ [Next]_vars => CarriedInv'
  <1> SUFFICES ASSUME CarriedInv, [Next]_vars PROVE CarriedInv'
    OBVIOUS
  <1>1. TypeOK /\ TypeOK'
    BY NextType DEF CarriedInv
  <1> DEFINE After4 == {"list", "shape"} \union ToSet(Tables(4))
  <1>2. /\ "idle" \notin After4 \union {"create"} /\ "save" \notin After4 \union {"create"}
        /\ "done" \notin After4 \union {"create"}
    BY TablesLemma
  <1>3. ASSUME UNCHANGED << fam, pc, saved, carried, atSave >> PROVE CarriedInv'
    BY <1>1, <1>3 DEF CarriedInv
  <1>4. ASSUME pc' \notin After4 \union {"create"} PROVE CarriedInv'
    BY <1>1, <1>4 DEF CarriedInv
  <1>5. CASE SaveInterfaceCounters
    <2>1. ASSUME fam' = 4, NEW d \in ToSet(Devices) PROVE saved'[d].INPUT = atSave'[d].INPUT
      <3>1. /\ saved'[d].INPUT = Stat("INPUT", d)
            /\ atSave'[d] = IF d \in Counting THEN counters[d] ELSE NoCounts[d]
        BY <1>5, <2>1 DEF SaveInterfaceCounters, Stats
      <3>2. CASE d \in Counting
        BY <1>1, <3>1, <3>2, LineLemma DEF Stat
      <3>3. CASE d \notin Counting
        BY <3>1, <3>3 DEF Stat, NoCounts
      <3>4. QED
        BY <3>2, <3>3
    <2>2. pc' = "create"
      BY <1>5 DEF SaveInterfaceCounters
    <2>3. QED
      BY <1>1, <2>1, <2>2, TablesLemma DEF CarriedInv
  <1>6. CASE CreateRuleset
    <2>1. pc = "create" /\ pc' = "list" /\ carried' = saved /\ UNCHANGED << fam, atSave >>
      BY <1>6 DEF CreateRuleset
    <2>2. QED
      BY <1>1, <2>1 DEF CarriedInv
  <1>7. CASE GetSystemChains
    <2>1. pc = "list" /\ pc' # "create" /\ UNCHANGED << fam, carried, atSave >>
      BY <1>1, <1>7, TablesLemma DEF GetSystemChains, TypeOK, Family
    <2>2. QED
      BY <1>1, <2>1 DEF CarriedInv
  <1>8. CASE LoadShape
    <2>1. CASE pc' = "idle"
      BY <1>2, <1>4, <2>1
    <2>2. CASE pc' = Tables(fam)[1] /\ UNCHANGED << carried, atSave >>
      <3>1. pc = "shape" /\ pc' = "raw" /\ UNCHANGED fam
        BY <1>1, <1>8, <2>2, TablesLemma DEF LoadShape, TypeOK, Family
      <3>2. QED
        BY <1>1, <2>2, <3>1 DEF CarriedInv
    <2>3. QED
      BY <1>8, <2>1, <2>2 DEF LoadShape, Fail
  <1>9. CASE LoadTable
    <2>1. CASE pc' = "idle"
      BY <1>2, <1>4, <2>1
    <2>2. CASE pc' = NextTable(pc) /\ UNCHANGED << carried, atSave >>
      <3>1. pc \in ToSet(Tables(fam)) /\ UNCHANGED fam
        BY <1>9, LoadTableLemma
      <3>2. fam = 4 => pc' # "create"
        BY <2>2, <3>1, TablesLemma, NextTable4
      <3>3. QED
        BY <1>1, <2>2, <3>1, <3>2 DEF CarriedInv
    <2>3. QED
      BY <1>9, <2>1, <2>2, LoadTableLemma DEF Fail
  <1>10. CASE \/ Configure \/ Load \/ CreateFails \/ FileFails \/ LoadFails \/ LoadDone \/ Stop
    <2>1. pc' \in {"idle", "save"}
      BY <1>10 DEF Configure, Load, CreateFails, FileFails, LoadFails, LoadDone, Stop, Fail
    <2>2. QED
      BY <1>2, <1>4, <2>1
  <1>11. CASE \/ ClearVuurmuurRules \/ ClearAllRules \/ UNCHANGED vars
              \/ \E d \in ToSet(Devices) : Traffic(d)
              \/ \E f \in Family : \E chain \in OfUser(f) : UserFills(f, chain)
    BY <1>3, <1>11 DEF ClearVuurmuurRules, ClearAllRules, Traffic, UserFills, vars, daemon
  <1>12. QED
    BY <1>5, <1>6, <1>7, <1>8, <1>9, <1>10, <1>11 DEF Next

\* A device that is counted before and after a load loses of its counter in
\* INPUT only what passed since the counters were saved, for any number of
\* devices: its line is never among those that are not read.
THEOREM CountersTheorem == Spec => CountersKept
  <1>1. CarriedInv /\ [Next]_vars => [Carries("INPUT")]_vars
    <2> SUFFICES ASSUME CarriedInv, [Next]_vars, pc = "filter", fam = 4, pc' = "done",
                        NEW d \in Counting \intersect config.counted
                 PROVE  counters'[d].INPUT = atSave[d].INPUT
      BY DEF Carries
    <2>1. LoadTable
      BY DEF Next, vars, daemon, system, Configure, Load, SaveInterfaceCounters, CreateRuleset, CreateFails,
             GetSystemChains, FileFails, LoadShape, LoadFails, LoadDone, Stop, ClearVuurmuurRules,
             ClearAllRules, Traffic, UserFills, Fail
    <2>2. counters' = [e \in ToSet(Devices) |-> IF e \in config.counted THEN carried[e] ELSE counters[e]]
      BY <2>1, LoadTableLemma DEF Fail
    <2>3. d \in ToSet(Devices) /\ counters'[d] = carried[d]
      BY <2>2, TypeOfConfig DEF CarriedInv, TypeOK
    <2>4. carried[d].INPUT = atSave[d].INPUT
      BY <2>3, TablesLemma DEF CarriedInv
    <2>5. QED
      BY <2>3, <2>4
  <1>2. QED
    BY <1>1, InitCarried, NextCarried, PTL DEF Spec, CountersKept

-----------------------------------------------------------------------------
(* Commands one after the other.                                            *)

LEMMA DoneExists ==
    ASSUME NEW cmds, Len(cmds) \in Nat, NEW c
    PROVE  \E f : f = [n \in 0..Len(cmds) |-> IF n = 0 THEN c ELSE Exec(f[n - 1], cmds[n])]
  <1> DEFINE Run(f, n) == f = [i \in 0..n |-> IF i = 0 THEN c ELSE Exec(f[i - 1], cmds[i])]
             S == {n \in Nat : \E f : Run(f, n)}
  <1>1. 0 \in S
    <2>1. Run([i \in 0..0 |-> c], 0)
      OBVIOUS
    <2>2. QED
      BY <2>1
  <1>2. ASSUME NEW n \in Nat, n \in S PROVE n + 1 \in S
    <2>1. PICK f : Run(f, n)
      BY <1>2
    <2> DEFINE g == [i \in 0..(n + 1) |-> IF i = n + 1 THEN Exec(f[n], cmds[n + 1]) ELSE f[i]]
    <2>2. ASSUME NEW i \in 0..(n + 1)
          PROVE  g[i] = IF i = 0 THEN c ELSE Exec(g[i - 1], cmds[i])
      <3>1. i = 0 \/ (i \in 1..n /\ i - 1 \in 0..n) \/ (i = n + 1 /\ i - 1 = n)
        BY <2>2
      <3>2. CASE i = 0
        BY <2>1, <3>2
      <3>3. CASE i \in 1..n /\ i - 1 \in 0..n
        BY <2>1, <3>3
      <3>4. CASE i = n + 1 /\ i - 1 = n
        BY <2>1, <3>4
      <3>5. QED
        BY <3>1, <3>2, <3>3, <3>4
    <2>3. g = [i \in 0..(n + 1) |-> g[i]]
      OBVIOUS
    <2> HIDE DEF g
    <2>4. Run(g, n + 1)
      BY <2>2, <2>3
    <2>5. n + 1 \in Nat
      OBVIOUS
    <2>6. QED
      BY <2>4, <2>5
  <1>3. Nat \subseteq S
    <2> HIDE DEF S
    <2>1. QED
      BY <1>1, <1>2, NatSets
  <1>4. QED
    BY <1>3

LEMMA AfterRun ==
    ASSUME NEW cmds, Len(cmds) \in Nat, NEW c
    PROVE  \E f : /\ f[0] = c /\ After(c, cmds) = f[Len(cmds)]
                  /\ \A n \in 1..Len(cmds) : f[n] = Exec(f[n - 1], cmds[n])
  <1> DEFINE done[n \in 0..Len(cmds)] == IF n = 0 THEN c ELSE Exec(done[n - 1], cmds[n])
  <1>1. done = [n \in 0..Len(cmds) |-> IF n = 0 THEN c ELSE Exec(done[n - 1], cmds[n])]
    BY DoneExists
  <1>2. After(c, cmds) = done[Len(cmds)]
    BY DEF After
  <1> HIDE DEF done
  <1>3. done[0] = c
    BY <1>1
  <1>4. ASSUME NEW n \in 1..Len(cmds) PROVE done[n] = Exec(done[n - 1], cmds[n])
    <2>1. n \in 0..Len(cmds) /\ n # 0
      OBVIOUS
    <2>2. QED
      BY <1>1, <2>1
  <1>5. QED
    BY <1>2, <1>3, <1>4

LEMMA AfterEmpty == ASSUME NEW c PROVE After(c, << >>) = c
  <1>1. Len(<< >>) = 0
    OBVIOUS
  <1>2. QED
    BY <1>1, AfterRun

LEMMA AfterOne == ASSUME NEW c, NEW m PROVE After(c, << m >>) = Exec(c, m)
  <1> DEFINE s == << m >>
  <1>1. Len(s) = 1 /\ s[1] = m /\ 1 \in 1..1 /\ 1 - 1 = 0
    OBVIOUS
  <1> HIDE DEF s
  <1>2. PICK f : /\ f[0] = c /\ After(c, s) = f[Len(s)]
                 /\ \A n \in 1..Len(s) : f[n] = Exec(f[n - 1], s[n])
    BY <1>1, AfterRun
  <1>3. f[1] = Exec(f[0], m)
    BY <1>1, <1>2
  <1>4. QED
    BY <1>1, <1>2, <1>3 DEF s

LEMMA AfterBoth ==
    ASSUME NEW X, NEW s \in Seq(X), NEW t \in Seq(X), NEW c
    PROVE  After(c, s \o t) = After(After(c, s), t)
  <1> DEFINE b == After(c, s)
             M == Len(s)
             N == Len(t)
             st == s \o t
  <1>1. /\ M \in Nat /\ N \in Nat /\ Len(st) = M + N
        /\ \A i \in 1..M : st[i] = s[i]
        /\ \A i \in 1..N : st[M + i] = t[i]
    OBVIOUS
  <1> HIDE DEF st, M, N
  <1>2. PICK f : f[0] = c /\ b = f[M] /\ \A n \in 1..M : f[n] = Exec(f[n - 1], s[n])
    BY <1>1, AfterRun DEF M
  <1> HIDE DEF b
  <1>3. PICK g : g[0] = b /\ After(b, t) = g[N] /\ \A n \in 1..N : g[n] = Exec(g[n - 1], t[n])
    BY <1>1, AfterRun DEF N
  <1>4. PICK h : /\ h[0] = c /\ After(c, st) = h[M + N]
                 /\ \A n \in 1..(M + N) : h[n] = Exec(h[n - 1], st[n])
    <2> DEFINE Made(q) == \E h : /\ h[0] = c /\ After(c, q) = h[Len(q)]
                                /\ \A n \in 1..Len(q) : h[n] = Exec(h[n - 1], q[n])
    <2>1. \A q : Len(q) \in Nat => Made(q)
      BY AfterRun
    <2>2. Len(st) \in Nat /\ Len(st) = M + N
      BY <1>1
    <2>3. Made(st)
      <3> HIDE DEF Made
      <3>1. QED
        BY <2>1, <2>2
    <2>4. QED
      BY <2>2, <2>3
  <1>5. \A i \in 0..M : h[i] = f[i]
    <2>1. ASSUME NEW i \in 1..M, h[i - 1] = f[i - 1] PROVE h[i] = f[i]
      <3>1. i \in 1..(M + N)
        BY <1>1
      <3>2. h[i] = Exec(h[i - 1], s[i]) /\ f[i] = Exec(f[i - 1], s[i])
        BY <1>1, <1>2, <1>4, <3>1
      <3>3. QED
        BY <2>1, <3>2
    <2>2. h[0] = f[0]
      BY <1>2, <1>4
    <2> DEFINE S == {i \in Nat : i <= M => h[i] = f[i]}
    <2>3. 0 \in S
      BY <2>2
    <2>4. ASSUME NEW i \in Nat, i \in S PROVE i + 1 \in S
      <3>1. SUFFICES ASSUME i + 1 <= M PROVE h[i + 1] = f[i + 1]
        OBVIOUS
      <3>2. i + 1 \in 1..M /\ (i + 1) - 1 = i /\ h[i] = f[i]
        BY <1>1, <2>4, <3>1
      <3>3. QED
        BY <2>1, <3>2
    <2>5. Nat \subseteq S
      <3> HIDE DEF S
      <3>1. QED
        BY <2>3, <2>4, NatSets
    <2>6. QED
      BY <1>1, <2>5
  <1>6. h[M] = b
    <2>1. M \in 0..M
      BY <1>1
    <2>2. QED
      BY <1>2, <1>5, <2>1
  <1> DEFINE k == [i \in 0..N |-> h[M + i]]
  <1>7. \A i \in 0..N : k[i] = g[i]
    <2>1. ASSUME NEW i \in 1..N, k[i - 1] = g[i - 1] PROVE k[i] = g[i]
      <3>1. /\ i \in 0..N /\ i - 1 \in 0..N /\ M + i \in 1..(M + N)
            /\ (M + i) - 1 = M + (i - 1)
        BY <1>1
      <3>2. h[M + i] = Exec(h[M + (i - 1)], t[i])
        BY <1>1, <1>4, <3>1
      <3>3. k[i] = h[M + i] /\ k[i - 1] = h[M + (i - 1)]
        BY <3>1
      <3>4. g[i] = Exec(g[i - 1], t[i])
        BY <1>3
      <3>5. QED
        BY <2>1, <3>2, <3>3, <3>4
    <2>2. k[0] = g[0]
      BY <1>1, <1>3, <1>6
    <2> HIDE DEF k
    <2> DEFINE S == {i \in Nat : i <= N => k[i] = g[i]}
    <2>3. 0 \in S
      BY <2>2
    <2>4. ASSUME NEW i \in Nat, i \in S PROVE i + 1 \in S
      <3>1. SUFFICES ASSUME i + 1 <= N PROVE k[i + 1] = g[i + 1]
        OBVIOUS
      <3>2. i + 1 \in 1..N /\ (i + 1) - 1 = i /\ k[i] = g[i]
        BY <1>1, <2>4, <3>1
      <3>3. QED
        BY <2>1, <3>2
    <2>5. Nat \subseteq S
      <3> HIDE DEF S
      <3>1. QED
        BY <2>3, <2>4, NatSets
    <2>6. QED
      BY <1>1, <2>5
  <1>8. h[M + N] = g[N]
    <2>1. N \in 0..N
      BY <1>1
    <2>2. QED
      BY <1>7, <2>1
  <1>9. QED
    BY <1>3, <1>4, <1>8 DEF b, st

(* The commands for a list of chains, chain by chain. *)
LEMMA PiledExists ==
    ASSUME NEW N \in Nat, NEW r
    PROVE  \E f : f = [n \in 0..N |-> IF n = 0 THEN << >> ELSE f[n - 1] \o r[n]]
  <1> DEFINE Run(f, n) == f = [i \in 0..n |-> IF i = 0 THEN << >> ELSE f[i - 1] \o r[i]]
             S == {n \in Nat : \E f : Run(f, n)}
  <1>1. 0 \in S
    <2>1. Run([i \in 0..0 |-> << >>], 0)
      OBVIOUS
    <2>2. QED
      BY <2>1
  <1>2. ASSUME NEW n \in Nat, n \in S PROVE n + 1 \in S
    <2>1. PICK f : Run(f, n)
      BY <1>2
    <2> DEFINE g == [i \in 0..(n + 1) |-> IF i = n + 1 THEN f[n] \o r[n + 1] ELSE f[i]]
    <2>2. ASSUME NEW i \in 0..(n + 1)
          PROVE  g[i] = IF i = 0 THEN << >> ELSE g[i - 1] \o r[i]
      <3>1. i = 0 \/ (i \in 1..n /\ i - 1 \in 0..n) \/ (i = n + 1 /\ i - 1 = n)
        BY <2>2
      <3>2. CASE i = 0
        BY <2>1, <3>2
      <3>3. CASE i \in 1..n /\ i - 1 \in 0..n
        BY <2>1, <3>3
      <3>4. CASE i = n + 1 /\ i - 1 = n
        <4>1. g[i] = f[n] \o r[n + 1] /\ g[n] = f[n] /\ i # 0
          BY <3>4
        <4>2. QED
          BY <3>4, <4>1
      <3>5. QED
        BY <3>1, <3>2, <3>3, <3>4
    <2>3. g = [i \in 0..(n + 1) |-> g[i]]
      OBVIOUS
    <2> HIDE DEF g
    <2>4. Run(g, n + 1)
      BY <2>2, <2>3
    <2>5. n + 1 \in Nat
      OBVIOUS
    <2>6. QED
      BY <2>4, <2>5
  <1>3. Nat \subseteq S
    <2> HIDE DEF S
    <2>1. QED
      BY <1>1, <1>2, NatSets
  <1>4. QED
    BY <1>3

LEMMA RemakeEach ==
    ASSUME NEW X, NEW s \in Seq(X), NEW there
    PROVE  \E f : /\ f[0] = << >> /\ EachOf(s, Remake, there) = f[Len(s)]
                  /\ \A n \in 1..Len(s) : f[n] = f[n - 1] \o Remake(s[n], there)
  <1> DEFINE r == [n \in 1..Len(s) |-> Remake(s[n], there)]
             all[n \in 0..Len(s)] == IF n = 0 THEN << >> ELSE all[n - 1] \o Remake(s[n], there)
  <1>0. Len(s) \in Nat
    OBVIOUS
  <1>1. PICK f : f = [n \in 0..Len(s) |-> IF n = 0 THEN << >> ELSE f[n - 1] \o r[n]]
    BY <1>0, PiledExists
  <1>2. f = [n \in 0..Len(s) |-> IF n = 0 THEN << >> ELSE f[n - 1] \o Remake(s[n], there)]
    <2>1. ASSUME NEW n \in 0..Len(s)
          PROVE  f[n] = IF n = 0 THEN << >> ELSE f[n - 1] \o Remake(s[n], there)
      <3>1. n # 0 => n \in 1..Len(s)
        BY <1>0
      <3>2. QED
        BY <1>1, <3>1
    <2>2. QED
      BY <1>1, <2>1
  <1>3. all = [n \in 0..Len(s) |-> IF n = 0 THEN << >> ELSE all[n - 1] \o Remake(s[n], there)]
    BY <1>2
  <1>4. EachOf(s, Remake, there) = all[Len(s)]
    BY DEF EachOf
  <1> HIDE DEF all, r
  <1>5. all[0] = << >>
    BY <1>0, <1>3
  <1>6. ASSUME NEW n \in 1..Len(s) PROVE all[n] = all[n - 1] \o Remake(s[n], there)
    <2>1. n \in 0..Len(s) /\ n # 0
      BY <1>0
    <2>2. QED
      BY <1>3, <2>1
  <1>7. QED
    BY <1>4, <1>5, <1>6

LEMMA KeepEach ==
    ASSUME NEW X, NEW s \in Seq(X), NEW there
    PROVE  \E f : /\ f[0] = << >> /\ EachOf(s, Keep, there) = f[Len(s)]
                  /\ \A n \in 1..Len(s) : f[n] = f[n - 1] \o Keep(s[n], there)
  <1> DEFINE r == [n \in 1..Len(s) |-> Keep(s[n], there)]
             all[n \in 0..Len(s)] == IF n = 0 THEN << >> ELSE all[n - 1] \o Keep(s[n], there)
  <1>0. Len(s) \in Nat
    OBVIOUS
  <1>1. PICK f : f = [n \in 0..Len(s) |-> IF n = 0 THEN << >> ELSE f[n - 1] \o r[n]]
    BY <1>0, PiledExists
  <1>2. f = [n \in 0..Len(s) |-> IF n = 0 THEN << >> ELSE f[n - 1] \o Keep(s[n], there)]
    <2>1. ASSUME NEW n \in 0..Len(s)
          PROVE  f[n] = IF n = 0 THEN << >> ELSE f[n - 1] \o Keep(s[n], there)
      <3>1. n # 0 => n \in 1..Len(s)
        BY <1>0
      <3>2. QED
        BY <1>1, <3>1
    <2>2. QED
      BY <1>1, <2>1
  <1>3. all = [n \in 0..Len(s) |-> IF n = 0 THEN << >> ELSE all[n - 1] \o Keep(s[n], there)]
    BY <1>2
  <1>4. EachOf(s, Keep, there) = all[Len(s)]
    BY DEF EachOf
  <1> HIDE DEF all, r
  <1>5. all[0] = << >>
    BY <1>0, <1>3
  <1>6. ASSUME NEW n \in 1..Len(s) PROVE all[n] = all[n - 1] \o Keep(s[n], there)
    <2>1. n \in 0..Len(s) /\ n # 0
      BY <1>0
    <2>2. QED
      BY <1>3, <2>1
  <1>7. QED
    BY <1>4, <1>5, <1>6

-----------------------------------------------------------------------------
(* What a command does to the chains of a table.                            *)

Accs == {Acc(d) : d \in ToSet(Devices)}
Ours == {"hooks"} \union ToSet(OwnChains) \union Accs
OwnNames  == Ours \union ToSet(ShapeChains)
Named == {"MINE", "PRE-VRMR"} \union OwnNames \union UNION {c.custom : c \in Configs}

\* x is made anew before y is
Later(x, y) == \E i, j \in DOMAIN OwnChains : i < j /\ OwnChains[i] = x /\ OwnChains[j] = y

\* the hooks jump anywhere, a chain of Vuurmuur to those after it, one of the
\* user to his own
Ordered(c) ==
    /\ c = [x \in DOMAIN c |-> c[x]] /\ "hooks" \in DOMAIN c
    /\ \A x \in DOMAIN c : \A y \in c[x] : x = "hooks" \/ y = "MINE" \/ Later(x, y)
    /\ \A x \in DOMAIN c \intersect (Ours \union {"MINE"}) : "MINE" \notin c[x]

\* the commands for a table that flushes only the chains F
Steps(F) ==
    {m \in [op : {"new", "flush", "delete", "append"}, chain : Named, to : SUBSET Named] :
        /\ m.op \in {"flush", "delete"} => m.chain \in F
        /\ m.op = "delete" => m.chain # "hooks"
        /\ m.op = "append" => /\ m.chain \in Ours /\ "MINE" \notin m.to
                              /\ m.chain = "hooks" \/ \A y \in m.to : Later(m.chain, y)}

\* d has what was in c, but for the chains F
Kept(F, c, d) == \A x \in DOMAIN c \ F : x \in DOMAIN d /\ c[x] \subseteq d[x]

LEMMA NotRefused == ASSUME NEW c, "hooks" \in DOMAIN c PROVE c # Refused
  BY DEF Refused

LEMMA ExecNew ==
    ASSUME NEW c, c # Refused, NEW m, m.op = "new"
    PROVE  Exec(c, m) = IF m.chain \in DOMAIN c THEN Refused
                        ELSE [y \in DOMAIN c \union {m.chain} |-> IF y = m.chain THEN {} ELSE c[y]]
  <1>1. Bad(c, m) = (m.chain \in DOMAIN c)
    BY DEF Bad
  <1>2. QED
    BY <1>1 DEF Exec

LEMMA ExecFlush ==
    ASSUME NEW c, c # Refused, NEW m, m.op = "flush"
    PROVE  Exec(c, m) = IF m.chain \notin DOMAIN c THEN Refused ELSE [c EXCEPT ![m.chain] = {}]
  <1>1. Bad(c, m) = (m.chain \notin DOMAIN c)
    BY DEF Bad
  <1>2. QED
    BY <1>1 DEF Exec

LEMMA ExecDelete ==
    ASSUME NEW c, c # Refused, NEW m, m.op = "delete"
    PROVE  Exec(c, m) = IF m.chain \notin DOMAIN c \/ \E x \in DOMAIN c : m.chain \in c[x] THEN Refused
                        ELSE [y \in DOMAIN c \ {m.chain} |-> c[y]]
  <1>1. Bad(c, m) = (m.chain \notin DOMAIN c \/ \E x \in DOMAIN c : m.chain \in c[x])
    BY DEF Bad
  <1>2. QED
    BY <1>1 DEF Exec

LEMMA ExecAppend ==
    ASSUME NEW c, c # Refused, NEW m, m.op = "append"
    PROVE  Exec(c, m) = IF {m.chain} \union m.to \notin SUBSET DOMAIN c \/ "hooks" \in m.to THEN Refused
                        ELSE [c EXCEPT ![m.chain] = @ \union m.to]
  <1>1. Bad(c, m) = ({m.chain} \union m.to \notin SUBSET DOMAIN c \/ "hooks" \in m.to)
    BY DEF Bad
  <1>2. QED
    BY <1>1 DEF Exec

LEMMA ExecRefused == ASSUME NEW m PROVE Exec(Refused, m) = Refused
  BY DEF Exec

LEMMA ExecOrdered ==
    ASSUME NEW F, NEW m \in Steps(F), NEW c, Ordered(c), Exec(c, m) # Refused
    PROVE  Ordered(Exec(c, m)) /\ Kept(F, c, Exec(c, m))
  <1> DEFINE d == Exec(c, m)
  <1>1. c # Refused /\ c = [x \in DOMAIN c |-> c[x]] /\ "hooks" \in DOMAIN c
    BY NotRefused DEF Ordered
  <1>2. m.op \in {"new", "flush", "delete", "append"}
    BY DEF Steps
  <1>3. CASE m.op = "new"
    <2>1. d = [y \in DOMAIN c \union {m.chain} |-> IF y = m.chain THEN {} ELSE c[y]]
      BY <1>1, <1>3, ExecNew
    <2>2. m.chain \notin DOMAIN c
      BY <1>1, <1>3, ExecNew
    <2> HIDE DEF d
    <2>3. QED
      BY <1>1, <2>1, <2>2 DEF Ordered, Kept, d
  <1>4. CASE m.op = "flush"
    <2>1. d = [c EXCEPT ![m.chain] = {}]
      BY <1>1, <1>4, ExecFlush
    <2>2. m.chain \in F
      BY <1>4 DEF Steps
    <2> HIDE DEF d
    <2>3. QED
      BY <1>1, <2>1, <2>2 DEF Ordered, Kept, d
  <1>5. CASE m.op = "delete"
    <2>1. d = [y \in DOMAIN c \ {m.chain} |-> c[y]]
      BY <1>1, <1>5, ExecDelete
    <2>2. m.chain \in F /\ m.chain # "hooks"
      BY <1>5 DEF Steps
    <2> HIDE DEF d
    <2>3. QED
      BY <1>1, <2>1, <2>2 DEF Ordered, Kept, d
  <1>6. CASE m.op = "append"
    <2>1. d = [c EXCEPT ![m.chain] = @ \union m.to] /\ m.chain \in DOMAIN c
      BY <1>1, <1>6, ExecAppend
    <2>2. /\ m.chain \in Ours /\ "MINE" \notin m.to
          /\ m.chain = "hooks" \/ \A y \in m.to : Later(m.chain, y)
      BY <1>6 DEF Steps
    <2> HIDE DEF d
    <2>3. /\ DOMAIN d = DOMAIN c /\ d = [x \in DOMAIN d |-> d[x]]
          /\ \A x \in DOMAIN c : d[x] = IF x = m.chain THEN c[x] \union m.to ELSE c[x]
      BY <1>1, <2>1
    <2>4. \A x \in DOMAIN d : \A y \in d[x] : x = "hooks" \/ y = "MINE" \/ Later(x, y)
      BY <2>2, <2>3 DEF Ordered
    <2>5. \A x \in DOMAIN d \intersect (Ours \union {"MINE"}) : "MINE" \notin d[x]
      BY <2>2, <2>3 DEF Ordered
    <2>6. Ordered(d)
      BY <1>1, <2>3, <2>4, <2>5 DEF Ordered
    <2>7. Kept(F, c, d)
      BY <2>3 DEF Kept
    <2>8. QED
      BY <2>6, <2>7 DEF d
  <1>7. QED
    BY <1>2, <1>3, <1>4, <1>5, <1>6

LEMMA AfterOrdered ==
    ASSUME NEW F, NEW cmds \in Seq(Steps(F)), NEW c, Ordered(c), After(c, cmds) # Refused
    PROVE  Ordered(After(c, cmds)) /\ Kept(F, c, After(c, cmds))
  <1>1. Len(cmds) \in Nat /\ \A n \in 1..Len(cmds) : cmds[n] \in Steps(F)
    OBVIOUS
  <1>2. PICK f : /\ f[0] = c /\ After(c, cmds) = f[Len(cmds)]
                 /\ \A n \in 1..Len(cmds) : f[n] = Exec(f[n - 1], cmds[n])
    BY <1>1, AfterRun
  <1> DEFINE Fine(d) == d # Refused => Ordered(d) /\ Kept(F, c, d)
             S == {n \in Nat : n <= Len(cmds) => Fine(f[n])}
  <1>3. 0 \in S
    BY <1>2 DEF Kept
  <1>4. ASSUME NEW n \in Nat, n \in S PROVE n + 1 \in S
    <2>1. SUFFICES ASSUME n + 1 <= Len(cmds) PROVE Fine(f[n + 1])
      OBVIOUS
    <2>2. n + 1 \in 1..Len(cmds) /\ (n + 1) - 1 = n /\ Fine(f[n])
      BY <1>1, <1>4, <2>1
    <2>3. f[n + 1] = Exec(f[n], cmds[n + 1]) /\ cmds[n + 1] \in Steps(F)
      BY <1>1, <1>2, <2>2
    <2>4. CASE f[n] = Refused
      BY <2>3, <2>4, ExecRefused
    <2>5. CASE f[n] # Refused /\ f[n + 1] # Refused
      <3>1. Ordered(f[n]) /\ Kept(F, c, f[n])
        BY <2>2, <2>5
      <3>2. Ordered(f[n + 1]) /\ Kept(F, f[n], f[n + 1])
        BY <2>3, <2>5, <3>1, ExecOrdered
      <3>3. Kept(F, c, f[n + 1])
        BY <3>1, <3>2 DEF Kept
      <3>4. QED
        BY <3>2, <3>3
    <2>6. QED
      BY <2>4, <2>5
  <1>5. Nat \subseteq S
    <2> HIDE DEF S
    <2>1. QED
      BY <1>3, <1>4, NatSets
  <1>6. Fine(f[Len(cmds)])
    BY <1>1, <1>5
  <1>7. QED
    BY <1>2, <1>6

-----------------------------------------------------------------------------
(* The commands of a load.                                                  *)

LEMMA NamesOfOwn ==
    /\ ToSet(OwnChains) = {"ANTISPOOF", "BLOCKLIST", "BLOCK", "NEWACCEPT", "NEWQUEUE", "ESTRELNFQUEUE",
                           "NEWNFQUEUE", "SYNLIMIT", "UDPLIMIT", "TCPRESET"}
    /\ ToSet(ShapeChains) = {"SHAPEIN", "SHAPEOUT", "SHAPEFW"}
  BY DEF ToSet, OwnChains, ShapeChains

LEMMA LaterOnes ==
    /\ Later("BLOCKLIST", "BLOCK") /\ Later("ESTRELNFQUEUE", "NEWNFQUEUE")
    /\ \A x \in {"NEWACCEPT", "NEWQUEUE", "NEWNFQUEUE"} : Later(x, "SYNLIMIT") /\ Later(x, "UDPLIMIT")
  <1>1. DOMAIN OwnChains = 1..10
    BY DEF OwnChains
  <1>2. /\ OwnChains[2] = "BLOCKLIST" /\ OwnChains[3] = "BLOCK" /\ OwnChains[4] = "NEWACCEPT"
        /\ OwnChains[5] = "NEWQUEUE" /\ OwnChains[6] = "ESTRELNFQUEUE" /\ OwnChains[7] = "NEWNFQUEUE"
        /\ OwnChains[8] = "SYNLIMIT" /\ OwnChains[9] = "UDPLIMIT"
    BY DEF OwnChains
  <1>3. Later(OwnChains[2], OwnChains[3]) /\ Later(OwnChains[6], OwnChains[7])
    BY <1>1 DEF Later
  <1>4. \A i \in {4, 5, 7} : \A j \in {8, 9} : Later(OwnChains[i], OwnChains[j])
    BY <1>1 DEF Later
  <1>5. QED
    BY <1>2, <1>3, <1>4

\* what a configuration names
LEMMA NamesOfConfig ==
    ASSUME NEW c \in Configs, NEW f
    PROVE  /\ IsFiniteSet(c.custom) /\ "MINE" \notin c.custom
           /\ IsFiniteSet(AccChains(f, c)) /\ AccChains(f, c) \subseteq Accs
           /\ Accs \intersect ({"hooks", "MINE", "PRE-VRMR"} \union ToSet(OwnChains)) = {}
           /\ ~Clashes(c) => c.custom \intersect ({"hooks", "PRE-VRMR"} \union ToSet(OwnChains) \union AccChains(f, c)) = {}
  <1>0. Accs \intersect ({"hooks", "MINE", "PRE-VRMR"} \union ToSet(OwnChains)) = {}
    BY NamesAssumption DEF Accs
  <1>1. IsFiniteSet(c.custom) /\ "MINE" \notin c.custom
    BY NamesAssumption
  <1>6. ~Clashes(c) => c.custom \intersect ({"hooks", "PRE-VRMR"} \union ToSet(OwnChains) \union AccChains(f, c)) = {}
    <2>1. AccChains(f, c) \subseteq AccChains(4, c)
      BY DEF AccChains, CountedBy
    <2>2. QED
      BY <2>1 DEF Clashes
  <1>2. CountedBy(f, c) \subseteq ToSet(Devices)
    BY TypeOfConfig DEF CountedBy
  <1>3. AccChains(f, c) \subseteq Accs
    BY <1>2 DEF AccChains, Accs
  <1>4. IsFiniteSet(Accs)
    <2>1. Len(Devices) \in Nat /\ ToSet(Devices) = {Devices[i] : i \in 1..Len(Devices)}
      BY RulesetAssumption DEF ToSet
    <2> DEFINE g == [i \in 1..Len(Devices) |-> Acc(Devices[i])]
    <2>2. g \in Surjection(1..Len(Devices), Accs)
      BY <2>1 DEF Surjection, Accs
    <2>3. IsFiniteSet(1..Len(Devices))
      BY <2>1, FS_Interval
    <2>4. QED
      BY <2>2, <2>3, FS_Surjection
  <1>5. QED
    BY <1>0, <1>1, <1>3, <1>4, <1>6, FS_Subset

\* a finite set, one element after the other
LEMMA Listing ==
    ASSUME NEW S, IsFiniteSet(S)
    PROVE  SetToSeq(S) \in Seq(S) /\ IsInjective(SetToSeq(S)) /\ ToSet(SetToSeq(S)) = S
  <1>1. PICK N : N = Cardinality(S) /\ N \in Nat /\ ExistsBijection(1..N, S)
    BY FS_CardinalityType
  <1>2. PICK g : g \in Bijection(1..N, S)
    BY <1>1 DEF ExistsBijection
  <1>3. g \in [1..N -> S] /\ IsInjective(g)
    BY <1>2 DEF Bijection, Injection, IsInjective
  <1> DEFINE s == SetToSeq(S)
  <1>4. s \in [1..N -> S] /\ IsInjective(s)
    <2>1. s = CHOOSE h \in [1..N -> S] : IsInjective(h)
      BY <1>1 DEF SetToSeq
    <2> HIDE DEF s
    <2>2. QED
      BY <1>3, <2>1
  <1> HIDE DEF s
  <1>5. s \in Seq(S)
    BY <1>1, <1>4
  <1>6. IsFiniteSet(1..N) /\ Cardinality(1..N) = Cardinality(S)
    BY <1>1, FS_Interval
  <1>7. s \in Injection(1..N, S)
    BY <1>4 DEF Injection
  <1>8. s \in Surjection(1..N, S)
    BY <1>1, <1>6, <1>7, FS_Injection
  <1>9. ToSet(s) = S
    BY <1>4, <1>8 DEF Surjection, ToSet
  <1>10. QED
    BY <1>4, <1>5, <1>9 DEF s

LEMMA RemakeSteps ==
    ASSUME NEW F, NEW x \in F \intersect Named, x # "hooks", NEW there
    PROVE  Remake(x, there) \in Seq(Steps(F))
  <1>1. Cmd("flush", x) \in Steps(F) /\ Cmd("delete", x) \in Steps(F) /\ Cmd("new", x) \in Steps(F)
    BY DEF Cmd, Steps
  <1>2. << Cmd("flush", x), Cmd("delete", x) >> \in Seq(Steps(F)) /\ << >> \in Seq(Steps(F))
    BY <1>1
  <1>3. Create(x) \in Seq(Steps(F))
    BY <1>1 DEF Create
  <1>4. QED
    BY <1>2, <1>3 DEF Remake

LEMMA KeepSteps ==
    ASSUME NEW F, NEW x \in Named, NEW there
    PROVE  Keep(x, there) \in Seq(Steps(F))
  <1>1. Cmd("new", x) \in Steps(F)
    BY DEF Cmd, Steps
  <1>2. QED
    BY <1>1 DEF Keep, Create

\* what is made anew before x is empty
Free(c, x) == \A y \in DOMAIN c : Later(y, x) => c[y] = {}
Anew(c, x) == [y \in DOMAIN c \union {x} |-> IF y = x THEN {} ELSE c[y]]

\* a chain that no other jumps to can be removed
LEMMA RemakeOne ==
    ASSUME NEW c, Ordered(c), c["hooks"] = {}, NEW x, x \notin {"hooks", "MINE"}, NEW there,
           x \in there <=> x \in DOMAIN c, Free(c, x)
    PROVE  After(c, Remake(x, there)) = Anew(c, x)
  <1> DEFINE a == Cmd("flush", x)
             b == Cmd("delete", x)
             n == Cmd("new", x)
             X == {a, b, n}
             e == [y \in DOMAIN c \ {x} |-> c[y]]
  <1>1. c # Refused /\ c = [y \in DOMAIN c |-> c[y]] /\ "hooks" \in DOMAIN c
    BY NotRefused DEF Ordered
  <1>2. /\ a.op = "flush" /\ a.chain = x /\ b.op = "delete" /\ b.chain = x
        /\ n.op = "new" /\ n.chain = x
    BY DEF Cmd
  <1>3. ASSUME NEW d, d # Refused, DOMAIN d = DOMAIN c \ {x}, \A y \in DOMAIN d : d[y] = c[y]
        PROVE  Exec(d, n) = Anew(c, x)
    <2>1. Exec(d, n) = [y \in DOMAIN d \union {x} |-> IF y = x THEN {} ELSE d[y]]
      BY <1>2, <1>3, ExecNew
    <2>2. DOMAIN d \union {x} = DOMAIN c \union {x}
      BY <1>3
    <2>3. QED
      BY <1>3, <2>1, <2>2 DEF Anew
  <1>4. CASE x \notin there
    <2>1. Remake(x, there) = << n >>
      BY <1>4 DEF Remake, Create
    <2>2. After(c, Remake(x, there)) = Exec(c, n)
      BY <2>1, AfterOne
    <2>3. DOMAIN c = DOMAIN c \ {x}
      BY <1>4
    <2>4. QED
      BY <1>1, <1>3, <2>2, <2>3
  <1>5. CASE x \in there
    <2> DEFINE sa == << a >>
               sb == << b >>
               sn == << n >>
               ab == << a, b >>
    <2>1. Remake(x, there) = ab \o sn /\ ab = sa \o sb
      BY <1>5 DEF Remake, Create
    <2>2. sa \in Seq(X) /\ sb \in Seq(X) /\ sn \in Seq(X) /\ ab \in Seq(X)
      OBVIOUS
    <2> HIDE DEF a, b, n, X, sa, sb, sn, ab
    <2>3. After(c, ab \o sn) = After(After(c, ab), sn)
      BY <2>2, AfterBoth
    <2>4. After(c, sa \o sb) = After(After(c, sa), sb)
      BY <2>2, AfterBoth
    <2> DEFINE d == Exec(c, a)
    <2>5. After(c, sa) = d /\ After(d, sb) = Exec(d, b)
      BY AfterOne DEF sa, sb
    <2>6. After(c, Remake(x, there)) = Exec(Exec(d, b), n)
      BY <2>1, <2>3, <2>4, <2>5, AfterOne DEF sn
    <2>7. d = [c EXCEPT ![x] = {}]
      BY <1>1, <1>2, <1>5, ExecFlush
    <2>8. /\ DOMAIN d = DOMAIN c /\ d # Refused
          /\ \A y \in DOMAIN c : d[y] = IF y = x THEN {} ELSE c[y]
      <3> HIDE DEF d
      <3>1. DOMAIN d = DOMAIN c
        BY <1>1, <2>7
      <3>2. d # Refused
        BY <1>1, <3>1, NotRefused
      <3>3. QED
        BY <1>1, <2>7, <3>1, <3>2
    <2> HIDE DEF d
    <2>9. ~ \E y \in DOMAIN d : x \in d[y]
      <3>1. SUFFICES ASSUME NEW y \in DOMAIN c, y # x, x \in c[y] PROVE FALSE
        BY <2>8
      <3>2. y = "hooks" \/ x = "MINE" \/ Later(y, x)
        BY <3>1 DEF Ordered
      <3>3. c[y] = {}
        BY <3>1, <3>2 DEF Free
      <3>4. QED
        BY <3>1, <3>3
    <2>10. Exec(d, b) = [y \in DOMAIN d \ {x} |-> d[y]]
      BY <1>2, <1>5, <2>8, <2>9, ExecDelete
    <2>11. /\ DOMAIN Exec(d, b) = DOMAIN c \ {x}
           /\ \A y \in DOMAIN c \ {x} : Exec(d, b)[y] = c[y]
      BY <2>8, <2>10
    <2>12. Exec(d, b) # Refused
      BY <1>1, <2>11, NotRefused
    <2>13. QED
      BY <1>3, <2>6, <2>11, <2>12
  <1>6. QED
    BY <1>4, <1>5

\* d is c with the chains E as well, and with the same jumps from the hooks
Ran(c, d, E) == Ordered(d) /\ d["hooks"] = c["hooks"] /\ DOMAIN d = DOMAIN c \union E

\* Chains are made anew one after the other, each after those that jump to it.
LEMMA RemakeRun ==
    ASSUME NEW F, NEW s \in Seq((F \intersect Named) \ {"hooks", "MINE"}), IsInjective(s), NEW there,
           NEW c, Ordered(c), c["hooks"] = {},
           \A x \in ToSet(s) : x \in there <=> x \in DOMAIN c,
           \A i \in 1..Len(s) : \A y : Later(y, s[i]) => \E j \in 1..Len(s) : j < i /\ s[j] = y
    PROVE  /\ EachOf(s, Remake, there) \in Seq(Steps(F))
           /\ Ran(c, After(c, EachOf(s, Remake, there)), ToSet(s))
  <1> DEFINE N == Len(s)
             Upto(n) == {s[i] : i \in 1..n}
  <1>1. /\ N \in Nat /\ ToSet(s) = Upto(N)
        /\ \A i \in 1..N : s[i] \in F \intersect Named /\ s[i] \notin {"hooks", "MINE"} /\ s[i] \in ToSet(s)
        /\ \A i, j \in 1..N : s[i] = s[j] => i = j
    BY DEF ToSet, IsInjective
  <1>2. PICK f : /\ f[0] = << >> /\ EachOf(s, Remake, there) = f[N]
                 /\ \A n \in 1..N : f[n] = f[n - 1] \o Remake(s[n], there)
    BY RemakeEach
  <1> HIDE DEF N
  <1> DEFINE Fine(n, d) == /\ Ran(c, d, Upto(n))
                           /\ \A i \in 1..n : d[s[i]] = {}
             S == {n \in Nat : n <= N => f[n] \in Seq(Steps(F)) /\ Fine(n, After(c, f[n]))}
  <1>3. 0 \in S
    <2>1. After(c, f[0]) = c
      BY <1>2, AfterEmpty
    <2>2. Fine(0, c)
      <3>1. Upto(0) = {}
        OBVIOUS
      <3>2. Ran(c, c, Upto(0))
        BY <3>1 DEF Ran
      <3>3. QED
        BY <3>2
    <2>3. f[0] \in Seq(Steps(F))
      BY <1>2
    <2>4. QED
      BY <2>1, <2>2, <2>3
  <1>4. ASSUME NEW n \in Nat, n \in S PROVE n + 1 \in S
    <2>1. SUFFICES ASSUME n + 1 <= N
                   PROVE  f[n + 1] \in Seq(Steps(F)) /\ Fine(n + 1, After(c, f[n + 1]))
      OBVIOUS
    <2> DEFINE x == s[n + 1]
               d == After(c, f[n])
               e == After(d, Remake(x, there))
    <2>2. n + 1 \in 1..N /\ (n + 1) - 1 = n /\ n <= N /\ \A i \in 1..n : i \in 1..N /\ i # n + 1
      BY <1>1, <2>1
    <2>3. f[n] \in Seq(Steps(F)) /\ Fine(n, d)
      BY <1>4, <2>2
    <2>4. f[n + 1] = f[n] \o Remake(x, there)
      BY <1>2, <2>2
    <2>5. Remake(x, there) \in Seq(Steps(F))
      BY <1>1, <2>2, RemakeSteps
    <2>6. f[n + 1] \in Seq(Steps(F)) /\ After(c, f[n + 1]) = e
      <3>1. After(c, f[n] \o Remake(x, there)) = e
        BY <2>3, <2>5, AfterBoth
      <3>2. QED
        BY <2>3, <2>4, <2>5, <3>1
    <2>7. x \in there <=> x \in DOMAIN d
      <3>1. x \notin Upto(n)
        BY <1>1, <2>2
      <3>2. x \in there <=> x \in DOMAIN c
        BY <1>1, <2>2
      <3>3. QED
        BY <2>3, <3>1, <3>2 DEF Ran
    <2>8. Free(d, x)
      <3>1. SUFFICES ASSUME NEW y, Later(y, x) PROVE d[y] = {}
        BY DEF Free
      <3>2. PICK j \in 1..N : j < n + 1 /\ s[j] = y
        BY <2>2, <3>1 DEF N
      <3>3. j \in 1..n
        BY <1>1, <3>2
      <3>4. QED
        BY <2>3, <3>2, <3>3
    <2> HIDE DEF x, d
    <2>9. Ordered(d) /\ d["hooks"] = {} /\ x \notin {"hooks", "MINE"}
      BY <1>1, <2>2, <2>3 DEF x, Ran
    <2>10. e = [y \in DOMAIN d \union {x} |-> IF y = x THEN {} ELSE d[y]]
      <3>1. After(d, Remake(x, there)) = Anew(d, x)
        BY <2>7, <2>8, <2>9, RemakeOne
      <3>2. QED
        BY <3>1 DEF Anew
    <2>11. Ordered(e)
      <3>1. "hooks" \in DOMAIN e
        BY <2>9, <2>10 DEF Ordered
      <3>2. QED
        BY <2>5, <2>9, <3>1, NotRefused, AfterOrdered
    <2>12. Ran(c, e, Upto(n + 1))
      <3>1. Upto(n + 1) = Upto(n) \union {x}
        BY <2>2 DEF x
      <3>2. "hooks" \in DOMAIN d
        BY <2>9 DEF Ordered
      <3> HIDE DEF e, Upto
      <3>3. QED
        BY <2>3, <2>9, <2>10, <2>11, <3>1, <3>2 DEF Ran
    <2>13. \A i \in 1..(n + 1) : e[s[i]] = {}
      <3>1. SUFFICES ASSUME NEW i \in 1..(n + 1) PROVE e[s[i]] = {}
        OBVIOUS
      <3>2. CASE i = n + 1
        BY <2>10, <3>2 DEF x
      <3>3. CASE i \in 1..n
        <4>1. s[i] \in DOMAIN d /\ d[s[i]] = {}
          BY <2>3, <3>3 DEF Ran
        <4>2. QED
          BY <2>10, <4>1
      <3>4. QED
        BY <3>2, <3>3
    <2>14. QED
      BY <2>6, <2>12, <2>13
  <1>5. Nat \subseteq S
    <2> HIDE DEF S
    <2>1. QED
      BY <1>3, <1>4, NatSets
  <1>6. f[N] \in Seq(Steps(F)) /\ Ran(c, After(c, f[N]), Upto(N))
    <2>1. N \in S
      <3> HIDE DEF S
      <3>1. QED
        BY <1>1, <1>5
    <2>2. QED
      BY <1>1, <2>1
  <1>7. QED
    BY <1>1, <1>2, <1>6

\* d is c with the chain x as well
Grown(c, d, x) == /\ "hooks" \in DOMAIN d /\ DOMAIN d = DOMAIN c \union {x}
                  /\ \A y \in DOMAIN c : d[y] = c[y]

LEMMA KeepOne ==
    ASSUME NEW c, Ordered(c), NEW x, NEW there, x \in there <=> x \in DOMAIN c
    PROVE  Grown(c, After(c, Keep(x, there)), x)
  <1> DEFINE n == Cmd("new", x)
             d == After(c, Keep(x, there))
  <1>1. c # Refused /\ c = [y \in DOMAIN c |-> c[y]] /\ "hooks" \in DOMAIN c
    BY NotRefused DEF Ordered
  <1>2. CASE x \in there
    <2>1. d = c
      BY <1>2, AfterEmpty DEF Keep
    <2>2. QED
      BY <1>1, <1>2, <2>1 DEF Grown
  <1>3. CASE x \notin there
    <2>1. Keep(x, there) = << n >>
      BY <1>3 DEF Keep, Create
    <2>2. n.op = "new" /\ n.chain = x
      BY DEF Cmd
    <2>3. Exec(c, n) = [y \in DOMAIN c \union {x} |-> IF y = x THEN {} ELSE c[y]]
      BY <1>1, <1>3, <2>2, ExecNew
    <2>4. d = [y \in DOMAIN c \union {x} |-> IF y = x THEN {} ELSE c[y]]
      BY <2>1, <2>3, AfterOne
    <2> HIDE DEF d
    <2>5. QED
      BY <1>1, <1>3, <2>4 DEF d, Grown
  <1>4. QED
    BY <1>2, <1>3

\* Chains that are not there are made.
LEMMA KeepRun ==
    ASSUME NEW F, NEW s \in Seq(Named), IsInjective(s), NEW there, NEW c, Ordered(c),
           \A x \in ToSet(s) : x \in there <=> x \in DOMAIN c
    PROVE  /\ EachOf(s, Keep, there) \in Seq(Steps(F))
           /\ Ran(c, After(c, EachOf(s, Keep, there)), ToSet(s))
  <1> DEFINE N == Len(s)
             Upto(n) == {s[i] : i \in 1..n}
  <1>1. /\ N \in Nat /\ ToSet(s) = Upto(N)
        /\ \A i \in 1..N : s[i] \in Named /\ s[i] \in ToSet(s)
        /\ \A i, j \in 1..N : s[i] = s[j] => i = j
    BY DEF ToSet, IsInjective
  <1>2. PICK f : /\ f[0] = << >> /\ EachOf(s, Keep, there) = f[N]
                 /\ \A n \in 1..N : f[n] = f[n - 1] \o Keep(s[n], there)
    BY KeepEach
  <1> HIDE DEF N
  <1> DEFINE S == {n \in Nat : n <= N => f[n] \in Seq(Steps(F)) /\ Ran(c, After(c, f[n]), Upto(n))}
  <1>3. 0 \in S
    <2>1. After(c, f[0]) = c
      BY <1>2, AfterEmpty
    <2>2. Upto(0) = {}
      OBVIOUS
    <2>3. Ran(c, c, Upto(0))
      BY <2>2 DEF Ran
    <2>4. f[0] \in Seq(Steps(F))
      BY <1>2
    <2>5. QED
      BY <2>1, <2>3, <2>4
  <1>4. ASSUME NEW n \in Nat, n \in S PROVE n + 1 \in S
    <2>1. SUFFICES ASSUME n + 1 <= N
                   PROVE  f[n + 1] \in Seq(Steps(F)) /\ Ran(c, After(c, f[n + 1]), Upto(n + 1))
      OBVIOUS
    <2> DEFINE x == s[n + 1]
               d == After(c, f[n])
               e == After(d, Keep(x, there))
    <2>2. n + 1 \in 1..N /\ (n + 1) - 1 = n /\ n <= N /\ \A i \in 1..n : i \in 1..N /\ i # n + 1
      BY <1>1, <2>1
    <2>3. f[n] \in Seq(Steps(F)) /\ Ran(c, d, Upto(n))
      BY <1>4, <2>2
    <2>4. f[n + 1] = f[n] \o Keep(x, there)
      BY <1>2, <2>2
    <2>5. Keep(x, there) \in Seq(Steps(F))
      BY <1>1, <2>2, KeepSteps
    <2>6. f[n + 1] \in Seq(Steps(F)) /\ After(c, f[n + 1]) = e
      <3>1. After(c, f[n] \o Keep(x, there)) = e
        BY <2>3, <2>5, AfterBoth
      <3>2. QED
        BY <2>3, <2>4, <2>5, <3>1
    <2>7. x \in there <=> x \in DOMAIN d
      <3>1. x \notin Upto(n)
        BY <1>1, <2>2
      <3>2. x \in there <=> x \in DOMAIN c
        BY <1>1, <2>2
      <3>3. QED
        BY <2>3, <3>1, <3>2 DEF Ran
    <2> HIDE DEF x, d
    <2>8. Ordered(d) /\ "hooks" \in DOMAIN d /\ d["hooks"] = c["hooks"] /\ DOMAIN d = DOMAIN c \union Upto(n)
      BY <2>3 DEF Ran, Ordered
    <2>9. "hooks" \in DOMAIN e /\ DOMAIN e = DOMAIN d \union {x} /\ \A y \in DOMAIN d : e[y] = d[y]
      <3>1. Grown(d, e, x)
        BY <2>7, <2>8, KeepOne
      <3>2. QED
        BY <3>1 DEF Grown
    <2>10. Ordered(e)
      BY <2>5, <2>8, <2>9, NotRefused, AfterOrdered
    <2>11. Upto(n + 1) = Upto(n) \union {x}
      BY <2>2 DEF x
    <2>12. Ran(c, e, Upto(n + 1))
      <3> HIDE DEF e, Upto
      <3>1. QED
        BY <2>8, <2>9, <2>10, <2>11 DEF Ran
    <2>13. QED
      BY <2>6, <2>12
  <1>5. Nat \subseteq S
    <2> HIDE DEF S
    <2>1. QED
      BY <1>3, <1>4, NatSets
  <1>6. f[N] \in Seq(Steps(F)) /\ Ran(c, After(c, f[N]), Upto(N))
    <2>1. N \in S
      <3> HIDE DEF S
      <3>1. QED
        BY <1>1, <1>5
    <2>2. QED
      BY <1>1, <2>1
  <1>7. QED
    BY <1>1, <1>2, <1>6

\* a rule with chains that are all there
Fits(m, D) == m.op = "append" /\ m.chain \in D /\ m.to \subseteq D \ {"hooks"}

LEMMA AppendRun ==
    ASSUME NEW X, NEW cmds \in Seq(X), NEW c, "hooks" \in DOMAIN c,
           \A n \in 1..Len(cmds) : Fits(cmds[n], DOMAIN c)
    PROVE  After(c, cmds) # Refused
  <1>1. Len(cmds) \in Nat
    OBVIOUS
  <1>2. PICK f : /\ f[0] = c /\ After(c, cmds) = f[Len(cmds)]
                 /\ \A n \in 1..Len(cmds) : f[n] = Exec(f[n - 1], cmds[n])
    <2> DEFINE Made(q) == \E f : /\ f[0] = c /\ After(c, q) = f[Len(q)]
                                /\ \A n \in 1..Len(q) : f[n] = Exec(f[n - 1], q[n])
    <2>1. \A q : Len(q) \in Nat => Made(q)
      BY AfterRun
    <2>2. Made(cmds)
      <3> HIDE DEF Made
      <3>1. QED
        BY <1>1, <2>1
    <2>3. QED
      BY <2>2
  <1> DEFINE S == {n \in Nat : n <= Len(cmds) => DOMAIN f[n] = DOMAIN c}
  <1>3. 0 \in S
    BY <1>2
  <1>4. ASSUME NEW n \in Nat, n \in S PROVE n + 1 \in S
    <2>1. SUFFICES ASSUME n + 1 <= Len(cmds) PROVE DOMAIN f[n + 1] = DOMAIN c
      OBVIOUS
    <2>2. n + 1 \in 1..Len(cmds) /\ (n + 1) - 1 = n /\ DOMAIN f[n] = DOMAIN c
      BY <1>1, <1>4, <2>1
    <2>3. f[n + 1] = Exec(f[n], cmds[n + 1]) /\ Fits(cmds[n + 1], DOMAIN c)
      BY <1>2, <2>2
    <2>4. f[n] # Refused
      BY <2>2, NotRefused
    <2> DEFINE m == cmds[n + 1]
               d == f[n]
    <2>5. m.op = "append" /\ {m.chain} \union m.to \in SUBSET DOMAIN d /\ "hooks" \notin m.to
      BY <2>2, <2>3 DEF Fits
    <2> HIDE DEF m, d
    <2>6. Exec(d, m) = [d EXCEPT ![m.chain] = @ \union m.to]
      BY <2>4, <2>5, ExecAppend DEF d
    <2>7. QED
      BY <2>2, <2>3, <2>6 DEF m, d
  <1>5. Nat \subseteq S
    <2> HIDE DEF S
    <2>1. QED
      BY <1>3, <1>4, NatSets
  <1>6. DOMAIN f[Len(cmds)] = DOMAIN c
    BY <1>1, <1>5
  <1>7. QED
    BY <1>2, <1>6, NotRefused

\* the commands are for chains of F, and make d of c
Goes(F, c, cmds, d) == cmds \in Seq(Steps(F)) /\ After(c, cmds) = d

LEMMA GoesOn ==
    ASSUME NEW F, NEW c, NEW d, NEW e, NEW s, NEW t, Goes(F, c, s, d), Goes(F, d, t, e)
    PROVE  Goes(F, c, s \o t, e)
  <1>1. s \in Seq(Steps(F)) /\ t \in Seq(Steps(F)) /\ s \o t \in Seq(Steps(F))
    BY DEF Goes
  <1>2. After(c, s \o t) = After(After(c, s), t)
    BY <1>1, AfterBoth
  <1>3. QED
    BY <1>1, <1>2 DEF Goes

LEMMA FlushHooks ==
    ASSUME NEW F, "hooks" \in F, NEW c, Ordered(c)
    PROVE  \E d : /\ Goes(F, c, << Cmd("flush", "hooks") >>, d)
                  /\ Ordered(d) /\ d["hooks"] = {} /\ DOMAIN d = DOMAIN c
  <1> DEFINE m == Cmd("flush", "hooks")
             d == Exec(c, m)
  <1>1. m.op = "flush" /\ m.chain = "hooks" /\ m \in Steps(F)
    BY DEF Cmd, Steps, Named, OwnNames, Ours
  <1> HIDE DEF m
  <1>2. c # Refused /\ c = [y \in DOMAIN c |-> c[y]] /\ "hooks" \in DOMAIN c
    BY NotRefused DEF Ordered
  <1>3. d = [c EXCEPT !["hooks"] = {}]
    BY <1>1, <1>2, ExecFlush
  <1>4. DOMAIN d = DOMAIN c /\ d["hooks"] = {}
    BY <1>2, <1>3
  <1>5. Ordered(d)
    BY <1>1, <1>2, <1>4, NotRefused, ExecOrdered
  <1>6. << m >> \in Seq(Steps(F)) /\ After(c, << m >>) = d
    BY <1>1, AfterOne
  <1>7. QED
    BY <1>4, <1>5, <1>6 DEF m, Goes

LEMMA KeepPre ==
    ASSUME NEW F, NEW c, Ordered(c), NEW there, "PRE-VRMR" \in there <=> "PRE-VRMR" \in DOMAIN c
    PROVE  \E d : Goes(F, c, Keep("PRE-VRMR", there), d) /\ Ran(c, d, {"PRE-VRMR"})
  <1> DEFINE d == After(c, Keep("PRE-VRMR", there))
  <1>1. Keep("PRE-VRMR", there) \in Seq(Steps(F))
    BY KeepSteps DEF Named
  <1>2. Grown(c, d, "PRE-VRMR")
    BY KeepOne
  <1>3. "hooks" \in DOMAIN c
    BY DEF Ordered
  <1>4. Ordered(d)
    BY <1>1, <1>2, NotRefused, AfterOrdered DEF Grown
  <1> HIDE DEF d
  <1>5. Ran(c, d, {"PRE-VRMR"})
    BY <1>2, <1>3, <1>4 DEF Ran, Grown
  <1>6. QED
    BY <1>1, <1>5 DEF Goes, d

LEMMA OwnInjective == OwnChains \in Seq(ToSet(OwnChains)) /\ IsInjective(OwnChains)
  <1>1. DOMAIN OwnChains = 1..10 /\ Len(OwnChains) = 10
    BY DEF OwnChains
  <1>2. OwnChains \in Seq(ToSet(OwnChains))
    BY NamesOfOwn DEF OwnChains
  <1>3. ASSUME NEW i \in 1..10, NEW j \in 1..10, OwnChains[i] = OwnChains[j] PROVE i = j
    BY <1>3 DEF OwnChains
  <1>4. QED
    BY <1>1, <1>2, <1>3 DEF IsInjective

LEMMA ShapeInjective == ShapeChains \in Seq(ToSet(ShapeChains)) /\ IsInjective(ShapeChains)
  <1>1. DOMAIN ShapeChains = 1..3 /\ Len(ShapeChains) = 3
    BY DEF ShapeChains
  <1>2. ShapeChains \in Seq(ToSet(ShapeChains))
    BY NamesOfOwn DEF ShapeChains
  <1>3. ASSUME NEW i \in 1..3, NEW j \in 1..3, ShapeChains[i] = ShapeChains[j] PROVE i = j
    BY <1>3 DEF ShapeChains
  <1>4. QED
    BY <1>1, <1>2, <1>3 DEF IsInjective

\* Vuurmuur's own chains are in an order in which they can be made anew.
LEMMA RemakeOwn ==
    ASSUME NEW c, Ordered(c), c["hooks"] = {}, NEW there,
           \A x \in ToSet(OwnChains) : x \in there <=> x \in DOMAIN c
    PROVE  \E d : Goes(Ours, c, EachOf(OwnChains, Remake, there), d) /\ Ran(c, d, ToSet(OwnChains))
  <1>1. OwnChains \in Seq((Ours \intersect Named) \ {"hooks", "MINE"})
    <2>1. ToSet(OwnChains) \subseteq (Ours \intersect Named) \ {"hooks", "MINE"}
      BY NamesOfOwn DEF Named, OwnNames, Ours
    <2>2. QED
      BY <2>1, OwnInjective
  <1>2. ASSUME NEW i \in 1..Len(OwnChains), NEW y, Later(y, OwnChains[i])
        PROVE  \E j \in 1..Len(OwnChains) : j < i /\ OwnChains[j] = y
    <2>1. DOMAIN OwnChains = 1..Len(OwnChains)
      BY OwnInjective
    <2>2. PICK k, l \in DOMAIN OwnChains : k < l /\ OwnChains[k] = y /\ OwnChains[l] = OwnChains[i]
      BY <1>2 DEF Later
    <2>3. l = i
      BY <2>1, <2>2, OwnInjective DEF IsInjective
    <2>4. QED
      BY <2>1, <2>2, <2>3
  <1>3. /\ EachOf(OwnChains, Remake, there) \in Seq(Steps(Ours))
        /\ Ran(c, After(c, EachOf(OwnChains, Remake, there)), ToSet(OwnChains))
    BY <1>1, <1>2, OwnInjective, RemakeRun
  <1>4. QED
    BY <1>3 DEF Goes

\* chains that only the hooks jump to
LEMMA RemakeOthers ==
    ASSUME NEW F, NEW s, NEW E \in SUBSET ((F \intersect Named) \ {"hooks", "MINE"}),
           s \in Seq(E), IsInjective(s), ToSet(s) = E, E \intersect ToSet(OwnChains) = {},
           NEW c, Ordered(c), c["hooks"] = {}, NEW there, \A x \in E : x \in there <=> x \in DOMAIN c
    PROVE  \E d : Goes(F, c, EachOf(s, Remake, there), d) /\ Ran(c, d, E)
  <1>1. s \in Seq((F \intersect Named) \ {"hooks", "MINE"})
    OBVIOUS
  <1>2. ASSUME NEW i \in 1..Len(s), NEW y, Later(y, s[i])
        PROVE  \E j \in 1..Len(s) : j < i /\ s[j] = y
    <2>1. s[i] \in E
      OBVIOUS
    <2>2. s[i] \in ToSet(OwnChains)
      BY <1>2 DEF Later, ToSet
    <2>3. QED
      BY <2>1, <2>2
  <1>3. /\ EachOf(s, Remake, there) \in Seq(Steps(F))
        /\ Ran(c, After(c, EachOf(s, Remake, there)), ToSet(s))
    BY <1>1, <1>2, RemakeRun
  <1>4. QED
    BY <1>3 DEF Goes

\* the chains of a table filter that has been loaded
ChainsOfFilter(f, c) == {"hooks", "PRE-VRMR"} \union c.custom \union ToSet(OwnChains) \union AccChains(f, c)

LEMMA JumpsFit ==
    ASSUME NEW c \in Configs, NEW f
    PROVE  /\ FilterJumps(f, c) \in Seq(Steps(Ours))
           /\ ~Clashes(c) =>
                 \A n \in 1..Len(FilterJumps(f, c)) : Fits(FilterJumps(f, c)[n], ChainsOfFilter(f, c))
  <1> DEFINE D == ChainsOfFilter(f, c)
             Good(m) == m \in Steps(Ours) /\ (~Clashes(c) => Fits(m, D))
             But(x, to) == {y \in to : <<x, y>> \notin c.lost[f]}
             up2 == {"SYNLIMIT", "UDPLIMIT"}
             top == {"PRE-VRMR", "NEWACCEPT", "NEWQUEUE", "TCPRESET"} \union c.custom
                    \union (IF f = 4 THEN {"BLOCKLIST", "ANTISPOOF"} ELSE {})
                    \union AccChains(f, c)
                    \union (IF c.nfqueue THEN {"NEWNFQUEUE", "ESTRELNFQUEUE"} ELSE {})
             block == IF f = 4 THEN {"BLOCK"} ELSE {}
             queue == IF c.nfqueue THEN {"NEWNFQUEUE"} ELSE {}
  <1>1. /\ "MINE" \notin D /\ D \subseteq Named
        /\ ToSet(OwnChains) \subseteq D \intersect Ours /\ "hooks" \in D \intersect Ours
    BY NamesOfConfig, NamesOfOwn DEF ChainsOfFilter, Named, OwnNames, Ours
  <1>2. /\ top \subseteq D /\ up2 \subseteq D /\ block \subseteq D /\ queue \subseteq D
        /\ "hooks" \notin up2 \union block \union queue
    BY NamesOfOwn DEF ChainsOfFilter
  <1>3. ~Clashes(c) => "hooks" \notin top
    <2>1. "hooks" \notin AccChains(f, c)
      BY NamesOfConfig
    <2>2. ~Clashes(c) => "hooks" \notin c.custom
      BY NamesOfConfig
    <2>3. QED
      BY <2>1, <2>2
  <1>4. ASSUME NEW x \in D \intersect Ours, NEW to \in SUBSET D, x = "hooks" \/ \A y \in to : Later(x, y),
               ~Clashes(c) => "hooks" \notin to
        PROVE  Good(Append2(x, to))
    BY <1>1, <1>4 DEF Append2, Steps, Fits
  <1> HIDE DEF top, up2, block, queue, D, Good
  <1>5. ASSUME NEW x, NEW to PROVE But(x, to) \subseteq to
    OBVIOUS
  <1> HIDE DEF But
  <1>6. Good(Append2("hooks", But("hooks", top)))
    BY <1>1, <1>2, <1>3, <1>4, <1>5
  <1>7. Good(Append2("BLOCKLIST", But("BLOCKLIST", block)))
    <2>1. \A y \in block : Later("BLOCKLIST", y)
      BY LaterOnes DEF block
    <2>2. "BLOCKLIST" \in D \intersect Ours
      BY <1>1, NamesOfOwn
    <2>3. QED
      BY <1>2, <1>4, <1>5, <2>1, <2>2
  <1>8. Good(Append2("NEWACCEPT", up2)) /\ Good(Append2("NEWQUEUE", up2))
    BY <1>1, <1>2, <1>4, NamesOfOwn, LaterOnes DEF up2
  <1>9. Good(Append2("NEWNFQUEUE", But("NEWNFQUEUE", up2)))
    <2>1. \A y \in up2 : Later("NEWNFQUEUE", y)
      BY LaterOnes DEF up2
    <2>2. "NEWNFQUEUE" \in D \intersect Ours
      BY <1>1, NamesOfOwn
    <2>3. QED
      BY <1>2, <1>4, <1>5, <2>1, <2>2
  <1>10. Good(Append2("ESTRELNFQUEUE", But("ESTRELNFQUEUE", queue)))
    <2>1. \A y \in queue : Later("ESTRELNFQUEUE", y)
      BY LaterOnes DEF queue
    <2>2. "ESTRELNFQUEUE" \in D \intersect Ours
      BY <1>1, NamesOfOwn
    <2>3. QED
      BY <1>2, <1>4, <1>5, <2>1, <2>2
  <1>11. FilterJumps(f, c) = << Append2("hooks", But("hooks", top)), Append2("BLOCKLIST", But("BLOCKLIST", block)),
                                Append2("NEWACCEPT", up2), Append2("NEWQUEUE", up2),
                                Append2("NEWNFQUEUE", But("NEWNFQUEUE", up2)),
                                Append2("ESTRELNFQUEUE", But("ESTRELNFQUEUE", queue)) >>
    BY DEF FilterJumps, Append2But, But, top, block, up2, queue
  <1>12. ASSUME NEW m1, NEW m2, NEW m3, NEW m4, NEW m5, NEW m6,
                Good(m1) /\ Good(m2) /\ Good(m3) /\ Good(m4) /\ Good(m5) /\ Good(m6)
         PROVE  /\ << m1, m2, m3, m4, m5, m6 >> \in Seq(Steps(Ours))
                /\ ~Clashes(c) => \A n \in 1..Len(<< m1, m2, m3, m4, m5, m6 >>) :
                                     Fits(<< m1, m2, m3, m4, m5, m6 >>[n], D)
    BY <1>12 DEF Good
  <1>13. QED
    BY <1>6, <1>7, <1>8, <1>9, <1>10, <1>11, <1>12 DEF D

\* the chains of a table are those that were listed
SameChains(c, there) == \A x : x # "hooks" => (x \in there <=> x \in DOMAIN c)

\* What is written for the table filter is not refused, if no rule names a chain
\* of Vuurmuur's.
LEMMA FilterRun ==
    ASSUME NEW f, NEW c \in Configs, ~Clashes(c), NEW there, NEW k, Ordered(k), SameChains(k, there.filter)
    PROVE  Commands(f, "filter", c, there) \in Seq(Steps(Ours)) /\ After(k, Commands(f, "filter", c, there)) # Refused
  <1> DEFINE here == there.filter
             accs == AccChains(f, c)
             p0 == << Cmd("flush", "hooks") >>
             p1 == Keep("PRE-VRMR", here)
             p2 == EachOf(SetToSeq(c.custom), Keep, here)
             p3 == EachOf(OwnChains, Remake, here)
             p4 == EachOf(SetToSeq(accs), Remake, here)
             p5 == FilterJumps(f, c)
  <1>1. Commands(f, "filter", c, there) = ((((p0 \o p1) \o p2) \o p3) \o p4) \o p5
    BY DEF Commands
  <1>2. \A x : x # "hooks" => (x \in here <=> x \in DOMAIN k)
    BY DEF SameChains
  <1>3. "hooks" \in Ours /\ Accs \subseteq Ours \intersect Named /\ accs \subseteq Accs
    BY NamesOfConfig DEF Ours, OwnNames, Named
  <1> HIDE DEF here, accs
  <1>4. PICK k0 : /\ Goes(Ours, k, p0, k0)
                  /\ Ordered(k0) /\ k0["hooks"] = {} /\ DOMAIN k0 = DOMAIN k
    BY <1>3, FlushHooks
  <1>5. PICK k1 : Goes(Ours, k0, p1, k1) /\ Ran(k0, k1, {"PRE-VRMR"})
    <2>1. "PRE-VRMR" \in here <=> "PRE-VRMR" \in DOMAIN k0
      BY <1>2, <1>4
    <2>2. QED
      BY <1>4, <2>1, KeepPre
  <1>6. Ordered(k1) /\ k1["hooks"] = {} /\ DOMAIN k1 = DOMAIN k \union {"PRE-VRMR"}
    BY <1>4, <1>5 DEF Ran
  <1>7. PICK k2 : Goes(Ours, k1, p2, k2) /\ Ran(k1, k2, c.custom)
    <2>1. IsFiniteSet(c.custom) /\ c.custom \intersect {"hooks", "PRE-VRMR"} = {} /\ c.custom \subseteq Named
      BY NamesOfConfig DEF Named
    <2> DEFINE s == SetToSeq(c.custom)
    <2>2. s \in Seq(c.custom) /\ IsInjective(s) /\ ToSet(s) = c.custom
      BY <2>1, Listing
    <2> HIDE DEF s
    <2>3. s \in Seq(Named)
      BY <2>1, <2>2
    <2>4. \A x \in ToSet(s) : x \in here <=> x \in DOMAIN k1
      BY <1>2, <1>6, <2>1, <2>2
    <2>5. EachOf(s, Keep, here) \in Seq(Steps(Ours)) /\ Ran(k1, After(k1, EachOf(s, Keep, here)), ToSet(s))
      BY <1>6, <2>2, <2>3, <2>4, KeepRun
    <2>6. QED
      BY <2>2, <2>5 DEF Goes, s
  <1>8. Ordered(k2) /\ k2["hooks"] = {} /\ DOMAIN k2 = DOMAIN k \union {"PRE-VRMR"} \union c.custom
    BY <1>6, <1>7 DEF Ran
  <1>9. PICK k3 : Goes(Ours, k2, p3, k3) /\ Ran(k2, k3, ToSet(OwnChains))
    <2>1. ToSet(OwnChains) \intersect ({"hooks", "PRE-VRMR"} \union c.custom) = {}
      BY NamesOfConfig, NamesOfOwn
    <2>2. \A x \in ToSet(OwnChains) : x \in here <=> x \in DOMAIN k2
      BY <1>2, <1>8, <2>1
    <2>3. QED
      BY <1>8, <2>2, RemakeOwn
  <1>10. /\ Ordered(k3) /\ k3["hooks"] = {}
         /\ DOMAIN k3 = DOMAIN k \union {"PRE-VRMR"} \union c.custom \union ToSet(OwnChains)
    BY <1>8, <1>9 DEF Ran
  <1>11. PICK k4 : Goes(Ours, k3, p4, k4) /\ Ran(k3, k4, accs)
    <2>1. /\ IsFiniteSet(accs)
          /\ accs \intersect ({"hooks", "MINE", "PRE-VRMR"} \union c.custom \union ToSet(OwnChains)) = {}
      <3>1. IsFiniteSet(accs) /\ accs \intersect c.custom = {}
        BY NamesOfConfig DEF accs
      <3>2. QED
        BY <1>3, <3>1, NamesOfConfig
    <2> DEFINE s == SetToSeq(accs)
    <2>2. s \in Seq(accs) /\ IsInjective(s) /\ ToSet(s) = accs
      BY <2>1, Listing
    <2> HIDE DEF s
    <2>3. \A x \in accs : x \in here <=> x \in DOMAIN k3
      BY <1>2, <1>10, <2>1
    <2>4. accs \in SUBSET ((Ours \intersect Named) \ {"hooks", "MINE"}) /\ accs \intersect ToSet(OwnChains) = {}
      BY <1>3, <2>1
    <2>5. \E d : Goes(Ours, k3, EachOf(s, Remake, here), d) /\ Ran(k3, d, accs)
      BY <1>10, <2>2, <2>3, <2>4, RemakeOthers
    <2>6. QED
      BY <2>5 DEF s
  <1>12. Ordered(k4) /\ ChainsOfFilter(f, c) \subseteq DOMAIN k4 /\ "hooks" \in DOMAIN k4
    BY <1>10, <1>11 DEF Ran, Ordered, ChainsOfFilter, accs
  <1>13. Goes(Ours, k4, p5, After(k4, p5)) /\ After(k4, p5) # Refused
    <2>1. p5 \in Seq(Steps(Ours)) /\ \A n \in 1..Len(p5) : Fits(p5[n], ChainsOfFilter(f, c))
      BY JumpsFit
    <2> HIDE DEF p5
    <2>2. \A n \in 1..Len(p5) : Fits(p5[n], DOMAIN k4)
      BY <1>12, <2>1 DEF Fits
    <2>3. QED
      BY <1>12, <2>1, <2>2, AppendRun DEF Goes
  <1> HIDE DEF p0, p1, p2, p3, p4, p5
  <1>14. Goes(Ours, k, p0 \o p1, k1)
    BY <1>4, <1>5, GoesOn
  <1>15. Goes(Ours, k, (p0 \o p1) \o p2, k2)
    BY <1>7, <1>14, GoesOn
  <1>16. Goes(Ours, k, ((p0 \o p1) \o p2) \o p3, k3)
    BY <1>9, <1>15, GoesOn
  <1>17. Goes(Ours, k, (((p0 \o p1) \o p2) \o p3) \o p4, k4)
    BY <1>11, <1>16, GoesOn
  <1>18. Goes(Ours, k, ((((p0 \o p1) \o p2) \o p3) \o p4) \o p5, After(k4, p5))
    BY <1>13, <1>17, GoesOn
  <1>19. QED
    BY <1>1, <1>13, <1>18 DEF Goes

\* Nor is what is written for the other tables.
LEMMA RemakeShape ==
    ASSUME NEW f, NEW k, Ordered(k), k["hooks"] = {}, NEW here,
           \A x \in ToSet(ShapeChains) : x \in here <=> x \in DOMAIN k
    PROVE  \E d : /\ Goes(OwnNames, k, IF f = 4 THEN EachOf(ShapeChains, Remake, here) ELSE << >>, d)
                  /\ Ran(k, d, IF f = 4 THEN ToSet(ShapeChains) ELSE {})
  <1>1. CASE f = 4
    <2>1. ToSet(ShapeChains) \in SUBSET ((OwnNames \intersect Named) \ {"hooks", "MINE"})
          /\ ToSet(ShapeChains) \intersect ToSet(OwnChains) = {}
      BY NamesOfOwn DEF OwnNames, Named
    <2>3. \E d : Goes(OwnNames, k, EachOf(ShapeChains, Remake, here), d) /\ Ran(k, d, ToSet(ShapeChains))
      BY <2>1, ShapeInjective, RemakeOthers
    <2>4. QED
      BY <1>1, <2>3
  <1>2. CASE f # 4
    <2>1. Goes(OwnNames, k, << >>, k)
      BY AfterEmpty DEF Goes
    <2>2. Ran(k, k, {})
      BY DEF Ran
    <2>3. QED
      BY <1>2, <2>1, <2>2
  <1>3. QED
    BY <1>1, <1>2

\* the last command of the tables mangle and nat
LEMMA HooksJump ==
    ASSUME NEW to \in SUBSET ({"PRE-VRMR"} \union ToSet(ShapeChains)), NEW k, Ordered(k), to \subseteq DOMAIN k
    PROVE  \E d : Goes(OwnNames, k, << Append2("hooks", to) >>, d) /\ d # Refused
  <1> DEFINE m == Append2("hooks", to)
             s == << m >>
  <1>1. m \in Steps(OwnNames)
    BY NamesOfOwn DEF Append2, Steps, Named, OwnNames, Ours
  <1>2. "hooks" \in DOMAIN k
    BY DEF Ordered
  <1>3. Fits(m, DOMAIN k)
    <2>1. "hooks" \notin to
      BY NamesOfOwn
    <2>2. m.op = "append" /\ m.chain = "hooks" /\ m.to = to
      BY DEF Append2
    <2> HIDE DEF m
    <2>3. QED
      BY <1>2, <2>1, <2>2 DEF Fits
  <1>4. s \in Seq(Steps(OwnNames)) /\ \A n \in 1..Len(s) : Fits(s[n], DOMAIN k)
    BY <1>1, <1>3
  <1> HIDE DEF s
  <1>5. After(k, s) # Refused
    BY <1>2, <1>4, AppendRun
  <1>6. QED
    BY <1>4, <1>5 DEF Goes, s

LEMMA MangleRun ==
    ASSUME NEW f, NEW c, NEW there, NEW k, Ordered(k), SameChains(k, there.mangle)
    PROVE  Commands(f, "mangle", c, there) \in Seq(Steps(OwnNames)) /\ After(k, Commands(f, "mangle", c, there)) # Refused
  <1> DEFINE here == there.mangle
             shapes == IF f = 4 THEN ToSet(ShapeChains) ELSE {}
             p0 == Keep("PRE-VRMR", here)
             p1 == << Cmd("flush", "hooks") >>
             p2 == IF f = 4 THEN EachOf(ShapeChains, Remake, here) ELSE << >>
             p3 == << Append2("hooks", {"PRE-VRMR"} \union shapes) >>
  <1>1. Commands(f, "mangle", c, there) = ((p0 \o p1) \o p2) \o p3
    BY DEF Commands
  <1>2. \A x : x # "hooks" => (x \in here <=> x \in DOMAIN k)
    BY DEF SameChains
  <1>3. "hooks" \in OwnNames
    BY DEF OwnNames, Ours
  <1> HIDE DEF here
  <1>4. PICK k0 : Goes(OwnNames, k, p0, k0) /\ Ran(k, k0, {"PRE-VRMR"})
    <2>1. "PRE-VRMR" \in here <=> "PRE-VRMR" \in DOMAIN k
      BY <1>2
    <2>2. QED
      BY <2>1, KeepPre
  <1>5. PICK k1 : /\ Goes(OwnNames, k0, p1, k1)
                  /\ Ordered(k1) /\ k1["hooks"] = {} /\ DOMAIN k1 = DOMAIN k0
    BY <1>3, <1>4, FlushHooks DEF Ran
  <1>6. PICK k2 : Goes(OwnNames, k1, p2, k2) /\ Ran(k1, k2, shapes)
    <2>1. \A x \in ToSet(ShapeChains) : x \in here <=> x \in DOMAIN k1
      BY <1>2, <1>4, <1>5, NamesOfOwn DEF Ran
    <2>2. QED
      BY <1>5, <2>1, RemakeShape
  <1>7. PICK k3 : Goes(OwnNames, k2, p3, k3) /\ k3 # Refused
    <2>1. Ordered(k2) /\ {"PRE-VRMR"} \union shapes \subseteq DOMAIN k2
      BY <1>4, <1>5, <1>6 DEF Ran
    <2>2. {"PRE-VRMR"} \union shapes \in SUBSET ({"PRE-VRMR"} \union ToSet(ShapeChains))
      OBVIOUS
    <2> HIDE DEF shapes
    <2>3. QED
      BY <2>1, <2>2, HooksJump
  <1> HIDE DEF p0, p1, p2, p3
  <1>8. Goes(OwnNames, k, p0 \o p1, k1)
    BY <1>4, <1>5, GoesOn
  <1>9. Goes(OwnNames, k, (p0 \o p1) \o p2, k2)
    BY <1>6, <1>8, GoesOn
  <1>10. Goes(OwnNames, k, ((p0 \o p1) \o p2) \o p3, k3)
    BY <1>7, <1>9, GoesOn
  <1>11. QED
    BY <1>1, <1>7, <1>10 DEF Goes

LEMMA NatRun ==
    ASSUME NEW f, NEW c, NEW there, NEW k, Ordered(k), SameChains(k, there.nat)
    PROVE  Commands(f, "nat", c, there) \in Seq(Steps(OwnNames)) /\ After(k, Commands(f, "nat", c, there)) # Refused
  <1> DEFINE here == there.nat
             p0 == Keep("PRE-VRMR", here)
             p1 == << Cmd("flush", "hooks") >>
             p2 == << Append2("hooks", {"PRE-VRMR"}) >>
  <1>1. Commands(f, "nat", c, there) = (p0 \o p1) \o p2
    <2>1. Commands(f, "nat", c, there) = p0 \o << Cmd("flush", "hooks"), Append2("hooks", {"PRE-VRMR"}) >>
      BY DEF Commands
    <2>2. << Cmd("flush", "hooks"), Append2("hooks", {"PRE-VRMR"}) >> = p1 \o p2
      OBVIOUS
    <2>3. p0 \in Seq(Steps(OwnNames))
      BY KeepSteps DEF Named
    <2>4. p1 \in Seq({Cmd("flush", "hooks")}) /\ p2 \in Seq({Append2("hooks", {"PRE-VRMR"})})
      OBVIOUS
    <2> HIDE DEF p0, p1, p2
    <2>5. p0 \o (p1 \o p2) = (p0 \o p1) \o p2
      BY <2>3, <2>4
    <2>6. QED
      BY <2>1, <2>2, <2>5
  <1>2. "PRE-VRMR" \in here <=> "PRE-VRMR" \in DOMAIN k
    BY DEF SameChains
  <1>3. "hooks" \in OwnNames
    BY DEF OwnNames, Ours
  <1> HIDE DEF here
  <1>4. PICK k0 : Goes(OwnNames, k, p0, k0) /\ Ran(k, k0, {"PRE-VRMR"})
    BY <1>2, KeepPre
  <1>5. PICK k1 : /\ Goes(OwnNames, k0, p1, k1)
                  /\ Ordered(k1) /\ k1["hooks"] = {} /\ DOMAIN k1 = DOMAIN k0
    BY <1>3, <1>4, FlushHooks DEF Ran
  <1>6. PICK k2 : Goes(OwnNames, k1, p2, k2) /\ k2 # Refused
    BY <1>4, <1>5, HooksJump DEF Ran
  <1> HIDE DEF p0, p1, p2
  <1>7. Goes(OwnNames, k, p0 \o p1, k1)
    BY <1>4, <1>5, GoesOn
  <1>8. Goes(OwnNames, k, (p0 \o p1) \o p2, k2)
    BY <1>6, <1>7, GoesOn
  <1>9. QED
    BY <1>1, <1>6, <1>8 DEF Goes

LEMMA RawRun ==
    ASSUME NEW f, NEW c, NEW there, NEW k, Ordered(k)
    PROVE  Commands(f, "raw", c, there) \in Seq(Steps(OwnNames)) /\ After(k, Commands(f, "raw", c, there)) # Refused
  <1>1. Commands(f, "raw", c, there) = << >>
    BY DEF Commands
  <1>2. k # Refused /\ After(k, << >>) = k
    BY NotRefused, AfterEmpty DEF Ordered
  <1>3. << >> \in Seq(Steps(OwnNames))
    OBVIOUS
  <1>4. QED
    BY <1>1, <1>2, <1>3

\* What is written for a table is not refused, if its chains could be listed.
LEMMA TableRun ==
    ASSUME NEW f \in Family, NEW t \in ToSet(Tables(f)), NEW c \in Configs, NEW there, NEW k, Ordered(k),
           t # "raw" => SameChains(k, there[t]), t = "filter" => ~Clashes(c)
    PROVE  After(k, Commands(f, t, c, there)) # Refused
  <1>1. t \in {"raw", "mangle", "nat", "filter"}
    BY TablesLemma DEF Family
  <1>2. CASE t = "raw"
    BY <1>2, RawRun
  <1>3. CASE t = "mangle"
    BY <1>3, MangleRun
  <1>4. CASE t = "nat"
    BY <1>4, NatRun
  <1>5. CASE t = "filter"
    BY <1>5, FilterRun
  <1>6. QED
    BY <1>1, <1>2, <1>3, <1>4, <1>5

LEMMA KeepAll ==
    ASSUME NEW F, NEW s \in Seq(Named), NEW there
    PROVE  EachOf(s, Keep, there) \in Seq(Steps(F))
  <1> DEFINE N == Len(s)
  <1>1. N \in Nat /\ \A i \in 1..N : s[i] \in Named
    OBVIOUS
  <1>2. PICK f : /\ f[0] = << >> /\ EachOf(s, Keep, there) = f[N]
                 /\ \A n \in 1..N : f[n] = f[n - 1] \o Keep(s[n], there)
    BY KeepEach
  <1> HIDE DEF N
  <1> DEFINE S == {n \in Nat : n <= N => f[n] \in Seq(Steps(F))}
  <1>3. 0 \in S
    <2>1. f[0] \in Seq(Steps(F))
      BY <1>2
    <2>2. QED
      BY <2>1
  <1>4. ASSUME NEW n \in Nat, n \in S PROVE n + 1 \in S
    <2>1. SUFFICES ASSUME n + 1 <= N PROVE f[n + 1] \in Seq(Steps(F))
      OBVIOUS
    <2>2. n + 1 \in 1..N /\ (n + 1) - 1 = n /\ f[n] \in Seq(Steps(F))
      BY <1>1, <1>4, <2>1
    <2>3. Keep(s[n + 1], there) \in Seq(Steps(F))
      BY <1>1, <2>2, KeepSteps
    <2>4. f[n + 1] = f[n] \o Keep(s[n + 1], there)
      BY <1>2, <2>2
    <2>5. QED
      BY <2>2, <2>3, <2>4
  <1>5. Nat \subseteq S
    <2> HIDE DEF S
    <2>1. QED
      BY <1>3, <1>4, NatSets
  <1>6. QED
    BY <1>1, <1>2, <1>5

\* The commands for the table filter are of this form whatever the rules name.
\* They depend on the list only, and there could be a table with those chains.
LEMMA FilterSteps ==
    ASSUME NEW f, NEW c \in Configs, NEW there
    PROVE  Commands(f, "filter", c, there) \in Seq(Steps(Ours))
  <1> DEFINE here == there.filter
             accs == AccChains(f, c)
             p0 == << Cmd("flush", "hooks") >>
             p1 == Keep("PRE-VRMR", here)
             p2 == EachOf(SetToSeq(c.custom), Keep, here)
             p3 == EachOf(OwnChains, Remake, here)
             p4 == EachOf(SetToSeq(accs), Remake, here)
             p5 == FilterJumps(f, c)
             k == [x \in here \union {"hooks"} |-> {}]
  <1>1. Commands(f, "filter", c, there) = ((((p0 \o p1) \o p2) \o p3) \o p4) \o p5
    BY DEF Commands
  <1> HIDE DEF here
  <1>2. Ordered(k) /\ k["hooks"] = {} /\ \A x : x # "hooks" => (x \in here <=> x \in DOMAIN k)
    BY DEF Ordered
  <1> HIDE DEF k
  <1>3. p0 \in Seq(Steps(Ours))
    <2>1. Cmd("flush", "hooks") \in Steps(Ours)
      BY DEF Cmd, Steps, Named, OwnNames, Ours
    <2>2. QED
      BY <2>1
  <1>4. p1 \in Seq(Steps(Ours))
    BY KeepSteps DEF Named
  <1>5. p2 \in Seq(Steps(Ours))
    <2>1. SetToSeq(c.custom) \in Seq(c.custom) /\ c.custom \subseteq Named
      BY NamesOfConfig, Listing DEF Named
    <2> DEFINE s == SetToSeq(c.custom)
    <2> HIDE DEF s
    <2>2. s \in Seq(Named)
      BY <2>1 DEF s
    <2>3. EachOf(s, Keep, here) \in Seq(Steps(Ours))
      BY <2>2, KeepAll
    <2>4. QED
      BY <2>3 DEF s
  <1>6. p3 \in Seq(Steps(Ours))
    <2>1. \A x \in ToSet(OwnChains) : x \in here <=> x \in DOMAIN k
      BY <1>2, NamesOfOwn
    <2>2. \E d : Goes(Ours, k, p3, d)
      BY <1>2, <2>1, RemakeOwn
    <2>3. QED
      BY <2>2 DEF Goes
  <1>7. p4 \in Seq(Steps(Ours))
    <2>1. /\ IsFiniteSet(accs) /\ accs \subseteq Accs
          /\ Accs \intersect ({"hooks", "MINE", "PRE-VRMR"} \union ToSet(OwnChains)) = {}
      BY NamesOfConfig
    <2> DEFINE s == SetToSeq(accs)
    <2>2. s \in Seq(accs) /\ IsInjective(s) /\ ToSet(s) = accs
      BY <2>1, Listing
    <2>3. accs \in SUBSET ((Ours \intersect Named) \ {"hooks", "MINE"}) /\ accs \intersect ToSet(OwnChains) = {}
      BY <2>1 DEF Ours, OwnNames, Named
    <2> HIDE DEF accs, s
    <2>4. \A x \in accs : x \in here <=> x \in DOMAIN k
      BY <1>2, <2>1
    <2>5. \E d : Goes(Ours, k, EachOf(s, Remake, here), d)
      BY <1>2, <2>2, <2>3, <2>4, RemakeOthers
    <2>6. QED
      BY <2>5 DEF Goes, s, accs
  <1>8. p5 \in Seq(Steps(Ours))
    BY JumpsFit
  <1> HIDE DEF p0, p1, p2, p3, p4, p5
  <1>9. ASSUME NEW X, NEW s \in Seq(X), NEW t \in Seq(X) PROVE s \o t \in Seq(X)
    OBVIOUS
  <1>10. (p0 \o p1) \o p2 \in Seq(Steps(Ours))
    BY <1>3, <1>4, <1>5, <1>9
  <1>11. (((p0 \o p1) \o p2) \o p3) \o p4 \in Seq(Steps(Ours))
    BY <1>6, <1>7, <1>9, <1>10
  <1>12. QED
    BY <1>1, <1>8, <1>9, <1>11

LEMMA CommandsSteps ==
    ASSUME NEW f \in Family, NEW t \in ToSet(Tables(f)), NEW c \in Configs, NEW there
    PROVE  Commands(f, t, c, there) \in Seq(Steps(IF t = "filter" THEN Ours ELSE OwnNames))
  <1>1. t \in {"raw", "mangle", "nat", "filter"}
    BY TablesLemma DEF Family
  <1> DEFINE k == [x \in there[t] \union {"hooks"} |-> {}]
  <1>2. Ordered(k)
    BY DEF Ordered
  <1>3. SameChains(k, there[t])
    BY DEF SameChains
  <1> HIDE DEF k
  <1>4. CASE t = "raw"
    BY <1>2, <1>4, RawRun
  <1>5. CASE t = "mangle"
    BY <1>2, <1>3, <1>5, MangleRun
  <1>6. CASE t = "nat"
    BY <1>2, <1>3, <1>6, NatRun
  <1>7. CASE t = "filter"
    BY <1>7, FilterSteps
  <1>8. QED
    BY <1>1, <1>4, <1>5, <1>6, <1>7

-----------------------------------------------------------------------------
(* No load is refused.                                                      *)

\* the chains of every table are in order
KernelInv == \A f \in Family : \A t \in ToSet(Tables(f)) : Ordered(kernel[f][t].chains)

\* what was listed is still there in the tables that are to come
ListedInv ==
    pc \in {"shape"} \union ToSet(Tables(fam)) /\ ~blind =>
        \A t \in ToSet(Tables(fam)) \ (Committed(fam) \union {"raw"}) : listed[t] = DOMAIN kernel[fam][t].chains

LoadsInv == WholeInv /\ KernelInv /\ ListedInv /\ NeverRefused

LEMMA InitLoads == Init => LoadsInv
  <1> SUFFICES ASSUME Init PROVE LoadsInv
    OBVIOUS
  <1>1. WholeInv
    BY InitWhole
  <1>2. Ordered(Builtin)
    BY DEF Ordered, Builtin
  <1>3. \A f \in Family : \A t \in ToSet(Tables(f)) : kernel[f][t].chains = Builtin
    BY DEF Init, Empty
  <1>4. KernelInv
    BY <1>2, <1>3 DEF KernelInv
  <1>5. ListedInv
    BY TablesLemma DEF Init, ListedInv
  <1>6. QED
    BY <1>1, <1>4, <1>5 DEF LoadsInv, Init, NeverRefused

\* a step that leaves the tables alone
LEMMA SameTables ==
    ASSUME KernelInv, kernel' = kernel PROVE KernelInv'
  BY DEF KernelInv

LEMMA NotLoading ==
    ASSUME fam' \in Family, pc' \notin {"shape", "raw", "mangle", "nat", "filter"} PROVE ListedInv'
  BY TablesLemma DEF ListedInv, Family

LEMMA QuietLoads ==
    ASSUME LoadsInv, WholeInv', kernel' = kernel,
           result' = "refused" => Clashes(config'),
           pc' \notin {"shape", "raw", "mangle", "nat", "filter"}
           \/ UNCHANGED << pc, fam, listed, blind >>
    PROVE  LoadsInv'
  <1>1. fam' \in Family
    BY DEF WholeInv, TypeOK
  <1>2. KernelInv' /\ NeverRefused'
    BY SameTables DEF LoadsInv, NeverRefused
  <1>3. ASSUME UNCHANGED << pc, fam, listed, blind >> PROVE ListedInv'
    BY <1>3 DEF LoadsInv, ListedInv, Committed
  <1>4. QED
    BY <1>1, <1>2, <1>3, NotLoading DEF LoadsInv

\* the answer of a load stands for the configuration it was made from
LEMMA SameAnswer ==
    ASSUME LoadsInv, UNCHANGED << config, result >>
    PROVE  NeverRefused' /\ (result' = "refused" => Clashes(config'))
  BY DEF LoadsInv, NeverRefused

LEMMA ListLoads == ASSUME LoadsInv, WholeInv', GetSystemChains PROVE LoadsInv'
  <1>1. fam \in Family /\ fam' = fam /\ kernel' = kernel /\ result' = result
    BY DEF GetSystemChains, system, LoadsInv, WholeInv, TypeOK
  <1>2. KernelInv' /\ NeverRefused'
    BY <1>1, SameTables, SameAnswer DEF LoadsInv, GetSystemChains
  <1>3. ASSUME ~blind', NEW t \in ToSet(Tables(fam)) \ {"raw"}
        PROVE  listed'[t] = DOMAIN kernel[fam][t].chains
    <2>1. listed' = ChainsOf(fam)
      BY <1>3 DEF GetSystemChains
    <2>2. t \in {"mangle", "nat", "filter"}
      BY <1>1, <1>3, TablesLemma DEF Family
    <2>3. QED
      BY <1>3, <2>1, <2>2 DEF ChainsOf
  <1>4. ListedInv'
    BY <1>1, <1>3 DEF ListedInv
  <1>5. QED
    BY <1>2, <1>4 DEF LoadsInv

LEMMA ShapeLoads == ASSUME LoadsInv, WholeInv', LoadShape PROVE LoadsInv'
  <1>1. fam \in Family /\ pc = "shape" /\ UNCHANGED << config, fam, kernel >>
    BY DEF LoadShape, LoadsInv, WholeInv, TypeOK
  <1>2. CASE Fail("failed")
    BY <1>1, <1>2, QuietLoads DEF Fail
  <1>3. CASE pc' = Tables(fam)[1] /\ UNCHANGED << result, listed, blind >>
    <2>1. pc' = "raw"
      BY <1>1, <1>3, TablesLemma DEF Family
    <2>2. Committed(fam) = {} /\ Committed(fam)' = {}
      BY <1>1, <2>1 DEF Committed
    <2>3. ListedInv'
      BY <1>1, <1>3, <2>2 DEF LoadsInv, ListedInv
    <2>4. QED
      BY <1>1, <1>3, <2>3, SameTables, SameAnswer DEF LoadsInv
  <1>4. QED
    BY <1>2, <1>3 DEF LoadShape

\* LoadTable with the commands in sight
LEMMA LoadTableCases ==
    ASSUME LoadTable
    PROVE  LET new == After(kernel[fam][pc].chains, Commands(fam, pc, config, listed))
           IN  /\ pc \in ToSet(Tables(fam)) /\ UNCHANGED << config, fam >>
               /\ \/ /\ new = Refused /\ kernel' = kernel
                     /\ Fail(IF blind THEN "failed" ELSE "refused")
                  \/ /\ new # Refused /\ pc' = NextTable(pc)
                     /\ UNCHANGED << result, listed, blind, up >>
                     /\ kernel' = [kernel EXCEPT ![fam][pc] = [ver |-> version, chains |-> new,
                                                               counts |-> CountsIn(fam, pc, config)]]
  BY DEF LoadTable

\* the chains of a table after its commands
LEMMA Loaded ==
    ASSUME LoadsInv, NEW f \in Family, NEW t \in ToSet(Tables(f)), NEW new, new # Refused,
           new = After(kernel[f][t].chains, Commands(f, t, config, listed))
    PROVE  /\ Ordered(new)
           /\ Kept(IF t = "filter" THEN Ours ELSE OwnNames, kernel[f][t].chains, new)
  <1>1. Ordered(kernel[f][t].chains) /\ config \in Configs
    BY DEF LoadsInv, KernelInv, WholeInv, TypeOK
  <1>2. Commands(f, t, config, listed) \in Seq(Steps(IF t = "filter" THEN Ours ELSE OwnNames))
    BY <1>1, CommandsSteps
  <1>3. QED
    BY <1>1, <1>2, AfterOrdered

LEMMA LoadTableLoads == ASSUME LoadsInv, WholeInv', LoadTable PROVE LoadsInv'
  <1> DEFINE k == kernel[fam][pc].chains
             new == After(k, Commands(fam, pc, config, listed))
  <1>1. TypeOK /\ fam \in Family /\ config \in Configs
    BY DEF LoadsInv, WholeInv, TypeOK
  <1>2. pc \in ToSet(Tables(fam)) /\ fam' = fam
    BY LoadTableCases
  <1>3. pc \notin Committed(fam)
    BY <1>1, <1>2, TablesLemma DEF Committed, Family
  <1>4. CASE new = Refused
    <2>1. kernel' = kernel /\ Fail(IF blind THEN "failed" ELSE "refused")
      BY <1>4, LoadTableCases
    <2>2. ~blind => Clashes(config)
      <3>1. SUFFICES ASSUME ~blind, ~Clashes(config) PROVE FALSE
        OBVIOUS
      <3>2. pc # "raw" => SameChains(k, listed[pc])
        BY <1>2, <1>3, <3>1 DEF LoadsInv, ListedInv, SameChains
      <3>3. Ordered(k)
        BY <1>1, <1>2 DEF LoadsInv, KernelInv
      <3>4. new # Refused
        BY <1>1, <1>2, <3>1, <3>2, <3>3, TableRun
      <3>5. QED
        BY <1>4, <3>4
    <2>3. pc' = "idle" /\ (result' = "refused" => Clashes(config))
      BY <2>1, <2>2 DEF Fail
    <2>4. config' = config
      BY LoadTableCases
    <2>5. QED
      BY <2>1, <2>3, <2>4, QuietLoads
  <1>5. CASE new # Refused
    <2> HIDE DEF new
    <2>1. /\ pc' = NextTable(pc) /\ UNCHANGED << config, result, listed, blind >>
          /\ kernel' = [kernel EXCEPT ![fam][pc] = [ver |-> version, chains |-> new,
                                                    counts |-> CountsIn(fam, pc, config)]]
      BY <1>5, LoadTableCases DEF new
    <2>2. Ordered(new)
      BY <1>1, <1>2, <1>5, Loaded DEF new
    <2> DEFINE table == [ver |-> version, chains |-> new, counts |-> CountsIn(fam, pc, config)]
    <2>3. table.chains = new
      OBVIOUS
    <2> HIDE DEF table
    <2>4. \A g \in Family : \A u \in ToSet(Tables(g)) :
             kernel'[g][u] = IF g = fam /\ u = pc THEN table ELSE kernel[g][u]
      BY <1>1, <1>2, <2>1 DEF table, TypeOK
    <2>5. KernelInv'
      BY <2>2, <2>3, <2>4 DEF LoadsInv, KernelInv
    <2>6. ListedInv'
      <3>1. SUFFICES ASSUME pc' \in {"shape"} \union ToSet(Tables(fam)), ~blind,
                            NEW t \in ToSet(Tables(fam)) \ (Committed(fam)' \union {"raw"})
                     PROVE  listed[t] = DOMAIN kernel'[fam][t].chains
        BY <1>2, <2>1 DEF ListedInv
      <3>2. Committed(fam)' = Committed(fam) \union {pc}
        BY <1>1, <1>2, <2>1, TablesLemma, NextTable4, NextTable6 DEF Committed, Family
      <3>3. t # pc /\ t \in ToSet(Tables(fam)) \ (Committed(fam) \union {"raw"})
        BY <3>1, <3>2
      <3>4. kernel'[fam][t] = kernel[fam][t]
        BY <1>1, <2>4, <3>3
      <3>5. listed[t] = DOMAIN kernel[fam][t].chains
        BY <1>2, <3>1, <3>3 DEF LoadsInv, ListedInv
      <3>6. QED
        BY <3>4, <3>5
    <2>7. QED
      BY <2>1, <2>5, <2>6, SameAnswer DEF LoadsInv
  <1>6. QED
    BY <1>4, <1>5

\* what is cleared stays in order
LEMMA ClearedTables ==
    ASSUME TypeOK, ClearVuurmuurRules \/ ClearAllRules, NEW f \in Family, NEW t \in ToSet(Tables(f))
    PROVE  \/ kernel'[f][t] = kernel[f][t]
           \/ kernel'[f][t] = Empty
           \/ ClearVuurmuurRules /\ kernel'[f][t] = Flushed(kernel[f][t])
  <1>1. CASE ClearVuurmuurRules
    <2>1. kernel' = [g \in Family |-> [u \in ToSet(Tables(g)) |->
                        IF u = "raw" THEN kernel[g][u] ELSE Flushed(kernel[g][u])]]
      BY <1>1 DEF ClearVuurmuurRules, Cleared
    <2>2. QED
      BY <1>1, <2>1
  <1>2. CASE ClearAllRules
    <2>1. kernel' = [g \in Family |-> [u \in ToSet(Tables(g)) |->
                        IF u = "raw" THEN kernel[g][u] ELSE EmptyTable(kernel[g][u])]]
      BY <1>2 DEF ClearAllRules, Cleared
    <2>2. QED
      BY <2>1 DEF EmptyTable
  <1>3. QED
    BY <1>1, <1>2

LEMMA FlushedOrdered ==
    ASSUME NEW x, Ordered(x.chains)
    PROVE  Ordered(Flushed(x).chains) /\ (\A y \in DOMAIN x.chains : y = "PRE-VRMR" => Flushed(x).chains[y] = x.chains[y])
  <1> DEFINE c == x.chains
             d == [y \in DOMAIN c |-> IF y = "PRE-VRMR" THEN c[y] ELSE {}]
  <1>1. Flushed(x).chains = d
    BY DEF Flushed
  <1> HIDE DEF c, d
  <1>2. DOMAIN d = DOMAIN c /\ d = [y \in DOMAIN d |-> d[y]] /\ \A y \in DOMAIN c : d[y] \subseteq c[y]
    BY DEF d
  <1>3. Ordered(d)
    BY <1>2 DEF Ordered, c
  <1>4. QED
    BY <1>1, <1>3 DEF c, d

LEMMA ClearLoads == ASSUME LoadsInv, WholeInv', ClearVuurmuurRules \/ ClearAllRules PROVE LoadsInv'
  <1>1. TypeOK /\ ~up /\ UNCHANGED daemon
    BY ClearLemma DEF LoadsInv, WholeInv
  <1>2. fam' \in Family /\ pc' = "idle" /\ UNCHANGED << config, result >>
    BY <1>1, ClearLemma DEF LoadsInv, WholeInv, TypeOK, Progress, daemon
  <1>3. ASSUME NEW f \in Family, NEW t \in ToSet(Tables(f)) PROVE Ordered(kernel'[f][t].chains)
    <2>1. Ordered(kernel[f][t].chains)
      BY DEF LoadsInv, KernelInv
    <2>2. Ordered(Empty.chains)
      BY DEF Ordered, Empty, Builtin
    <2>3. QED
      BY <1>1, <2>1, <2>2, ClearedTables, FlushedOrdered
  <1>4. KernelInv'
    BY <1>3 DEF KernelInv
  <1>5. QED
    BY <1>2, <1>4, NotLoading, SameAnswer DEF LoadsInv

\* a chain of the user that jumps to his own
LEMMA Filled ==
    ASSUME TypeOK, NEW f \in Family, NEW chain, UserFills(f, chain)
    PROVE  LET c == kernel[f].filter.chains
           IN  /\ chain \in DOMAIN c \ (Ours \union {"MINE"}) /\ c[chain] = {}
               /\ \A g \in Family : \A u \in ToSet(Tables(g)) :
                     kernel'[g][u].chains =
                        IF g = f /\ u = "filter"
                        THEN [x \in DOMAIN c \union {"MINE"} |->
                                 IF x = chain THEN {"MINE"} ELSE IF x = "MINE" THEN {} ELSE c[x]]
                        ELSE kernel[g][u].chains
  <1> DEFINE c == kernel[f].filter.chains
             d == [x \in DOMAIN c \union {"MINE"} |->
                      IF x = chain THEN {"MINE"} ELSE IF x = "MINE" THEN {} ELSE c[x]]
  <1>1. chain \in DOMAIN c \ (Ours \union {"MINE"}) /\ c[chain] = {}
    BY DEF UserFills, OfUser, Ours, Accs
  <1>2. PICK t \in ToSet(Tables(f)) : t = "filter"
    BY TablesLemma DEF Family
  <1>3. kernel' = [kernel EXCEPT ![f][t] = [kernel[f][t] EXCEPT !.chains = d]]
    BY <1>2 DEF UserFills, TypeOK
  <1> HIDE DEF c, d
  <1>4. PICK new : new = [ver |-> kernel[f][t].ver, chains |-> d, counts |-> kernel[f][t].counts]
    OBVIOUS
  <1>5. kernel' = [kernel EXCEPT ![f][t] = new] /\ new.chains = d
    BY <1>2, <1>3, <1>4, TableExcept DEF TypeOK
  <1>6. \A g \in Family : \A u \in ToSet(Tables(g)) :
           kernel'[g][u] = IF g = f /\ u = t THEN new ELSE kernel[g][u]
    BY <1>2, <1>5 DEF TypeOK
  <1>7. \A g \in Family : \A u \in ToSet(Tables(g)) :
           kernel'[g][u].chains = IF g = f /\ u = "filter" THEN d ELSE kernel[g][u].chains
    BY <1>2, <1>5, <1>6
  <1>8. QED
    BY <1>1, <1>7 DEF c, d

LEMMA FilledOrdered ==
    ASSUME NEW c, Ordered(c), NEW chain \in DOMAIN c \ (Ours \union {"MINE"})
    PROVE  Ordered([x \in DOMAIN c \union {"MINE"} |->
                       IF x = chain THEN {"MINE"} ELSE IF x = "MINE" THEN {} ELSE c[x]])
  <1> DEFINE d == [x \in DOMAIN c \union {"MINE"} |->
                      IF x = chain THEN {"MINE"} ELSE IF x = "MINE" THEN {} ELSE c[x]]
  <1>1. /\ DOMAIN d = DOMAIN c \union {"MINE"} /\ d = [x \in DOMAIN d |-> d[x]]
        /\ \A x \in DOMAIN d : d[x] = IF x = chain THEN {"MINE"} ELSE IF x = "MINE" THEN {} ELSE c[x]
    OBVIOUS
  <1> HIDE DEF d
  <1>2. Ordered(d)
    BY <1>1 DEF Ordered
  <1>3. QED
    BY <1>2 DEF d

LEMMA FillLoads ==
    ASSUME LoadsInv, WholeInv', NEW f \in Family, NEW chain, UserFills(f, chain) PROVE LoadsInv'
  <1> DEFINE c == kernel[f].filter.chains
             d == [x \in DOMAIN c \union {"MINE"} |->
                      IF x = chain THEN {"MINE"} ELSE IF x = "MINE" THEN {} ELSE c[x]]
  <1>1. TypeOK /\ fam' \in Family
    BY DEF LoadsInv, WholeInv, TypeOK
  <1>2. pc' = "idle" /\ UNCHANGED << config, result >>
    BY <1>1, UserFillsLemma DEF daemon
  <1>3. /\ chain \in DOMAIN c \ (Ours \union {"MINE"})
        /\ \A g \in Family : \A u \in ToSet(Tables(g)) :
              kernel'[g][u].chains = IF g = f /\ u = "filter" THEN d ELSE kernel[g][u].chains
    BY <1>1, Filled
  <1>4. Ordered(c)
    BY TablesLemma DEF LoadsInv, KernelInv, Family
  <1>5. Ordered(d)
    BY <1>3, <1>4, FilledOrdered
  <1> HIDE DEF c, d
  <1>6. KernelInv'
    BY <1>3, <1>5 DEF LoadsInv, KernelInv
  <1>7. QED
    BY <1>1, <1>2, <1>6, NotLoading, SameAnswer DEF LoadsInv

LEMMA NextLoads == LoadsInv /\ [Next]_vars => LoadsInv'
  <1> SUFFICES ASSUME LoadsInv, [Next]_vars PROVE LoadsInv'
    OBVIOUS
  <1>1. WholeInv'
    BY NextWhole DEF LoadsInv
  <1>2. CASE UNCHANGED vars \/ \E d \in ToSet(Devices) : Traffic(d)
    <2>1. UNCHANGED << config, kernel, result, pc, fam, listed, blind >>
      BY <1>2 DEF vars, Traffic, daemon, system
    <2>2. QED
      BY <1>1, <2>1, QuietLoads, SameAnswer
  <1>3. CASE SaveInterfaceCounters \/ CreateRuleset
    <2>1. UNCHANGED << config, kernel, result >> /\ pc' \in {"create", "list"}
      BY <1>3 DEF SaveInterfaceCounters, CreateRuleset, system
    <2>2. QED
      BY <1>1, <2>1, QuietLoads, SameAnswer
  <1>4. CASE LoadDone
    <2>1. UNCHANGED << config, kernel >> /\ (result' = result \/ result' = "ok") /\ pc' \in {"idle", "save"}
      BY <1>4 DEF LoadDone, system
    <2>2. result' = "refused" => Clashes(config')
      BY <2>1 DEF LoadsInv, NeverRefused
    <2>3. QED
      BY <1>1, <2>1, <2>2, QuietLoads
  <1>5. CASE Configure \/ Load \/ CreateFails \/ FileFails \/ LoadFails \/ Stop
    <2>1. kernel' = kernel /\ result' # "refused" /\ pc' \in {"idle", "save"}
      BY <1>5 DEF Configure, Load, CreateFails, FileFails, LoadFails, Stop, Fail, system
    <2>2. QED
      BY <1>1, <2>1, QuietLoads
  <1>6. QED
    BY <1>1, <1>2, <1>3, <1>4, <1>5, ListLoads, ShapeLoads, LoadTableLoads, ClearLoads, FillLoads DEF Next

\* iptables-restore refuses the file of a load for what it says about chains only
\* if a rule of this configuration names a chain of Vuurmuur's; whatever earlier
\* loads, with such rules or without, a user, vuurmuur -D and vuurmuur -C have left.
THEOREM RefusedTheorem == Spec => []NeverRefused
  <1>1. LoadsInv => NeverRefused
    BY DEF LoadsInv
  <1>2. QED
    BY <1>1, InitLoads, NextLoads, PTL DEF Spec

-----------------------------------------------------------------------------
(* The chains of the user.                                                  *)

\* x still has what the user put there, or it was cleared on his word
KeptBy(f, x) ==
    \/ x \in DOMAIN kernel'[f].filter.chains /\ "MINE" \in kernel'[f].filter.chains[x]
    \/ ~up' /\ (x # "PRE-VRMR" \/ kernel'[f].filter = Empty)

LEMMA LoadKeeps ==
    ASSUME LoadsInv, LoadTable, NEW f \in Family, NEW x \in DOMAIN kernel[f].filter.chains,
           "MINE" \in kernel[f].filter.chains[x]
    PROVE  KeptBy(f, x)
  <1> DEFINE new == After(kernel[fam][pc].chains, Commands(fam, pc, config, listed))
  <1>1. TypeOK /\ fam \in Family /\ pc \in ToSet(Tables(fam))
    BY LoadTableCases DEF LoadsInv, WholeInv, TypeOK
  <1>2. PICK t \in ToSet(Tables(f)) : t = "filter"
    BY TablesLemma DEF Family
  <1>3. CASE kernel' = kernel
    BY <1>3 DEF KeptBy
  <1>4. CASE /\ new # Refused
             /\ kernel' = [kernel EXCEPT ![fam][pc] = [ver |-> version, chains |-> new,
                                                       counts |-> CountsIn(fam, pc, config)]]
    <2> HIDE DEF new
    <2> DEFINE table == [ver |-> version, chains |-> new, counts |-> CountsIn(fam, pc, config)]
    <2>1. table.chains = new
      OBVIOUS
    <2> HIDE DEF table
    <2>2. kernel'[f][t] = IF f = fam /\ t = pc THEN table ELSE kernel[f][t]
      BY <1>1, <1>4 DEF table, TypeOK
    <2>3. CASE f = fam /\ t = pc
      <3>1. Kept(Ours, kernel[f][t].chains, new)
        BY <1>2, <1>4, <2>3, Loaded DEF new
      <3>2. x \notin Ours
        BY <1>2 DEF LoadsInv, KernelInv, Ordered
      <3>3. x \in DOMAIN new /\ "MINE" \in new[x]
        BY <1>2, <3>1, <3>2 DEF Kept
      <3>4. QED
        BY <1>2, <2>1, <2>2, <2>3, <3>3 DEF KeptBy
    <2>4. CASE ~ (f = fam /\ t = pc)
      BY <1>2, <2>2, <2>4 DEF KeptBy
    <2>5. QED
      BY <2>3, <2>4
  <1>5. QED
    BY <1>3, <1>4, LoadTableCases

LEMMA ClearKeeps ==
    ASSUME LoadsInv, ClearVuurmuurRules \/ ClearAllRules, NEW f \in Family,
           NEW x \in DOMAIN kernel[f].filter.chains, "MINE" \in kernel[f].filter.chains[x]
    PROVE  KeptBy(f, x)
  <1>1. TypeOK /\ ~up'
    BY ClearLemma DEF LoadsInv, WholeInv, daemon
  <1>2. PICK t \in ToSet(Tables(f)) : t = "filter"
    BY TablesLemma DEF Family
  <1>3. Ordered(kernel[f][t].chains)
    BY DEF LoadsInv, KernelInv
  <1>4. CASE kernel'[f][t] = kernel[f][t] \/ kernel'[f][t] = Empty
    BY <1>1, <1>2, <1>4 DEF KeptBy
  <1>5. CASE kernel'[f][t] = Flushed(kernel[f][t]) /\ x = "PRE-VRMR"
    <2>1. DOMAIN Flushed(kernel[f][t]).chains = DOMAIN kernel[f][t].chains
      BY DEF Flushed
    <2>2. QED
      BY <1>2, <1>3, <1>5, <2>1, FlushedOrdered DEF KeptBy
  <1>6. QED
    BY <1>1, <1>2, <1>4, <1>5, ClearedTables DEF KeptBy

LEMMA FillKeeps ==
    ASSUME LoadsInv, NEW g \in Family, NEW chain, UserFills(g, chain), NEW f \in Family,
           NEW x \in DOMAIN kernel[f].filter.chains, "MINE" \in kernel[f].filter.chains[x]
    PROVE  KeptBy(f, x)
  <1> DEFINE c == kernel[g].filter.chains
             d == [y \in DOMAIN c \union {"MINE"} |->
                      IF y = chain THEN {"MINE"} ELSE IF y = "MINE" THEN {} ELSE c[y]]
  <1>1. /\ c[chain] = {}
        /\ \A h \in Family : \A u \in ToSet(Tables(h)) :
              kernel'[h][u].chains = IF h = g /\ u = "filter" THEN d ELSE kernel[h][u].chains
    <2>1. TypeOK
      BY DEF LoadsInv, WholeInv
    <2>2. c[chain] = {}
      BY DEF UserFills
    <2>3. \A h \in Family : \A u \in ToSet(Tables(h)) :
             kernel'[h][u].chains = IF h = g /\ u = "filter" THEN d ELSE kernel[h][u].chains
      BY <2>1, Filled
    <2>4. QED
      BY <2>2, <2>3
  <1>2. PICK t \in ToSet(Tables(f)) : t = "filter"
    BY TablesLemma DEF Family
  <1>3. x # "MINE"
    BY <1>2 DEF LoadsInv, KernelInv, Ordered
  <1>4. CASE f = g
    <2>1. x \in DOMAIN c /\ "MINE" \in c[x] /\ x # chain
      BY <1>1, <1>4
    <2>2. x \in DOMAIN d /\ d[x] = c[x]
      BY <1>3, <2>1
    <2> HIDE DEF c, d
    <2>3. kernel'[f].filter.chains = d
      BY <1>1, <1>2, <1>4
    <2>4. QED
      BY <2>1, <2>2, <2>3 DEF KeptBy
  <1>5. CASE f # g
    <2> HIDE DEF c, d
    <2>1. kernel'[f].filter.chains = kernel[f].filter.chains
      BY <1>1, <1>2, <1>5
    <2>2. QED
      BY <2>1 DEF KeptBy
  <1>6. QED
    BY <1>4, <1>5

\* No load touches what the user has put into PRE-VRMR-* and into chains of his
\* own, whether it succeeds, fails or is refused; nor does vuurmuur -D with PRE-VRMR-*.
THEOREM UserChainsTheorem == Spec => UserChainsKept
  <1> DEFINE Keeps == \A f \in Family : \A x \in DOMAIN kernel[f].filter.chains :
                         "MINE" \in kernel[f].filter.chains[x] =>
                             \/ x \in DOMAIN kernel'[f].filter.chains /\ "MINE" \in kernel'[f].filter.chains[x]
                             \/ ~up' /\ (x # "PRE-VRMR" \/ kernel'[f].filter = Empty)
  <1>1. LoadsInv /\ [Next]_vars => [Keeps]_vars
    <2> SUFFICES ASSUME LoadsInv, Next, NEW f \in Family, NEW x \in DOMAIN kernel[f].filter.chains,
                        "MINE" \in kernel[f].filter.chains[x]
                 PROVE  KeptBy(f, x)
      BY DEF KeptBy
    <2>1. CASE \/ Configure \/ Load \/ SaveInterfaceCounters \/ CreateRuleset \/ CreateFails
               \/ GetSystemChains \/ FileFails \/ LoadShape \/ LoadFails \/ LoadDone \/ Stop
               \/ \E d \in ToSet(Devices) : Traffic(d)
      <3>1. kernel' = kernel
        BY <2>1 DEF Configure, Load, SaveInterfaceCounters, CreateRuleset, CreateFails, GetSystemChains,
                    FileFails, LoadShape, LoadFails, LoadDone, Stop, Traffic, system
      <3>2. QED
        BY <3>1 DEF KeptBy
    <2>2. QED
      BY <2>1, LoadKeeps, ClearKeeps, FillKeeps DEF Next
  <1>2. QED
    BY <1>1, InitLoads, NextLoads, PTL DEF Spec, UserChainsKept

-----------------------------------------------------------------------------
(* Lists.                                                                  *)

LEMMA ListFacts ==
    ASSUME NEW s, IsList(s)
    PROVE  Len(s) \in Nat /\ DOMAIN s = 1..Len(s) /\ s = [n \in 1..Len(s) |-> s[n]]
  BY DEF IsList

LEMMA ListMade ==
    ASSUME NEW N \in Nat, NEW s, s = [n \in 1..N |-> s[n]]
    PROVE  IsList(s) /\ Len(s) = N /\ DOMAIN s = 1..N
  <1> DEFINE X == {s[n] : n \in DOMAIN s}
  <1>1. \A n \in 1..N : s[n] \in X
    OBVIOUS
  <1> HIDE DEF X
  <1>2. s \in Seq(X) /\ Len(s) = N /\ DOMAIN s = 1..N
    BY <1>1
  <1> QED
    BY <1>2 DEF IsList, X

LEMMA ListNone == IsList(<< >>) /\ Len(<< >>) = 0 /\ ToSet(<< >>) = {}
  BY DEF IsList, ToSet

LEMMA ListOne == ASSUME NEW x PROVE IsList(<< x >>) /\ Len(<< x >>) = 1 /\ ToSet(<< x >>) = {x}
  BY DEF IsList, ToSet

LEMMA ListOfSeq == ASSUME NEW X, NEW u \in Seq(X) PROVE IsList(u)
  <1>1. Len(u) \in Nat /\ u = [n \in 1..Len(u) |-> u[n]]
    OBVIOUS
  <1> QED
    BY <1>1, ListMade

LEMMA ListBoth ==
    ASSUME NEW s, NEW t, IsList(s), IsList(t)
    PROVE  /\ IsList(s \o t) /\ Len(s \o t) = Len(s) + Len(t)
           /\ \A n \in 1..Len(s) : (s \o t)[n] = s[n]
           /\ \A n \in 1..Len(t) : (s \o t)[Len(s) + n] = t[n]
  <1> DEFINE X == {s[n] : n \in DOMAIN s} \union {t[n] : n \in DOMAIN t}
  <1>1. s \in Seq(X) /\ t \in Seq(X)
    <2>1. (\A n \in DOMAIN s : s[n] \in X) /\ \A n \in DOMAIN t : t[n] \in X
      OBVIOUS
    <2> HIDE DEF X
    <2> QED
      BY <2>1, ListFacts
  <1> HIDE DEF X
  <1>2. /\ s \o t \in Seq(X) /\ Len(s \o t) = Len(s) + Len(t)
        /\ \A n \in 1..Len(s) : (s \o t)[n] = s[n]
        /\ \A n \in 1..Len(t) : (s \o t)[Len(s) + n] = t[n]
    BY <1>1
  <1>3. IsList(s \o t)
    BY <1>2, ListOfSeq
  <1> QED
    BY <1>2, <1>3

LEMMA SetOfBoth ==
    ASSUME NEW s, NEW t, IsList(s), IsList(t)
    PROVE  ToSet(s \o t) = ToSet(s) \union ToSet(t)
  <1>1. /\ DOMAIN s = 1..Len(s) /\ DOMAIN t = 1..Len(t) /\ Len(s) \in Nat /\ Len(t) \in Nat
        /\ DOMAIN (s \o t) = 1..(Len(s) + Len(t))
    BY ListFacts, ListBoth
  <1>2. ASSUME NEW n \in 1..(Len(s) + Len(t)) PROVE (s \o t)[n] \in ToSet(s) \union ToSet(t)
    <2>1. CASE n <= Len(s)
      BY <1>1, <2>1, ListBoth DEF ToSet
    <2>2. CASE n > Len(s)
      <3>1. n - Len(s) \in 1..Len(t) /\ n = Len(s) + (n - Len(s))
        BY <1>1, <2>2
      <3>2. (s \o t)[n] = t[n - Len(s)]
        BY <3>1, ListBoth
      <3> QED
        BY <1>1, <3>1, <3>2 DEF ToSet
    <2> QED
      BY <1>1, <2>1, <2>2
  <1>3. ASSUME NEW n \in 1..Len(s) PROVE s[n] \in ToSet(s \o t)
    <2>1. n \in 1..(Len(s) + Len(t)) /\ (s \o t)[n] = s[n]
      BY <1>1, ListBoth
    <2> QED
      BY <1>1, <2>1 DEF ToSet
  <1>4. ASSUME NEW n \in 1..Len(t) PROVE t[n] \in ToSet(s \o t)
    <2>1. Len(s) + n \in 1..(Len(s) + Len(t)) /\ (s \o t)[Len(s) + n] = t[n]
      BY <1>1, ListBoth
    <2> QED
      BY <1>1, <2>1 DEF ToSet
  <1> QED
    BY <1>1, <1>2, <1>3, <1>4 DEF ToSet

(* FlattenSeq().  Every element has its place in one of the lists, and the *)
(* elements of an earlier list are in front of those of a later one.       *)
Joined(s, g, N) == g = [i \in 1..N |-> IF i = 1 THEN s[i] ELSE g[i - 1] \o s[i]]

\* the function that FlattenSeq() adds lists up with is there, for any number of lists
LEMMA FlattenExists ==
    ASSUME NEW s, IsList(s), Len(s) # 0
    PROVE  \E g : Joined(s, g, Len(s)) /\ FlattenSeq(s) = g[Len(s)]
  <1> DEFINE N == Len(s)
             T == {m \in Nat : \E g : Joined(s, g, m)}
  <1>1. 0 \in T
    <2>1. Joined(s, [i \in 1..0 |-> s], 0)
      BY DEF Joined
    <2> QED
      BY <2>1
  <1>2. ASSUME NEW m \in Nat, m \in T PROVE m + 1 \in T
    <2>1. PICK g : Joined(s, g, m)
      BY <1>2
    <2> DEFINE last == IF m = 0 THEN s[1] ELSE g[m] \o s[m + 1]
               h == [i \in 1..(m + 1) |-> IF i = m + 1 THEN last ELSE g[i]]
    <2>2. ASSUME NEW i \in 1..(m + 1)
          PROVE  h[i] = IF i = 1 THEN s[i] ELSE h[i - 1] \o s[i]
      <3>1. CASE i = m + 1 /\ m = 0
        BY <3>1
      <3>2. CASE i = m + 1 /\ m # 0
        <4>1. i # 1 /\ i - 1 = m /\ m \in 1..(m + 1) /\ m # m + 1
          BY <3>2
        <4>2. h[i - 1] = g[m] /\ h[i] = g[m] \o s[i]
          BY <3>2, <4>1
        <4> QED
          BY <4>1, <4>2
      <3>3. CASE i # m + 1
        <4>1. i \in 1..m /\ (i # 1 => i - 1 \in 1..(m + 1) /\ i - 1 # m + 1)
          BY <3>3
        <4>2. g[i] = IF i = 1 THEN s[i] ELSE g[i - 1] \o s[i]
          BY <2>1, <4>1 DEF Joined
        <4>3. h[i] = g[i] /\ (i # 1 => h[i - 1] = g[i - 1])
          BY <3>3, <4>1
        <4> QED
          BY <4>2, <4>3
      <3> QED
        BY <3>1, <3>2, <3>3
    <2>3. h = [i \in 1..(m + 1) |-> h[i]]
      OBVIOUS
    <2> HIDE DEF h
    <2>4. Joined(s, h, m + 1)
      BY <2>2, <2>3 DEF Joined
    <2> QED
      BY <2>4
  <1>3. Nat \subseteq T
    <2> HIDE DEF T
    <2> QED
      BY <1>1, <1>2, NatSets
  <1>4. N \in Nat
    BY ListFacts
  <1>5. PICK g : Joined(s, g, N)
    BY <1>3, <1>4
  <1> DEFINE flatten[i \in 1..N] == IF i = 1 THEN s[i] ELSE flatten[i - 1] \o s[i]
  <1>6. flatten = [i \in 1..N |-> IF i = 1 THEN s[i] ELSE flatten[i - 1] \o s[i]]
    <2>1. \E f : f = [i \in 1..N |-> IF i = 1 THEN s[i] ELSE f[i - 1] \o s[i]]
      BY <1>5 DEF Joined
    <2> QED
      BY <2>1
  <1>7. FlattenSeq(s) = flatten[N]
    BY DEF FlattenSeq
  <1> HIDE DEF flatten
  <1> QED
    BY <1>6, <1>7 DEF Joined

\* f has the elements of the first m lists of s, those of each behind the others
Gathers(f, s, m) ==
    /\ IsList(f)
    /\ \A i \in 1..m : \A j \in DOMAIN s[i] : \E k \in DOMAIN f : f[k] = s[i][j]
    /\ \A k \in DOMAIN f : \E i \in 1..m : \E j \in DOMAIN s[i] :
          /\ f[k] = s[i][j]
          /\ \A i1 \in 1..(i - 1) : \A j1 \in DOMAIN s[i1] : \E k1 \in 1..(k - 1) : f[k1] = s[i1][j1]

LEMMA GathersMore ==
    ASSUME NEW m \in Nat, NEW s, NEW f, Gathers(f, s, m), IsList(s[m + 1])
    PROVE  Gathers(f \o s[m + 1], s, m + 1)
  <1> DEFINE t == s[m + 1]
             h == f \o t
             L == Len(f)
  <1>1. /\ IsList(f) /\ IsList(t) /\ IsList(h) /\ L \in Nat /\ Len(t) \in Nat
        /\ DOMAIN f = 1..L /\ DOMAIN t = 1..Len(t) /\ DOMAIN h = 1..(L + Len(t))
        /\ \A n \in 1..L : h[n] = f[n]
        /\ \A n \in 1..Len(t) : h[L + n] = t[n]
    BY ListFacts, ListBoth DEF Gathers
  <1> HIDE DEF h, t, L
  <1>2. \A i \in 1..m : \A j \in DOMAIN s[i] : \E k \in 1..L : h[k] = s[i][j]
    <2>1. \A i \in 1..m : \A j \in DOMAIN s[i] : \E k \in 1..L : f[k] = s[i][j]
      BY <1>1 DEF Gathers
    <2> QED
      BY <1>1, <2>1
  <1>3. ASSUME NEW i \in 1..(m + 1), NEW j \in DOMAIN s[i] PROVE \E k \in DOMAIN h : h[k] = s[i][j]
    <2>1. CASE i \in 1..m
      BY <1>1, <1>2, <2>1
    <2>2. CASE i = m + 1
      <3>1. j \in 1..Len(t) /\ L + j \in DOMAIN h /\ h[L + j] = t[j]
        BY <1>1, <2>2 DEF t
      <3> QED
        BY <2>2, <3>1 DEF t
    <2> QED
      BY <2>1, <2>2
  <1>4. ASSUME NEW k \in DOMAIN h
        PROVE  \E i \in 1..(m + 1) : \E j \in DOMAIN s[i] :
                  /\ h[k] = s[i][j]
                  /\ \A i1 \in 1..(i - 1) : \A j1 \in DOMAIN s[i1] : \E k1 \in 1..(k - 1) : h[k1] = s[i1][j1]
    <2>1. CASE k <= L
      <3>1. k \in DOMAIN f /\ h[k] = f[k] /\ \A k1 \in 1..(k - 1) : h[k1] = f[k1]
        BY <1>1, <2>1
      <3>5. PICK i \in 1..m : \E j \in DOMAIN s[i] :
              /\ f[k] = s[i][j]
              /\ \A i1 \in 1..(i - 1) : \A j1 \in DOMAIN s[i1] : \E k1 \in 1..(k - 1) : f[k1] = s[i1][j1]
        BY <3>1 DEF Gathers
      <3>2. PICK j \in DOMAIN s[i] :
              /\ f[k] = s[i][j]
              /\ \A i1 \in 1..(i - 1) : \A j1 \in DOMAIN s[i1] : \E k1 \in 1..(k - 1) : f[k1] = s[i1][j1]
        BY <3>5
      <3>3. i \in 1..(m + 1)
        OBVIOUS
      <3>4. \A i1 \in 1..(i - 1) : \A j1 \in DOMAIN s[i1] : \E k1 \in 1..(k - 1) : h[k1] = s[i1][j1]
        BY <3>1, <3>2
      <3> QED
        BY <3>1, <3>2, <3>3, <3>4
    <2>2. CASE k > L
      <3>1. k - L \in 1..Len(t) /\ h[k] = t[k - L] /\ 1..L \subseteq 1..(k - 1)
        <4>1. k - L \in 1..Len(t) /\ k = L + (k - L)
          BY <1>1, <2>2
        <4>2. h[L + (k - L)] = t[k - L]
          BY <1>1, <4>1
        <4> QED
          BY <1>1, <2>2, <4>1, <4>2
      <3>2. m + 1 \in 1..(m + 1) /\ 1..((m + 1) - 1) = 1..m /\ DOMAIN s[m + 1] = 1..Len(t) /\ h[k] = s[m + 1][k - L]
        BY <1>1, <3>1 DEF t
      <3>3. \A i1 \in 1..m : \A j1 \in DOMAIN s[i1] : \E k1 \in 1..(k - 1) : h[k1] = s[i1][j1]
        BY <1>2, <3>1
      <3> QED
        BY <3>1, <3>2, <3>3
    <2> QED
      BY <1>1, <2>1, <2>2
  <1> QED
    BY <1>1, <1>3, <1>4 DEF Gathers, h, t

LEMMA FlattenGathers ==
    ASSUME NEW s, IsList(s), \A n \in DOMAIN s : IsList(s[n])
    PROVE  Gathers(FlattenSeq(s), s, Len(s))
  <1>1. Len(s) \in Nat /\ DOMAIN s = 1..Len(s)
    BY ListFacts
  <1>2. CASE Len(s) = 0
    <2>1. FlattenSeq(s) = s /\ DOMAIN s = {}
      BY <1>1, <1>2 DEF FlattenSeq
    <2> QED
      BY <1>2, <2>1 DEF Gathers
  <1>3. CASE Len(s) # 0
    <2>1. PICK g : Joined(s, g, Len(s)) /\ FlattenSeq(s) = g[Len(s)]
      BY <1>3, FlattenExists
    <2> DEFINE T == {m \in Nat : m + 1 \in 1..Len(s) => Gathers(g[m + 1], s, m + 1)}
    <2>2. 0 \in T
      <3>1. g[1] = s[1] /\ IsList(s[1])
        BY <1>1, <1>3, <2>1 DEF Joined
      <3>2. Gathers(s[1], s, 1)
        BY <3>1 DEF Gathers
      <3> QED
        BY <3>1, <3>2
    <2>3. ASSUME NEW m \in Nat, m \in T PROVE m + 1 \in T
      <3>1. SUFFICES ASSUME (m + 1) + 1 \in 1..Len(s) PROVE Gathers(g[(m + 1) + 1], s, (m + 1) + 1)
        OBVIOUS
      <3>2. Gathers(g[m + 1], s, m + 1) /\ IsList(s[(m + 1) + 1])
        BY <1>1, <2>3, <3>1
      <3>3. g[(m + 1) + 1] = g[m + 1] \o s[(m + 1) + 1]
        <4>1. (m + 1) + 1 # 1 /\ ((m + 1) + 1) - 1 = m + 1
          OBVIOUS
        <4> QED
          BY <2>1, <3>1, <4>1 DEF Joined
      <3> QED
        BY <3>2, <3>3, GathersMore
    <2>4. Nat \subseteq T
      <3> HIDE DEF T
      <3> QED
        BY <2>2, <2>3, NatSets
    <2>5. Len(s) - 1 \in Nat /\ (Len(s) - 1) + 1 = Len(s) /\ Len(s) \in 1..Len(s)
      BY <1>1, <1>3
    <2> QED
      BY <2>1, <2>4, <2>5
  <1> QED
    BY <1>2, <1>3

LEMMA FlattenLemma ==
    ASSUME NEW s, IsList(s), \A n \in DOMAIN s : IsList(s[n])
    PROVE  /\ IsList(FlattenSeq(s))
           /\ ToSet(FlattenSeq(s)) = UNION {ToSet(s[n]) : n \in DOMAIN s}
  <1>1. Gathers(FlattenSeq(s), s, Len(s)) /\ DOMAIN s = 1..Len(s)
    BY FlattenGathers, ListFacts
  <1> DEFINE f == FlattenSeq(s)
  <1> HIDE DEF f
  <1>2. ASSUME NEW k \in DOMAIN f PROVE \E n \in DOMAIN s : f[k] \in ToSet(s[n])
    BY <1>1 DEF Gathers, f, ToSet
  <1>3. ASSUME NEW n \in DOMAIN s, NEW j \in DOMAIN s[n] PROVE s[n][j] \in ToSet(f)
    BY <1>1 DEF Gathers, f, ToSet
  <1>4. ToSet(f) = UNION {ToSet(s[n]) : n \in DOMAIN s}
    BY <1>2, <1>3 DEF ToSet
  <1> QED
    BY <1>1, <1>4 DEF Gathers, f

LEMMA ListMore ==
    ASSUME NEW s, NEW x, IsList(s)
    PROVE  /\ IsList(Append(s, x)) /\ Len(Append(s, x)) = Len(s) + 1
           /\ \A n \in 1..Len(s) : Append(s, x)[n] = s[n]
           /\ Append(s, x)[Len(s) + 1] = x
           /\ ToSet(Append(s, x)) = ToSet(s) \union {x}
  <1> DEFINE X == {s[n] : n \in DOMAIN s} \union {x}
             t == Append(s, x)
  <1>1. s \in Seq(X) /\ x \in X
    <2>1. \A n \in DOMAIN s : s[n] \in X
      OBVIOUS
    <2> QED
      BY <2>1, ListFacts
  <1> HIDE DEF X
  <1>2. t \in Seq(X) /\ Len(t) = Len(s) + 1 /\ (\A n \in 1..Len(s) : t[n] = s[n]) /\ t[Len(s) + 1] = x
    BY <1>1
  <1> HIDE DEF t
  <1>3. IsList(t) /\ DOMAIN t = 1..(Len(s) + 1) /\ DOMAIN s = 1..Len(s) /\ Len(s) \in Nat
    BY <1>2, ListOfSeq, ListFacts
  <1>4. ToSet(t) = ToSet(s) \union {x}
    <2>1. ASSUME NEW n \in DOMAIN t PROVE t[n] \in ToSet(s) \union {x}
      BY <1>2, <1>3 DEF ToSet
    <2>2. x \in ToSet(t)
      BY <1>2, <1>3 DEF ToSet
    <2>3. ASSUME NEW n \in DOMAIN s PROVE s[n] \in ToSet(t)
      BY <1>2, <1>3 DEF ToSet
    <2> QED
      BY <2>1, <2>2, <2>3 DEF ToSet
  <1> QED
    BY <1>2, <1>3, <1>4 DEF t

-----------------------------------------------------------------------------
(* The queue of a rule: what its lines are, and that a line that logs is   *)
(* in front of each that decides about the same packets.                   *)

Bases == {"INPUT", "OUTPUT", "FORWARD"}
\* a line of the filter table of a rule is in a hook: INPUT, OUTPUT or FORWARD
InBase(l) == l.table = "filter" => l.chain \in Bases
\* two lines that match the same packets (but for the limit of a line that logs)
SameMatch(l, m) ==
    /\ l.table = m.table /\ l.chain = m.chain /\ l.ipv = m.ipv
    /\ l.in = m.in /\ l.out = m.out /\ l.proto = m.proto /\ l.sport = m.sport /\ l.dport = m.dport
    /\ l.mac = m.mac /\ l.helper = m.helper /\ l.src = m.src /\ l.dst = m.dst
    /\ l.flags = m.flags /\ l.states = m.states /\ l.marks = m.marks
IsLog(l) == l.target.t \in LogTargets
Settles(l) == l.table = "filter" /\ ~IsLog(l)
LogBefore(s, k) == Settles(s[k]) => \E j \in 1..(k - 1) : IsLog(s[j]) /\ SameMatch(s[j], s[k])
LogsFirst(s) == \A k \in DOMAIN s : LogBefore(s, k)

Queued(g, queue, s, N) == g = [n \in 0..N |-> IF n = 0 THEN queue ELSE Enqueue(g[n - 1], s[n])]

LEMMA QueueExists ==
    ASSUME NEW queue, NEW s, IsList(s)
    PROVE  \E g : Queued(g, queue, s, Len(s)) /\ Queue(queue, s) = g[Len(s)]
  <1> DEFINE N == Len(s)
             Step1(q, n) == Enqueue(q, s[n])
             T == {m \in Nat : \E g : g = [n \in 0..m |-> IF n = 0 THEN queue ELSE Step1(g[n - 1], n)]}
  <1>1. N \in Nat
    BY ListFacts
  <1> HIDE DEF Step1
  <1>2. 0 \in T
    <2>1. [n \in 0..0 |-> queue] = [n \in 0..0 |-> IF n = 0 THEN queue ELSE Step1([i \in 0..0 |-> queue][n - 1], n)]
      OBVIOUS
    <2> QED
      BY <2>1
  <1>3. ASSUME NEW m \in Nat, m \in T PROVE m + 1 \in T
    <2>1. PICK g : g = [n \in 0..m |-> IF n = 0 THEN queue ELSE Step1(g[n - 1], n)]
      BY <1>3
    <2> DEFINE h == [n \in 0..(m + 1) |-> IF n = m + 1 THEN Step1(g[m], n) ELSE g[n]]
    <2>2. ASSUME NEW n \in 0..(m + 1) PROVE h[n] = IF n = 0 THEN queue ELSE Step1(h[n - 1], n)
      <3>1. CASE n = m + 1
        <4>1. h[n - 1] = g[m] /\ h[n] = Step1(g[m], n) /\ n # 0
          BY <3>1
        <4> QED
          BY <4>1
      <3>2. CASE n # m + 1
        <4>1. n \in 0..m /\ (n # 0 => n - 1 \in 0..(m + 1) /\ n - 1 # m + 1)
          BY <3>2
        <4>2. g[n] = IF n = 0 THEN queue ELSE Step1(g[n - 1], n)
          BY <2>1, <4>1
        <4>3. h[n] = g[n] /\ (n # 0 => h[n - 1] = g[n - 1])
          BY <3>2, <4>1
        <4> QED
          BY <4>2, <4>3
      <3> QED
        BY <3>1, <3>2
    <2>3. h = [n \in 0..(m + 1) |-> h[n]]
      OBVIOUS
    <2> HIDE DEF h
    <2>4. h = [n \in 0..(m + 1) |-> IF n = 0 THEN queue ELSE Step1(h[n - 1], n)]
      BY <2>2, <2>3
    <2> QED
      BY <2>4
  <1>4. Nat \subseteq T
    <2> HIDE DEF T
    <2> QED
      BY <1>2, <1>3, NatSets
  <1> DEFINE after[n \in 0..N] == IF n = 0 THEN queue ELSE Step1(after[n - 1], n)
  <1>5. after = [n \in 0..N |-> IF n = 0 THEN queue ELSE Step1(after[n - 1], n)]
    <2>1. \E f : f = [n \in 0..N |-> IF n = 0 THEN queue ELSE Step1(f[n - 1], n)]
      BY <1>1, <1>4
    <2> QED
      BY <2>1
  <1>6. Queue(queue, s) = after[N]
    BY DEF Queue, Loop, Step1
  <1> HIDE DEF after
  <1> QED
    BY <1>5, <1>6 DEF Queued, Step1

\* a line is appended, or is there already: what is in front of a line stays there
LEMMA EnqueueLemma ==
    ASSUME NEW q, NEW l, IsList(q)
    PROVE  /\ IsList(Enqueue(q, l)) /\ ToSet(Enqueue(q, l)) = ToSet(q) \union {l}
           /\ LogsFirst(q) /\ (Settles(l) => \E m \in ToSet(q) : IsLog(m) /\ SameMatch(m, l))
              => LogsFirst(Enqueue(q, l))
  <1>1. CASE Contains(q, l)
    <2>1. l \in ToSet(q)
      BY <1>1, ListFacts DEF Contains, ToSet
    <2> QED
      BY <1>1, <2>1 DEF Enqueue
  <1>2. CASE ~Contains(q, l)
    <2> DEFINE t == Append(q, l)
    <2>1. /\ Enqueue(q, l) = t /\ IsList(t) /\ ToSet(t) = ToSet(q) \union {l}
          /\ Len(q) \in Nat /\ DOMAIN q = 1..Len(q) /\ DOMAIN t = 1..(Len(q) + 1)
          /\ (\A n \in 1..Len(q) : t[n] = q[n]) /\ t[Len(q) + 1] = l
      BY <1>2, ListMore, ListFacts DEF Enqueue
    <2> HIDE DEF t
    <2>2. ASSUME LogsFirst(q), Settles(l) => \E m \in ToSet(q) : IsLog(m) /\ SameMatch(m, l), NEW k \in DOMAIN t
          PROVE  LogBefore(t, k)
      <3>1. CASE k \in DOMAIN q
        <4>1. LogBefore(q, k) /\ t[k] = q[k] /\ \A j \in 1..(k - 1) : t[j] = q[j]
          BY <2>1, <2>2, <3>1 DEF LogsFirst
        <4> QED
          BY <4>1 DEF LogBefore
      <3>2. CASE k = Len(q) + 1
        <4>1. ASSUME Settles(l) PROVE \E j \in 1..(k - 1) : IsLog(t[j]) /\ SameMatch(t[j], l)
          <5>1. PICK j \in 1..Len(q) : IsLog(q[j]) /\ SameMatch(q[j], l)
            BY <2>1, <2>2, <4>1 DEF ToSet
          <5>2. j \in 1..(k - 1) /\ t[j] = q[j]
            BY <2>1, <3>2
          <5> QED
            BY <5>1, <5>2
        <4> QED
          BY <2>1, <3>2, <4>1 DEF LogBefore
      <3> QED
        BY <2>1, <3>1, <3>2
    <2> QED
      BY <2>1, <2>2 DEF LogsFirst
  <1> QED
    BY <1>1, <1>2

LEMMA QueueLemma ==
    ASSUME NEW queue, NEW s, IsList(queue), IsList(s)
    PROVE  /\ IsList(Queue(queue, s)) /\ ToSet(Queue(queue, s)) = ToSet(queue) \union ToSet(s)
           /\ LogsFirst(queue) /\ LogsFirst(s) => LogsFirst(Queue(queue, s))
  <1>1. PICK g : Queued(g, queue, s, Len(s)) /\ Queue(queue, s) = g[Len(s)]
    BY QueueExists
  <1>2. Len(s) \in Nat /\ DOMAIN s = 1..Len(s)
    BY ListFacts
  <1> DEFINE Good(n) == /\ IsList(g[n]) /\ ToSet(g[n]) = ToSet(queue) \union {s[i] : i \in 1..n}
                        /\ LogsFirst(queue) /\ LogsFirst(s) => LogsFirst(g[n])
             T == {n \in Nat : n <= Len(s) => Good(n)}
  <1>3. 0 \in T
    <2>1. g[0] = queue
      BY <1>1, <1>2 DEF Queued
    <2>2. 1..0 = {}
      OBVIOUS
    <2> QED
      BY <2>1, <2>2
  <1>4. ASSUME NEW n \in Nat, n \in T PROVE n + 1 \in T
    <2>1. SUFFICES ASSUME n + 1 <= Len(s) PROVE Good(n + 1)
      OBVIOUS
    <2>2. Good(n)
      BY <1>2, <1>4, <2>1
    <2>3. g[n + 1] = Enqueue(g[n], s[n + 1])
      <3>1. n + 1 \in 0..Len(s) /\ n + 1 # 0 /\ (n + 1) - 1 = n
        BY <1>2, <2>1
      <3> QED
        BY <1>1, <3>1 DEF Queued
    <2>4. IsList(g[n + 1]) /\ ToSet(g[n + 1]) = ToSet(g[n]) \union {s[n + 1]}
      BY <2>2, <2>3, EnqueueLemma
    <2>5. {s[i] : i \in 1..(n + 1)} = {s[i] : i \in 1..n} \union {s[n + 1]}
      OBVIOUS
    <2>6. ASSUME LogsFirst(queue), LogsFirst(s) PROVE LogsFirst(g[n + 1])
      <3>1. ASSUME Settles(s[n + 1]) PROVE \E m \in ToSet(g[n]) : IsLog(m) /\ SameMatch(m, s[n + 1])
        <4>1. n + 1 \in DOMAIN s /\ (n + 1) - 1 = n
          BY <1>2, <2>1
        <4>2. PICK j \in 1..n : IsLog(s[j]) /\ SameMatch(s[j], s[n + 1])
          BY <2>6, <3>1, <4>1 DEF LogsFirst, LogBefore
        <4> QED
          BY <2>2, <4>2
      <3> QED
        BY <2>2, <2>3, <2>6, <3>1, EnqueueLemma
    <2> QED
      BY <2>2, <2>4, <2>5, <2>6
  <1>5. Nat \subseteq T
    <2> HIDE DEF T
    <2> QED
      BY <1>3, <1>4, NatSets
  <1>6. Good(Len(s))
    BY <1>2, <1>5
  <1>7. ToSet(s) = {s[i] : i \in 1..Len(s)}
    BY <1>2 DEF ToSet
  <1> QED
    BY <1>1, <1>6, <1>7

-----------------------------------------------------------------------------
(* The fields of a line.                                                   *)

\* matches that leave the heading of a line alone
Heading == {"ipv", "table", "chain", "target"}
Plain(m) == DOMAIN m \intersect Heading = {}

LEMMA LineFields ==
    ASSUME NEW f, NEW table, NEW chain, NEW match, NEW target, Plain(match)
    PROVE  LET l == Line(f, table, chain, match, target)
           IN  /\ l.ipv = f /\ l.table = table /\ l.chain = chain /\ l.target = target
               /\ "states" \in DOMAIN match => l.states = match.states
               /\ "in" \in DOMAIN match => l.in = match.in
               /\ "out" \in DOMAIN match => l.out = match.out
               /\ "limit" \notin DOMAIN match => l.limit = 0
  BY DEF Line, Plain, Heading, ++

LEMMA PlainMerge ==
    ASSUME NEW f, NEW g, Plain(f), Plain(g)
    PROVE  /\ Plain(f ++ g) /\ DOMAIN (f ++ g) = DOMAIN f \union DOMAIN g
           /\ \A x \in DOMAIN f : (f ++ g)[x] = f[x]
           /\ \A x \in DOMAIN g : x \notin DOMAIN f => (f ++ g)[x] = g[x]
  BY DEF Plain, ++

LEMMA PlainParts ==
    ASSUME NEW r, NEW w, NEW s
    PROVE  /\ Plain(There(r, w)) /\ Plain(Back(r, w)) /\ Plain(WithSyn(r)) /\ Plain(Ports(r))
           /\ Plain(SwappedPorts(r)) /\ Plain(NoPorts) /\ Plain(Helper(r)) /\ Plain(Limit(r))
           /\ Plain(InState(s)) /\ Plain([flags |-> s]) /\ Plain([marks |-> s]) /\ Plain(<< >>)
  BY DEF Plain, Heading, There, Back, WithSyn, Ports, SwappedPorts, NoPorts, Helper, Limit, InState

(* The line of a rule in the filter table. *)
LEMMA FilterFields ==
    ASSUME NEW r, NEW w
    PROVE  LET l == FilterLine(r, w)
           IN  /\ l.table = "filter" /\ l.chain = w.chain /\ l.target = r.action /\ l.ipv = r.ipv
               /\ l.in = w.in /\ l.out = w.out /\ l.proto = r.proto /\ l.src = r.src /\ l.dst = r.dst
               /\ l.mac = w.mac /\ l.flags = WithSyn(r).flags /\ l.sport = r.sport /\ l.dport = r.dport
               /\ l.states = {"NEW"} /\ l.helper = None /\ l.marks = None
  BY DEF FilterLine, Line, There, WithSyn, Ports, Limit, InState, ++

-----------------------------------------------------------------------------
(* The lines of a rule that are not in the filter table.                   *)

Aside(s) == IsList(s) /\ \A l \in ToSet(s) : l.table # "filter"

LEMMA AsideNone == Aside(<< >>)
  BY ListNone DEF Aside

LEMMA AsideOne == ASSUME NEW l, l.table # "filter" PROVE Aside(<< l >>)
  BY ListOne DEF Aside

LEMMA AsideBoth == ASSUME NEW s, NEW t, Aside(s), Aside(t) PROVE Aside(s \o t)
  BY ListBoth, SetOfBoth DEF Aside

LEMMA AsideTwo == ASSUME NEW l, NEW m, l.table # "filter", m.table # "filter" PROVE Aside(<< l, m >>)
  <1>1. << l, m >> \in Seq({l, m}) /\ \A n \in DOMAIN << l, m >> : << l, m >>[n] \in {l, m}
    OBVIOUS
  <1> QED
    BY <1>1, ListOfSeq DEF Aside, ToSet

LEMMA AsideConnmark ==
    ASSUME NEW r, NEW c, NEW w, NEW ports, NEW syn, Plain(ports), Plain(syn)
    PROVE  Aside(ConnmarkLines(r, c, w, ports, syn))
  <1> DEFINE unmarked == [marks |-> {0}]
             line(chain, m, s) == Line(r.ipv, "mangle", chain, m ++ unmarked ++ InState(s), Connmark(r, c))
  <1>1. ASSUME NEW chain, NEW m, NEW s, Plain(m) PROVE line(chain, m, s).table = "mangle"
    <2>1. Plain(unmarked) /\ Plain(InState(s))
      BY PlainParts
    <2>2. Plain(m ++ unmarked ++ InState(s))
      BY <1>1, <2>1, PlainMerge
    <2> QED
      BY <2>2, LineFields
  <1> HIDE DEF line
  <1> DEFINE a == << line(w.chain, There(r, w) ++ WithSyn(r) ++ Ports(r), {"NEW", "RELATED"}) >>
             b == << line(w.rchain, Back(r, w) ++ WithSyn(r) ++ ports, {"RELATED"}) >>
             d == << line(w.chain, There(r, w) ++ syn ++ Helper(r), {"RELATED"}),
                     line(w.rchain, Back(r, w) ++ syn ++ Helper(r), {"RELATED"}) >>
  <1>2. Aside(a) /\ Aside(b) /\ Aside(d)
    <2>1. /\ Plain(There(r, w) ++ WithSyn(r) ++ Ports(r)) /\ Plain(Back(r, w) ++ WithSyn(r) ++ ports)
          /\ Plain(There(r, w) ++ syn ++ Helper(r)) /\ Plain(Back(r, w) ++ syn ++ Helper(r))
      BY PlainParts, PlainMerge
    <2> QED
      BY <1>1, <2>1, AsideOne, AsideTwo
  <1>3. ConnmarkLines(r, c, w, ports, syn) =
            a \o (IF r.proto = "icmp" THEN << >> ELSE b)
              \o (IF r.helper = None \/ ~Can("helper") THEN << >> ELSE d)
    BY DEF ConnmarkLines, line
  <1> HIDE DEF a, b, d
  <1> QED
    BY <1>2, <1>3, AsideNone, AsideBoth

LEMMA AsideNfmark == ASSUME NEW r, NEW c, NEW w PROVE Aside(NfmarkLines(r, c, w))
  <1> DEFINE line(chain, m, s) == Line(r.ipv, "mangle", chain, m ++ InState(s), Set("MARK", c.opt.nfmark))
             known == {"RELATED", "ESTABLISHED"}
  <1>1. ASSUME NEW chain, NEW m, NEW s, Plain(m) PROVE line(chain, m, s).table = "mangle"
    <2>1. Plain(m ++ InState(s))
      BY <1>1, PlainParts, PlainMerge
    <2> QED
      BY <2>1, LineFields
  <1> HIDE DEF line
  <1> DEFINE a == << line(w.chain, There(r, w) ++ Ports(r), known \union {"NEW"}),
                     line(w.rchain, Back(r, w) ++ SwappedPorts(r), known) >>
             b == << line(w.chain, There(r, w) ++ Helper(r), known),
                     line(w.rchain, Back(r, w) ++ Helper(r), known) >>
  <1>2. Aside(a) /\ Aside(b)
    <2>1. /\ Plain(There(r, w) ++ Ports(r)) /\ Plain(Back(r, w) ++ SwappedPorts(r))
          /\ Plain(There(r, w) ++ Helper(r)) /\ Plain(Back(r, w) ++ Helper(r))
      BY PlainParts, PlainMerge
    <2> QED
      BY <1>1, <2>1, AsideTwo
  <1>3. NfmarkLines(r, c, w) = a \o (IF r.helper = None \/ ~Can("helper") THEN << >> ELSE b)
    BY DEF NfmarkLines, line
  <1> HIDE DEF a, b
  <1> QED
    BY <1>2, <1>3, AsideNone, AsideBoth

LEMMA AsideShape ==
    ASSUME NEW r, NEW w, NEW chain, NEW there, NEW back, NEW class
    PROVE  Aside(ShapeLines(r, w, chain, there, back, class))
  <1> DEFINE line(m, s, k) == Line(r.ipv, "mangle", chain, m ++ InState(s), k)
             known == {"RELATED", "ESTABLISHED"}
             goes == there /\ Shaped(r.toIf)
             comes == back /\ Shaped(r.fromIf)
             if(cond, l) == IF cond THEN << l >> ELSE << >>
             helper == r.helper # None /\ Can("helper")
             a == line(There(r, w) ++ Ports(r), known \union {"NEW"}, Classify(r.toIf, r.classOut))
             b == line(Back(r, w) ++ SwappedPorts(r), known, Classify(r.fromIf, r.classIn))
             d == line(There(r, w) ++ Helper(r), known, Classify(r.toIf, r.classOut))
             e == line(Back(r, w) ++ Helper(r), known, Classify(r.fromIf, class))
  <1>1. ASSUME NEW m, NEW s, NEW k, Plain(m) PROVE line(m, s, k).table = "mangle"
    <2>1. Plain(m ++ InState(s))
      BY <1>1, PlainParts, PlainMerge
    <2> QED
      BY <2>1, LineFields
  <1> HIDE DEF line
  <1>2. a.table = "mangle" /\ b.table = "mangle" /\ d.table = "mangle" /\ e.table = "mangle"
    <2>1. /\ Plain(There(r, w) ++ Ports(r)) /\ Plain(Back(r, w) ++ SwappedPorts(r))
          /\ Plain(There(r, w) ++ Helper(r)) /\ Plain(Back(r, w) ++ Helper(r))
      BY PlainParts, PlainMerge
    <2> QED
      BY <1>1, <2>1
  <1>3. ShapeLines(r, w, chain, there, back, class) =
            if(goes, a) \o if(comes, b) \o if(helper /\ goes, d) \o if(helper /\ comes, e)
    BY DEF ShapeLines, line
  <1> HIDE DEF a, b, d, e, goes, comes, helper
  <1>4. Aside(if(goes, a)) /\ Aside(if(comes, b)) /\ Aside(if(helper /\ goes, d)) /\ Aside(if(helper /\ comes, e))
    BY <1>2, AsideNone, AsideOne
  <1> HIDE DEF if
  <1> QED
    BY <1>3, <1>4, AsideBoth

(* A way of a rule has one line in the filter table, and that line first.  *)
OneLine(s, r, w) ==
    \/ s = << >> /\ ~Supported(r)
    \/ \E t : Aside(t) /\ s = << FilterLine(r, w) >> \o t

LEMMA JoinTwice ==
    ASSUME NEW s, NEW t, NEW u, IsList(s), IsList(t), IsList(u)
    PROVE  s \o t \o u = s \o (t \o u)
  <1> DEFINE X == ToSet(s) \union ToSet(t) \union ToSet(u)
  <1>1. s \in Seq(X) /\ t \in Seq(X) /\ u \in Seq(X)
    <2>1. (\A n \in DOMAIN s : s[n] \in X) /\ (\A n \in DOMAIN t : t[n] \in X) /\ \A n \in DOMAIN u : u[n] \in X
      BY DEF ToSet
    <2> HIDE DEF X
    <2> QED
      BY <2>1, ListFacts
  <1> HIDE DEF X
  <1> QED
    BY <1>1

LEMMA OneLineOf ==
    ASSUME NEW r, NEW w, NEW marks, NEW rest, Aside(marks), Aside(rest)
    PROVE  /\ OneLine(<< FilterLine(r, w) >> \o marks \o rest, r, w)
           /\ OneLine(IF ~Supported(r) THEN << >> ELSE << FilterLine(r, w) >> \o marks \o rest, r, w)
  <1>1. Aside(marks \o rest)
    BY AsideBoth
  <1>2. << FilterLine(r, w) >> \o marks \o rest = << FilterLine(r, w) >> \o (marks \o rest)
    BY JoinTwice, ListOne DEF Aside
  <1> QED
    BY <1>1, <1>2 DEF OneLine

LEMMA WayLines ==
    ASSUME NEW r, NEW c
    PROVE  /\ OneLine(CreateRuleInput(r, c), r, InputWay(r))
           /\ OneLine(CreateRuleOutput(r, c), r, OutputWay(r))
           /\ OneLine(CreateRuleForward(r, c), r, ForwardWay(r))
  <1> DEFINE Marking(s) == IF Connmarks(r) THEN s ELSE << >>
             Others(nf, shape) ==
                 IF ConnmarkReturns(r) THEN << >>
                 ELSE (IF Nfmarks(r, c) THEN nf ELSE << >>)
                      \o (IF NfmarkReturns(r, c) \/ ~ShapesLine(r, c) THEN << >> ELSE shape)
  <1>1. ASSUME NEW s, NEW nf, NEW shape, Aside(s), Aside(nf), Aside(shape)
        PROVE  Aside(Marking(s)) /\ Aside(Others(nf, shape))
    BY <1>1, AsideNone, AsideBoth
  <1>2. ASSUME NEW w PROVE /\ Aside(ConnmarkLines(r, c, w, NoPorts, WithSyn(r)))
                           /\ Aside(ConnmarkLines(r, c, w, SwappedPorts(r), [flags |-> Flags]))
                           /\ Aside(NfmarkLines(r, c, w))
    <2>1. Plain(NoPorts) /\ Plain(SwappedPorts(r)) /\ Plain(WithSyn(r)) /\ Plain([flags |-> Flags])
      BY PlainParts
    <2> QED
      BY <2>1, AsideConnmark, AsideNfmark
  <1>3. Aside(InputConnmark(r, c)) /\ Aside(OutputConnmark(r, c)) /\ Aside(ForwardConnmark(r, c))
    BY <1>2, AsideNone DEF InputConnmark, OutputConnmark, ForwardConnmark
  <1>4. Aside(InputNfmark(r, c)) /\ Aside(OutputNfmark(r, c)) /\ Aside(ForwardNfmark(r, c))
    BY <1>2, AsideNone DEF InputNfmark, OutputNfmark, ForwardNfmark
  <1>5. Aside(InputShape(r, c)) /\ Aside(OutputShape(r, c)) /\ Aside(ForwardShape(r, c))
    BY AsideShape DEF InputShape, OutputShape, ForwardShape
  <1>6. /\ CreateRuleInput(r, c) =
              IF ~Supported(r) THEN << >>
              ELSE << FilterLine(r, InputWay(r)) >> \o Marking(InputConnmark(r, c))
                   \o Others(InputNfmark(r, c), InputShape(r, c))
        /\ CreateRuleOutput(r, c) =
              IF ~Supported(r) THEN << >>
              ELSE << FilterLine(r, OutputWay(r)) >> \o Marking(OutputConnmark(r, c))
                   \o Others(OutputNfmark(r, c), OutputShape(r, c))
        /\ CreateRuleForward(r, c) =
              IF ~Supported(r) THEN << >>
              ELSE << FilterLine(r, ForwardWay(r)) >> \o Marking(ForwardConnmark(r, c))
                   \o Others(ForwardNfmark(r, c), ForwardShape(r, c))
    BY DEF CreateRuleInput, CreateRuleOutput, CreateRuleForward
  <1>7. /\ Aside(Marking(InputConnmark(r, c))) /\ Aside(Others(InputNfmark(r, c), InputShape(r, c)))
        /\ Aside(Marking(OutputConnmark(r, c))) /\ Aside(Others(OutputNfmark(r, c), OutputShape(r, c)))
        /\ Aside(Marking(ForwardConnmark(r, c))) /\ Aside(Others(ForwardNfmark(r, c), ForwardShape(r, c)))
    BY <1>1, <1>3, <1>4, <1>5
  <1> HIDE DEF Marking, Others
  <1> QED
    BY <1>6, <1>7, OneLineOf

(* What the lines of a call are: beside those of other tables, one for     *)
(* each way of the rule.                                                   *)
Ways(r, c) == (IF Forwards(c) THEN {ForwardWay(r)} ELSE {})
              \union (IF Leaves(c) THEN {OutputWay(r)} ELSE {})
              \union (IF Enters(c) THEN {InputWay(r)} ELSE {})

\* s has the lines of the ways W of r and none beside in the filter table
HasWays(s, r, W) ==
    /\ IsList(s)
    /\ \A l \in ToSet(s) : l.table = "filter" => \E w \in W : l = FilterLine(r, w)
    /\ Supported(r) => \A w \in W : FilterLine(r, w) \in ToSet(s)

LEMMA WaysNone == ASSUME NEW r PROVE HasWays(<< >>, r, {})
  BY ListNone DEF HasWays

LEMMA WaysAside == ASSUME NEW r, NEW s, Aside(s) PROVE HasWays(s, r, {})
  BY DEF HasWays, Aside

LEMMA WaysOne == ASSUME NEW r, NEW s, NEW w, OneLine(s, r, w) PROVE HasWays(s, r, {w})
  <1>1. CASE s = << >> /\ ~Supported(r)
    BY <1>1, ListNone DEF HasWays
  <1>2. ASSUME NEW t, Aside(t), s = << FilterLine(r, w) >> \o t PROVE HasWays(s, r, {w})
    <2>1. IsList(s) /\ ToSet(s) = {FilterLine(r, w)} \union ToSet(t)
      BY <1>2, ListOne, ListBoth, SetOfBoth DEF Aside
    <2> QED
      BY <1>2, <2>1 DEF HasWays, Aside
  <1> QED
    BY <1>1, <1>2 DEF OneLine

LEMMA WaysBoth ==
    ASSUME NEW r, NEW s, NEW t, NEW V, NEW W, HasWays(s, r, V), HasWays(t, r, W)
    PROVE  HasWays(s \o t, r, V \union W)
  <1>1. IsList(s \o t) /\ ToSet(s \o t) = ToSet(s) \union ToSet(t)
    BY ListBoth, SetOfBoth DEF HasWays
  <1> QED
    BY <1>1 DEF HasWays

\* NAT has no line in the filter table, and a call has one for each of its ways
OfNat(s) == IsList(s) /\ \A l \in ToSet(s) : l.table = "nat"

LEMMA OfNatNone == OfNat(<< >>)
  BY ListNone DEF OfNat

LEMMA OfNatOne == ASSUME NEW l, l.table = "nat" PROVE OfNat(<< l >>)
  BY ListOne DEF OfNat

LEMMA OfNatTwo == ASSUME NEW l, NEW m, l.table = "nat", m.table = "nat" PROVE OfNat(<< l, m >>)
  <1>1. << l, m >> \in Seq({l, m}) /\ \A n \in DOMAIN << l, m >> : << l, m >>[n] \in {l, m}
    OBVIOUS
  <1> QED
    BY <1>1, ListOfSeq DEF OfNat, ToSet

LEMMA NatTable == ASSUME NEW r, NEW c PROVE OfNat(NatLines(r, c))
  <1>1. ASSUME NEW dst, NEW dport, NEW target PROVE Prerouting(r, dst, dport, target).table = "nat"
    BY DEF Prerouting, Line, WithSyn, Limit, InState, ++
  <1>2. OfNat(CreateRuleMasq(r, c))
    <2>1. Plain([out |-> r.toInt, proto |-> r.proto, src |-> r.src, dst |-> r.dst]
                ++ WithSyn(r) ++ Ports(r) ++ Limit(r))
      <3>1. Plain([out |-> r.toInt, proto |-> r.proto, src |-> r.src, dst |-> r.dst])
        BY DEF Plain, Heading
      <3> QED
        BY <3>1, PlainParts, PlainMerge
    <2> QED
      BY <2>1, LineFields, OfNatOne DEF CreateRuleMasq
  <1>3. OfNat(CreateRuleSnat(r, c))
    <2>1. Plain([out |-> r.toInt, proto |-> r.proto, src |-> r.src, dst |-> r.dst]
                ++ WithSyn(r) ++ Ports(r) ++ Limit(r))
      <3>1. Plain([out |-> r.toInt, proto |-> r.proto, src |-> r.src, dst |-> r.dst])
        BY DEF Plain, Heading
      <3> QED
        BY <3>1, PlainParts, PlainMerge
    <2> QED
      BY <2>1, LineFields, OfNatOne DEF CreateRuleSnat
  <1>4. OfNat(CreateRulePortfw(r, c)) /\ OfNat(CreateRuleDnat(r, c)) /\ OfNat(CreateRuleRedirect(r, c))
    BY <1>1, OfNatNone, OfNatOne DEF CreateRulePortfw, CreateRuleDnat, CreateRuleRedirect
  <1>5. OfNat(CreateRuleBounce(r, c))
    <2> DEFINE via == c.opt.via.addr[4]
               dnat == IF r.action.t = "DNAT" THEN Set("DNAT", <<c.to.addr[4], None>>) ELSE r.action
               match == [out |-> r.fromInt, proto |-> r.proto, src |-> r.src, dst |-> c.to.addr[4],
                         sport |-> r.sport, dport |-> ListenDport(r)]
               back == Line(4, "nat", "POSTROUTING", match ++ WithSyn(r) ++ Limit(r) ++ InState({"NEW"}),
                            Set("SNAT", via))
    <2>1. back.table = "nat"
      <3>1. Plain(match)
        BY DEF Plain, Heading
      <3> HIDE DEF match
      <3>2. Plain(match ++ WithSyn(r) ++ Limit(r) ++ InState({"NEW"}))
        BY <3>1, PlainParts, PlainMerge
      <3> QED
        BY <3>2, LineFields
    <2>2. CreateRuleBounce(r, c) =
              IF Logs(r) THEN << >> ELSE << Prerouting(r, via, ListenDport(r), dnat), back >>
      BY DEF CreateRuleBounce
    <2> HIDE DEF back
    <2> QED
      BY <1>1, <2>1, <2>2, OfNatNone, OfNatTwo
  <1> QED
    BY <1>2, <1>3, <1>4, <1>5, OfNatNone DEF NatLines

LEMMA NatAside == ASSUME NEW r, NEW c PROVE Aside(NatLines(r, c))
  BY NatTable DEF Aside, OfNat

LEMMA CallWays ==
    ASSUME NEW r, NEW c
    PROVE  LET q == WithServer(r, c)
               f == FilterRule(q, c)
           IN  /\ HasWays(CallCreateFuncs(r, c), f, Ways(f, c)) \/ CallCreateFuncs(r, c) = << >>
               /\ c.ruletype \in Bases => HasWays(CallCreateFuncs(r, c), q, Ways(q, c))
  <1> DEFINE q == WithServer(r, c)
             f == FilterRule(q, c)
             one(cond, s) == IF cond THEN s ELSE << >>
             nat == NatLines(q, c)
             all == nat \o one(Forwards(c), CreateRuleForward(f, c)) \o one(Leaves(c), CreateRuleOutput(f, c))
                        \o one(Enters(c), CreateRuleInput(f, c))
  <1>1. \/ CallCreateFuncs(r, c) = all
        \/ c.ruletype \in Translations /\ CallCreateFuncs(r, c) = << >>
    BY DEF CallCreateFuncs
  <1>2. HasWays(all, f, Ways(f, c))
    <2>1. HasWays(nat, f, {})
      BY NatAside, WaysAside
    <2>2. /\ HasWays(one(Forwards(c), CreateRuleForward(f, c)), f, IF Forwards(c) THEN {ForwardWay(f)} ELSE {})
          /\ HasWays(one(Leaves(c), CreateRuleOutput(f, c)), f, IF Leaves(c) THEN {OutputWay(f)} ELSE {})
          /\ HasWays(one(Enters(c), CreateRuleInput(f, c)), f, IF Enters(c) THEN {InputWay(f)} ELSE {})
      BY WayLines, WaysOne, WaysNone
    <2> DEFINE A == one(Forwards(c), CreateRuleForward(f, c))
               B == one(Leaves(c), CreateRuleOutput(f, c))
               D == one(Enters(c), CreateRuleInput(f, c))
               WA == IF Forwards(c) THEN {ForwardWay(f)} ELSE {}
               WB == IF Leaves(c) THEN {OutputWay(f)} ELSE {}
               WD == IF Enters(c) THEN {InputWay(f)} ELSE {}
    <2>3. HasWays(A, f, WA) /\ HasWays(B, f, WB) /\ HasWays(D, f, WD) /\ Ways(f, c) = {} \union WA \union WB \union WD
      BY <2>2 DEF Ways
    <2>4. all = nat \o A \o B \o D
      OBVIOUS
    <2> HIDE DEF A, B, D, WA, WB, WD, all, f, nat
    <2>5. HasWays(nat \o A, f, {} \union WA)
      BY <2>1, <2>3, WaysBoth
    <2>6. HasWays(nat \o A \o B, f, {} \union WA \union WB)
      BY <2>3, <2>5, WaysBoth
    <2> QED
      BY <2>3, <2>4, <2>6, WaysBoth
  <1>3. c.ruletype \in Bases => c.ruletype \notin Translations /\ f = q
    BY DEF Bases, Translations, FilterRule
  <1> HIDE DEF all, f, q
  <1> QED
    BY <1>1, <1>2, <1>3 DEF f, q

(* A rule that logs: each of its calls logs, or comes after one that logs  *)
(* and has the same destination.                                           *)
Logging(c) == c.opt.log /\ Can("log") /\ c.ruletype \in Bases
RuleFields == {"ipv", "action", "queue", "classes", "src", "dst", "mac", "fromInt", "toInt", "fromIf", "toIf",
               "fromNet", "toNet", "fromNets", "toNets", "proto", "syn", "sport", "dport", "portrange",
               "listenport", "remoteport", "node", "limit", "serverip", "helper", "classOut", "classIn"}

LoggedBy(x, y) == x.action = LogTarget /\ x.dst = y.dst
LogCalled(s) == \A i \in DOMAIN s : s[i].action = LogTarget \/ \E i1 \in 1..(i - 1) : LoggedBy(s[i1], s[i])

\* calls added one by one keep the one that logs in front, and Calls() starts with it
LEMMA LogCalledMore ==
    ASSUME NEW s, NEW t, IsList(s), IsList(t), LogCalled(s),
           LogCalled(t) \/ \A y \in ToSet(t) : \E x \in ToSet(s) : LoggedBy(x, y)
    PROVE  LogCalled(s \o t)
  <1> DEFINE u == s \o t
  <1>1. /\ Len(s) \in Nat /\ Len(t) \in Nat /\ DOMAIN s = 1..Len(s) /\ DOMAIN t = 1..Len(t)
        /\ DOMAIN u = 1..(Len(s) + Len(t))
        /\ (\A n \in 1..Len(s) : u[n] = s[n]) /\ \A n \in 1..Len(t) : u[Len(s) + n] = t[n]
    BY ListFacts, ListBoth
  <1> HIDE DEF u
  <1>2. ASSUME NEW i \in 1..Len(s) PROVE u[i].action = LogTarget \/ \E i1 \in 1..(i - 1) : LoggedBy(u[i1], u[i])
    BY <1>1 DEF LogCalled
  <1>3. ASSUME NEW n \in 1..Len(t)
        PROVE  u[Len(s) + n].action = LogTarget \/ \E i1 \in 1..(Len(s) + n - 1) : LoggedBy(u[i1], u[Len(s) + n])
    <2>1. CASE LogCalled(t)
      <3>1. t[n].action = LogTarget \/ \E n1 \in 1..(n - 1) : LoggedBy(t[n1], t[n])
        BY <1>1, <2>1 DEF LogCalled
      <3>2. ASSUME NEW n1 \in 1..(n - 1), LoggedBy(t[n1], t[n])
            PROVE  \E i1 \in 1..(Len(s) + n - 1) : LoggedBy(u[i1], t[n])
        <4>1. Len(s) + n1 \in 1..(Len(s) + n - 1) /\ u[Len(s) + n1] = t[n1]
          BY <1>1
        <4> QED
          BY <3>2, <4>1
      <3> QED
        BY <1>1, <3>1, <3>2
    <2>2. CASE \A y \in ToSet(t) : \E x \in ToSet(s) : LoggedBy(x, y)
      <3>1. PICK i1 \in 1..Len(s) : LoggedBy(s[i1], t[n])
        BY <1>1, <2>2 DEF ToSet
      <3>2. i1 \in 1..(Len(s) + n - 1) /\ u[i1] = s[i1] /\ u[Len(s) + n] = t[n]
        BY <1>1
      <3> QED
        BY <3>1, <3>2
    <2> QED
      BY <2>1, <2>2
  <1>4. ASSUME NEW i \in DOMAIN u PROVE i \in 1..Len(s) \/ \E n \in 1..Len(t) : i = Len(s) + n
    <2>1. CASE i > Len(s)
      <3>1. i - Len(s) \in 1..Len(t) /\ i = Len(s) + (i - Len(s))
        BY <1>1, <2>1
      <3> QED
        BY <3>1
    <2> QED
      BY <1>1, <2>1
  <1>5. ASSUME NEW i \in DOMAIN u PROVE u[i].action = LogTarget \/ \E i1 \in 1..(i - 1) : LoggedBy(u[i1], u[i])
    <2>1. CASE i \in 1..Len(s)
      BY <1>2, <2>1
    <2>2. ASSUME NEW n \in 1..Len(t), i = Len(s) + n
          PROVE  u[i].action = LogTarget \/ \E i1 \in 1..(i - 1) : LoggedBy(u[i1], u[i])
      BY <1>3, <2>2
    <2> QED
      BY <1>4, <2>1, <2>2
  <1>6. LogCalled(u)
    BY <1>5 DEF LogCalled
  <1> QED
    BY <1>6 DEF u

LEMMA CallsLemma ==
    ASSUME NEW r, NEW c, RuleFields \subseteq DOMAIN r
    PROVE  /\ IsList(Calls(r, c))
           /\ c.opt.log => LogCalled(Calls(r, c))
  <1> DEFINE rb == [r EXCEPT !.dst = BroadcastDst]
             x == [action |-> LogTarget, limit |-> LogLimit(c.opt), dst |-> r.dst]
             y == [action |-> LogTarget, limit |-> LogLimit(c.opt), dst |-> rb.dst]
             z == [action |-> c.action, limit |-> 0, dst |-> BroadcastDst]
             w == [action |-> ActionOf(r, c), limit |-> LimitOf(c.opt), dst |-> r.dst]
             X == {x, y, z, w}
             none == r.ipv # 4 \/ c.service = None \/ ~c.service.broadcast
  <1>1. /\ Logged(r, c) = IF ~c.opt.log THEN << >> ELSE << x >>
        /\ Broadcasts(r, c) = IF none THEN << >> ELSE (IF ~c.opt.log THEN << >> ELSE << y >>) \o << z >>
        /\ Acted(r, c) = << w >>
    BY DEF Logged, Broadcasts, Acted
  <1>2. x.action = LogTarget /\ LoggedBy(x, w) /\ y.action = LogTarget /\ LoggedBy(y, z)
    BY DEF RuleFields, LoggedBy
  <1> HIDE DEF x, y, z, w, none
  <1> DEFINE nil == << >>
             sx == << x >>
             sy == << y >>
             sz == << z >>
             sw == << w >>
  <1>3. /\ IsList(nil) /\ ToSet(nil) = {}
        /\ IsList(sx) /\ ToSet(sx) = {x} /\ IsList(sy) /\ ToSet(sy) = {y}
        /\ IsList(sz) /\ ToSet(sz) = {z} /\ IsList(sw) /\ ToSet(sw) = {w}
    BY ListNone, ListOne
  <1>4. /\ IsList(Logged(r, c)) /\ IsList(Broadcasts(r, c)) /\ IsList(Acted(r, c))
        /\ IsList(Logged(r, c) \o Broadcasts(r, c))
    BY <1>1, <1>3, ListBoth
  <1>5. IsList(Calls(r, c))
    BY <1>4, ListBoth DEF Calls
  <1>6. ASSUME c.opt.log PROVE LogCalled(Calls(r, c))
    <2>1. Logged(r, c) = sx /\ Acted(r, c) = sw /\ Broadcasts(r, c) = (IF none THEN nil ELSE sy \o sz)
      BY <1>1, <1>6
    <2>2. LogCalled(nil) /\ LogCalled(sx) /\ LogCalled(sy)
      <3>1. \A s : IsList(s) /\ (\A a \in ToSet(s) : a.action = LogTarget) => LogCalled(s)
        BY DEF LogCalled, ToSet
      <3> HIDE DEF nil, sx, sy
      <3> QED
        BY <1>2, <1>3, <3>1
    <2> HIDE DEF nil, sx, sy, sz, sw
    <2>3. LogCalled(sy \o sz)
      BY <1>2, <1>3, <2>2, LogCalledMore
    <2>4. LogCalled(sx \o Broadcasts(r, c))
      BY <1>3, <1>4, <2>1, <2>2, <2>3, LogCalledMore
    <2>5. x \in ToSet(sx \o Broadcasts(r, c))
      BY <1>3, <1>4, <2>1, SetOfBoth
    <2>6. LogCalled(sx \o Broadcasts(r, c) \o sw)
      BY <1>2, <1>3, <1>4, <2>1, <2>4, <2>5, LogCalledMore
    <2> QED
      BY <2>1, <2>6 DEF Calls
  <1> QED
    BY <1>5, <1>6

(* The rule of a call, and that of the line that logs the same.            *)
WithCall(r, k) == [r EXCEPT !.action = k.action, !.limit = k.limit, !.dst = k.dst]

\* two calls with the same destination differ in the targets of their lines only
LEMMA SameLines ==
    ASSUME NEW r, NEW c, NEW k1, NEW k2, RuleFields \subseteq DOMAIN r, Logging(c),
           k1.action = LogTarget, k1.dst = k2.dst,
           NEW l \in ToSet(CallCreateFuncs(WithCall(r, k2), c)), l.table = "filter"
    PROVE  \E m \in ToSet(CallCreateFuncs(WithCall(r, k1), c)) : IsLog(m) /\ SameMatch(m, l)
  <1> DEFINE q1 == WithServer(WithCall(r, k1), c)
             q2 == WithServer(WithCall(r, k2), c)
  <1>1. /\ HasWays(CallCreateFuncs(WithCall(r, k1), c), q1, Ways(q1, c))
        /\ HasWays(CallCreateFuncs(WithCall(r, k2), c), q2, Ways(q2, c))
    BY CallWays DEF Logging
  <1>2. /\ q1.action = LogTarget /\ q1.dst = q2.dst /\ q1.ipv = q2.ipv /\ q1.src = q2.src
        /\ q1.mac = q2.mac /\ q1.fromInt = q2.fromInt /\ q1.toInt = q2.toInt /\ q1.proto = q2.proto
        /\ q1.syn = q2.syn /\ q1.sport = q2.sport /\ q1.dport = q2.dport
    BY DEF WithServer, WithCall, RuleFields
  <1> HIDE DEF q1, q2
  <1>3. Ways(q1, c) = Ways(q2, c)
    BY <1>2 DEF Ways, ForwardWay, OutputWay, InputWay
  <1>4. Supported(q1)
    BY <1>2 DEF Supported, LogTarget, Jump, Logging, Logs
  <1>5. PICK w \in Ways(q2, c) : l = FilterLine(q2, w)
    BY <1>1 DEF HasWays
  <1>6. FilterLine(q1, w) \in ToSet(CallCreateFuncs(WithCall(r, k1), c))
    BY <1>1, <1>3, <1>4 DEF HasWays
  <1>7. IsLog(FilterLine(q1, w))
    BY <1>2, FilterFields DEF IsLog, LogTarget, Jump, LogTargets
  <1>8. SameMatch(FilterLine(q1, w), FilterLine(q2, w))
    <2>1. WithSyn(q1) = WithSyn(q2)
      BY <1>2 DEF WithSyn
    <2>2. ASSUME NEW q PROVE LET l1 == FilterLine(q, w)
                            IN  /\ l1.table = "filter" /\ l1.chain = w.chain /\ l1.ipv = q.ipv
                                /\ l1.in = w.in /\ l1.out = w.out /\ l1.proto = q.proto /\ l1.src = q.src
                                /\ l1.dst = q.dst /\ l1.mac = w.mac /\ l1.flags = WithSyn(q).flags
                                /\ l1.sport = q.sport /\ l1.dport = q.dport
                                /\ l1.states = {"NEW"} /\ l1.helper = None /\ l1.marks = None
      BY FilterFields
    <2> DEFINE l1 == FilterLine(q1, w)
               l2 == FilterLine(q2, w)
    <2>3. /\ l1.table = l2.table /\ l1.chain = l2.chain /\ l1.ipv = l2.ipv
          /\ l1.in = l2.in /\ l1.out = l2.out /\ l1.proto = l2.proto /\ l1.sport = l2.sport /\ l1.dport = l2.dport
          /\ l1.mac = l2.mac /\ l1.helper = l2.helper /\ l1.src = l2.src /\ l1.dst = l2.dst
          /\ l1.flags = l2.flags /\ l1.states = l2.states /\ l1.marks = l2.marks
      BY <1>2, <2>1, <2>2
    <2> QED
      BY <2>3 DEF SameMatch
  <1> QED
    BY <1>5, <1>6, <1>7, <1>8

LEMMA LogCall ==
    ASSUME NEW r, NEW c, NEW k, RuleFields \subseteq DOMAIN r, Logging(c), k.action = LogTarget,
           NEW l \in ToSet(CallCreateFuncs(WithCall(r, k), c))
    PROVE  ~Settles(l)
  <1> DEFINE q == WithServer(WithCall(r, k), c)
  <1>1. HasWays(CallCreateFuncs(WithCall(r, k), c), q, Ways(q, c))
    BY CallWays DEF Logging
  <1>2. q.action = LogTarget
    BY DEF WithServer, WithCall, RuleFields
  <1>3. l.table = "filter" => \E w : l = FilterLine(q, w)
    BY <1>1 DEF HasWays
  <1> HIDE DEF q
  <1> QED
    BY <1>2, <1>3, FilterFields DEF Settles, IsLog, LogTarget, Jump, LogTargets

LEMMA CallInBase == ASSUME NEW r, NEW c, NEW l \in ToSet(CallCreateFuncs(r, c)) PROVE InBase(l)
  <1> DEFINE f == FilterRule(WithServer(r, c), c)
  <1>1. HasWays(CallCreateFuncs(r, c), f, Ways(f, c))
    BY CallWays, ListNone
  <1>2. l.table = "filter" => \E w \in Ways(f, c) : l = FilterLine(f, w)
    BY <1>1 DEF HasWays
  <1>3. \A w \in Ways(f, c) : w.chain \in Bases
    BY DEF Ways, ForwardWay, OutputWay, InputWay, Bases
  <1> QED
    BY <1>2, <1>3, FilterFields DEF InBase

LEMMA OptionsLemma ==
    ASSUME NEW r, NEW c, RuleFields \subseteq DOMAIN r
    PROVE  LET s == CreateRuleAndOptions(r, c)
           IN  /\ IsList(s) /\ \A l \in ToSet(s) : InBase(l)
               /\ Logging(c) => LogsFirst(s)
  <1> DEFINE calls == Calls(r, c)
             of(n) == CallCreateFuncs(WithCall(r, calls[n]), c)
             parts == [n \in DOMAIN calls |-> of(n)]
             s == CreateRuleAndOptions(r, c)
  <1>1. s = FlattenSeq(parts)
    BY DEF CreateRuleAndOptions, WithCall
  <1>2. IsList(calls) /\ DOMAIN calls = 1..Len(calls) /\ Len(calls) \in Nat
    BY CallsLemma, ListFacts
  <1> HIDE DEF s, calls
  <1>3. IsList(parts) /\ Len(parts) = Len(calls) /\ DOMAIN parts = DOMAIN calls /\ \A n \in DOMAIN calls : parts[n] = of(n)
    <2>1. parts = [n \in 1..Len(calls) |-> parts[n]]
      BY <1>2
    <2>2. IsList(parts) /\ Len(parts) = Len(calls)
      BY <1>2, <2>1, ListMade
    <2> QED
      BY <2>2
  <1>4. \A n \in DOMAIN calls : IsList(of(n)) /\ \A l \in ToSet(of(n)) : InBase(l)
    BY CallWays, ListNone, CallInBase DEF HasWays
  <1> HIDE DEF parts, of
  <1>5. Gathers(s, parts, Len(calls)) /\ IsList(s) /\ ToSet(s) = UNION {ToSet(parts[n]) : n \in DOMAIN parts}
    BY <1>1, <1>3, <1>4, FlattenGathers, FlattenLemma
  <1>6. \A l \in ToSet(s) : InBase(l)
    BY <1>3, <1>4, <1>5
  <1>7. ASSUME Logging(c), NEW k \in DOMAIN s, Settles(s[k])
        PROVE  \E j \in 1..(k - 1) : IsLog(s[j]) /\ SameMatch(s[j], s[k])
    <2>1. PICK i \in 1..Len(calls) : \E j \in DOMAIN parts[i] :
            /\ s[k] = parts[i][j]
            /\ \A i1 \in 1..(i - 1) : \A j1 \in DOMAIN parts[i1] : \E k1 \in 1..(k - 1) : s[k1] = parts[i1][j1]
      BY <1>5 DEF Gathers
    <2>2. s[k] \in ToSet(of(i)) /\ s[k].table = "filter"
      BY <1>2, <1>3, <1>7, <2>1 DEF ToSet, Settles
    <2>3. calls[i].action # LogTarget
      BY <1>7, <2>2, LogCall DEF of
    <2>4. PICK i1 \in 1..(i - 1) : calls[i1].action = LogTarget /\ calls[i1].dst = calls[i].dst
      BY <1>2, <1>7, <2>3, CallsLemma DEF calls, Logging, LogCalled, LoggedBy
    <2>5. PICK m \in ToSet(of(i1)) : IsLog(m) /\ SameMatch(m, s[k])
      BY <1>7, <2>2, <2>4, SameLines DEF of
    <2>6. i1 \in DOMAIN calls /\ parts[i1] = of(i1)
      BY <1>2, <1>3
    <2>7. PICK j1 \in DOMAIN parts[i1] : m = parts[i1][j1]
      BY <2>5, <2>6 DEF ToSet
    <2> QED
      BY <2>1, <2>4, <2>5, <2>7
  <1> QED
    BY <1>5, <1>6, <1>7 DEF LogsFirst, LogBefore, s

\* h is g with the value v at m + 1: a function of the loops is there, step by step
Extends(h, g, m, v) ==
    /\ h = [n \in 0..(m + 1) |-> h[n]] /\ h[m + 1] = v
    /\ \A n \in 0..m : h[n] = g[n]

LEMMA OneMore == ASSUME NEW m \in Nat, NEW g, NEW v PROVE \E h : Extends(h, g, m, v)
  <1> DEFINE h == [n \in 0..(m + 1) |-> IF n = m + 1 THEN v ELSE g[n]]
  <1>1. h = [n \in 0..(m + 1) |-> h[n]] /\ h[m + 1] = v /\ \A n \in 0..m : h[n] = g[n]
    OBVIOUS
  <1> HIDE DEF h
  <1>2. Extends(h, g, m, v)
    BY <1>1 DEF Extends
  <1> QED
    BY <1>2

-----------------------------------------------------------------------------
(* Where the lines of a rule send what is shaped.  enters: whether the     *)
(* rule is one that enters the firewall, for which the lines of a helper   *)
(* are left out.                                                           *)

Sends(l, enters) == Classifies(l) /\ ~(OfHelper(l) /\ enters)
Points(s, T, enters) == IsList(s) /\ \A l \in ToSet(s) : Sends(l, enters) => l.target.v \in T

\* the classes that a rule names at its present interfaces
Pending(r) ==
    (IF Shaped(r.toIf) THEN {<<r.toIf.handle, r.classOut>>} ELSE {})
    \union (IF Shaped(r.fromIf) THEN {<<r.fromIf.handle, r.classIn>>} ELSE {})

LEMMA PointsNone == ASSUME NEW T, NEW b PROVE Points(<< >>, T, b)
  BY ListNone DEF Points

LEMMA PointsOne == ASSUME NEW l, NEW T, NEW b, Sends(l, b) => l.target.v \in T PROVE Points(<< l >>, T, b)
  BY ListOne DEF Points

LEMMA PointsBoth ==
    ASSUME NEW s, NEW t, NEW T, NEW b, Points(s, T, b), Points(t, T, b) PROVE Points(s \o t, T, b)
  BY ListBoth, SetOfBoth DEF Points

LEMMA PointsTwo ==
    ASSUME NEW l, NEW m, NEW T, NEW b, Sends(l, b) => l.target.v \in T, Sends(m, b) => m.target.v \in T
    PROVE  Points(<< l, m >>, T, b)
  <1>1. << l, m >> \in Seq({l, m}) /\ \A n \in DOMAIN << l, m >> : << l, m >>[n] \in {l, m}
    OBVIOUS
  <1> QED
    BY <1>1, ListOfSeq DEF Points, ToSet

LEMMA PointsConnmark ==
    ASSUME NEW r, NEW c, NEW w, NEW ports, NEW syn, NEW T, NEW b, Plain(ports), Plain(syn)
    PROVE  Points(ConnmarkLines(r, c, w, ports, syn), T, b)
  <1> DEFINE unmarked == [marks |-> {0}]
             line(chain, m, s) == Line(r.ipv, "mangle", chain, m ++ unmarked ++ InState(s), Connmark(r, c))
  <1>1. ASSUME NEW chain, NEW m, NEW s, Plain(m) PROVE ~Sends(line(chain, m, s), b)
    <2>1. Plain(unmarked) /\ Plain(InState(s))
      BY PlainParts
    <2>2. Plain(m ++ unmarked ++ InState(s))
      BY <1>1, <2>1, PlainMerge
    <2>3. line(chain, m, s).target = Connmark(r, c)
      BY <2>2, LineFields
    <2>4. Connmark(r, c).t = "CONNMARK"
      BY DEF Connmark, Set
    <2> QED
      BY <2>3, <2>4 DEF Sends, Classifies
  <1> HIDE DEF line
  <1> DEFINE a == << line(w.chain, There(r, w) ++ WithSyn(r) ++ Ports(r), {"NEW", "RELATED"}) >>
             bk == << line(w.rchain, Back(r, w) ++ WithSyn(r) ++ ports, {"RELATED"}) >>
             d == << line(w.chain, There(r, w) ++ syn ++ Helper(r), {"RELATED"}),
                     line(w.rchain, Back(r, w) ++ syn ++ Helper(r), {"RELATED"}) >>
  <1>2. Points(a, T, b) /\ Points(bk, T, b) /\ Points(d, T, b)
    <2>1. /\ Plain(There(r, w) ++ WithSyn(r) ++ Ports(r)) /\ Plain(Back(r, w) ++ WithSyn(r) ++ ports)
          /\ Plain(There(r, w) ++ syn ++ Helper(r)) /\ Plain(Back(r, w) ++ syn ++ Helper(r))
      BY PlainParts, PlainMerge
    <2> QED
      BY <1>1, <2>1, PointsOne, PointsTwo
  <1>3. ConnmarkLines(r, c, w, ports, syn) =
            a \o (IF r.proto = "icmp" THEN << >> ELSE bk)
              \o (IF r.helper = None \/ ~Can("helper") THEN << >> ELSE d)
    BY DEF ConnmarkLines, line
  <1> HIDE DEF a, bk, d
  <1> QED
    BY <1>2, <1>3, PointsNone, PointsBoth

LEMMA PointsNfmark ==
    ASSUME NEW r, NEW c, NEW w, NEW T, NEW b PROVE Points(NfmarkLines(r, c, w), T, b)
  <1> DEFINE line(chain, m, s) == Line(r.ipv, "mangle", chain, m ++ InState(s), Set("MARK", c.opt.nfmark))
             known == {"RELATED", "ESTABLISHED"}
  <1>1. ASSUME NEW chain, NEW m, NEW s, Plain(m) PROVE ~Sends(line(chain, m, s), b)
    <2>1. Plain(m ++ InState(s))
      BY <1>1, PlainParts, PlainMerge
    <2>2. line(chain, m, s).target = Set("MARK", c.opt.nfmark)
      BY <2>1, LineFields
    <2> QED
      BY <2>2 DEF Sends, Classifies, Set
  <1> HIDE DEF line
  <1> DEFINE a == << line(w.chain, There(r, w) ++ Ports(r), known \union {"NEW"}),
                     line(w.rchain, Back(r, w) ++ SwappedPorts(r), known) >>
             bk == << line(w.chain, There(r, w) ++ Helper(r), known),
                      line(w.rchain, Back(r, w) ++ Helper(r), known) >>
  <1>2. Points(a, T, b) /\ Points(bk, T, b)
    <2>1. /\ Plain(There(r, w) ++ Ports(r)) /\ Plain(Back(r, w) ++ SwappedPorts(r))
          /\ Plain(There(r, w) ++ Helper(r)) /\ Plain(Back(r, w) ++ Helper(r))
      BY PlainParts, PlainMerge
    <2> QED
      BY <1>1, <2>1, PointsTwo
  <1>3. NfmarkLines(r, c, w) = a \o (IF r.helper = None \/ ~Can("helper") THEN << >> ELSE bk)
    BY DEF NfmarkLines, line
  <1> HIDE DEF a, bk
  <1> QED
    BY <1>2, <1>3, PointsNone, PointsBoth

\* the class of the helper's answers is that of the interface they leave by, or
\* the lines are those of a rule that enters
LEMMA PointsShape ==
    ASSUME NEW r, NEW w, NEW chain, NEW there, NEW back, NEW class, NEW b,
           back => class = r.classIn \/ (chain = "SHAPEOUT" /\ b)
    PROVE  Points(ShapeLines(r, w, chain, there, back, class), Pending(r), b)
  <1> DEFINE line(m, s, k) == Line(r.ipv, "mangle", chain, m ++ InState(s), k)
             known == {"RELATED", "ESTABLISHED"}
             goes == there /\ Shaped(r.toIf)
             comes == back /\ Shaped(r.fromIf)
             if(cond, l) == IF cond THEN << l >> ELSE << >>
             helper == r.helper # None /\ Can("helper")
             a == line(There(r, w) ++ Ports(r), known \union {"NEW"}, Classify(r.toIf, r.classOut))
             g == line(Back(r, w) ++ SwappedPorts(r), known, Classify(r.fromIf, r.classIn))
             d == line(There(r, w) ++ Helper(r), known, Classify(r.toIf, r.classOut))
             e == line(Back(r, w) ++ Helper(r), known, Classify(r.fromIf, class))
             T == Pending(r)
  <1>1. ASSUME NEW m, NEW s, NEW k, Plain(m) PROVE line(m, s, k).target = k /\ line(m, s, k).chain = chain
    <2>1. Plain(m ++ InState(s))
      BY <1>1, PlainParts, PlainMerge
    <2> QED
      BY <2>1, LineFields
  <1>2. e.helper = r.helper
    BY DEF Line, Back, Helper, InState, ++
  <1> HIDE DEF line
  <1>3. /\ a.target = Classify(r.toIf, r.classOut) /\ g.target = Classify(r.fromIf, r.classIn)
        /\ d.target = Classify(r.toIf, r.classOut) /\ e.target = Classify(r.fromIf, class) /\ e.chain = chain
    <2>1. /\ Plain(There(r, w) ++ Ports(r)) /\ Plain(Back(r, w) ++ SwappedPorts(r))
          /\ Plain(There(r, w) ++ Helper(r)) /\ Plain(Back(r, w) ++ Helper(r))
      BY PlainParts, PlainMerge
    <2> QED
      BY <1>1, <2>1
  <1>4. ShapeLines(r, w, chain, there, back, class) =
            if(goes, a) \o if(comes, g) \o if(helper /\ goes, d) \o if(helper /\ comes, e)
    BY DEF ShapeLines, line
  <1> HIDE DEF a, g, d, e
  <1>5. /\ goes => a.target.v \in T /\ d.target.v \in T
        /\ comes => g.target.v \in T
        /\ helper /\ comes /\ Sends(e, b) => e.target.v \in T
    BY <1>2, <1>3 DEF Pending, Classify, Set, Sends, OfHelper
  <1> HIDE DEF goes, comes, helper, T
  <1>6. /\ Points(if(goes, a), T, b) /\ Points(if(comes, g), T, b)
        /\ Points(if(helper /\ goes, d), T, b) /\ Points(if(helper /\ comes, e), T, b)
    BY <1>5, PointsNone, PointsOne
  <1> HIDE DEF if
  <1>7. Points(ShapeLines(r, w, chain, there, back, class), T, b)
    BY <1>4, <1>6, PointsBoth
  <1> QED
    BY <1>7 DEF T

LEMMA WayPoints ==
    ASSUME NEW r, NEW c, NEW b
    PROVE  /\ b => Points(CreateRuleInput(r, c), Pending(r), b)
           /\ Points(CreateRuleOutput(r, c), Pending(r), b)
           /\ Points(CreateRuleForward(r, c), Pending(r), b)
  <1> DEFINE T == Pending(r)
             Marking(s) == IF Connmarks(r) THEN s ELSE << >>
             Others(nf, shape) ==
                 IF ConnmarkReturns(r) THEN << >>
                 ELSE (IF Nfmarks(r, c) THEN nf ELSE << >>)
                      \o (IF NfmarkReturns(r, c) \/ ~ShapesLine(r, c) THEN << >> ELSE shape)
             All(w, s, nf, shape) ==
                 IF ~Supported(r) THEN << >> ELSE << FilterLine(r, w) >> \o Marking(s) \o Others(nf, shape)
  <1> HIDE DEF T
  <1>1. ASSUME NEW w, NEW s, NEW nf, NEW shape, Points(s, T, b), Points(nf, T, b), Points(shape, T, b)
        PROVE  Points(All(w, s, nf, shape), T, b)
    <2>1. Points(Marking(s), T, b) /\ Points(Others(nf, shape), T, b)
      BY <1>1, PointsNone, PointsBoth
    <2>2. Points(<< FilterLine(r, w) >>, T, b)
      <3>1. FilterLine(r, w).table = "filter"
        BY FilterFields
      <3>2. ~Sends(FilterLine(r, w), b)
        BY <3>1 DEF Sends, Classifies
      <3> QED
        BY <3>2, PointsOne
    <2> HIDE DEF Marking, Others
    <2> QED
      BY <2>1, <2>2, PointsNone, PointsBoth
  <1>2. ASSUME NEW w PROVE /\ Points(ConnmarkLines(r, c, w, NoPorts, WithSyn(r)), T, b)
                           /\ Points(ConnmarkLines(r, c, w, SwappedPorts(r), [flags |-> Flags]), T, b)
                           /\ Points(NfmarkLines(r, c, w), T, b)
    <2>1. Plain(NoPorts) /\ Plain(SwappedPorts(r)) /\ Plain(WithSyn(r)) /\ Plain([flags |-> Flags])
      BY PlainParts
    <2> QED
      BY <2>1, PointsConnmark, PointsNfmark
  <1>3. Points(InputConnmark(r, c), T, b) /\ Points(OutputConnmark(r, c), T, b) /\ Points(ForwardConnmark(r, c), T, b)
    BY <1>2, PointsNone DEF InputConnmark, OutputConnmark, ForwardConnmark
  <1>4. Points(InputNfmark(r, c), T, b) /\ Points(OutputNfmark(r, c), T, b) /\ Points(ForwardNfmark(r, c), T, b)
    BY <1>2, PointsNone DEF InputNfmark, OutputNfmark, ForwardNfmark
  <1>5. (b => Points(InputShape(r, c), T, b)) /\ Points(OutputShape(r, c), T, b) /\ Points(ForwardShape(r, c), T, b)
    BY PointsShape DEF InputShape, OutputShape, ForwardShape, T
  <1>6. /\ CreateRuleInput(r, c) = All(InputWay(r), InputConnmark(r, c), InputNfmark(r, c), InputShape(r, c))
        /\ CreateRuleOutput(r, c) = All(OutputWay(r), OutputConnmark(r, c), OutputNfmark(r, c), OutputShape(r, c))
        /\ CreateRuleForward(r, c) = All(ForwardWay(r), ForwardConnmark(r, c), ForwardNfmark(r, c), ForwardShape(r, c))
    BY DEF CreateRuleInput, CreateRuleOutput, CreateRuleForward
  <1> HIDE DEF All
  <1>7. /\ b => Points(CreateRuleInput(r, c), T, b)
        /\ Points(CreateRuleOutput(r, c), T, b) /\ Points(CreateRuleForward(r, c), T, b)
    BY <1>1, <1>3, <1>4, <1>5, <1>6
  <1> QED
    BY <1>7 DEF T

LEMMA CallPoints ==
    ASSUME NEW r, NEW c, RuleFields \subseteq DOMAIN r
    PROVE  Points(CallCreateFuncs(r, c), Pending(r), Enters(c))
  <1> DEFINE q == WithServer(r, c)
             f == FilterRule(q, c)
             b == Enters(c)
             one(cond, s) == IF cond THEN s ELSE << >>
             nat == NatLines(q, c)
             all == nat \o one(Forwards(c), CreateRuleForward(f, c)) \o one(Leaves(c), CreateRuleOutput(f, c))
                        \o one(b, CreateRuleInput(f, c))
             Untouched(s) == /\ DOMAIN s = DOMAIN r /\ s.toIf = r.toIf /\ s.fromIf = r.fromIf
                             /\ s.classOut = r.classOut /\ s.classIn = r.classIn
  <1>1. CallCreateFuncs(r, c) = all \/ CallCreateFuncs(r, c) = << >>
    BY DEF CallCreateFuncs
  <1>2. Untouched(q)
    BY DEF WithServer, RuleFields
  <1> HIDE DEF q
  <1>3. Untouched(f)
    BY <1>2 DEF FilterRule, PortfwForward, BounceForward, RedirectInput, RuleFields
  <1> HIDE DEF f
  <1> DEFINE T == Pending(f)
  <1>4. T = Pending(r)
    BY <1>3 DEF Pending
  <1>5. Points(nat, T, b)
    BY NatTable DEF OfNat, Points, Sends, Classifies
  <1>6. /\ Points(one(Forwards(c), CreateRuleForward(f, c)), T, b)
        /\ Points(one(Leaves(c), CreateRuleOutput(f, c)), T, b)
        /\ Points(one(b, CreateRuleInput(f, c)), T, b)
    BY WayPoints, PointsNone
  <1> HIDE DEF nat, one, b, T
  <1>7. Points(all, T, b)
    BY <1>5, <1>6, PointsBoth
  <1> QED
    BY <1>1, <1>4, <1>7, PointsNone DEF b

\* whatever the options of a rule are, its lines name the classes of its interfaces
LEMMA OptionsPoint ==
    ASSUME NEW r, NEW c, RuleFields \subseteq DOMAIN r
    PROVE  Points(CreateRuleAndOptions(r, c), Pending(r), Enters(c))
  <1> DEFINE calls == Calls(r, c)
             of(n) == CallCreateFuncs(WithCall(r, calls[n]), c)
             parts == [n \in DOMAIN calls |-> of(n)]
  <1>1. CreateRuleAndOptions(r, c) = FlattenSeq(parts)
    BY DEF CreateRuleAndOptions, WithCall
  <1>2. IsList(calls) /\ DOMAIN calls = 1..Len(calls) /\ Len(calls) \in Nat
    BY CallsLemma, ListFacts
  <1>3. ASSUME NEW k PROVE Points(CallCreateFuncs(WithCall(r, k), c), Pending(r), Enters(c))
    <2> DEFINE q == WithCall(r, k)
    <2>1. /\ DOMAIN q = DOMAIN r /\ q.toIf = r.toIf /\ q.fromIf = r.fromIf
          /\ q.classOut = r.classOut /\ q.classIn = r.classIn
      BY DEF WithCall, RuleFields
    <2> HIDE DEF q
    <2>2. Pending(q) = Pending(r) /\ RuleFields \subseteq DOMAIN q
      BY <2>1 DEF Pending
    <2>3. Points(CallCreateFuncs(q, c), Pending(r), Enters(c))
      BY <2>2, CallPoints
    <2> QED
      BY <2>3 DEF q
  <1> HIDE DEF calls
  <1>4. IsList(parts) /\ DOMAIN parts = DOMAIN calls
    <2>1. parts = [n \in 1..Len(calls) |-> parts[n]]
      BY <1>2
    <2> QED
      BY <1>2, <2>1, ListMade
  <1>5. \A n \in DOMAIN parts : Points(parts[n], Pending(r), Enters(c))
    BY <1>3
  <1> HIDE DEF parts
  <1>6. IsList(FlattenSeq(parts)) /\ ToSet(FlattenSeq(parts)) = UNION {ToSet(parts[n]) : n \in DOMAIN parts}
    BY <1>4, <1>5, FlattenLemma DEF Points
  <1> QED
    BY <1>1, <1>5, <1>6 DEF Points

-----------------------------------------------------------------------------
(* What the loops of a rule keep.  The classes of a rule have one of the   *)
(* two numbers that are kept for it, and a parent among the classes of the *)
(* interfaces; its lines name one of its classes, or one that is made when *)
(* the loops over ports and addresses are through for its two interfaces.  *)
Ifaces == ToSet(Interfaces) \union {None}
NetsFine(s) == IsList(s) /\ \A n \in DOMAIN s : IsList(s[n].ifaces) /\ ToSet(s[n].ifaces) \subseteq Ifaces

\* the parent of a class of an interface is the class 1 or that of another interface
Rooted(k) ==
    /\ {"handle", "class", "device", "parent", "rate"} \subseteq DOMAIN k
    /\ \E i \in ToSet(Interfaces) :
          /\ Shaped(i) /\ k.handle = i.handle /\ k.device = i.device
          /\ k.parent = 1 \/ \E o \in ToSet(Interfaces) : Shaped(o) /\ k.parent = o.handle /\ o.handle # i.handle
Twins(k, j) == k.handle = j.handle /\ k.class = j.class /\ k.device = j.device
NoTwins(s) == \A n, j \in DOMAIN s : Twins(s[n], s[j]) => j = n
Numbered(s, number) == \A k \in ToSet(s) : Rooted(k) /\ k.class \in {number, number + 1}
ClassInv(s, number) == IsList(s) /\ NoTwins(s) /\ Numbered(s, number)

Made(r) == {<<k.handle, k.class>> : k \in ToSet(r.classes)}
Names(r, c, T) == ShapesBoth(c.opt) => \A l \in ToSet(r.queue) : Sends(l, Enters(c)) => l.target.v \in T

RuleInv(r, c, number) ==
    /\ RuleFields \subseteq DOMAIN r
    /\ IsList(r.queue) /\ \A l \in ToSet(r.queue) : InBase(l)
    /\ Logging(c) => LogsFirst(r.queue)
    /\ NetsFine(r.fromNets) /\ NetsFine(r.toNets)
    /\ r.fromIf \in Ifaces /\ r.toIf \in Ifaces
    /\ Shapes(c.opt) => r.classOut = number /\ r.classIn = number + 1
    /\ ClassInv(r.classes, number)
    /\ Shapes(c.opt) \/ r.classes = << >>
    /\ Names(r, c, Made(r) \union Pending(r))

\* the same for the loops over interfaces, where no class is still to be made
OuterInv(r, c, number) == RuleInv(r, c, number) /\ Names(r, c, Made(r))

\* what the loops leave alone, and what those over interfaces do
Near(q, r) ==
    /\ DOMAIN q = DOMAIN r /\ q.queue = r.queue
    /\ q.classes = r.classes /\ q.classOut = r.classOut /\ q.classIn = r.classIn
Same(q, r) ==
    /\ Near(q, r) /\ q.fromNets = r.fromNets /\ q.toNets = r.toNets
    /\ q.fromIf = r.fromIf /\ q.toIf = r.toIf

\* a zone of a rule, and what is found for a rule before its loops start
Kind(z) == IsZone(z) /\ ZoneLists(z)
CacheInv(c) ==
    /\ c.service = None \/ IsList(c.service.ranges)
    /\ SrcAny(c) \/ Kind(c.from)
    /\ DstAny(c) \/ Kind(c.to)
    /\ c.fromAny \/ c.fromFw \/ Kind(c.from)
    /\ c.toAny \/ c.toFw \/ Kind(c.to)
    /\ c.opt.inInt \in Ifaces /\ c.opt.outInt \in Ifaces

OptFine(opt) ==
    /\ {"log", "bwIn", "bwOut", "prio", "inInt", "outInt"} \subseteq DOMAIN opt
    /\ {opt.inInt, opt.outInt} \subseteq Ifaces

LEMMA OptLemma ==
    ASSUME NEW d, OptFine(d.opt)
    PROVE  /\ Cache(d).opt.inInt \in Ifaces /\ Cache(d).opt.outInt \in Ifaces
           /\ ShapesBoth(Cache(d).opt) = ShapesBoth(d.opt)
           /\ Shapes(Cache(d).opt) = Shapes(d.opt)
  <1> DEFINE o == Cache(d).opt
  <1>1. o = [d.opt EXCEPT !.log = @ /\ d.action # "log"]
    BY DEF Cache
  <1> HIDE DEF o
  <1>2. /\ o.inInt = d.opt.inInt /\ o.outInt = d.opt.outInt
        /\ o.bwIn = d.opt.bwIn /\ o.bwOut = d.opt.bwOut /\ o.prio = d.opt.prio
    BY <1>1 DEF OptFine
  <1>3. ShapesIn(o) = ShapesIn(d.opt) /\ ShapesOut(o) = ShapesOut(d.opt)
    BY <1>2 DEF ShapesIn, ShapesOut
  <1> QED
    BY <1>2, <1>3 DEF o, OptFine, ShapesBoth, Shapes

LEMMA CacheLemma ==
    ASSUME NEW d, ZoneLists(d.from), ZoneLists(d.to), d.service = None \/ IsList(d.service.ranges), OptFine(d.opt)
    PROVE  CacheInv(Cache(d))
  <1> DEFINE c == Cache(d)
             stands(z) == IF IsZone(z) /\ z.type # "zone" THEN NetworkOf(z) ELSE None
  <1>1. /\ c.from = (IF IsFirewall(d.from) THEN stands(d.to) ELSE IF IsZone(d.from) THEN d.from ELSE None)
        /\ c.to = (IF IsFirewall(d.to) THEN stands(d.from) ELSE IF IsZone(d.to) THEN d.to ELSE None)
        /\ c.fromAny = (d.from.type = "any") /\ c.toAny = (d.to.type = "any")
        /\ c.fromFw = IsFirewall(d.from) /\ c.toFw = IsFirewall(d.to) /\ c.service = d.service
    BY DEF Cache
  <1>2. ASSUME NEW z, ZoneLists(z) PROVE stands(z) = None \/ Kind(stands(z))
    BY <1>2 DEF ZoneLists, Kind, NetworkOf, IsZone, IsFirewall, NetLists
  <1> HIDE DEF c, stands
  <1>3. IsZone(d.from) => Kind(d.from)
    BY DEF Kind
  <1>4. IsZone(d.to) => Kind(d.to)
    BY DEF Kind
  <1>5. /\ d.from.type = "any" \/ IsFirewall(d.from) \/ IsZone(d.from)
        /\ d.to.type = "any" \/ IsFirewall(d.to) \/ IsZone(d.to)
        /\ ~(IsZone(d.from) /\ IsFirewall(d.from)) /\ ~(IsZone(d.to) /\ IsFirewall(d.to))
    BY DEF IsZone
  <1>6. c.fromAny \/ c.from = None \/ Kind(c.from)
    BY <1>1, <1>2, <1>3, <1>5
  <1>7. c.toAny \/ c.to = None \/ Kind(c.to)
    BY <1>1, <1>2, <1>4, <1>5
  <1>8. c.fromAny \/ c.fromFw \/ Kind(c.from)
    BY <1>1, <1>3, <1>5
  <1>9. c.toAny \/ c.toFw \/ Kind(c.to)
    BY <1>1, <1>4, <1>5
  <1>10. c.opt.inInt \in Ifaces /\ c.opt.outInt \in Ifaces
    BY OptLemma DEF c
  <1>11. CacheInv(c)
    BY <1>1, <1>6, <1>7, <1>8, <1>9, <1>10 DEF CacheInv, SrcAny, DstAny
  <1> QED
    BY <1>11 DEF c

LEMMA KeepInv ==
    ASSUME NEW r, NEW q, NEW c, NEW number, Same(q, r)
    PROVE  /\ RuleInv(r, c, number) => RuleInv(q, c, number)
           /\ OuterInv(r, c, number) => OuterInv(q, c, number)
  <1>1. Made(q) = Made(r) /\ Pending(q) = Pending(r)
    BY DEF Same, Near, Made, Pending
  <1>2. ASSUME NEW T, Names(r, c, T) PROVE Names(q, c, T)
    BY <1>2 DEF Same, Near, Names
  <1> QED
    BY <1>1, <1>2 DEF Same, Near, RuleInv, OuterInv

\* between two turns of a loop over interfaces, the interfaces and networks may change
LEMMA MoveInv ==
    ASSUME NEW r, NEW q, NEW c, NEW number, OuterInv(r, c, number), Near(q, r),
           NetsFine(q.fromNets), NetsFine(q.toNets), q.fromIf \in Ifaces, q.toIf \in Ifaces
    PROVE  OuterInv(q, c, number)
  <1>1. Made(q) = Made(r)
    BY DEF Near, Made
  <1>2. Names(q, c, Made(q)) /\ Names(q, c, Made(q) \union Pending(q))
    BY <1>1 DEF Near, OuterInv, Names
  <1> QED
    BY <1>2 DEF Near, RuleInv, OuterInv

LEMMA EmitInv == ASSUME NEW r, NEW c, NEW number, RuleInv(r, c, number) PROVE RuleInv(Emit(r, c), c, number)
  <1> DEFINE s == CreateRuleAndOptions(r, c)
             q == Emit(r, c)
             T == Made(r) \union Pending(r)
  <1>1. /\ DOMAIN q = DOMAIN r /\ q.queue = Queue(r.queue, s) /\ q.fromNets = r.fromNets /\ q.toNets = r.toNets
        /\ q.fromIf = r.fromIf /\ q.toIf = r.toIf
        /\ q.classes = r.classes /\ q.classOut = r.classOut /\ q.classIn = r.classIn
    BY DEF RuleInv, RuleFields, Emit
  <1>2. IsList(s) /\ (\A l \in ToSet(s) : InBase(l)) /\ (Logging(c) => LogsFirst(s))
    BY OptionsLemma DEF RuleInv
  <1>3. \A l \in ToSet(s) : Sends(l, Enters(c)) => l.target.v \in Pending(r)
    BY OptionsPoint DEF RuleInv, Points
  <1> HIDE DEF s, q
  <1>4. /\ IsList(q.queue) /\ ToSet(q.queue) = ToSet(r.queue) \union ToSet(s)
        /\ Logging(c) => LogsFirst(q.queue)
    BY <1>1, <1>2, QueueLemma DEF RuleInv
  <1>5. Made(q) \union Pending(q) = T
    BY <1>1 DEF Made, Pending
  <1>6. Names(q, c, T)
    <2>1. Names(r, c, T)
      BY DEF RuleInv
    <2> HIDE DEF T
    <2>2. \A l \in ToSet(s) : Sends(l, Enters(c)) => l.target.v \in T
      BY <1>3 DEF T
    <2> QED
      BY <1>4, <2>1, <2>2 DEF Names
  <1> HIDE DEF T
  <1>7. RuleInv(q, c, number)
    BY <1>1, <1>2, <1>4, <1>5, <1>6 DEF RuleInv
  <1> QED
    BY <1>7 DEF q

LEMMA StopsLemma ==
    ASSUME NEW nets, NetsFine(nets)
    PROVE  IsList(Stops(nets)) /\ \A n \in DOMAIN Stops(nets) : Stops(nets)[n].iface \in Ifaces
  <1> DEFINE of(n) == [i \in DOMAIN n.ifaces |-> [net |-> n, iface |-> n.ifaces[i]]]
             parts == [k \in DOMAIN nets |-> of(nets[k])]
  <1>1. ASSUME NEW n, IsList(n.ifaces) PROVE IsList(of(n))
    <2>1. Len(n.ifaces) \in Nat /\ DOMAIN n.ifaces = 1..Len(n.ifaces)
      BY <1>1, ListFacts
    <2>2. of(n) = [i \in 1..Len(n.ifaces) |-> of(n)[i]]
      BY <2>1
    <2> QED
      BY <2>1, <2>2, ListMade
  <1>2. ASSUME NEW n, ToSet(n.ifaces) \subseteq Ifaces, NEW x \in ToSet(of(n)) PROVE x.iface \in Ifaces
    <2>1. PICK i \in DOMAIN of(n) : x = of(n)[i]
      BY <1>2 DEF ToSet
    <2>2. i \in DOMAIN n.ifaces /\ x.iface = n.ifaces[i]
      BY <2>1
    <2> QED
      BY <1>2, <2>2 DEF ToSet
  <1>3. IsList(nets) /\ Len(nets) \in Nat /\ DOMAIN nets = 1..Len(nets)
    BY ListFacts DEF NetsFine
  <1>4. IsList(parts)
    <2>1. parts = [k \in 1..Len(nets) |-> parts[k]]
      BY <1>3
    <2> QED
      BY <1>3, <2>1, ListMade
  <1>5. \A k \in DOMAIN parts : IsList(parts[k]) /\ \A x \in ToSet(parts[k]) : x.iface \in Ifaces
    BY <1>1, <1>2 DEF NetsFine
  <1>6. Stops(nets) = FlattenSeq(parts)
    BY DEF Stops
  <1> HIDE DEF parts
  <1>7. IsList(Stops(nets)) /\ ToSet(Stops(nets)) = UNION {ToSet(parts[n]) : n \in DOMAIN parts}
    BY <1>4, <1>5, <1>6, FlattenLemma
  <1>8. \A x \in ToSet(Stops(nets)) : x.iface \in Ifaces
    BY <1>5, <1>7
  <1> QED
    BY <1>7, <1>8 DEF ToSet

LEMMA NetsFineBoth == ASSUME NEW s, NEW t, NetsFine(s), NetsFine(t) PROVE NetsFine(s \o t)
  <1> DEFINE fine(x) == IsList(x.ifaces) /\ ToSet(x.ifaces) \subseteq Ifaces
  <1>1. ToSet(s \o t) = ToSet(s) \union ToSet(t) /\ IsList(s \o t)
    BY SetOfBoth, ListBoth DEF NetsFine
  <1>2. ASSUME NEW u PROVE (\A n \in DOMAIN u : fine(u[n])) <=> \A x \in ToSet(u) : fine(x)
    BY DEF ToSet
  <1>3. ASSUME NEW u PROVE NetsFine(u) <=> IsList(u) /\ \A n \in DOMAIN u : fine(u[n])
    BY DEF NetsFine
  <1> HIDE DEF fine
  <1> QED
    BY <1>1, <1>2, <1>3

\* the destinations and the sources of a rule are lists, and each loop over them
\* keeps what is said of the queue: by induction over the loop's steps
LEMMA DestinationsList == ASSUME NEW r, NEW c, CacheInv(c) PROVE IsList(Destinations(r, c))
  <1> DEFINE to(z, on) == [addr |-> z.addr[r.ipv], on |-> on]
             members == [n \in DOMAIN c.to.members |-> to(c.to.members[n], c.to.members[n].active)]
  <1>1. c.toAny \/ c.toFw \/ c.to.type \in {"host", "network", "group", "zone"}
    BY DEF CacheInv, Kind, IsZone, ZoneLists, NetLists
  <1>2. ASSUME ~(c.toAny \/ c.toFw), c.to.type = "group" PROVE IsList(members)
    <2>1. IsList(c.to.members)
      BY <1>2 DEF CacheInv, Kind, ZoneLists, NetLists
    <2>2. Len(c.to.members) \in Nat /\ members = [n \in 1..Len(c.to.members) |-> members[n]]
      BY <2>1, ListFacts
    <2> QED
      BY <2>2, ListMade
  <1> HIDE DEF members
  <1>3. \/ \E x : Destinations(r, c) = << x >>
        \/ Destinations(r, c) = << >>
        \/ ~(c.toAny \/ c.toFw) /\ c.to.type = "group" /\ Destinations(r, c) = members
    BY <1>1 DEF Destinations, members
  <1> QED
    BY <1>2, <1>3, ListOne, ListNone

LEMMA SourcesList == ASSUME NEW r, NEW c, CacheInv(c) PROVE IsList(Sources(r, c))
  <1> DEFINE host(h) == [addr |-> h.addr[r.ipv], mac |-> Mac(h), on |-> h.active]
             members == [n \in DOMAIN c.from.members |-> host(c.from.members[n])]
  <1>1. c.fromAny \/ c.fromFw \/ c.from.type \in {"host", "network", "group", "zone"}
    BY DEF CacheInv, Kind, IsZone, ZoneLists, NetLists
  <1>2. ASSUME ~(c.fromAny \/ c.fromFw), c.from.type = "group" PROVE IsList(members)
    <2>1. IsList(c.from.members)
      BY <1>2 DEF CacheInv, Kind, ZoneLists, NetLists
    <2>2. Len(c.from.members) \in Nat /\ members = [n \in 1..Len(c.from.members) |-> members[n]]
      BY <2>1, ListFacts
    <2> QED
      BY <2>2, ListMade
  <1> HIDE DEF members
  <1>3. \/ \E x : Sources(r, c) = << x >>
        \/ ~(c.fromAny \/ c.fromFw) /\ c.from.type = "group" /\ Sources(r, c) = members
    BY <1>1 DEF Sources, members
  <1> QED
    BY <1>2, <1>3, ListOne

LEMMA FirewallInv ==
    ASSUME NEW r, NEW c, NEW number, RuleInv(r, c, number)
    PROVE  RuleInv(DstFirewall(r, c), c, number) /\ RuleInv(SrcFirewall(r, c), c, number)
  <1>1. LET q == DstFirewall(r, c)
        IN  Same(q, r)
    BY DEF Same, Near, DstFirewall, RuleInv, RuleFields
  <1>2. LET q == SrcFirewall(r, c)
        IN  Same(q, r)
    BY DEF Same, Near, SrcFirewall, RuleInv, RuleFields
  <1> QED
    BY <1>1, <1>2, KeepInv

LEMMA ToDestinationInv ==
    ASSUME NEW r, NEW t, NEW c, NEW number, RuleInv(r, c, number)
    PROVE  RuleInv(ToDestination(r, t, c), c, number)
  <1> DEFINE q == [r EXCEPT !.dst = t.addr]
  <1>1. Same(q, r)
    BY DEF Same, Near, RuleInv, RuleFields
  <1>2. ToDestination(r, t, c) = IF t.on THEN Emit(q, c) ELSE q
    BY DEF ToDestination
  <1> HIDE DEF q
  <1> QED
    BY <1>1, <1>2, KeepInv, EmitInv

LEMMA DstLoopInv ==
    ASSUME NEW r, NEW c, NEW number, CacheInv(c), RuleInv(r, c, number)
    PROVE  RuleInv(DstLoop(r, c), c, number)
  <1> DEFINE start == IF c.toFw THEN DstFirewall(r, c) ELSE r
             list == Destinations(start, c)
             Step1(q, n) == ToDestination(q, list[n], c)
             Run(g, m) == g = [n \in 0..m |-> IF n = 0 THEN start ELSE Step1(g[n - 1], n)]
             after[n \in 0..Len(list)] == IF n = 0 THEN start ELSE Step1(after[n - 1], n)
  <1>1. RuleInv(start, c, number)
    BY FirewallInv
  <1>2. IsList(list) /\ Len(list) \in Nat
    BY DestinationsList, ListFacts
  <1>3. ASSUME NEW q, NEW n, RuleInv(q, c, number) PROVE RuleInv(Step1(q, n), c, number)
    BY <1>3, ToDestinationInv
  <1>4. DstLoop(r, c) = after[Len(list)]
    BY DEF DstLoop, Loop
  <1> HIDE DEF start, list, Step1
  <1>5. \A m \in Nat : \E g : Run(g, m)
    <2> DEFINE T == {m \in Nat : \E g : Run(g, m)}
    <2>1. 0 \in T
      <3>1. Run([n \in 0..0 |-> start], 0)
        OBVIOUS
      <3> QED
        BY <3>1
    <2>2. ASSUME NEW m \in Nat, m \in T PROVE m + 1 \in T
      <3>1. PICK g : Run(g, m)
        BY <2>2
      <3> DEFINE next == Step1(g[m], m + 1)
      <3> HIDE DEF next
      <3>2. PICK h : Extends(h, g, m, next)
        BY OneMore
      <3>3. ASSUME NEW n \in 0..(m + 1) PROVE h[n] = IF n = 0 THEN start ELSE Step1(h[n - 1], n)
        <4>1. CASE n = m + 1
          <5>1. n # 0 /\ n - 1 = m /\ m \in 0..m
            BY <4>1
          <5> QED
            BY <3>2, <4>1, <5>1 DEF next, Extends
        <4>2. CASE n # m + 1
          <5>1. n \in 0..m /\ (n # 0 => n - 1 \in 0..m)
            BY <4>2
          <5>2. g[n] = IF n = 0 THEN start ELSE Step1(g[n - 1], n)
            BY <3>1, <5>1
          <5> QED
            BY <3>2, <5>1, <5>2 DEF Extends
        <4> QED
          BY <4>1, <4>2
      <3>4. Run(h, m + 1)
        <4>1. h = [n \in 0..(m + 1) |-> h[n]]
          BY <3>2 DEF Extends
        <4> QED
          BY <3>3, <4>1
      <3> QED
        BY <3>4
    <2>3. Nat \subseteq T
      <3> HIDE DEF T
      <3> QED
        BY <2>1, <2>2, NatSets
    <2> QED
      BY <2>3
  <1>6. after = [n \in 0..Len(list) |-> IF n = 0 THEN start ELSE Step1(after[n - 1], n)]
    <2>1. \E g : g = [n \in 0..Len(list) |-> IF n = 0 THEN start ELSE Step1(g[n - 1], n)]
      BY <1>2, <1>5
    <2> QED
      BY <2>1
  <1> HIDE DEF after
  <1> DEFINE S == {n \in Nat : n <= Len(list) => RuleInv(after[n], c, number)}
  <1>7. 0 \in S
    <2>1. after[0] = start
      BY <1>2, <1>6
    <2> QED
      BY <1>1, <2>1
  <1>8. ASSUME NEW n \in Nat, n \in S PROVE n + 1 \in S
    <2>1. SUFFICES ASSUME n + 1 <= Len(list) PROVE RuleInv(after[n + 1], c, number)
      OBVIOUS
    <2>2. n + 1 \in 0..Len(list) /\ n + 1 # 0 /\ (n + 1) - 1 = n /\ n <= Len(list)
      BY <1>2, <2>1
    <2>3. after[n + 1] = Step1(after[n], n + 1)
      BY <1>6, <2>2
    <2> QED
      BY <1>3, <1>8, <2>2, <2>3
  <1>9. Nat \subseteq S
    <2> HIDE DEF S
    <2> QED
      BY <1>7, <1>8, NatSets
  <1> QED
    BY <1>2, <1>4, <1>9

LEMMA FromSourceInv ==
    ASSUME NEW r, NEW s, NEW c, NEW number, CacheInv(c), RuleInv(r, c, number)
    PROVE  RuleInv(FromSource(r, s, c), c, number)
  <1> DEFINE q == [r EXCEPT !.src = s.addr, !.mac = s.mac]
  <1>1. Same(q, r)
    BY DEF Same, Near, RuleInv, RuleFields
  <1>2. FromSource(r, s, c) = IF s.on THEN DstLoop(q, c) ELSE q
    BY DEF FromSource
  <1> HIDE DEF q
  <1> QED
    BY <1>1, <1>2, KeepInv, DstLoopInv

LEMMA SrcLoopInv ==
    ASSUME NEW r, NEW c, NEW number, CacheInv(c), RuleInv(r, c, number)
    PROVE  RuleInv(SrcLoop(r, c), c, number)
  <1> DEFINE start == IF c.fromFw THEN SrcFirewall(r, c) ELSE r
             list == Sources(start, c)
             Step1(q, n) == FromSource(q, list[n], c)
             Run(g, m) == g = [n \in 0..m |-> IF n = 0 THEN start ELSE Step1(g[n - 1], n)]
             after[n \in 0..Len(list)] == IF n = 0 THEN start ELSE Step1(after[n - 1], n)
  <1>1. RuleInv(start, c, number)
    BY FirewallInv
  <1>2. IsList(list) /\ Len(list) \in Nat
    BY SourcesList, ListFacts
  <1>3. ASSUME NEW q, NEW n, RuleInv(q, c, number) PROVE RuleInv(Step1(q, n), c, number)
    BY <1>3, FromSourceInv
  <1>4. SrcLoop(r, c) = after[Len(list)]
    BY DEF SrcLoop, Loop
  <1> HIDE DEF start, list, Step1
  <1>5. \A m \in Nat : \E g : Run(g, m)
    <2> DEFINE T == {m \in Nat : \E g : Run(g, m)}
    <2>1. 0 \in T
      <3>1. Run([n \in 0..0 |-> start], 0)
        OBVIOUS
      <3> QED
        BY <3>1
    <2>2. ASSUME NEW m \in Nat, m \in T PROVE m + 1 \in T
      <3>1. PICK g : Run(g, m)
        BY <2>2
      <3> DEFINE next == Step1(g[m], m + 1)
      <3> HIDE DEF next
      <3>2. PICK h : Extends(h, g, m, next)
        BY OneMore
      <3>3. ASSUME NEW n \in 0..(m + 1) PROVE h[n] = IF n = 0 THEN start ELSE Step1(h[n - 1], n)
        <4>1. CASE n = m + 1
          <5>1. n # 0 /\ n - 1 = m /\ m \in 0..m
            BY <4>1
          <5> QED
            BY <3>2, <4>1, <5>1 DEF next, Extends
        <4>2. CASE n # m + 1
          <5>1. n \in 0..m /\ (n # 0 => n - 1 \in 0..m)
            BY <4>2
          <5>2. g[n] = IF n = 0 THEN start ELSE Step1(g[n - 1], n)
            BY <3>1, <5>1
          <5> QED
            BY <3>2, <5>1, <5>2 DEF Extends
        <4> QED
          BY <4>1, <4>2
      <3>4. Run(h, m + 1)
        <4>1. h = [n \in 0..(m + 1) |-> h[n]]
          BY <3>2 DEF Extends
        <4> QED
          BY <3>3, <4>1
      <3> QED
        BY <3>4
    <2>3. Nat \subseteq T
      <3> HIDE DEF T
      <3> QED
        BY <2>1, <2>2, NatSets
    <2> QED
      BY <2>3
  <1>6. after = [n \in 0..Len(list) |-> IF n = 0 THEN start ELSE Step1(after[n - 1], n)]
    <2>1. \E g : g = [n \in 0..Len(list) |-> IF n = 0 THEN start ELSE Step1(g[n - 1], n)]
      BY <1>2, <1>5
    <2> QED
      BY <2>1
  <1> HIDE DEF after
  <1> DEFINE S == {n \in Nat : n <= Len(list) => RuleInv(after[n], c, number)}
  <1>7. 0 \in S
    <2>1. after[0] = start
      BY <1>2, <1>6
    <2> QED
      BY <1>1, <2>1
  <1>8. ASSUME NEW n \in Nat, n \in S PROVE n + 1 \in S
    <2>1. SUFFICES ASSUME n + 1 <= Len(list) PROVE RuleInv(after[n + 1], c, number)
      OBVIOUS
    <2>2. n + 1 \in 0..Len(list) /\ n + 1 # 0 /\ (n + 1) - 1 = n /\ n <= Len(list)
      BY <1>2, <2>1
    <2>3. after[n + 1] = Step1(after[n], n + 1)
      BY <1>6, <2>2
    <2> QED
      BY <1>3, <1>8, <2>2, <2>3
  <1>9. Nat \subseteq S
    <2> HIDE DEF S
    <2> QED
      BY <1>7, <1>8, NatSets
  <1> QED
    BY <1>2, <1>4, <1>9

\* the ranges of the service, and the loops over interfaces around them
LEMMA OfRangeInv ==
    ASSUME NEW r, NEW c, NEW number, NEW p, RuleInv(r, c, number)
    PROVE  RuleInv(OfRange(r, c, p), c, number)
  <1> DEFINE q == [r EXCEPT !.portrange = p, !.listenport = NodeAt(c.opt.listen, r.node),
                            !.remoteport = NodeAt(c.opt.remote, r.node)]
  <1>1. Same(q, r)
    BY DEF Same, Near, RuleInv, RuleFields
  <1>2. OfRange(r, c, p) = SetProto(SetPorts(q, p), p.proto)
    BY DEF OfRange
  <1> HIDE DEF q
  <1>3. RuleInv(q, c, number)
    BY <1>1, KeepInv
  <1>4. LET s == SetPorts(q, p)
        IN  Same(s, q)
    BY <1>3 DEF Same, Near, SetPorts, RuleInv, RuleFields
  <1>5. RuleInv(SetPorts(q, p), c, number)
    BY <1>3, <1>4, KeepInv
  <1>6. ASSUME NEW s, RuleInv(s, c, number)
        PROVE  LET t == SetProto(s, p.proto)
               IN  Same(t, s)
    BY <1>6 DEF Same, Near, SetProto, RuleInv, RuleFields
  <1> QED
    BY <1>2, <1>5, <1>6, KeepInv

LEMMA ForRangeInv ==
    ASSUME NEW r, NEW c, NEW number, NEW p, CacheInv(c), RuleInv(r, c, number)
    PROVE  RuleInv(ForRange(r, c, p), c, number)
  <1> DEFINE q == [r EXCEPT !.portrange = p]
             s == SrcLoop(OfRange(r, c, p), c)
             t == [s EXCEPT !.node = @ + 1]
  <1>1. Same(q, r)
    BY DEF Same, Near, RuleInv, RuleFields
  <1>2. RuleInv(s, c, number)
    BY OfRangeInv, SrcLoopInv
  <1>3. ForRange(r, c, p) = IF OfOtherFamily(r.ipv, p.proto) THEN q ELSE t
    BY DEF ForRange
  <1> HIDE DEF q, s
  <1>4. Same(t, s)
    BY <1>2 DEF Same, Near, RuleInv, RuleFields
  <1> HIDE DEF t
  <1> QED
    BY <1>1, <1>2, <1>3, <1>4, KeepInv

LEMMA RangesInv ==
    ASSUME NEW r, NEW c, NEW number, CacheInv(c), RuleInv(r, c, number),
           c.service # None, c.service.active
    PROVE  RuleInv(ServiceLoop(r, c), c, number)
  <1> DEFINE start == [r EXCEPT !.node = 1]
             list == c.service.ranges
             Step1(q, n) == ForRange(q, c, list[n])
             Run(g, m) == g = [n \in 0..m |-> IF n = 0 THEN start ELSE Step1(g[n - 1], n)]
             after[n \in 0..Len(list)] == IF n = 0 THEN start ELSE Step1(after[n - 1], n)
  <1>1. RuleInv(start, c, number)
    <2>1. Same(start, r)
      BY DEF Same, Near, RuleInv, RuleFields
    <2> HIDE DEF start
    <2> QED
      BY <2>1, KeepInv
  <1>2. IsList(list) /\ Len(list) \in Nat
    BY ListFacts DEF CacheInv
  <1>3. ASSUME NEW q, NEW n, RuleInv(q, c, number) PROVE RuleInv(Step1(q, n), c, number)
    BY <1>3, ForRangeInv
  <1>4. ServiceLoop(r, c) = after[Len(list)]
    BY DEF ServiceLoop, Loop
  <1> HIDE DEF start, list, Step1
  <1>5. \A m \in Nat : \E g : Run(g, m)
    <2> DEFINE T == {m \in Nat : \E g : Run(g, m)}
    <2>1. 0 \in T
      <3>1. Run([n \in 0..0 |-> start], 0)
        OBVIOUS
      <3> QED
        BY <3>1
    <2>2. ASSUME NEW m \in Nat, m \in T PROVE m + 1 \in T
      <3>1. PICK g : Run(g, m)
        BY <2>2
      <3> DEFINE next == Step1(g[m], m + 1)
      <3> HIDE DEF next
      <3>2. PICK h : Extends(h, g, m, next)
        BY OneMore
      <3>3. ASSUME NEW n \in 0..(m + 1) PROVE h[n] = IF n = 0 THEN start ELSE Step1(h[n - 1], n)
        <4>1. CASE n = m + 1
          <5>1. n # 0 /\ n - 1 = m /\ m \in 0..m
            BY <4>1
          <5> QED
            BY <3>2, <4>1, <5>1 DEF next, Extends
        <4>2. CASE n # m + 1
          <5>1. n \in 0..m /\ (n # 0 => n - 1 \in 0..m)
            BY <4>2
          <5>2. g[n] = IF n = 0 THEN start ELSE Step1(g[n - 1], n)
            BY <3>1, <5>1
          <5> QED
            BY <3>2, <5>1, <5>2 DEF Extends
        <4> QED
          BY <4>1, <4>2
      <3>4. Run(h, m + 1)
        <4>1. h = [n \in 0..(m + 1) |-> h[n]]
          BY <3>2 DEF Extends
        <4> QED
          BY <3>3, <4>1
      <3> QED
        BY <3>4
    <2>3. Nat \subseteq T
      <3> HIDE DEF T
      <3> QED
        BY <2>1, <2>2, NatSets
    <2> QED
      BY <2>3
  <1>6. after = [n \in 0..Len(list) |-> IF n = 0 THEN start ELSE Step1(after[n - 1], n)]
    <2>1. \E g : g = [n \in 0..Len(list) |-> IF n = 0 THEN start ELSE Step1(g[n - 1], n)]
      BY <1>2, <1>5
    <2> QED
      BY <2>1
  <1> HIDE DEF after
  <1> DEFINE S == {n \in Nat : n <= Len(list) => RuleInv(after[n], c, number)}
  <1>7. 0 \in S
    <2>1. after[0] = start
      BY <1>2, <1>6
    <2> QED
      BY <1>1, <2>1
  <1>8. ASSUME NEW n \in Nat, n \in S PROVE n + 1 \in S
    <2>1. SUFFICES ASSUME n + 1 <= Len(list) PROVE RuleInv(after[n + 1], c, number)
      OBVIOUS
    <2>2. n + 1 \in 0..Len(list) /\ n + 1 # 0 /\ (n + 1) - 1 = n /\ n <= Len(list)
      BY <1>2, <2>1
    <2>3. after[n + 1] = Step1(after[n], n + 1)
      BY <1>6, <2>2
    <2> QED
      BY <1>3, <1>8, <2>2, <2>3
  <1>9. Nat \subseteq S
    <2> HIDE DEF S
    <2> QED
      BY <1>7, <1>8, NatSets
  <1> QED
    BY <1>2, <1>4, <1>9

LEMMA ServiceLoopInv ==
    ASSUME NEW r, NEW c, NEW number, CacheInv(c), RuleInv(r, c, number)
    PROVE  RuleInv(ServiceLoop(r, c), c, number)
  <1>1. CASE c.service = None
    <2> DEFINE q == WithoutPorts(r)
    <2>1. Same(q, r)
      BY DEF Same, Near, WithoutPorts, SetProto, RuleInv, RuleFields
    <2>2. ServiceLoop(r, c) = SrcLoop(q, c)
      BY <1>1 DEF ServiceLoop
    <2> HIDE DEF q
    <2> QED
      BY <2>1, <2>2, KeepInv, SrcLoopInv
  <1>2. CASE c.service # None /\ ~c.service.active
    BY <1>2 DEF ServiceLoop
  <1>3. CASE c.service # None /\ c.service.active
    BY <1>3, RangesInv
  <1> QED
    BY <1>1, <1>2, <1>3

\* a class that is made for one of the interfaces of a rule: its name is new, or it is there
LEMMA QueueClassLemma ==
    ASSUME NEW s, NEW k, NEW number, ClassInv(s, number), Rooted(k), k.class \in {number, number + 1}
    PROVE  LET t == QueueClass(s, k)
           IN  /\ ClassInv(t, number) /\ ToSet(s) \subseteq ToSet(t)
               /\ \E j \in ToSet(t) : j.handle = k.handle /\ j.class = k.class
  <1> DEFINE there == \E i \in DOMAIN s : Twins(s[i], k)
             t == Append(s, k)
  <1>1. QueueClass(s, k) = IF there THEN s ELSE t
    BY DEF QueueClass, Twins
  <1>2. CASE there
    BY <1>1, <1>2 DEF Twins, ToSet
  <1>3. CASE ~there
    <2>1. /\ IsList(s) /\ Len(s) \in Nat /\ DOMAIN s = 1..Len(s)
          /\ IsList(t) /\ DOMAIN t = 1..(Len(s) + 1) /\ (\A n \in 1..Len(s) : t[n] = s[n])
          /\ t[Len(s) + 1] = k /\ ToSet(t) = ToSet(s) \union {k}
      BY ListFacts, ListMore DEF ClassInv
    <2> HIDE DEF t
    <2>2. ASSUME NEW n \in DOMAIN t, NEW j \in DOMAIN t, Twins(t[n], t[j]) PROVE j = n
      <3>1. ASSUME NEW m \in 1..Len(s) PROVE ~Twins(t[m], k) /\ ~Twins(k, t[m])
        BY <1>3, <2>1 DEF Twins
      <3>2. CASE n \in 1..Len(s) /\ j \in 1..Len(s)
        BY <2>1, <2>2, <3>2 DEF ClassInv, NoTwins
      <3>3. CASE n = Len(s) + 1 /\ j = Len(s) + 1
        BY <3>3
      <3> QED
        BY <2>1, <2>2, <3>1, <3>2, <3>3
    <2>3. Numbered(t, number)
      BY <2>1 DEF ClassInv, Numbered
    <2>4. ClassInv(t, number)
      BY <2>1, <2>2, <2>3 DEF ClassInv, NoTwins
    <2> QED
      BY <1>1, <1>3, <2>1, <2>4 DEF t
  <1> QED
    BY <1>2, <1>3

LEMMA ShapeCreateInv ==
    ASSUME NEW r, NEW shape \in Ifaces, NEW of \in Ifaces, NEW class, NEW rate, NEW number,
           RuleFields \subseteq DOMAIN r, ClassInv(r.classes, number), class \in {number, number + 1}
    PROVE  LET q == ShapeCreateRule(r, shape, of, class, rate)
           IN  /\ DOMAIN q = DOMAIN r /\ q.queue = r.queue /\ q.fromNets = r.fromNets /\ q.toNets = r.toNets
               /\ q.fromIf = r.fromIf /\ q.toIf = r.toIf /\ q.classOut = r.classOut /\ q.classIn = r.classIn
               /\ ClassInv(q.classes, number) /\ Made(r) \subseteq Made(q)
               /\ Shaped(shape) => <<shape.handle, class>> \in Made(q)
  <1>1. CASE ~Shaped(shape)
    BY <1>1 DEF ShapeCreateRule
  <1>2. CASE Shaped(shape)
    <2> DEFINE k == [handle |-> shape.handle, class |-> class, device |-> shape.device,
                     parent |-> IF Shaped(of) /\ of.handle # shape.handle THEN of.handle ELSE 1,
                     rate |-> rate]
               q == [r EXCEPT !.classes = QueueClass(@, k)]
    <2>1. ShapeCreateRule(r, shape, of, class, rate) = q
      BY <1>2 DEF ShapeCreateRule
    <2>2. /\ DOMAIN q = DOMAIN r /\ q.queue = r.queue /\ q.fromNets = r.fromNets /\ q.toNets = r.toNets
          /\ q.fromIf = r.fromIf /\ q.toIf = r.toIf /\ q.classOut = r.classOut /\ q.classIn = r.classIn
          /\ q.classes = QueueClass(r.classes, k)
      BY DEF RuleFields
    <2>3. /\ k.handle = shape.handle /\ k.class = class /\ k.device = shape.device
          /\ k.parent = 1 \/ (Shaped(of) /\ of.handle # shape.handle /\ k.parent = of.handle)
          /\ {"handle", "class", "device", "parent", "rate"} \subseteq DOMAIN k
      OBVIOUS
    <2> HIDE DEF k, q
    <2>4. shape \in ToSet(Interfaces) /\ (Shaped(of) => of \in ToSet(Interfaces))
      BY <1>2 DEF Shaped, Ifaces
    <2>5. Rooted(k)
      BY <1>2, <2>3, <2>4 DEF Rooted
    <2>6. /\ ClassInv(q.classes, number) /\ ToSet(r.classes) \subseteq ToSet(q.classes)
          /\ \E j \in ToSet(q.classes) : j.handle = k.handle /\ j.class = k.class
      <3> DEFINE s == r.classes
      <3>1. ClassInv(s, number) /\ k.class \in {number, number + 1} /\ q.classes = QueueClass(s, k)
        BY <2>2, <2>3
      <3> HIDE DEF s
      <3>2. /\ ClassInv(QueueClass(s, k), number) /\ ToSet(s) \subseteq ToSet(QueueClass(s, k))
            /\ \E j \in ToSet(QueueClass(s, k)) : j.handle = k.handle /\ j.class = k.class
        BY <2>5, <3>1, QueueClassLemma
      <3> QED
        BY <3>1, <3>2 DEF s
    <2> QED
      BY <2>1, <2>2, <2>3, <2>6 DEF Made
  <1> QED
    BY <1>1, <1>2

\* what is pending is made when both interfaces are through
LEMMA ShapeInv ==
    ASSUME NEW r, NEW c, NEW number, RuleInv(r, c, number)
    PROVE  OuterInv(ShapeRules(r, c), c, number)
  <1> DEFINE q == IF ShapesOut(c.opt)
                  THEN ShapeCreateRule(r, r.toIf, r.fromIf, r.classOut, c.opt.bwIn) ELSE r
             s == IF ShapesIn(c.opt)
                  THEN ShapeCreateRule(q, q.fromIf, q.toIf, q.classIn, c.opt.bwOut) ELSE q
             Untouched(p) == /\ DOMAIN p = DOMAIN r /\ p.queue = r.queue /\ p.fromNets = r.fromNets
                             /\ p.toNets = r.toNets /\ p.fromIf = r.fromIf /\ p.toIf = r.toIf
                             /\ p.classOut = r.classOut /\ p.classIn = r.classIn
                             /\ ClassInv(p.classes, number) /\ Made(r) \subseteq Made(p)
                             /\ Shapes(c.opt) \/ p.classes = << >>
  <1>1. ShapeRules(r, c) = s
    BY DEF ShapeRules
  <1>2. /\ Untouched(q)
        /\ ShapesOut(c.opt) /\ Shaped(r.toIf) => <<r.toIf.handle, r.classOut>> \in Made(q)
    <2>1. CASE ShapesOut(c.opt)
      <3>1. Shapes(c.opt) /\ r.classOut = number
        BY <2>1 DEF RuleInv, Shapes
      <3> QED
        BY <2>1, <3>1, ShapeCreateInv DEF RuleInv
    <2>2. CASE ~ShapesOut(c.opt)
      BY <2>2 DEF RuleInv
    <2> QED
      BY <2>1, <2>2
  <1> HIDE DEF q
  <1>3. /\ Untouched(s) /\ Made(q) \subseteq Made(s)
        /\ ShapesIn(c.opt) /\ Shaped(r.fromIf) => <<r.fromIf.handle, r.classIn>> \in Made(s)
    <2>1. CASE ShapesIn(c.opt)
      <3>1. Shapes(c.opt) /\ r.classIn = number + 1 /\ q.classIn = r.classIn
        BY <1>2, <2>1 DEF RuleInv, Shapes
      <3>2. q.fromIf = r.fromIf /\ q.toIf = r.toIf /\ r.fromIf \in Ifaces /\ r.toIf \in Ifaces
        BY <1>2 DEF RuleInv
      <3>3. RuleFields \subseteq DOMAIN q /\ ClassInv(q.classes, number)
        BY <1>2 DEF RuleInv
      <3>4. s = ShapeCreateRule(q, r.fromIf, r.toIf, r.classIn, c.opt.bwOut)
        BY <2>1, <3>1, <3>2
      <3> HIDE DEF s
      <3> QED
        BY <1>2, <2>1, <3>1, <3>2, <3>3, <3>4, ShapeCreateInv
    <2>2. CASE ~ShapesIn(c.opt)
      BY <1>2, <2>2
    <2> QED
      BY <2>1, <2>2
  <1> HIDE DEF s
  <1>4. ShapesBoth(c.opt) => Pending(r) \subseteq Made(s)
    BY <1>2, <1>3 DEF ShapesBoth, Pending
  <1>5. Names(s, c, Made(s)) /\ Names(s, c, Made(s) \union Pending(s))
    BY <1>3, <1>4 DEF Names, RuleInv
  <1>6. OuterInv(s, c, number)
    BY <1>3, <1>5 DEF RuleInv, OuterInv
  <1> QED
    BY <1>1, <1>6

LEMMA DstIfaceInv ==
    ASSUME NEW r, NEW c, NEW number, NEW stop, stop.iface \in Ifaces, CacheInv(c), OuterInv(r, c, number)
    PROVE  OuterInv(DstIface(r, c, stop), c, number)
  <1> DEFINE q == IF stop.iface = None THEN [r EXCEPT !.toInt = None]
                  ELSE [r EXCEPT !.toNet = IF DstAny(c) THEN @ ELSE stop.net,
                                 !.toIf = stop.iface, !.toInt = Device(stop.iface)]
  <1>1. /\ Near(q, r) /\ q.fromNets = r.fromNets /\ q.toNets = r.toNets
        /\ q.fromIf = r.fromIf /\ q.toIf \in Ifaces
    BY DEF Near, OuterInv, RuleInv, RuleFields
  <1>2. DstIface(r, c, stop) = IF DstUsable(r, c, stop.iface) THEN ShapeRules(ServiceLoop(q, c), c) ELSE q
    BY DEF DstIface
  <1> HIDE DEF q
  <1>3. OuterInv(q, c, number)
    BY <1>1, MoveInv DEF OuterInv, RuleInv
  <1>4. RuleInv(q, c, number)
    BY <1>3 DEF OuterInv
  <1> QED
    BY <1>2, <1>3, <1>4, ServiceLoopInv, ShapeInv

LEMMA OfZoneFine ==
    ASSUME NEW z, NEW list, Kind(z), NetsFine(list)
    PROVE  NetsFine(OfZone(z, list))
  <1>1. z.type # "zone" => IsList(NetworkOf(z).ifaces) /\ ToSet(NetworkOf(z).ifaces) \subseteq Ifaces
    BY DEF Kind, ZoneLists, NetLists, NetworkOf, Ifaces
  <1>2. ASSUME NEW n, IsList(n.ifaces), ToSet(n.ifaces) \subseteq Ifaces PROVE NetsFine(<< n >>)
    BY <1>2, ListOne DEF NetsFine
  <1> QED
    BY <1>1, <1>2 DEF OfZone

LEMMA DstStopsList ==
    ASSUME NEW r, NEW c, NEW number, CacheInv(c), RuleInv(r, c, number)
    PROVE  LET list == IF DstAny(c) THEN << [net |-> None, iface |-> DstOption(c)] >>
                       ELSE Stops(OfZone(c.to, r.toNets))
           IN  IsList(list) /\ \A n \in DOMAIN list : list[n].iface \in Ifaces
  <1>1. ~DstAny(c) => NetsFine(OfZone(c.to, r.toNets))
    BY OfZoneFine DEF CacheInv, RuleInv
  <1>2. DstOption(c) \in Ifaces
    BY DEF DstOption, CacheInv
  <1> QED
    BY <1>1, <1>2, StopsLemma, ListOne

LEMMA SrcStopsList ==
    ASSUME NEW r, NEW c, NEW number, CacheInv(c), RuleInv(r, c, number)
    PROVE  LET list == IF SrcAny(c) THEN << [net |-> None, iface |-> SrcOption(c)] >>
                       ELSE Stops(OfZone(c.from, r.fromNets))
           IN  IsList(list) /\ \A n \in DOMAIN list : list[n].iface \in Ifaces
  <1>1. ~SrcAny(c) => NetsFine(OfZone(c.from, r.fromNets))
    BY OfZoneFine DEF CacheInv, RuleInv
  <1>2. SrcOption(c) \in Ifaces
    BY DEF SrcOption, CacheInv
  <1> QED
    BY <1>1, <1>2, StopsLemma, ListOne

LEMMA ZoneNetsInv ==
    ASSUME NEW r, NEW c, NEW number, NEW nets, OuterInv(r, c, number), NetsFine(nets)
    PROVE  /\ OuterInv([r EXCEPT !.toNets = @ \o nets], c, number)
           /\ OuterInv([r EXCEPT !.fromNets = @ \o nets], c, number)
  <1>1. NetsFine(r.toNets \o nets) /\ NetsFine(r.fromNets \o nets)
    BY NetsFineBoth DEF OuterInv, RuleInv
  <1> DEFINE q == [r EXCEPT !.toNets = @ \o nets]
             p == [r EXCEPT !.fromNets = @ \o nets]
  <1>2. /\ Near(q, r) /\ q.fromNets = r.fromNets /\ q.toNets = r.toNets \o nets
        /\ q.fromIf = r.fromIf /\ q.toIf = r.toIf
        /\ Near(p, r) /\ p.toNets = r.toNets /\ p.fromNets = r.fromNets \o nets
        /\ p.fromIf = r.fromIf /\ p.toIf = r.toIf
    BY DEF Near, OuterInv, RuleInv, RuleFields
  <1> HIDE DEF q, p
  <1>3. NetsFine(r.fromNets) /\ NetsFine(r.toNets) /\ r.fromIf \in Ifaces /\ r.toIf \in Ifaces
    BY DEF OuterInv, RuleInv
  <1>4. OuterInv(q, c, number)
    BY <1>1, <1>2, <1>3, MoveInv
  <1>5. OuterInv(p, c, number)
    BY <1>1, <1>2, <1>3, MoveInv
  <1> QED
    BY <1>4, <1>5 DEF q, p

LEMMA ZoneStart ==
    ASSUME NEW r, NEW c, NEW number, CacheInv(c), OuterInv(r, c, number)
    PROVE  /\ OuterInv(IF ~DstAny(c) /\ c.to.type = "zone"
                       THEN [r EXCEPT !.toNets = @ \o c.to.nets] ELSE r, c, number)
           /\ OuterInv(IF ~SrcAny(c) /\ c.from.type = "zone"
                       THEN [r EXCEPT !.fromNets = @ \o c.from.nets] ELSE r, c, number)
  <1>1. ~DstAny(c) /\ c.to.type = "zone" => NetsFine(c.to.nets)
    BY DEF CacheInv, Kind, ZoneLists, NetLists, NetsFine, Ifaces
  <1>2. ~SrcAny(c) /\ c.from.type = "zone" => NetsFine(c.from.nets)
    BY DEF CacheInv, Kind, ZoneLists, NetLists, NetsFine, Ifaces
  <1> QED
    BY <1>1, <1>2, ZoneNetsInv

LEMMA DstIfaceLoopInv ==
    ASSUME NEW r, NEW c, NEW number, CacheInv(c), OuterInv(r, c, number)
    PROVE  OuterInv(DstIfaceLoop(r, c), c, number)
  <1> DEFINE start == IF ~DstAny(c) /\ c.to.type = "zone" THEN [r EXCEPT !.toNets = @ \o c.to.nets] ELSE r
             list == IF DstAny(c) THEN << [net |-> None, iface |-> DstOption(c)] >>
                     ELSE Stops(OfZone(c.to, start.toNets))
             Step1(q, n) == DstIface(q, c, list[n])
             Run(g, m) == g = [n \in 0..m |-> IF n = 0 THEN start ELSE Step1(g[n - 1], n)]
             after[n \in 0..Len(list)] == IF n = 0 THEN start ELSE Step1(after[n - 1], n)
  <1>1. OuterInv(start, c, number)
    BY ZoneStart
  <1>2. IsList(list) /\ Len(list) \in Nat /\ \A n \in 1..Len(list) : list[n].iface \in Ifaces
    <2> HIDE DEF start
    <2> QED
      BY <1>1, DstStopsList, ListFacts DEF OuterInv
  <1>3. ASSUME NEW q, NEW n \in 1..Len(list), OuterInv(q, c, number) PROVE OuterInv(Step1(q, n), c, number)
    BY <1>2, <1>3, DstIfaceInv
  <1>4. DstIfaceLoop(r, c) = after[Len(list)]
    BY DEF DstIfaceLoop, Loop
  <1> HIDE DEF start, list, Step1
  <1>5. \A m \in Nat : \E g : Run(g, m)
    <2> DEFINE T == {m \in Nat : \E g : Run(g, m)}
    <2>1. 0 \in T
      <3>1. Run([n \in 0..0 |-> start], 0)
        OBVIOUS
      <3> QED
        BY <3>1
    <2>2. ASSUME NEW m \in Nat, m \in T PROVE m + 1 \in T
      <3>1. PICK g : Run(g, m)
        BY <2>2
      <3> DEFINE next == Step1(g[m], m + 1)
      <3> HIDE DEF next
      <3>2. PICK h : Extends(h, g, m, next)
        BY OneMore
      <3>3. ASSUME NEW n \in 0..(m + 1) PROVE h[n] = IF n = 0 THEN start ELSE Step1(h[n - 1], n)
        <4>1. CASE n = m + 1
          <5>1. n # 0 /\ n - 1 = m /\ m \in 0..m
            BY <4>1
          <5> QED
            BY <3>2, <4>1, <5>1 DEF next, Extends
        <4>2. CASE n # m + 1
          <5>1. n \in 0..m /\ (n # 0 => n - 1 \in 0..m)
            BY <4>2
          <5>2. g[n] = IF n = 0 THEN start ELSE Step1(g[n - 1], n)
            BY <3>1, <5>1
          <5> QED
            BY <3>2, <5>1, <5>2 DEF Extends
        <4> QED
          BY <4>1, <4>2
      <3>4. Run(h, m + 1)
        <4>1. h = [n \in 0..(m + 1) |-> h[n]]
          BY <3>2 DEF Extends
        <4> QED
          BY <3>3, <4>1
      <3> QED
        BY <3>4
    <2>3. Nat \subseteq T
      <3> HIDE DEF T
      <3> QED
        BY <2>1, <2>2, NatSets
    <2> QED
      BY <2>3
  <1>6. after = [n \in 0..Len(list) |-> IF n = 0 THEN start ELSE Step1(after[n - 1], n)]
    <2>1. \E g : g = [n \in 0..Len(list) |-> IF n = 0 THEN start ELSE Step1(g[n - 1], n)]
      BY <1>2, <1>5
    <2> QED
      BY <2>1
  <1> HIDE DEF after
  <1> DEFINE S == {n \in Nat : n <= Len(list) => OuterInv(after[n], c, number)}
  <1>7. 0 \in S
    <2>1. after[0] = start
      BY <1>2, <1>6
    <2> QED
      BY <1>1, <2>1
  <1>8. ASSUME NEW n \in Nat, n \in S PROVE n + 1 \in S
    <2>1. SUFFICES ASSUME n + 1 <= Len(list) PROVE OuterInv(after[n + 1], c, number)
      OBVIOUS
    <2>2. n + 1 \in 0..Len(list) /\ n + 1 \in 1..Len(list) /\ n + 1 # 0 /\ (n + 1) - 1 = n /\ n <= Len(list)
      BY <1>2, <2>1
    <2>3. after[n + 1] = Step1(after[n], n + 1)
      BY <1>6, <2>2
    <2> QED
      BY <1>3, <1>8, <2>2, <2>3
  <1>9. Nat \subseteq S
    <2> HIDE DEF S
    <2> QED
      BY <1>7, <1>8, NatSets
  <1> QED
    BY <1>2, <1>4, <1>9

LEMMA SrcIfaceInv ==
    ASSUME NEW r, NEW c, NEW number, NEW stop, stop.iface \in Ifaces, CacheInv(c), OuterInv(r, c, number)
    PROVE  OuterInv(SrcIface(r, c, stop), c, number)
  <1> DEFINE q == IF stop.iface = None THEN [r EXCEPT !.fromInt = None]
                  ELSE [r EXCEPT !.fromNet = IF SrcAny(c) THEN @ ELSE stop.net,
                                 !.fromIf = stop.iface, !.fromInt = Device(stop.iface)]
  <1>1. /\ Near(q, r) /\ q.fromNets = r.fromNets /\ q.toNets = r.toNets
        /\ q.toIf = r.toIf /\ q.fromIf \in Ifaces
    BY DEF Near, OuterInv, RuleInv, RuleFields
  <1>2. SrcIface(r, c, stop) = IF SrcUsable(r, c, stop.iface) THEN DstIfaceLoop(q, c) ELSE q
    BY DEF SrcIface
  <1> HIDE DEF q
  <1>3. OuterInv(q, c, number)
    BY <1>1, MoveInv DEF OuterInv, RuleInv
  <1> QED
    BY <1>2, <1>3, DstIfaceLoopInv

LEMMA SrcIfaceLoopInv ==
    ASSUME NEW r, NEW c, NEW number, CacheInv(c), OuterInv(r, c, number)
    PROVE  OuterInv(SrcIfaceLoop(r, c), c, number)
  <1> DEFINE start == IF ~SrcAny(c) /\ c.from.type = "zone" THEN [r EXCEPT !.fromNets = @ \o c.from.nets] ELSE r
             list == IF SrcAny(c) THEN << [net |-> None, iface |-> SrcOption(c)] >>
                     ELSE Stops(OfZone(c.from, start.fromNets))
             Step1(q, n) == SrcIface(q, c, list[n])
             Run(g, m) == g = [n \in 0..m |-> IF n = 0 THEN start ELSE Step1(g[n - 1], n)]
             after[n \in 0..Len(list)] == IF n = 0 THEN start ELSE Step1(after[n - 1], n)
  <1>1. OuterInv(start, c, number)
    BY ZoneStart
  <1>2. IsList(list) /\ Len(list) \in Nat /\ \A n \in 1..Len(list) : list[n].iface \in Ifaces
    <2> HIDE DEF start
    <2> QED
      BY <1>1, SrcStopsList, ListFacts DEF OuterInv
  <1>3. ASSUME NEW q, NEW n \in 1..Len(list), OuterInv(q, c, number) PROVE OuterInv(Step1(q, n), c, number)
    BY <1>2, <1>3, SrcIfaceInv
  <1>4. SrcIfaceLoop(r, c) = after[Len(list)]
    BY DEF SrcIfaceLoop, Loop
  <1> HIDE DEF start, list, Step1
  <1>5. \A m \in Nat : \E g : Run(g, m)
    <2> DEFINE T == {m \in Nat : \E g : Run(g, m)}
    <2>1. 0 \in T
      <3>1. Run([n \in 0..0 |-> start], 0)
        OBVIOUS
      <3> QED
        BY <3>1
    <2>2. ASSUME NEW m \in Nat, m \in T PROVE m + 1 \in T
      <3>1. PICK g : Run(g, m)
        BY <2>2
      <3> DEFINE next == Step1(g[m], m + 1)
      <3> HIDE DEF next
      <3>2. PICK h : Extends(h, g, m, next)
        BY OneMore
      <3>3. ASSUME NEW n \in 0..(m + 1) PROVE h[n] = IF n = 0 THEN start ELSE Step1(h[n - 1], n)
        <4>1. CASE n = m + 1
          <5>1. n # 0 /\ n - 1 = m /\ m \in 0..m
            BY <4>1
          <5> QED
            BY <3>2, <4>1, <5>1 DEF next, Extends
        <4>2. CASE n # m + 1
          <5>1. n \in 0..m /\ (n # 0 => n - 1 \in 0..m)
            BY <4>2
          <5>2. g[n] = IF n = 0 THEN start ELSE Step1(g[n - 1], n)
            BY <3>1, <5>1
          <5> QED
            BY <3>2, <5>1, <5>2 DEF Extends
        <4> QED
          BY <4>1, <4>2
      <3>4. Run(h, m + 1)
        <4>1. h = [n \in 0..(m + 1) |-> h[n]]
          BY <3>2 DEF Extends
        <4> QED
          BY <3>3, <4>1
      <3> QED
        BY <3>4
    <2>3. Nat \subseteq T
      <3> HIDE DEF T
      <3> QED
        BY <2>1, <2>2, NatSets
    <2> QED
      BY <2>3
  <1>6. after = [n \in 0..Len(list) |-> IF n = 0 THEN start ELSE Step1(after[n - 1], n)]
    <2>1. \E g : g = [n \in 0..Len(list) |-> IF n = 0 THEN start ELSE Step1(g[n - 1], n)]
      BY <1>2, <1>5
    <2> QED
      BY <2>1
  <1> HIDE DEF after
  <1> DEFINE S == {n \in Nat : n <= Len(list) => OuterInv(after[n], c, number)}
  <1>7. 0 \in S
    <2>1. after[0] = start
      BY <1>2, <1>6
    <2> QED
      BY <1>1, <2>1
  <1>8. ASSUME NEW n \in Nat, n \in S PROVE n + 1 \in S
    <2>1. SUFFICES ASSUME n + 1 <= Len(list) PROVE OuterInv(after[n + 1], c, number)
      OBVIOUS
    <2>2. n + 1 \in 0..Len(list) /\ n + 1 \in 1..Len(list) /\ n + 1 # 0 /\ (n + 1) - 1 = n /\ n <= Len(list)
      BY <1>2, <2>1
    <2>3. after[n + 1] = Step1(after[n], n + 1)
      BY <1>6, <2>2
    <2> QED
      BY <1>3, <1>8, <2>2, <2>3
  <1>9. Nat \subseteq S
    <2> HIDE DEF S
    <2> QED
      BY <1>7, <1>8, NatSets
  <1> QED
    BY <1>2, <1>4, <1>9

\* a rule that is created: its queue is a list, in hooks, with the lines that log first,
\* and its lines name its classes
LEMMA CreateRuleInv ==
    ASSUME NEW families, NEW c, NEW number, CacheInv(c)
    PROVE  OuterInv(CreateRule(families, c, number), c, number)
  <1>1. OuterInv(EmptyRule(c, number), c, number)
    <2> DEFINE r == EmptyRule(c, number)
    <2>1. /\ RuleFields \subseteq DOMAIN r /\ r.queue = << >> /\ r.fromNets = << >> /\ r.toNets = << >>
          /\ r.classes = << >> /\ r.fromIf = None /\ r.toIf = None
          /\ Shapes(c.opt) => r.classOut = number /\ r.classIn = number + 1
      BY DEF EmptyRule, RuleFields
    <2> HIDE DEF r
    <2>2. NetsFine(<< >>) /\ LogsFirst(<< >>) /\ IsList(<< >>) /\ ToSet(<< >>) = {}
      BY ListNone DEF NetsFine, LogsFirst
    <2>3. ClassInv(r.classes, number)
      BY <2>1, <2>2 DEF ClassInv, NoTwins, Numbered
    <2>4. Names(r, c, Made(r)) /\ Names(r, c, Made(r) \union Pending(r))
      BY <2>1, <2>2 DEF Names
    <2>5. OuterInv(r, c, number)
      BY <2>1, <2>2, <2>3, <2>4 DEF OuterInv, RuleInv, Ifaces
    <2> QED
      BY <2>5 DEF r
  <1>2. ASSUME NEW q, NEW f, OuterInv(q, c, number)
        PROVE  OuterInv(IF f \in families THEN SrcIfaceLoop([q EXCEPT !.ipv = f], c) ELSE q, c, number)
    <2> DEFINE p == [q EXCEPT !.ipv = f]
    <2>1. Same(p, q)
      BY <1>2 DEF Same, Near, OuterInv, RuleInv, RuleFields
    <2> HIDE DEF p
    <2>2. OuterInv(SrcIfaceLoop(p, c), c, number)
      BY <1>2, <2>1, KeepInv, SrcIfaceLoopInv
    <2> QED
      BY <1>2, <2>2 DEF p
  <1> QED
    BY <1>1, <1>2 DEF CreateRule, Ipv4Ipv6Loop

-----------------------------------------------------------------------------
(* The lines that are not of the rules of the user.                        *)

LEMMA ListTwo == ASSUME NEW x, NEW y PROVE IsList(<< x, y >>) /\ ToSet(<< x, y >>) = {x, y}
  <1> DEFINE s == << x, y >>
  <1>1. s \in Seq({x, y}) /\ DOMAIN s = 1..2 /\ s[1] = x /\ s[2] = y
    OBVIOUS
  <1> HIDE DEF s
  <1>2. IsList(s) /\ ToSet(s) = {x, y}
    BY <1>1, ListOfSeq DEF ToSet
  <1> QED
    BY <1>2 DEF s

LEMMA ListThree ==
    ASSUME NEW x, NEW y, NEW z PROVE IsList(<< x, y, z >>) /\ ToSet(<< x, y, z >>) = {x, y, z}
  <1> DEFINE s == << x, y, z >>
  <1>1. s \in Seq({x, y, z}) /\ DOMAIN s = 1..3 /\ s[1] = x /\ s[2] = y /\ s[3] = z
    OBVIOUS
  <1> HIDE DEF s
  <1>2. IsList(s) /\ ToSet(s) = {x, y, z}
    BY <1>1, ListOfSeq DEF ToSet
  <1> QED
    BY <1>2 DEF s

LEMMA ListSix ==
    ASSUME NEW a, NEW b, NEW c, NEW d, NEW e, NEW f
    PROVE  IsList(<< a, b, c, d, e, f >>) /\ ToSet(<< a, b, c, d, e, f >>) = {a, b, c, d, e, f}
  <1> DEFINE s == << a, b, c, d, e, f >>
  <1>1. /\ s \in Seq({a, b, c, d, e, f}) /\ DOMAIN s = 1..6
        /\ s[1] = a /\ s[2] = b /\ s[3] = c /\ s[4] = d /\ s[5] = e /\ s[6] = f
    OBVIOUS
  <1> HIDE DEF s
  <1>2. IsList(s) /\ ToSet(s) = {a, b, c, d, e, f}
    BY <1>1, ListOfSeq DEF ToSet
  <1> QED
    BY <1>2 DEF s

(* What a line of the filter table may be: in BLOCK and BLOCKLIST (Sound), *)
(* and in a hook before the jump to BLOCKLIST (Calm).                      *)
Sound(l) ==
    l.table = "filter" =>
        /\ l.chain = "BLOCKLIST" => l.target = Jump("BLOCK")
        /\ l.chain = "BLOCK" => l.target.t \in LogTargets \/ l.target = Jump("DROP")
Harmless(l) == \/ l.target.t \in Passes \/ l.target = Jump("DROP")
               \/ "NEW" \notin l.states \/ "lo" \in {l.in, l.out}
Calm(l, h) == l.table = "filter" /\ l.chain = h => Harmless(l)
Quiet(l) == Sound(l) /\ \A h \in Bases : Calm(l, h)

SoundList(s) == IsList(s) /\ \A l \in ToSet(s) : Sound(l)
Tame(s) == IsList(s) /\ \A l \in ToSet(s) : Quiet(l)

LEMMA SoundNone == SoundList(<< >>) /\ Tame(<< >>)
  BY ListNone DEF SoundList, Tame

LEMMA SoundBoth == ASSUME NEW s, NEW t, SoundList(s), SoundList(t) PROVE SoundList(s \o t)
  BY ListBoth, SetOfBoth DEF SoundList

LEMMA TameBoth == ASSUME NEW s, NEW t, Tame(s), Tame(t) PROVE Tame(s \o t)
  BY ListBoth, SetOfBoth DEF Tame

LEMMA TameSound == ASSUME NEW s, Tame(s) PROVE SoundList(s)
  BY DEF Tame, SoundList, Quiet

LEMMA OnlySound == ASSUME NEW cond, NEW s, cond => SoundList(s) PROVE SoundList(Only(cond, s))
  BY SoundNone DEF Only

LEMMA OnlyTame == ASSUME NEW cond, NEW s, cond => Tame(s) PROVE Tame(Only(cond, s))
  BY SoundNone DEF Only

LEMMA FlattenSound ==
    ASSUME NEW s, IsList(s), \A n \in DOMAIN s : SoundList(s[n]) PROVE SoundList(FlattenSeq(s))
  <1>1. IsList(FlattenSeq(s)) /\ ToSet(FlattenSeq(s)) = UNION {ToSet(s[n]) : n \in DOMAIN s}
    BY FlattenLemma DEF SoundList
  <1> QED
    BY <1>1 DEF SoundList

LEMMA FlattenTame ==
    ASSUME NEW s, IsList(s), \A n \in DOMAIN s : Tame(s[n]) PROVE Tame(FlattenSeq(s))
  <1>1. IsList(FlattenSeq(s)) /\ ToSet(FlattenSeq(s)) = UNION {ToSet(s[n]) : n \in DOMAIN s}
    BY FlattenLemma DEF Tame
  <1> QED
    BY <1>1 DEF Tame

(* A list made of another, element by element.                             *)
LEMMA ListEach ==
    ASSUME NEW s, IsList(s), NEW f, f = [n \in DOMAIN s |-> f[n]]
    PROVE  IsList(f) /\ DOMAIN f = DOMAIN s
  <1>1. Len(s) \in Nat /\ DOMAIN s = 1..Len(s)
    BY ListFacts
  <1> QED
    BY <1>1, ListMade

LEMMA QuietLine ==
    ASSUME NEW f, NEW table, NEW chain, NEW match, NEW target, Plain(match),
           table # "filter" \/ chain \notin {"BLOCK", "BLOCKLIST"},
           \/ table # "filter" \/ chain \notin Bases
           \/ target.t \in Passes \/ target = Jump("DROP")
           \/ "states" \in DOMAIN match /\ "NEW" \notin match.states
           \/ "in" \in DOMAIN match /\ match.in = "lo"
           \/ "out" \in DOMAIN match /\ match.out = "lo"
    PROVE  Quiet(Line(f, table, chain, match, target))
  <1> DEFINE l == Line(f, table, chain, match, target)
  <1>1. /\ l.table = table /\ l.chain = chain /\ l.target = target
        /\ "states" \in DOMAIN match => l.states = match.states
        /\ "in" \in DOMAIN match => l.in = match.in
        /\ "out" \in DOMAIN match => l.out = match.out
    BY LineFields
  <1> HIDE DEF l
  <1>2. Quiet(l)
    BY <1>1 DEF Quiet, Sound, Calm, Harmless
  <1> QED
    BY <1>2 DEF l

LEMMA SoundLine ==
    ASSUME NEW f, NEW table, NEW chain, NEW match, NEW target, Plain(match),
           table # "filter" \/ chain \notin {"BLOCK", "BLOCKLIST"}
    PROVE  Sound(Line(f, table, chain, match, target))
  BY LineFields DEF Sound

LEMMA InAllSet ==
    ASSUME NEW f, NEW match, NEW t
    PROVE  /\ IsList(InAll(f, match, t))
           /\ \A l \in ToSet(InAll(f, match, t)) :
                 \E h \in Bases : l = Line(f, "filter", h, match, Jump(t))
  <1> DEFINE s == InAll(f, match, t)
  <1>1. s = [i \in 1..3 |-> Line(f, "filter", Chains[i], match, Jump(t))]
    BY DEF InAll
  <1>2. \A i \in 1..3 : Chains[i] \in Bases
    BY DEF Chains, Bases
  <1> HIDE DEF s
  <1>3. IsList(s) /\ DOMAIN s = 1..3
    BY <1>1, ListMade
  <1>4. \A l \in ToSet(s) : \E h \in Bases : l = Line(f, "filter", h, match, Jump(t))
    BY <1>1, <1>2, <1>3 DEF ToSet
  <1> QED
    BY <1>3, <1>4 DEF s

LEMMA InAllSound == ASSUME NEW f, NEW match, NEW t, Plain(match) PROVE SoundList(InAll(f, match, t))
  <1>1. \A h \in Bases : Sound(Line(f, "filter", h, match, Jump(t)))
    BY SoundLine DEF Bases
  <1> QED
    BY <1>1, InAllSet DEF SoundList

LEMMA InAllTame ==
    ASSUME NEW f, NEW match, NEW t, Plain(match),
           t \in Passes \/ t = "DROP" \/ ("states" \in DOMAIN match /\ "NEW" \notin match.states)
    PROVE  Tame(InAll(f, match, t))
  <1>1. Jump(t).t = t
    BY DEF Jump
  <1>2. \A h \in Bases : Quiet(Line(f, "filter", h, match, Jump(t)))
    BY <1>1, QuietLine DEF Bases
  <1> QED
    BY <1>2, InAllSet DEF Tame

LEMMA LogPasses == LogJump \in Passes /\ LogJump \in LogTargets
  BY DEF LogJump, Passes, LogTargets

LEMMA PlainMore ==
    /\ Plain(Seldom) /\ Plain(<< >>)
    /\ \A m : Plain(m) => Plain(m ++ Seldom)
  <1>1. Plain(Seldom)
    BY DEF Seldom, Plain, Heading
  <1> QED
    BY <1>1, PlainMerge, PlainParts

LEMMA DropAllTame == ASSUME NEW f, NEW match, NEW logs, Plain(match) PROVE Tame(DropAll(f, match, logs))
  <1>1. Tame(InAll(f, match ++ Seldom, LogJump)) /\ Tame(InAll(f, match, "DROP"))
    BY InAllTame, LogPasses, PlainMore
  <1> QED
    BY <1>1, OnlyTame, TameBoth DEF DropAll

\* each group of lines in front of the rules lets no new connection through and
\* leaves the chains of the blocklist alone
LEMMA PreVrmrTame == ASSUME NEW f PROVE Tame(PreVrmr(f))
  <1> DEFINE jumps(table) == [i \in DOMAIN Hooks[table] |->
                                Line(f, table, Hooks[table][i], << >>, Jump("PRE-VRMR"))]
  <1>1. \A table \in {"mangle", "filter", "nat"} : \E N \in Nat : DOMAIN Hooks[table] = 1..N
    <2>1. /\ DOMAIN Hooks["mangle"] = 1..5 /\ DOMAIN Hooks["filter"] = 1..3 /\ DOMAIN Hooks["nat"] = 1..3
      BY DEF Hooks
    <2> QED
      BY <2>1
  <1>2. ASSUME NEW table \in {"mangle", "filter", "nat"} PROVE Tame(jumps(table))
    <2>1. PICK N \in Nat : DOMAIN Hooks[table] = 1..N
      BY <1>1
    <2>2. jumps(table) = [i \in 1..N |-> jumps(table)[i]]
      BY <2>1
    <2>3. IsList(jumps(table)) /\ DOMAIN jumps(table) = 1..N
      BY <2>2, ListMade
    <2>4. \A i \in 1..N : jumps(table)[i] = Line(f, table, Hooks[table][i], << >>, Jump("PRE-VRMR"))
      BY <2>1
    <2>5. Jump("PRE-VRMR").t \in Passes
      BY DEF Jump, Passes
    <2>6. Plain(<< >>)
      BY PlainMore
    <2>7. \A chain : chain \notin {"BLOCK", "BLOCKLIST"} => Quiet(Line(f, table, chain, << >>, Jump("PRE-VRMR")))
      BY <2>5, <2>6, QuietLine
    <2>8. \A i \in 1..N : Hooks[table][i] \notin {"BLOCK", "BLOCKLIST"}
      BY <2>1 DEF Hooks
    <2>9. \A i \in 1..N : Quiet(jumps(table)[i])
      BY <2>4, <2>7, <2>8
    <2> HIDE DEF jumps
    <2> QED
      BY <2>3, <2>9 DEF Tame, ToSet
  <1>3. Tame(jumps("mangle")) /\ Tame(jumps("filter")) /\ Tame(jumps("nat"))
    BY <1>2
  <1>4. PreVrmr(f) = Only(Can("mangle"), jumps("mangle")) \o jumps("filter")
                     \o Only(f = 4 /\ Can("nat"), jumps("nat"))
    BY DEF PreVrmr
  <1> HIDE DEF jumps
  <1> QED
    BY <1>3, <1>4, OnlyTame, TameBoth

LEMMA PreShapeTame == ASSUME NEW f PROVE Tame(PreShape(f))
  <1> DEFINE to(chain, shape) == Line(4, "mangle", chain, << >>, Jump(shape))
             s == << to("INPUT", "SHAPEIN"), to("OUTPUT", "SHAPEOUT"), to("FORWARD", "SHAPEFW") >>
  <1>1. \A chain, shape : Quiet(to(chain, shape))
    BY QuietLine, PlainMore
  <1>2. PreShape(f) = Only(f = 4 /\ Can("mangle"), s)
    BY DEF PreShape
  <1> HIDE DEF to
  <1>3. Tame(s)
    BY <1>1, ListThree DEF Tame
  <1> QED
    BY <1>2, <1>3, OnlyTame

LEMMA LoopbackTame == ASSUME NEW f PROVE Tame(Loopback(f))
  <1> DEFINE a == Line(f, "filter", "INPUT", [in |-> "lo"], Jump("ACCEPT"))
             b == Line(f, "filter", "OUTPUT", [out |-> "lo"], Jump("ACCEPT"))
  <1>1. Plain([in |-> "lo"]) /\ Plain([out |-> "lo"])
    BY DEF Plain, Heading
  <1>2. Quiet(a) /\ Quiet(b)
    BY <1>1, QuietLine
  <1> HIDE DEF a, b
  <1>3. Tame(<< a, b >>)
    BY <1>2, ListTwo DEF Tame
  <1> QED
    BY <1>3 DEF Loopback, a, b

LEMMA CountersTame == ASSUME NEW f, NEW interfaces, IsList(interfaces) PROVE Tame(InterfaceCounters(f, interfaces))
  <1> DEFINE counts(i) == i.active /\ i.addr[4] # {} /\ i.device # None /\ ~i.alias
             of(i) == LET in == [in |-> i.device]
                          out == [out |-> i.device]
                          line(chain, match, t) == Line(4, "filter", chain, match, Set(t, i.device))
                      IN  << line("ACC", out, "RETURN"), line("ACC", in, "RETURN"),
                             line("INPUT", in, "ACC"), line("OUTPUT", out, "ACC"),
                             line("FORWARD", in, "ACC"), line("FORWARD", out, "ACC") >>
             parts == [n \in DOMAIN interfaces |-> Only(f = 4 /\ counts(interfaces[n]), of(interfaces[n]))]
  <1>1. ASSUME NEW i PROVE Tame(of(i))
    <2> DEFINE in == [in |-> i.device]
               out == [out |-> i.device]
               line(chain, match, t) == Line(4, "filter", chain, match, Set(t, i.device))
    <2>1. Plain(in) /\ Plain(out)
      BY DEF Plain, Heading
    <2>2. ASSUME NEW chain, NEW match, NEW t, Plain(match), chain \notin {"BLOCK", "BLOCKLIST"}, t = "ACC" \/ chain = "ACC"
          PROVE  Quiet(line(chain, match, t))
      <3>1. t = "ACC" => Set(t, i.device).t \in Passes
        BY DEF Set, Passes
      <3> QED
        BY <2>2, <3>1, QuietLine DEF Bases
    <2>3. of(i) = << line("ACC", out, "RETURN"), line("ACC", in, "RETURN"),
                     line("INPUT", in, "ACC"), line("OUTPUT", out, "ACC"),
                     line("FORWARD", in, "ACC"), line("FORWARD", out, "ACC") >>
      OBVIOUS
    <2> HIDE DEF line, in, out, of
    <2>4. /\ Quiet(line("ACC", out, "RETURN")) /\ Quiet(line("ACC", in, "RETURN"))
          /\ Quiet(line("INPUT", in, "ACC")) /\ Quiet(line("OUTPUT", out, "ACC"))
          /\ Quiet(line("FORWARD", in, "ACC")) /\ Quiet(line("FORWARD", out, "ACC"))
      BY <2>1, <2>2
    <2> QED
      BY <2>3, <2>4, ListSix DEF Tame
  <1>2. InterfaceCounters(f, interfaces) = FlattenSeq(parts)
    BY DEF InterfaceCounters
  <1> HIDE DEF counts, of
  <1>3. IsList(parts) /\ \A n \in DOMAIN parts : Tame(parts[n])
    <2>1. \A n \in DOMAIN interfaces : Tame(Only(f = 4 /\ counts(interfaces[n]), of(interfaces[n])))
      BY <1>1, OnlyTame
    <2>2. IsList(parts)
      BY ListEach
    <2> QED
      BY <2>1, <2>2
  <1> HIDE DEF parts
  <1> QED
    BY <1>2, <1>3, FlattenTame

LEMMA BeforeTame == ASSUME NEW f, NEW interfaces, IsList(interfaces) PROVE Tame(Before(f, interfaces))
  BY PreVrmrTame, PreShapeTame, LoopbackTame, CountersTame, TameBoth DEF Before

LEMMA BadPacketsTame == ASSUME NEW f PROVE Tame(BadPackets(f))
  <1> DEFINE all == << "none", "synfin", "synrst", "finrst", "fin", "psh", "urg" >>
             parts == [n \in DOMAIN all |-> DropAll(f, [proto |-> "tcp", flags |-> {all[n]}], Conf.log_probes)]
  <1>1. BadPackets(f) = FlattenSeq(parts)
    BY DEF BadPackets
  <1>2. DOMAIN all = 1..7
    OBVIOUS
  <1> HIDE DEF all
  <1>3. \A n : Plain([proto |-> "tcp", flags |-> {all[n]}])
    BY DEF Plain, Heading
  <1>4. \A n \in 1..7 : Tame(parts[n])
    BY <1>2, <1>3, DropAllTame
  <1>5. IsList(parts) /\ DOMAIN parts = 1..7
    BY <1>2, ListMade
  <1> HIDE DEF parts
  <1> QED
    BY <1>1, <1>4, <1>5, FlattenTame

LEMMA LimitTame ==
    ASSUME NEW f, NEW chain, NEW use, NEW limit, chain \notin Bases \union {"BLOCK", "BLOCKLIST"}
    PROVE  Tame(LimitRules(f, chain, use, limit))
  <1> DEFINE line(match, t) == Line(f, "filter", chain, match, Jump(t))
  <1>1. ASSUME NEW match, NEW t, Plain(match) PROVE Tame(<< line(match, t) >>)
    <2>1. Quiet(line(match, t))
      BY <1>1, QuietLine
    <2> HIDE DEF line
    <2> QED
      BY <2>1, ListOne DEF Tame
  <1>2. LimitRules(f, chain, use, limit) =
            Only(Can("limit") /\ limit > 0 /\ use,
                 << line([limit |-> limit], "RETURN") >>
                 \o Only(Can("log"), << line([limit |-> 1], LogJump) >>)
                 \o << line(<< >>, "DROP") >>)
    BY DEF LimitRules
  <1>3. \A n : Plain([limit |-> n])
    BY DEF Plain, Heading
  <1> DEFINE a == << line([limit |-> limit], "RETURN") >>
             b == << line([limit |-> 1], LogJump) >>
             d == << line(<< >>, "DROP") >>
  <1>4. Tame(a) /\ Tame(b) /\ Tame(d)
    BY <1>1, <1>3, PlainMore
  <1>5. LimitRules(f, chain, use, limit) = Only(Can("limit") /\ limit > 0 /\ use, a \o Only(Can("log"), b) \o d)
    BY <1>2
  <1> HIDE DEF a, b, d
  <1> QED
    BY <1>4, <1>5, OnlyTame, TameBoth

LEMMA NewTargetTame ==
    ASSUME NEW f, NEW chain, NEW mark, NEW verdict, Plain(mark), chain \notin Bases \union {"BLOCK", "BLOCKLIST"}
    PROVE  Tame(NewTarget(f, chain, mark, verdict))
  <1> DEFINE line(match, t) == Line(f, "filter", chain, match ++ mark, Jump(t))
  <1>1. ASSUME NEW match, NEW t, Plain(match) PROVE Quiet(line(match, t))
    BY <1>1, QuietLine, PlainMerge
  <1>2. NewTarget(f, chain, mark, verdict) =
            << line([proto |-> "tcp", flags |-> {"syn"}], "SYNLIMIT"),
               line([proto |-> "udp"] ++ InState({"NEW"}), "UDPLIMIT"), line(<< >>, verdict) >>
    BY DEF NewTarget
  <1>3. Plain([proto |-> "tcp", flags |-> {"syn"}]) /\ Plain([proto |-> "udp"]) /\ Plain(<< >>)
    BY PlainMore DEF Plain, Heading
  <1>4. Plain([proto |-> "udp"] ++ InState({"NEW"}))
    BY <1>3, PlainMerge, PlainParts
  <1> DEFINE a == line([proto |-> "tcp", flags |-> {"syn"}], "SYNLIMIT")
             b == line([proto |-> "udp"] ++ InState({"NEW"}), "UDPLIMIT")
             d == line(<< >>, verdict)
  <1>5. Quiet(a) /\ Quiet(b) /\ Quiet(d)
    BY <1>1, <1>3, <1>4
  <1>6. NewTarget(f, chain, mark, verdict) = << a, b, d >>
    BY <1>2
  <1> HIDE DEF a, b, d
  <1> QED
    BY <1>5, <1>6, ListThree DEF Tame

LEMMA ProtectTame == ASSUME NEW f, NEW lim PROVE Tame(Protect(f, lim))
  <1>1. Tame(NoSyn(f))
    <2>1. Plain([proto |-> "tcp", flags |-> Flags \ {"syn"}])
      BY DEF Plain, Heading
    <2> QED
      BY <2>1, PlainMerge, PlainParts, DropAllTame DEF NoSyn
  <1>2. Tame(Fragments(f))
    BY PlainParts, DropAllTame, OnlyTame DEF Fragments
  <1>3. Tame(UpdateSynlimit(f, lim)) /\ Tame(UpdateUdplimit(f, lim))
    BY LimitTame DEF UpdateSynlimit, UpdateUdplimit, Bases
  <1>4. Tame(NewAccept(f))
    BY NewTargetTame, PlainParts DEF NewAccept, Bases
  <1> QED
    BY <1>1, <1>2, <1>3, <1>4, BadPacketsTame, TameBoth DEF Protect

LEMMA TcpmssTame == ASSUME NEW f, NEW interfaces, IsList(interfaces) PROVE Tame(Tcpmss(f, interfaces))
  <1> DEFINE of(i) == Line(f, "filter", "FORWARD",
                           [out |-> i.device, proto |-> "tcp", flags |-> {"syn", "synack", "synfin"}],
                           Jump("TCPMSS"))
             clamps(i) == i.tcpmss /\ ~i.alias /\ (f = 6 => i.v6)
             parts == [n \in DOMAIN interfaces |-> Only(clamps(interfaces[n]), << of(interfaces[n]) >>)]
  <1>1. ASSUME NEW i PROVE Quiet(of(i))
    <2>1. Plain([out |-> i.device, proto |-> "tcp", flags |-> {"syn", "synack", "synfin"}])
      BY DEF Plain, Heading
    <2>2. Jump("TCPMSS").t \in Passes
      BY DEF Jump, Passes
    <2> QED
      BY <2>1, <2>2, QuietLine
  <1>2. Tcpmss(f, interfaces) = Only(Can(IF f = 4 THEN "tcpmss" ELSE "ip6_tcpmss"), FlattenSeq(parts))
    BY DEF Tcpmss
  <1> HIDE DEF of, clamps
  <1>3. \A i : Tame(<< of(i) >>)
    BY <1>1, ListOne DEF Tame
  <1>4. IsList(parts) /\ \A n \in DOMAIN parts : Tame(parts[n])
    <2>1. \A n \in DOMAIN interfaces : Tame(Only(clamps(interfaces[n]), << of(interfaces[n]) >>))
      BY <1>3, OnlyTame
    <2>2. IsList(parts)
      BY ListEach
    <2> QED
      BY <2>1, <2>2
  <1> HIDE DEF parts
  <1> QED
    BY <1>2, <1>4, FlattenTame, OnlyTame

LEMMA NewQueueTame == ASSUME NEW f PROVE Tame(NewQueue(f))
  BY NewTargetTame, PlainParts, OnlyTame DEF NewQueue, Bases

LEMMA StateMerge ==
    ASSUME NEW s, NEW m, Plain(m), "states" \notin DOMAIN m
    PROVE  LET a == m ++ InState(s)
               b == InState(s) ++ m
           IN  /\ Plain(a) /\ "states" \in DOMAIN a /\ a.states = s
               /\ Plain(b) /\ "states" \in DOMAIN b /\ b.states = s
  <1> DEFINE t == InState(s)
             a == m ++ t
             b == t ++ m
  <1>1. Plain(t) /\ "states" \in DOMAIN t /\ t.states = s
    BY PlainParts DEF InState
  <1> HIDE DEF t
  <1>2. /\ Plain(a) /\ DOMAIN a = DOMAIN m \union DOMAIN t /\ a["states"] = t["states"]
        /\ Plain(b) /\ DOMAIN b = DOMAIN t \union DOMAIN m /\ b["states"] = t["states"]
    <2>1. /\ Plain(a) /\ DOMAIN a = DOMAIN m \union DOMAIN t
          /\ \A x \in DOMAIN t : x \notin DOMAIN m => a[x] = t[x]
      BY <1>1, PlainMerge
    <2>2. /\ Plain(b) /\ DOMAIN b = DOMAIN t \union DOMAIN m
          /\ \A x \in DOMAIN t : b[x] = t[x]
      BY <1>1, PlainMerge
    <2> HIDE DEF a, b
    <2> QED
      BY <1>1, <2>1, <2>2
  <1> HIDE DEF a, b
  <1>3. /\ Plain(a) /\ "states" \in DOMAIN a /\ a.states = s
        /\ Plain(b) /\ "states" \in DOMAIN b /\ b.states = s
    BY <1>1, <1>2
  <1> QED
    BY <1>3 DEF a, b, t

LEMMA NfqueueTame == ASSUME NEW f PROVE Tame(Nfqueue(f))
  <1> DEFINE m == InState({"ESTABLISHED", "RELATED"}) ++ [marks |-> Marks \ {0}]
  <1>1. Plain(m) /\ "states" \in DOMAIN m /\ m.states = {"ESTABLISHED", "RELATED"}
    <2> DEFINE n == [marks |-> Marks \ {0}]
    <2>1. Plain(n) /\ "states" \notin DOMAIN n
      BY DEF Plain, Heading
    <2> HIDE DEF n
    <2>2. LET x == InState({"ESTABLISHED", "RELATED"}) ++ n
          IN  Plain(x) /\ "states" \in DOMAIN x /\ x.states = {"ESTABLISHED", "RELATED"}
      BY <2>1, StateMerge
    <2> QED
      BY <2>2 DEF n
  <1>2. Nfqueue(f) = Only(Can("nfqueue") /\ MatchConnmark(4), InAll(f, m, "ESTRELNFQUEUE"))
    BY DEF Nfqueue
  <1> HIDE DEF m
  <1> QED
    BY <1>1, <1>2, InAllTame, OnlyTame

LEMMA ConntrackTame == ASSUME NEW f PROVE Tame(Conntrack(f))
  <1> DEFINE marked(m) == IF MatchConnmark(f) THEN [marks |-> {m}] ELSE << >>
             of(m, known, related) == InAll(f, marked(m) ++ InState({"ESTABLISHED"}), known)
                                      \o InAll(f, marked(m) ++ InState({"RELATED"}), related)
  <1>1. ASSUME NEW m, NEW known, NEW related PROVE Tame(of(m, known, related))
    <2>1. Plain(marked(m)) /\ "states" \notin DOMAIN marked(m)
      <3>1. Plain([marks |-> {m}]) /\ "states" \notin DOMAIN [marks |-> {m}]
        BY DEF Plain, Heading
      <3>2. Plain(<< >>) /\ "states" \notin DOMAIN << >>
        BY PlainMore
      <3> QED
        BY <3>1, <3>2
    <2> DEFINE a == marked(m) ++ InState({"ESTABLISHED"})
               b == marked(m) ++ InState({"RELATED"})
    <2> HIDE DEF marked
    <2>2. /\ Plain(a) /\ "states" \in DOMAIN a /\ a.states = {"ESTABLISHED"}
          /\ Plain(b) /\ "states" \in DOMAIN b /\ b.states = {"RELATED"}
      BY <2>1, StateMerge
    <2>3. of(m, known, related) = InAll(f, a, known) \o InAll(f, b, related)
      OBVIOUS
    <2> HIDE DEF a, b, of
    <2> QED
      BY <2>2, <2>3, InAllTame, TameBoth
  <1>2. Conntrack(f) = of(1, "ACCEPT", "NEWACCEPT")
            \o Only(Can(IF f = 4 THEN "queue" ELSE "ip6_queue") /\ MatchConnmark(f), of(2, "QUEUE", "NEWQUEUE"))
    BY DEF Conntrack
  <1> HIDE DEF marked, of
  <1> QED
    BY <1>1, <1>2, OnlyTame, TameBoth

LEMMA InvalidTame == ASSUME NEW f PROVE Tame(ConntrackInvalid(f))
  <1> DEFINE m == InState({"INVALID"}) ++ Seldom
             a(chain) == << Line(f, "filter", chain, m, Jump(LogJump)) >>
             b(chain) == << Line(f, "filter", chain, InState({"INVALID"}), Jump("DROP")) >>
             of(chain) == Only(Conf.log_invalid /\ Can("log"), a(chain)) \o b(chain)
  <1>1. ConntrackInvalid(f) = Only(Conf.invalid_drop_enabled, of("INPUT") \o of("OUTPUT") \o of("FORWARD"))
    BY DEF ConntrackInvalid
  <1>2. Plain(m) /\ Plain(InState({"INVALID"})) /\ Jump(LogJump).t \in Passes
    BY PlainMore, PlainParts, LogPasses DEF Jump
  <1> HIDE DEF m
  <1>3. ASSUME NEW chain \in Bases PROVE Tame(of(chain))
    <2> DEFINE x == Line(f, "filter", chain, m, Jump(LogJump))
               y == Line(f, "filter", chain, InState({"INVALID"}), Jump("DROP"))
    <2>1. Quiet(x) /\ Quiet(y)
      BY <1>2, QuietLine DEF Bases
    <2> HIDE DEF x, y
    <2>2. Tame(<< x >>) /\ Tame(<< y >>)
      BY <2>1, ListOne DEF Tame
    <2>3. Tame(a(chain)) /\ Tame(b(chain))
      BY <2>2 DEF x, y
    <2> HIDE DEF a, b
    <2> QED
      BY <2>3, OnlyTame, TameBoth
  <1>4. Tame(of("INPUT")) /\ Tame(of("OUTPUT")) /\ Tame(of("FORWARD"))
    BY <1>3 DEF Bases
  <1> HIDE DEF of
  <1> QED
    BY <1>1, <1>4, OnlyTame, TameBoth

(* The lines that keep the blocklist, in a ruleset of IPv4.                *)
Guard(h) == Line(4, "filter", h, << >>, Jump("BLOCKLIST"))
\* in each hook there is a jump to BLOCKLIST, and in front of it only what is harmless
Guarded(s) ==
    SoundList(s) /\ \A h \in Bases : \E b \in DOMAIN s : s[b] = Guard(h) /\ \A k \in 1..(b - 1) : Calm(s[k], h)
DropLine == Line(4, "filter", "BLOCK", << >>, Jump("DROP"))
FromLine(a) == Line(4, "filter", "BLOCKLIST", [src |-> {a}], Jump("BLOCK"))
ToLine(a) == Line(4, "filter", "BLOCKLIST", [dst |-> {a}], Jump("BLOCK"))
Barred(s) == \A n \in DOMAIN Blocked : FromLine(Blocked[n]) \in ToSet(s) /\ ToLine(Blocked[n]) \in ToSet(s)
\* the blocklist is complete, and nothing but it is in its chains
Sealed(f, s) == SoundList(s) /\ (f = 4 => Guarded(s) /\ DropLine \in ToSet(s) /\ Barred(s))

LEMMA GuardedMore == ASSUME NEW s, NEW t, Guarded(s), SoundList(t) PROVE Guarded(s \o t)
  <1> DEFINE u == s \o t
  <1>1. SoundList(u)
    BY SoundBoth DEF Guarded
  <1>2. /\ Len(s) \in Nat /\ DOMAIN s = 1..Len(s) /\ Len(t) \in Nat /\ DOMAIN u = 1..(Len(s) + Len(t))
        /\ \A n \in 1..Len(s) : u[n] = s[n]
    BY ListBoth, ListFacts DEF Guarded, SoundList
  <1> HIDE DEF u
  <1>3. ASSUME NEW h \in Bases
        PROVE  \E b \in DOMAIN u : u[b] = Guard(h) /\ \A k \in 1..(b - 1) : Calm(u[k], h)
    <2>1. PICK b \in DOMAIN s : s[b] = Guard(h) /\ \A k \in 1..(b - 1) : Calm(s[k], h)
      BY DEF Guarded
    <2>2. b \in DOMAIN u /\ u[b] = s[b] /\ \A k \in 1..(b - 1) : u[k] = s[k]
      BY <1>2
    <2> QED
      BY <2>1, <2>2
  <1> QED
    BY <1>1, <1>3 DEF Guarded, u

LEMMA GuardedAfter == ASSUME NEW s, NEW t, Tame(s), Guarded(t) PROVE Guarded(s \o t)
  <1> DEFINE u == s \o t
  <1>1. SoundList(u)
    BY SoundBoth, TameSound DEF Guarded
  <1>2. /\ Len(s) \in Nat /\ DOMAIN s = 1..Len(s) /\ Len(t) \in Nat /\ DOMAIN t = 1..Len(t)
        /\ DOMAIN u = 1..(Len(s) + Len(t))
        /\ (\A n \in 1..Len(s) : u[n] = s[n]) /\ \A n \in 1..Len(t) : u[Len(s) + n] = t[n]
    BY ListBoth, ListFacts DEF Guarded, SoundList, Tame
  <1> HIDE DEF u
  <1>3. ASSUME NEW h \in Bases
        PROVE  \E b \in DOMAIN u : u[b] = Guard(h) /\ \A k \in 1..(b - 1) : Calm(u[k], h)
    <2>1. PICK b \in DOMAIN t : t[b] = Guard(h) /\ \A k \in 1..(b - 1) : Calm(t[k], h)
      BY DEF Guarded
    <2>2. Len(s) + b \in DOMAIN u /\ u[Len(s) + b] = t[b]
      BY <1>2
    <2>3. ASSUME NEW k \in 1..(Len(s) + b - 1) PROVE Calm(u[k], h)
      <3>1. CASE k <= Len(s)
        <4>1. k \in DOMAIN s /\ u[k] = s[k]
          BY <1>2, <3>1
        <4> QED
          BY <4>1 DEF Tame, Quiet, ToSet
      <3>2. CASE k > Len(s)
        <4> DEFINE n == k - Len(s)
        <4>1. n \in 1..(b - 1) /\ n \in 1..Len(t) /\ k = Len(s) + n
          BY <1>2, <3>2
        <4> HIDE DEF n
        <4>2. u[k] = t[n]
          BY <1>2, <4>1
        <4> QED
          BY <2>1, <4>1, <4>2
      <3> QED
        BY <1>2, <3>1, <3>2
    <2> QED
      BY <2>1, <2>2, <2>3
  <1> QED
    BY <1>1, <1>3 DEF Guarded, u

LEMMA GuardFields ==
    ASSUME NEW h
    PROVE  Guard(h).chain = h /\ Guard(h).table = "filter" /\ Guard(h).target = Jump("BLOCKLIST")
  BY LineFields, PlainMore DEF Guard

LEMMA GuardsGuard == Guarded(InAll(4, << >>, "BLOCKLIST"))
  <1> DEFINE s == InAll(4, << >>, "BLOCKLIST")
  <1>1. SoundList(s)
    BY InAllSound, PlainMore
  <1>2. s = [i \in 1..3 |-> Guard(Chains[i])]
    BY DEF InAll, Guard
  <1>3. Chains[1] = "INPUT" /\ Chains[2] = "OUTPUT" /\ Chains[3] = "FORWARD"
    BY DEF Chains
  <1> HIDE DEF s
  <1>4. /\ DOMAIN s = 1..3 /\ s[1] = Guard("INPUT") /\ s[2] = Guard("OUTPUT") /\ s[3] = Guard("FORWARD")
    BY <1>2, <1>3
  <1>5. ASSUME NEW h \in Bases
        PROVE  \E b \in 1..3 : s[b] = Guard(h) /\ \A k \in 1..(b - 1) : s[k].chain # h
    <2>1. CASE h = "INPUT"
      <3>1. 1..(1 - 1) = {}
        OBVIOUS
      <3> QED
        BY <1>4, <2>1, <3>1
    <2>2. CASE h = "OUTPUT"
      <3>1. 1..(2 - 1) = {1}
        OBVIOUS
      <3> QED
        BY <1>4, <2>2, <3>1, GuardFields
    <2>3. CASE h = "FORWARD"
      <3>1. 1..(3 - 1) = {1, 2}
        OBVIOUS
      <3> QED
        BY <1>4, <2>3, <3>1, GuardFields
    <2> QED
      BY <2>1, <2>2, <2>3 DEF Bases
  <1>6. ASSUME NEW h \in Bases
        PROVE  \E b \in 1..3 : s[b] = Guard(h) /\ \A k \in 1..(b - 1) : Calm(s[k], h)
    BY <1>5 DEF Calm
  <1> QED
    BY <1>1, <1>4, <1>6 DEF Guarded, s

LEMMA BlocklistGuards ==
    ASSUME NEW f
    PROVE  /\ SoundList(Blocklist(f))
           /\ f = 4 => Guarded(Blocklist(f)) /\ DropLine \in ToSet(Blocklist(f))
  <1> DEFINE x == Line(4, "filter", "BLOCK", Seldom, Jump(LogJump))
             sx == << x >>
             sd == << DropLine >>
             g == InAll(4, << >>, "BLOCKLIST")
             mid == Only(Conf.log_blocklist /\ Can("log"), sx)
  <1>1. Blocklist(f) = Only(f = 4, g \o mid \o sd)
    BY DEF Blocklist, DropLine
  <1>2. Sound(x) /\ Sound(DropLine)
    <2>1. /\ x.chain = "BLOCK" /\ x.target = Jump(LogJump)
          /\ DropLine.chain = "BLOCK" /\ DropLine.target = Jump("DROP")
      BY LineFields, PlainMore DEF DropLine
    <2>2. Jump(LogJump).t \in LogTargets
      BY LogPasses DEF Jump
    <2> HIDE DEF x
    <2> QED
      BY <2>1, <2>2 DEF Sound
  <1> HIDE DEF x
  <1>3. SoundList(sx) /\ SoundList(sd) /\ ToSet(sd) = {DropLine}
    BY <1>2, ListOne DEF SoundList
  <1> HIDE DEF sx, sd
  <1>4. SoundList(mid)
    BY <1>3, OnlySound
  <1> HIDE DEF mid
  <1>5. Guarded(g)
    BY GuardsGuard
  <1> HIDE DEF g
  <1> DEFINE u == g \o mid
  <1>6. Guarded(u)
    BY <1>4, <1>5, GuardedMore
  <1> HIDE DEF u
  <1>7. Guarded(u \o sd) /\ ToSet(u \o sd) = ToSet(u) \union {DropLine}
    BY <1>3, <1>6, GuardedMore, SetOfBoth DEF Guarded, SoundList
  <1>8. SoundList(u \o sd)
    BY <1>7 DEF Guarded
  <1>9. Blocklist(f) = Only(f = 4, u \o sd)
    BY <1>1 DEF u
  <1> QED
    BY <1>7, <1>8, <1>9, OnlySound DEF Only

LEMMA SealedMore == ASSUME NEW f, NEW s, NEW t, Sealed(f, s), SoundList(t) PROVE Sealed(f, s \o t)
  <1>1. SoundList(s \o t) /\ ToSet(s \o t) = ToSet(s) \union ToSet(t)
    BY SoundBoth, SetOfBoth DEF Sealed, SoundList
  <1>2. f = 4 => Guarded(s \o t)
    BY GuardedMore DEF Sealed
  <1> QED
    BY <1>1, <1>2 DEF Sealed, Barred

LEMMA TcpresetSound == ASSUME NEW f PROVE SoundList(Tcpreset(f))
  <1> DEFINE a == Line(f, "filter", "TCPRESET", [proto |-> "tcp"], Set("REJECT", "tcp-reset"))
             b == Line(f, "filter", "TCPRESET", << >>, Jump("REJECT"))
  <1>1. Plain([proto |-> "tcp"]) /\ Plain(<< >>)
    BY PlainMore DEF Plain, Heading
  <1>2. Sound(a) /\ Sound(b)
    BY <1>1, SoundLine
  <1>3. Tcpreset(f) = << a, b >>
    BY DEF Tcpreset
  <1> HIDE DEF a, b
  <1> QED
    BY <1>2, <1>3, ListTwo DEF SoundList

LEMMA AntispoofSound == ASSUME NEW f PROVE SoundList(Antispoof(f)) /\ SoundList(IcmpIpv6(f))
  <1>1. Plain([proto |-> "icmp6"]) /\ Plain(<< >>)
    BY PlainMore DEF Plain, Heading
  <1> QED
    BY <1>1, InAllSound, OnlySound DEF Antispoof, IcmpIpv6

LEMMA PreRulesSealed ==
    ASSUME NEW f, NEW interfaces, NEW lim, IsList(interfaces)
    PROVE  LET s == PreRulesLines(f, interfaces, lim)
           IN  SoundList(s) /\ (f = 4 => Guarded(s) /\ DropLine \in ToSet(s))
  <1> DEFINE a == Tcpmss(f, interfaces) \o NewQueue(f) \o Nfqueue(f) \o Conntrack(f) \o ConntrackInvalid(f)
             b == a \o Blocklist(f)
             d == b \o Tcpreset(f) \o Antispoof(f) \o IcmpIpv6(f)
             e == Before(f, interfaces) \o Protect(f, lim)
  <1>1. Tame(a) /\ Tame(e)
    BY TcpmssTame, NewQueueTame, NfqueueTame, ConntrackTame, InvalidTame, BeforeTame, ProtectTame, TameBoth
  <1> HIDE DEF a, e
  <1>2. /\ SoundList(b) /\ ToSet(b) = ToSet(a) \union ToSet(Blocklist(f))
        /\ f = 4 => Guarded(b)
    BY <1>1, BlocklistGuards, GuardedAfter, SoundBoth, TameSound, SetOfBoth DEF SoundList
  <1> HIDE DEF b
  <1> DEFINE t == Tcpreset(f)
             u == Antispoof(f)
             v == IcmpIpv6(f)
  <1>3. SoundList(t) /\ SoundList(u) /\ SoundList(v)
    BY TcpresetSound, AntispoofSound
  <1> HIDE DEF t, u, v
  <1>4. ASSUME NEW x, NEW y, SoundList(x), SoundList(y)
        PROVE  /\ SoundList(x \o y) /\ ToSet(x) \subseteq ToSet(x \o y)
               /\ Guarded(x) => Guarded(x \o y)
    BY <1>4, SoundBoth, SetOfBoth, GuardedMore DEF SoundList
  <1>5. SoundList(b \o t \o u \o v) /\ ToSet(b) \subseteq ToSet(b \o t \o u \o v) /\ (f = 4 => Guarded(b \o t \o u \o v))
    <2>1. SoundList(b \o t) /\ ToSet(b) \subseteq ToSet(b \o t) /\ (f = 4 => Guarded(b \o t))
      BY <1>2, <1>3, <1>4
    <2> DEFINE bt == b \o t
    <2> HIDE DEF bt
    <2>2. SoundList(bt \o u) /\ ToSet(bt) \subseteq ToSet(bt \o u) /\ (f = 4 => Guarded(bt \o u))
      BY <2>1, <1>3, <1>4 DEF bt
    <2> DEFINE btu == bt \o u
    <2> HIDE DEF btu
    <2>3. SoundList(btu \o v) /\ ToSet(btu) \subseteq ToSet(btu \o v) /\ (f = 4 => Guarded(btu \o v))
      BY <2>2, <1>3, <1>4 DEF btu
    <2> QED
      BY <2>1, <2>2, <2>3 DEF bt, btu
  <1>6. d = b \o t \o u \o v
    BY DEF t, u, v
  <1> HIDE DEF d
  <1>7. /\ SoundList(e \o d) /\ ToSet(d) \subseteq ToSet(e \o d)
        /\ f = 4 => Guarded(e \o d)
    BY <1>1, <1>5, <1>6, GuardedAfter, SoundBoth, TameSound, SetOfBoth DEF SoundList
  <1>8. PreRulesLines(f, interfaces, lim) = e \o d
    BY DEF PreRulesLines, AfterProtect, e, d, b, a
  <1>9. f = 4 => DropLine \in ToSet(e \o d)
    BY <1>2, <1>5, <1>6, <1>7, BlocklistGuards
  <1> QED
    BY <1>7, <1>8, <1>9

\* create_all_rules() puts both lines of every blocked address
LEMMA BlockRulesBar ==
    ASSUME NEW f, IsList(Blocked)
    PROVE  SoundList(BlockRules(f, Blocked)) /\ (f = 4 => Barred(BlockRules(f, Blocked)))
  <1> DEFINE pair(n) == << FromLine(Blocked[n]), ToLine(Blocked[n]) >>
             parts == [n \in DOMAIN Blocked |-> Only(f = 4, pair(n))]
  <1>1. BlockRules(f, Blocked) = FlattenSeq(parts)
    BY DEF BlockRules, FromLine, ToLine
  <1>2. ASSUME NEW n PROVE SoundList(pair(n)) /\ ToSet(pair(n)) = {FromLine(Blocked[n]), ToLine(Blocked[n])}
    <2>1. Plain([src |-> {Blocked[n]}]) /\ Plain([dst |-> {Blocked[n]}])
      BY DEF Plain, Heading
    <2>2. Sound(FromLine(Blocked[n])) /\ Sound(ToLine(Blocked[n]))
      BY <2>1, LineFields DEF Sound, FromLine, ToLine
    <2> QED
      BY <2>2, ListTwo DEF SoundList
  <1> HIDE DEF pair
  <1>3. IsList(parts) /\ DOMAIN parts = DOMAIN Blocked /\ \A n \in DOMAIN parts : SoundList(parts[n])
    <2>1. \A n \in DOMAIN Blocked : SoundList(Only(f = 4, pair(n)))
      BY <1>2, OnlySound
    <2>2. IsList(parts)
      BY ListEach
    <2> QED
      BY <2>1, <2>2
  <1>4. f = 4 => \A n \in DOMAIN Blocked : parts[n] = pair(n)
    BY DEF Only
  <1> HIDE DEF parts
  <1>5. ToSet(FlattenSeq(parts)) = UNION {ToSet(parts[n]) : n \in DOMAIN parts}
    BY <1>3, FlattenLemma DEF SoundList
  <1>6. f = 4 => Barred(FlattenSeq(parts))
    BY <1>2, <1>3, <1>4, <1>5 DEF Barred
  <1> QED
    BY <1>1, <1>3, <1>6, FlattenSound

\* the lines of interfaces, of networks and of the queues leave the blocklist alone
LEMMA SoundOne == ASSUME NEW l, Sound(l) PROVE SoundList(<< l >>)
  BY ListOne DEF SoundList

LEMMA RpfilterSound == ASSUME NEW f, NEW i PROVE SoundList(Rpfilter(f, i))
  <1> DEFINE m == [in |-> i.device, reverse |-> {FALSE}]
             line(match, t) == Line(f, "raw", "PREROUTING", m ++ match, Jump(t))
             cap == IF f = 4 THEN Can("rpfilter") ELSE i.v6 /\ Can("ip6_rpfilter")
             a == << line([limit |-> 1], LogJump) >>
             b == << line(<< >>, "DROP") >>
             c1 == ~i.oldstyle /\ InUse(i) /\ cap
             c2 == f = 6 \/ Can(IF RuleNflog THEN "nflog" ELSE "log")
  <1>1. Rpfilter(f, i) = Only(c1, Only(c2, a) \o b)
    BY DEF Rpfilter
  <1>2. Plain(m) /\ Plain([limit |-> 1]) /\ Plain(<< >>)
    BY PlainMore DEF Plain, Heading
  <1> HIDE DEF m
  <1>3. Sound(line([limit |-> 1], LogJump)) /\ Sound(line(<< >>, "DROP"))
    BY <1>2, PlainMerge, SoundLine
  <1> HIDE DEF line
  <1>4. SoundList(a) /\ SoundList(b)
    BY <1>3, SoundOne
  <1> HIDE DEF a, b, c1, c2
  <1> QED
    BY <1>1, <1>4, OnlySound, SoundBoth

LEMMA InterfaceSound == ASSUME NEW f, NEW interfaces, IsList(interfaces) PROVE SoundList(InterfaceRules(f, interfaces))
  <1> DEFINE parts == [n \in DOMAIN interfaces |-> Only(interfaces[n].rpfilter, Rpfilter(f, interfaces[n]))]
  <1>1. \A n \in DOMAIN interfaces : SoundList(Only(interfaces[n].rpfilter, Rpfilter(f, interfaces[n])))
    BY RpfilterSound, OnlySound
  <1>2. IsList(parts)
    BY ListEach
  <1>3. \A n \in DOMAIN parts : SoundList(parts[n])
    BY <1>1
  <1>4. InterfaceRules(f, interfaces) = FlattenSeq(parts)
    BY DEF InterfaceRules
  <1> HIDE DEF parts
  <1> QED
    BY <1>2, <1>3, <1>4, FlattenSound

LEMMA AntispoofRuleSound == ASSUME NEW danger, NEW i PROVE SoundList(AntispoofRule(danger, i))
  <1> DEFINE a(match) == << Line(4, "filter", "ANTISPOOF", match ++ [limit |-> 1], Jump(LogJump)) >>
             b(match) == << Line(4, "filter", "ANTISPOOF", match, Jump("DROP")) >>
             drop(match) == Only(Can("log"), a(match)) \o b(match)
             old == drop([src |-> danger, dst |-> i.addr[4]]) \o drop([src |-> i.addr[4], dst |-> danger])
             new == drop([in |-> i.device, src |-> danger]) \o drop([out |-> i.device, dst |-> danger])
  <1>1. AntispoofRule(danger, i) = Only(InUse(i), IF i.oldstyle THEN old ELSE new)
    BY DEF AntispoofRule
  <1>2. ASSUME NEW m, Plain(m) PROVE SoundList(drop(m))
    <2>1. Plain([limit |-> 1])
      BY DEF Plain, Heading
    <2>2. /\ Sound(Line(4, "filter", "ANTISPOOF", m ++ [limit |-> 1], Jump(LogJump)))
          /\ Sound(Line(4, "filter", "ANTISPOOF", m, Jump("DROP")))
      BY <1>2, <2>1, PlainMerge, SoundLine
    <2>3. SoundList(a(m)) /\ SoundList(b(m))
      BY <2>2, SoundOne
    <2> HIDE DEF a, b
    <2> QED
      BY <2>3, OnlySound, SoundBoth
  <1> HIDE DEF drop
  <1>3. /\ Plain([src |-> danger, dst |-> i.addr[4]]) /\ Plain([src |-> i.addr[4], dst |-> danger])
        /\ Plain([in |-> i.device, src |-> danger]) /\ Plain([out |-> i.device, dst |-> danger])
    BY DEF Plain, Heading
  <1>4. SoundList(old) /\ SoundList(new)
    BY <1>2, <1>3, SoundBoth
  <1> HIDE DEF old, new
  <1> QED
    BY <1>1, <1>4, OnlySound

LEMMA DhcpSound ==
    ASSUME NEW chain, NEW i, NEW src, NEW sport, NEW dst, NEW dport, chain \in {"INPUT", "OUTPUT"}
    PROVE  SoundList(Dhcp(chain, i, src, sport, dst, dport))
  <1> DEFINE m == [proto |-> "udp", src |-> src, sport |-> sport, dst |-> dst, dport |-> dport]
             n == IF chain = "INPUT" THEN [in |-> i.device] ELSE [out |-> i.device]
             l == Line(4, "filter", chain, m ++ n, Jump("ACCEPT"))
  <1>1. Plain(m) /\ Plain([in |-> i.device]) /\ Plain([out |-> i.device])
    BY DEF Plain, Heading
  <1>2. Plain(n)
    BY <1>1
  <1> HIDE DEF m, n
  <1>3. Sound(l)
    BY <1>1, <1>2, PlainMerge, SoundLine
  <1>4. Dhcp(chain, i, src, sport, dst, dport) = << l >>
    BY DEF Dhcp, m, n
  <1> HIDE DEF l
  <1> QED
    BY <1>3, <1>4, SoundOne

LEMMA ServersSound == ASSUME NEW net, NEW i PROVE SoundList(DhcpServer(net, i)) /\ SoundList(DhcpClient(net, i))
  <1> DEFINE s1 == Dhcp("INPUT", i, AnyHost, "68", Broadcast, "67")
             s2 == Dhcp("INPUT", i, net, "68", Broadcast, "67")
             s3 == Dhcp("OUTPUT", i, AnyHost, "67", Broadcast, "68")
             s4 == Dhcp("OUTPUT", i, i.addr[4], "67", net, "68")
             s5 == Dhcp("INPUT", i, net, "68", i.addr[4], "67")
             s6 == Dhcp("INPUT", i, AnyHost, "68", i.addr[4], "67")
             s7 == Dhcp("OUTPUT", i, i.addr[4], "67", Broadcast, "68")
             c1 == Dhcp("OUTPUT", i, AnyHost, "68", Broadcast, "67")
             c2 == Dhcp("INPUT", i, AnyHost, "67", Broadcast, "68")
             c3 == Dhcp("INPUT", i, net, "67", Broadcast, "68")
             c4 == Dhcp("OUTPUT", i, AnyHost, "68", net, "67")
             c5 == Dhcp("INPUT", i, net, "67", net, "68")
             c6 == Dhcp("OUTPUT", i, net, "68", net, "67")
  <1>1. /\ SoundList(s1) /\ SoundList(s2) /\ SoundList(s3) /\ SoundList(s4) /\ SoundList(s5)
        /\ SoundList(s6) /\ SoundList(s7)
    BY DhcpSound
  <1>2. /\ SoundList(c1) /\ SoundList(c2) /\ SoundList(c3) /\ SoundList(c4) /\ SoundList(c5) /\ SoundList(c6)
    BY DhcpSound
  <1>3. DhcpServer(net, i) =
            Only(~i.oldstyle /\ i.device # None,
                 s1 \o Only(net # {}, s2) \o s3 \o Only(net # {} /\ i.addr[4] # {}, s4 \o s5)
                 \o Only(i.addr[4] # {}, s6 \o s7))
    BY DEF DhcpServer
  <1>4. DhcpClient(net, i) =
            Only(i.dynamic /\ ~i.oldstyle /\ i.device # None,
                 c1 \o c2 \o Only(net # {}, c3 \o c4 \o c5 \o c6))
    BY DEF DhcpClient
  <1> HIDE DEF s1, s2, s3, s4, s5, s6, s7, c1, c2, c3, c4, c5, c6
  <1> QED
    BY <1>1, <1>2, <1>3, <1>4, OnlySound, SoundBoth

LEMMA ProtectRulesSound ==
    ASSUME NEW f PROVE SoundList(NetworkProtectRules(f, Networks))
  <1> DEFINE rule(n, p, i) == CASE p.kind = "antispoof" -> AntispoofRule(p.danger, i)
                                [] p.kind = "dhcp-client" -> DhcpClient(n.addr[4], i)
                                [] p.kind = "dhcp-server" -> DhcpServer(n.addr[4], i)
             rs(n, p) == FlattenSeq([k \in DOMAIN n.ifaces |-> rule(n, p, n.ifaces[k])])
             of(n) == FlattenSeq([k \in DOMAIN n.protect |-> rs(n, n.protect[k])])
             parts == [k \in DOMAIN Networks |-> Only(f = 4, of(Networks[k]))]
             Kinds == {"antispoof", "dhcp-client", "dhcp-server"}
  <1>1. ASSUME NEW n, NEW p, NEW i, p.kind \in Kinds PROVE SoundList(rule(n, p, i))
    BY <1>1, AntispoofRuleSound, ServersSound
  <1>2. NetworkProtectRules(f, Networks) = FlattenSeq(parts)
    BY DEF NetworkProtectRules
  <1> HIDE DEF rule
  <1>3. ASSUME NEW n, NEW p, p.kind \in Kinds, IsList(n.ifaces) PROVE SoundList(rs(n, p))
    <2> DEFINE s == [k \in DOMAIN n.ifaces |-> rule(n, p, n.ifaces[k])]
    <2>1. IsList(s) /\ \A k \in DOMAIN s : SoundList(s[k])
      BY <1>1, <1>3, ListEach
    <2> HIDE DEF s
    <2>2. SoundList(FlattenSeq(s))
      BY <2>1, FlattenSound
    <2> QED
      BY <2>2 DEF s
  <1> HIDE DEF rs
  <1>4. ASSUME NEW n, IsList(n.ifaces), IsList(n.protect), \A k \in DOMAIN n.protect : n.protect[k].kind \in Kinds
        PROVE  SoundList(of(n))
    <2> DEFINE s == [k \in DOMAIN n.protect |-> rs(n, n.protect[k])]
    <2>1. IsList(s) /\ \A k \in DOMAIN s : SoundList(s[k])
      BY <1>3, <1>4, ListEach
    <2> HIDE DEF s
    <2>2. SoundList(FlattenSeq(s))
      BY <2>1, FlattenSound
    <2> QED
      BY <2>2 DEF s
  <1> HIDE DEF of
  <1>5. \A k \in DOMAIN Networks : SoundList(of(Networks[k]))
    BY <1>4, ListsAssumption DEF NetLists
  <1>6. IsList(parts) /\ \A k \in DOMAIN parts : SoundList(parts[k])
    <2>1. \A k \in DOMAIN Networks : SoundList(Only(f = 4, of(Networks[k])))
      BY <1>5, OnlySound
    <2>2. IsList(parts)
      BY ListEach, ListsAssumption
    <2> QED
      BY <2>1, <2>2
  <1> HIDE DEF parts
  <1> QED
    BY <1>2, <1>6, FlattenSound

LEMMA QueuesList == ASSUME NEW list, IsList(list) PROVE IsList(QueuesOf(list))
  <1> DEFINE numbers(n) == {list[k].opt.nfqueue : k \in {k \in 1..n : list[k].action = "nfqueue"}}
             cond(n) == list[n].action = "nfqueue" /\ list[n].opt.nfqueue \notin numbers(n - 1)
             parts == [n \in DOMAIN list |-> Only(cond(n), << list[n].opt.nfqueue >>)]
  <1>1. QueuesOf(list) = FlattenSeq(parts)
    BY DEF QueuesOf
  <1> HIDE DEF cond
  <1>2. \A n : IsList(Only(cond(n), << list[n].opt.nfqueue >>))
    BY ListNone, ListOne DEF Only
  <1>3. IsList(parts) /\ \A n \in DOMAIN parts : IsList(parts[n])
    BY <1>2, ListEach
  <1> HIDE DEF parts
  <1> QED
    BY <1>1, <1>3, FlattenLemma

LEMMA OfQueueSound ==
    ASSUME NEW f, NEW n, NEW s, NEW target, NEW chain, chain \notin {"BLOCK", "BLOCKLIST"}
    PROVE  Sound(OfQueue(f, chain, n, s, target))
  <1>1. Plain(InState(s)) /\ Plain([marks |-> {n + NFQ_MARK_BASE}])
    BY PlainParts
  <1> QED
    BY <1>1, PlainMerge, SoundLine DEF OfQueue

LEMMA EstrelSound == ASSUME NEW f, NEW list, IsList(list) PROVE SoundList(EstrelNfqueueRules(f, list))
  <1> DEFINE queues == QueuesOf(list)
             of(n) == << OfQueue(f, "ESTRELNFQUEUE", n, {"ESTABLISHED"}, Set("NFQUEUE", n)),
                         OfQueue(f, "ESTRELNFQUEUE", n, {"RELATED"}, Jump("NEWNFQUEUE")) >>
             parts == [k \in DOMAIN queues |-> of(queues[k])]
  <1>1. EstrelNfqueueRules(f, list) = FlattenSeq(parts)
    BY DEF EstrelNfqueueRules
  <1>2. \A n : SoundList(of(n))
    BY OfQueueSound, ListTwo DEF SoundList
  <1>3. IsList(queues)
    BY QueuesList
  <1> HIDE DEF queues, of
  <1>4. IsList(parts) /\ \A k \in DOMAIN parts : SoundList(parts[k])
    BY <1>2, <1>3, ListEach
  <1> HIDE DEF parts
  <1> QED
    BY <1>1, <1>4, FlattenSound

LEMMA NewNfqueueSound == ASSUME NEW f, NEW list, IsList(list) PROVE SoundList(NewNfqueueRules(f, list))
  <1> DEFINE a == Line(f, "filter", "NEWNFQUEUE", [proto |-> "tcp", flags |-> {"syn"}], Jump("SYNLIMIT"))
             b == Line(f, "filter", "NEWNFQUEUE", [proto |-> "udp"] ++ InState({"NEW", "RELATED"}), Jump("UDPLIMIT"))
             queues == QueuesOf(list)
             parts == [k \in DOMAIN queues |->
                          OfQueue(f, "NEWNFQUEUE", queues[k], {"NEW", "RELATED"}, Set("NFQUEUE", queues[k]))]
             ab == << a, b >>
  <1>1. NewNfqueueRules(f, list) = ab \o parts
    BY DEF NewNfqueueRules
  <1>2. Plain([proto |-> "tcp", flags |-> {"syn"}]) /\ Plain([proto |-> "udp"])
    BY DEF Plain, Heading
  <1>3. Sound(a) /\ Sound(b)
    BY <1>2, PlainParts, PlainMerge, SoundLine
  <1> HIDE DEF a, b
  <1>4. SoundList(ab)
    BY <1>3, ListTwo DEF SoundList
  <1>5. IsList(queues)
    BY QueuesList
  <1> HIDE DEF queues, ab
  <1>6. IsList(parts) /\ \A k \in DOMAIN parts : Sound(parts[k])
    BY <1>5, OfQueueSound, ListEach
  <1> HIDE DEF parts
  <1>7. SoundList(parts)
    BY <1>6 DEF SoundList, ToSet
  <1> QED
    BY <1>1, <1>4, <1>7, SoundBoth

LEMMA PostSound == ASSUME NEW f PROVE SoundList(PostRules(f))
  <1>1. \A n : Plain([limit |-> n])
    BY DEF Plain, Heading
  <1> QED
    BY <1>1, InAllSound, OnlySound DEF PostRules

LEMMA PrepareSealed ==
    ASSUME NEW f, NEW lim, NEW list, IsList(list)
    PROVE  Sealed(f, PreRulesLines(f, Interfaces, lim)
                     \o NewNfqueueRules(f, list) \o EstrelNfqueueRules(f, list)
                     \o BlockRules(f, Blocked) \o InterfaceRules(f, Interfaces)
                     \o NetworkProtectRules(f, Networks))
  <1> DEFINE a == PreRulesLines(f, Interfaces, lim)
             b == NewNfqueueRules(f, list)
             c == EstrelNfqueueRules(f, list)
             d == BlockRules(f, Blocked)
             e == InterfaceRules(f, Interfaces)
             g == NetworkProtectRules(f, Networks)
             abc == a \o b \o c
  <1>1. /\ SoundList(a) /\ SoundList(b) /\ SoundList(c) /\ SoundList(d) /\ SoundList(e) /\ SoundList(g)
        /\ f = 4 => Guarded(a) /\ DropLine \in ToSet(a) /\ Barred(d)
    BY PreRulesSealed, NewNfqueueSound, EstrelSound, BlockRulesBar, InterfaceSound, ProtectRulesSound, ListsAssumption
  <1> HIDE DEF a, b, c, d, e, g
  <1>2. SoundList(abc) /\ (f = 4 => Guarded(abc) /\ DropLine \in ToSet(abc))
    <2> DEFINE ab == a \o b
    <2>1. SoundList(ab) /\ ToSet(ab) = ToSet(a) \union ToSet(b) /\ (f = 4 => Guarded(ab))
      BY <1>1, SoundBoth, SetOfBoth, GuardedMore DEF SoundList
    <2> HIDE DEF ab
    <2>2. SoundList(ab \o c) /\ ToSet(ab \o c) = ToSet(ab) \union ToSet(c) /\ (f = 4 => Guarded(ab \o c))
      BY <1>1, <2>1, SoundBoth, SetOfBoth, GuardedMore DEF SoundList
    <2> QED
      BY <1>1, <2>1, <2>2 DEF ab
  <1> HIDE DEF abc
  <1>3. Sealed(f, abc \o d)
    <2>1. SoundList(abc \o d) /\ ToSet(abc \o d) = ToSet(abc) \union ToSet(d) /\ (f = 4 => Guarded(abc \o d))
      BY <1>1, <1>2, SoundBoth, SetOfBoth, GuardedMore DEF SoundList
    <2> QED
      BY <1>1, <1>2, <2>1 DEF Sealed, Barred
  <1>4. Sealed(f, abc \o d \o e)
    BY <1>1, <1>3, SealedMore
  <1>5. Sealed(f, abc \o d \o e \o g)
    BY <1>1, <1>4, SealedMore
  <1> QED
    BY <1>5 DEF abc, a, b, c, d, e, g

-----------------------------------------------------------------------------
(* What the kernel makes of a packet of the blocklist.                     *)

\* of the lines of a chain that match there is a first one
LEMMA Least ==
    ASSUME NEW S, S \subseteq Nat, NEW b \in S
    PROVE  \E m \in S : \A k \in S : m <= k
  <1> DEFINE T == {n \in Nat : \A k \in S : k > n}
  <1>1. SUFFICES ASSUME ~ \E m \in S : \A k \in S : m <= k PROVE FALSE
    OBVIOUS
  <1>2. 0 \in T
    <2>1. 0 \notin S
      BY <1>1
    <2> QED
      BY <2>1
  <1>3. ASSUME NEW n \in Nat, n \in T PROVE n + 1 \in T
    <2>1. n + 1 \notin S
      <3>1. ASSUME n + 1 \in S PROVE FALSE
        <4>1. \A k \in S : n + 1 <= k
          BY <1>3
        <4> QED
          BY <1>1, <3>1, <4>1
      <3> QED
        BY <3>1
    <2> QED
      BY <1>3, <2>1
  <1>4. Nat \subseteq T
    <2> HIDE DEF T
    <2> QED
      BY <1>2, <1>3, NatSets
  <1> QED
    BY <1>4

Drop == Jump("DROP")

LEMMA Distinct == Drop # Onward /\ Drop # Return /\ Drop.t = "DROP"
  BY DEF Drop, Onward, Return, Jump

LEMMA HitOfLine ==
    ASSUME NEW l, NEW called
    PROVE  /\ l.target.t \in Passes => HitOf(l, called) = {Onward}
           /\ l.target = Drop => HitOf(l, called) = {Drop}
           /\ l.target = Jump("BLOCK") => HitOf(l, called) = called["BLOCK"]
           /\ l.target = Jump("BLOCKLIST") => HitOf(l, called) = called["BLOCKLIST"]
  BY Distinct DEF HitOf, Passes, Jumps, Jump, Drop

\* a chain that drops a packet before anything else decides about it
LEMMA WalkDrops ==
    ASSUME NEW s, NEW p, NEW chain, NEW called, IsList(s),
           NEW b \in DOMAIN s, Hits(s[b], chain, p), ~(s[b].limit > 0), HitOf(s[b], called) = {Drop},
           \A k \in 1..(b - 1) : Hits(s[k], chain, p) => HitOf(s[k], called) \in {{Onward}, {Drop}}
    PROVE  Walk(s, p, chain, called) = {Drop}
  <1> DEFINE hits == {n \in DOMAIN s : Hits(s[n], chain, p)}
             pass(n) == MayPass(s[n], called)
             stop == {n \in hits : ~pass(n)}
             reached == {n \in hits : \A k \in hits : k < n => pass(k)}
             outcomes == ((UNION {HitOf(s[n], called) : n \in reached}) \ {Onward})
                         \union (IF \A n \in hits : pass(n) THEN {Onward} ELSE {})
  <1>1. DOMAIN s = 1..Len(s) /\ Len(s) \in Nat
    BY ListFacts
  <1>2. b \in stop
    BY Distinct DEF MayPass
  <1>3. PICK m \in stop : \A k \in stop : m <= k
    <2>1. stop \subseteq Nat
      BY <1>1
    <2> HIDE DEF stop
    <2> QED
      BY <1>2, <2>1, Least
  <1>4. m \in hits /\ m <= b /\ HitOf(s[m], called) = {Drop}
    <2>1. m \in hits /\ m <= b
      BY <1>2, <1>3
    <2>2. CASE m = b
      BY <2>1, <2>2
    <2>3. CASE m # b
      <3>1. m \in 1..(b - 1)
        BY <1>1, <2>1, <2>3
      <3>2. HitOf(s[m], called) \in {{Onward}, {Drop}} /\ Onward \notin HitOf(s[m], called)
        BY <1>3, <2>1, <3>1 DEF MayPass
      <3> QED
        BY <2>1, <3>2
    <2> QED
      BY <2>2, <2>3
  <1>5. m \in reached
    BY <1>1, <1>3, <1>4
  <1>6. ASSUME NEW n \in reached PROVE HitOf(s[n], called) \in {{Onward}, {Drop}}
    <2>1. n \in hits /\ n <= m
      BY <1>1, <1>3
    <2>2. n <= b
      BY <1>1, <1>4, <2>1
    <2>3. CASE n = b
      BY <2>3
    <2>4. CASE n # b
      <3>1. n \in 1..(b - 1)
        BY <1>1, <2>1, <2>2, <2>4
      <3> QED
        BY <2>1, <3>1
    <2> QED
      BY <2>3, <2>4
  <1>7. outcomes = {Drop}
    <2>1. ~ \A n \in hits : pass(n)
      BY <1>2
    <2> HIDE DEF reached, hits, pass
    <2>2. Drop \in (UNION {HitOf(s[n], called) : n \in reached}) \ {Onward}
      BY <1>4, <1>5, Distinct
    <2>3. ASSUME NEW o \in (UNION {HitOf(s[n], called) : n \in reached}) \ {Onward} PROVE o = Drop
      BY <1>6, <2>3
    <2> QED
      BY <2>1, <2>2, <2>3
  <1>8. Walk(s, p, chain, called) = {IF o = Return THEN Onward ELSE o : o \in outcomes}
    BY DEF Walk
  <1> HIDE DEF outcomes
  <1> QED
    BY <1>7, <1>8, Distinct

(* The lines of the blocklist, and the packets that they match.            *)
Between(l, chain, target, src, dst) ==
    /\ l.ipv = 4 /\ l.table = "filter" /\ l.chain = chain /\ l.target = target
    /\ l.in = None /\ l.out = None /\ l.proto = None /\ l.sport = None /\ l.dport = None
    /\ l.mac = None /\ l.helper = None /\ l.src = src /\ l.dst = dst
    /\ l.flags = Flags /\ l.states = States /\ l.marks = None /\ l.limit = 0

LEMMA BareLine ==
    ASSUME NEW chain, NEW target
    PROVE  Between(Line(4, "filter", chain, << >>, target), chain, target, Whole, Whole)
  <1>1. DOMAIN << >> = {}
    OBVIOUS
  <1> QED
    BY <1>1 DEF Between, Line, ++

LEMMA SideLines ==
    ASSUME NEW a
    PROVE  /\ Between(FromLine(a), "BLOCKLIST", Jump("BLOCK"), {a}, Whole)
           /\ Between(ToLine(a), "BLOCKLIST", Jump("BLOCK"), Whole, {a})
  <1>1. Between(FromLine(a), "BLOCKLIST", Jump("BLOCK"), {a}, Whole)
    BY DEF Between, Line, ++, FromLine
  <1>2. Between(ToLine(a), "BLOCKLIST", Jump("BLOCK"), Whole, {a})
    BY DEF Between, Line, ++, ToLine
  <1> QED
    BY <1>1, <1>2

\* a first packet, with whatever mark
First(p) ==
    /\ p.hook \in Bases /\ p.state = "NEW" /\ p.flags \in Flags /\ p.src \in Whole /\ p.dst \in Whole
    /\ "lo" \notin {None, p.in, p.out}

LEMMA MarkedFirst ==
    ASSUME NEW s, NEW p \in Packets
    PROVE  LET q == Marked(s, p)
           IN  First(q) /\ q.ipv = p.ipv /\ q.src = p.src /\ q.dst = p.dst
  <1> DEFINE mark(m, l) == IF l.target.t = "CONNMARK" /\ Matches(l, [p EXCEPT !.mark = m]) THEN l.target.v ELSE m
             v == FoldLeft(mark, p.mark, InChain(s, "mangle", p.hook))
  <1>1. Marked(s, p) = [p EXCEPT !.mark = v]
    BY DEF Marked
  <1> HIDE DEF v
  <1> QED
    BY <1>1, PacketsAssumption DEF First, PacketFields, Bases

LEMMA BetweenHits ==
    ASSUME NEW l, NEW chain, NEW target, NEW src, NEW dst, Between(l, chain, target, src, dst),
           NEW q, First(q), q.ipv = 4, q.src \in src, q.dst \in dst
    PROVE  Hits(l, chain, q) /\ ~(l.limit > 0) /\ l.target = target
  BY DEF Between, Hits, Matches, Given, First, States

LEMMA BareHits ==
    ASSUME NEW chain, NEW target, NEW q, First(q), q.ipv = 4
    PROVE  LET l == Line(4, "filter", chain, << >>, target)
           IN  Hits(l, chain, q) /\ ~(l.limit > 0) /\ l.target = target
  BY BareLine, BetweenHits DEF First

LEMMA BlockedHits ==
    ASSUME NEW a, NEW q, First(q), q.ipv = 4, a \in {q.src, q.dst}
    PROVE  \E l \in {FromLine(a), ToLine(a)} :
              Hits(l, "BLOCKLIST", q) /\ ~(l.limit > 0) /\ l.target = Jump("BLOCK")
  <1>1. q.src \in Whole /\ q.dst \in Whole
    BY DEF First
  <1>2. a = q.src => Hits(FromLine(a), "BLOCKLIST", q) /\ ~(FromLine(a).limit > 0) /\ FromLine(a).target = Jump("BLOCK")
    BY <1>1, SideLines, BetweenHits
  <1>3. a = q.dst => Hits(ToLine(a), "BLOCKLIST", q) /\ ~(ToLine(a).limit > 0) /\ ToLine(a).target = Jump("BLOCK")
    BY <1>1, SideLines, BetweenHits
  <1> QED
    BY <1>2, <1>3

LEMMA BlockDrops ==
    ASSUME NEW s, Sealed(4, s), NEW q, First(q), q.ipv = 4, NEW called
    PROVE  Walk(s, q, "BLOCK", called) = {Drop}
  <1>1. PICK b \in DOMAIN s : s[b] = DropLine
    BY DEF Sealed, ToSet
  <1>2. Hits(s[b], "BLOCK", q) /\ ~(s[b].limit > 0) /\ s[b].target = Drop
    BY <1>1, BareHits DEF DropLine, Drop
  <1>3. HitOf(s[b], called) = {Drop}
    BY <1>2, HitOfLine
  <1>4. IsList(s) /\ DOMAIN s = 1..Len(s) /\ Len(s) \in Nat
    BY ListFacts DEF Sealed, SoundList
  <1>5. ASSUME NEW k \in 1..(b - 1), Hits(s[k], "BLOCK", q) PROVE HitOf(s[k], called) \in {{Onward}, {Drop}}
    <2>1. s[k] \in ToSet(s)
      BY <1>4 DEF ToSet
    <2>2. s[k].target.t \in LogTargets \/ s[k].target = Drop
      BY <1>5, <2>1 DEF Sealed, SoundList, Sound, Hits, Drop
    <2>3. LogTargets \subseteq Passes
      BY DEF LogTargets, Passes
    <2> QED
      BY <2>2, <2>3, HitOfLine
  <1> QED
    BY <1>2, <1>3, <1>4, <1>5, WalkDrops

LEMMA BlocklistDrops ==
    ASSUME NEW s, Sealed(4, s), NEW q, First(q), q.ipv = 4,
           NEW n \in DOMAIN Blocked, Blocked[n] \in {q.src, q.dst}, NEW called, called["BLOCK"] = {Drop}
    PROVE  Walk(s, q, "BLOCKLIST", called) = {Drop}
  <1>1. PICK l \in {FromLine(Blocked[n]), ToLine(Blocked[n])} :
            Hits(l, "BLOCKLIST", q) /\ ~(l.limit > 0) /\ l.target = Jump("BLOCK")
    BY BlockedHits
  <1>2. PICK b \in DOMAIN s : s[b] = l
    BY DEF Sealed, Barred, ToSet
  <1>3. HitOf(s[b], called) = {Drop}
    BY <1>1, <1>2, HitOfLine
  <1>4. IsList(s) /\ DOMAIN s = 1..Len(s) /\ Len(s) \in Nat
    BY ListFacts DEF Sealed, SoundList
  <1>5. ASSUME NEW k \in 1..(b - 1), Hits(s[k], "BLOCKLIST", q) PROVE HitOf(s[k], called) \in {{Onward}, {Drop}}
    <2>1. s[k] \in ToSet(s)
      BY <1>4 DEF ToSet
    <2>2. s[k].target = Jump("BLOCK")
      BY <1>5, <2>1 DEF Sealed, SoundList, Sound, Hits
    <2> QED
      BY <2>2, HitOfLine
  <1> QED
    BY <1>1, <1>2, <1>3, <1>4, <1>5, WalkDrops

LEMMA HookDrops ==
    ASSUME NEW s, Sealed(4, s), NEW q, First(q), q.ipv = 4, NEW called, called["BLOCKLIST"] = {Drop}
    PROVE  Walk(s, q, q.hook, called) = {Drop}
  <1>1. PICK b \in DOMAIN s : s[b] = Guard(q.hook) /\ \A k \in 1..(b - 1) : Calm(s[k], q.hook)
    BY DEF Sealed, Guarded, First
  <1>2. Hits(s[b], q.hook, q) /\ ~(s[b].limit > 0) /\ s[b].target = Jump("BLOCKLIST")
    BY <1>1, BareHits DEF Guard
  <1>3. HitOf(s[b], called) = {Drop}
    BY <1>2, HitOfLine
  <1>4. IsList(s)
    BY DEF Sealed, SoundList
  <1>5. ASSUME NEW k \in 1..(b - 1), Hits(s[k], q.hook, q) PROVE HitOf(s[k], called) \in {{Onward}, {Drop}}
    <2>1. Harmless(s[k])
      BY <1>1, <1>5 DEF Calm, Hits
    <2>2. "NEW" \in s[k].states /\ "lo" \notin {s[k].in, s[k].out}
      BY <1>5 DEF Hits, Matches, First, Given
    <2>3. s[k].target.t \in Passes \/ s[k].target = Drop
      BY <2>1, <2>2 DEF Harmless, Drop
    <2> QED
      BY <2>3, HitOfLine
  <1> QED
    BY <1>2, <1>3, <1>4, <1>5, WalkDrops

\* in a sealed ruleset a packet of the blocklist is dropped in whatever hook
LEMMA BlockedLemma ==
    ASSUME NEW s, Sealed(4, s), NEW p \in Packets, p.ipv = 4,
           NEW n \in DOMAIN Blocked, Blocked[n] \in {p.src, p.dst}
    PROVE  Verdict(s, p) = {Jump("DROP")}
  <1> DEFINE q == Marked(s, p)
  <1>1. First(q) /\ q.ipv = 4 /\ Blocked[n] \in {q.src, q.dst}
    BY MarkedFirst
  <1> HIDE DEF q
  <1> DEFINE Deeper(g) == [c \in Jumps |-> Walk(s, q, c, g)]
             g0 == [c \in Jumps |-> {Onward}]
             g1 == Deeper(g0)
             g2 == Deeper(g1)
             g3 == Deeper(g2)
             chains[d \in 0..Depth] == IF d = 0 THEN g0 ELSE Deeper(chains[d - 1])
             f == [d \in 0..3 |-> IF d = 0 THEN g0 ELSE IF d = 1 THEN g1 ELSE IF d = 2 THEN g2 ELSE g3]
  <1>2. g3["BLOCKLIST"] = {Drop}
    <2>1. "BLOCK" \in Jumps /\ "BLOCKLIST" \in Jumps
      BY DEF Jumps
    <2> HIDE DEF g1, g0
    <2>2. g2["BLOCK"] = {Drop}
      BY <1>1, <2>1, BlockDrops
    <2> HIDE DEF g2
    <2> QED
      BY <1>1, <2>1, <2>2, BlocklistDrops
  <1>3. Outcomes(s, q) = Walk(s, q, q.hook, chains[Depth])
    BY DEF Outcomes
  <1> HIDE DEF Deeper, g0
  <1>4. chains = [d \in 0..Depth |-> IF d = 0 THEN g0 ELSE Deeper(chains[d - 1])]
    <2>1. f = [d \in 0..Depth |-> IF d = 0 THEN g0 ELSE Deeper(f[d - 1])]
      <3>1. f[0] = g0 /\ f[1] = g1 /\ f[2] = g2 /\ f[3] = g3 /\ Depth = 3
        BY DEF Depth
      <3>2. ASSUME NEW d \in 0..3 PROVE f[d] = IF d = 0 THEN g0 ELSE Deeper(f[d - 1])
        <4>1. d \in {0, 1, 2, 3} /\ 1 - 1 = 0 /\ 2 - 1 = 1 /\ 3 - 1 = 2
          OBVIOUS
        <4> HIDE DEF f
        <4> QED
          BY <3>1, <4>1
      <3>3. f = [d \in 0..3 |-> f[d]]
        OBVIOUS
      <3> HIDE DEF f
      <3> QED
        BY <3>1, <3>2, <3>3
    <2>2. \E h : h = [d \in 0..Depth |-> IF d = 0 THEN g0 ELSE Deeper(h[d - 1])]
      <3> HIDE DEF f
      <3> QED
        BY <2>1
    <2> QED
      BY <2>2
  <1>5. chains[Depth] = g3
    <2>1. Depth = 3 /\ 1 - 1 = 0 /\ 2 - 1 = 1 /\ 3 - 1 = 2 /\ {0, 1, 2, 3} \subseteq 0..Depth
      BY DEF Depth
    <2> HIDE DEF chains
    <2>2. chains[0] = g0
      BY <1>4, <2>1
    <2>3. chains[1] = g1
      BY <1>4, <2>1, <2>2
    <2>4. chains[2] = g2
      BY <1>4, <2>1, <2>3
    <2> QED
      BY <1>4, <2>1, <2>4
  <1> HIDE DEF chains, g3
  <1>6. Outcomes(s, q) = {Drop}
    BY <1>1, <1>2, <1>3, <1>5, HookDrops
  <1>7. Verdicts(s, q) = {Drop}
    BY <1>6, Distinct DEF Verdicts
  <1> QED
    BY <1>7 DEF Verdict, q, Drop

-----------------------------------------------------------------------------
(* The classes of the interfaces, which those of the rules hang on.        *)

LEMMA NoTwinsOne == ASSUME NEW x PROVE NoTwins(<< x >>)
  BY DEF NoTwins

LEMMA NoTwinsNone == NoTwins(<< >>)
  BY DEF NoTwins

LEMMA NoTwinsBoth ==
    ASSUME NEW s, NEW t, IsList(s), IsList(t), NoTwins(s), NoTwins(t),
           \A x \in ToSet(s) : \A y \in ToSet(t) : ~Twins(x, y)
    PROVE  NoTwins(s \o t)
  <1> DEFINE u == s \o t
             L == Len(s)
  <1>1. /\ DOMAIN u = 1..(L + Len(t)) /\ L \in Nat /\ Len(t) \in Nat
        /\ DOMAIN s = 1..L /\ DOMAIN t = 1..Len(t)
        /\ (\A n \in 1..L : u[n] = s[n]) /\ \A n \in 1..Len(t) : u[L + n] = t[n]
    BY ListBoth, ListFacts
  <1> HIDE DEF u, L
  <1>2. ASSUME NEW n \in DOMAIN u
        PROVE  (n \in 1..L /\ u[n] = s[n]) \/ (n - L \in 1..Len(t) /\ u[n] = t[n - L])
    <2>1. CASE n <= L
      BY <1>1, <2>1
    <2>2. CASE n > L
      <3>1. n - L \in 1..Len(t) /\ L + (n - L) = n
        BY <1>1, <2>2
      <3>2. u[L + (n - L)] = t[n - L]
        BY <1>1, <3>1
      <3> QED
        BY <3>1, <3>2
    <2> QED
      BY <1>1, <2>1, <2>2
  <1>3. \A n \in 1..L : s[n] \in ToSet(s)
    BY <1>1 DEF ToSet
  <1>4. \A n \in 1..Len(t) : t[n] \in ToSet(t)
    BY <1>1 DEF ToSet
  <1>5. ASSUME NEW n \in DOMAIN u, NEW j \in DOMAIN u, Twins(u[n], u[j]) PROVE j = n
    <2>1. \A x, y : Twins(x, y) => Twins(y, x)
      BY DEF Twins
    <2>2. CASE n \in 1..L /\ j \in 1..L
      BY <1>1, <1>5, <2>2 DEF NoTwins
    <2>3. CASE n - L \in 1..Len(t) /\ j - L \in 1..Len(t) /\ u[n] = t[n - L] /\ u[j] = t[j - L]
      <3>1. n - L = j - L
        BY <1>1, <1>5, <2>3 DEF NoTwins
      <3> QED
        BY <1>1, <3>1
    <2>4. ~(n \in 1..L /\ u[n] = s[n] /\ j - L \in 1..Len(t) /\ u[j] = t[j - L])
      BY <1>3, <1>4, <1>5
    <2>5. ~(j \in 1..L /\ u[j] = s[j] /\ n - L \in 1..Len(t) /\ u[n] = t[n - L])
      BY <1>3, <1>4, <1>5, <2>1
    <2> QED
      BY <1>2, <2>2, <2>3, <2>4, <2>5
  <1>6. NoTwins(u)
    BY <1>5 DEF NoTwins
  <1> QED
    BY <1>6 DEF u

LEMMA NoTwinsFlatten ==
    ASSUME NEW s, IsList(s), \A n \in DOMAIN s : IsList(s[n]) /\ NoTwins(s[n]),
           \A n, m \in DOMAIN s : n # m => \A x \in ToSet(s[n]) : \A y \in ToSet(s[m]) : ~Twins(x, y)
    PROVE  NoTwins(FlattenSeq(s))
  <1>1. Len(s) \in Nat /\ DOMAIN s = 1..Len(s)
    BY ListFacts
  <1>2. CASE Len(s) = 0
    <2>1. FlattenSeq(s) = s /\ DOMAIN s = {}
      BY <1>1, <1>2 DEF FlattenSeq
    <2> QED
      BY <2>1 DEF NoTwins
  <1>3. CASE Len(s) # 0
    <2>1. PICK g : Joined(s, g, Len(s)) /\ FlattenSeq(s) = g[Len(s)]
      BY <1>3, FlattenExists
    <2> DEFINE Good(m) == /\ IsList(g[m]) /\ NoTwins(g[m])
                          /\ \A x \in ToSet(g[m]) : \E n \in 1..m : x \in ToSet(s[n])
               T == {m \in Nat : m + 1 \in 1..Len(s) => Good(m + 1)}
    <2>2. 0 \in T
      <3>1. g[1] = s[1] /\ IsList(s[1]) /\ NoTwins(s[1])
        BY <1>1, <1>3, <2>1 DEF Joined
      <3>2. Good(1)
        BY <3>1
      <3> QED
        BY <3>2
    <2>3. ASSUME NEW m \in Nat, m \in T PROVE m + 1 \in T
      <3>1. SUFFICES ASSUME (m + 1) + 1 \in 1..Len(s) PROVE Good((m + 1) + 1)
        OBVIOUS
      <3> DEFINE M == (m + 1) + 1
      <3>2. Good(m + 1) /\ IsList(s[M]) /\ NoTwins(s[M])
        BY <1>1, <2>3, <3>1
      <3>3. g[M] = g[m + 1] \o s[M]
        <4>1. M # 1 /\ M - 1 = m + 1
          OBVIOUS
        <4> QED
          BY <2>1, <3>1, <4>1 DEF Joined
      <3>4. \A n \in 1..(m + 1) : n \in DOMAIN s /\ n # M /\ M \in DOMAIN s
        BY <1>1, <3>1
      <3>5. 1..M = 1..(m + 1) \union {M}
        OBVIOUS
      <3> HIDE DEF M
      <3>6. \A x \in ToSet(g[m + 1]) : \A y \in ToSet(s[M]) : ~Twins(x, y)
        BY <3>2, <3>4
      <3>7. IsList(g[M]) /\ NoTwins(g[M])
        BY <3>2, <3>3, <3>6, ListBoth, NoTwinsBoth
      <3>8. ToSet(g[M]) = ToSet(g[m + 1]) \union ToSet(s[M])
        BY <3>2, <3>3, SetOfBoth
      <3>9. Good(M)
        BY <3>2, <3>5, <3>7, <3>8
      <3> QED
        BY <3>9 DEF M
    <2>4. Nat \subseteq T
      <3> HIDE DEF T
      <3> QED
        BY <2>2, <2>3, NatSets
    <2>5. Len(s) - 1 \in Nat /\ (Len(s) - 1) + 1 = Len(s) /\ Len(s) \in 1..Len(s)
      BY <1>1, <1>3
    <2>6. Good(Len(s))
      BY <2>4, <2>5
    <2> QED
      BY <2>1, <2>6
  <1> QED
    BY <1>2, <1>3

\* a loop over a list that adds one element, or none, for each of its elements
LEMMA OnlyEach ==
    ASSUME NEW s, IsList(s), NEW f, f = [n \in DOMAIN s |-> f[n]],
           \A n \in DOMAIN s : f[n] = << >> \/ \E x : f[n] = << x >>
    PROVE  /\ IsList(f) /\ \A n \in DOMAIN f : IsList(f[n]) /\ NoTwins(f[n])
           /\ IsList(FlattenSeq(f)) /\ ToSet(FlattenSeq(f)) = UNION {ToSet(f[n]) : n \in DOMAIN s}
  <1>1. IsList(f) /\ DOMAIN f = DOMAIN s
    BY ListEach
  <1>2. \A n \in DOMAIN f : IsList(f[n]) /\ NoTwins(f[n])
    BY <1>1, ListNone, ListOne, NoTwinsNone, NoTwinsOne
  <1> QED
    BY <1>1, <1>2, FlattenLemma

TheShaped == ShapedOf(Interfaces)
LEMMA ShapedLemma ==
    /\ IsList(TheShaped) /\ Len(TheShaped) \in Nat /\ DOMAIN TheShaped = 1..Len(TheShaped)
    /\ \A i : i \in ToSet(TheShaped) <=> i \in ToSet(Interfaces) /\ Shaped(i)
    /\ \A n \in DOMAIN TheShaped : TheShaped[n].handle = n + 1 /\ TheShaped[n] \in ToSet(TheShaped)
  <1> DEFINE parts == [n \in DOMAIN Interfaces |-> Only(Shaped(Interfaces[n]), << Interfaces[n] >>)]
  <1>1. TheShaped = FlattenSeq(parts)
    BY DEF TheShaped, ShapedOf
  <1>2. \A n \in DOMAIN Interfaces : ToSet(parts[n]) = IF Shaped(Interfaces[n]) THEN {Interfaces[n]} ELSE {}
    BY ListNone, ListOne DEF Only
  <1>3. \A n \in DOMAIN Interfaces : parts[n] = << >> \/ \E x : parts[n] = << x >>
    BY DEF Only
  <1>4. parts = [n \in DOMAIN Interfaces |-> parts[n]]
    OBVIOUS
  <1> HIDE DEF parts
  <1>5. IsList(TheShaped) /\ ToSet(TheShaped) = UNION {ToSet(parts[n]) : n \in DOMAIN Interfaces}
    BY <1>1, <1>3, <1>4, OnlyEach, ListsAssumption
  <1>6. \A i : i \in ToSet(TheShaped) <=> i \in ToSet(Interfaces) /\ Shaped(i)
    <2>1. ASSUME NEW i PROVE i \in ToSet(TheShaped) <=> \E n \in DOMAIN Interfaces : i \in ToSet(parts[n])
      BY <1>5
    <2>2. ASSUME NEW i PROVE i \in ToSet(Interfaces) <=> \E n \in DOMAIN Interfaces : i = Interfaces[n]
      BY DEF ToSet
    <2>3. ASSUME NEW i, NEW n \in DOMAIN Interfaces PROVE i \in ToSet(parts[n]) <=> i = Interfaces[n] /\ Shaped(i)
      BY <1>2
    <2> QED
      BY <2>1, <2>2, <2>3
  <1>7. \A n \in DOMAIN TheShaped : TheShaped[n].handle = n + 1 /\ TheShaped[n] \in ToSet(TheShaped)
    BY HandlesAssigned DEF TheShaped, ToSet
  <1> QED
    BY <1>5, <1>6, <1>7, ListFacts

\* what an interface has at its root: the class 1, and one for each other interface
HasRoots(s, i) ==
    /\ IsList(s) /\ NoTwins(s)
    /\ \A k \in ToSet(s) :
          /\ k.handle = i.handle /\ k.device = i.device /\ k.parent = 0
          /\ k.class = 1 \/ \E o \in ToSet(TheShaped) : k.class = o.handle
    /\ \E k \in ToSet(s) : k.class = 1
    /\ \A o \in ToSet(TheShaped) : o.handle # i.handle => \E k \in ToSet(s) : k.class = o.handle

LEMMA InterfaceRoots ==
    ASSUME NEW i \in ToSet(TheShaped) PROVE HasRoots(InterfaceClasses(Interfaces, i), i)
  <1> DEFINE class(n, rate) == [handle |-> i.handle, class |-> n, device |-> i.device,
                                parent |-> 0, rate |-> rate]
             other(o) == class(o.handle, Smaller(i.bwOut, o.bwIn))
             own == class(1, i.bwOut)
             parts == [n \in DOMAIN TheShaped |-> Only(TheShaped[n] # i, << other(TheShaped[n]) >>)]
             rest == FlattenSeq(parts)
             Of(k) == k.handle = i.handle /\ k.device = i.device /\ k.parent = 0
  <1>1. InterfaceClasses(Interfaces, i) = << own >> \o rest
    BY DEF InterfaceClasses, TheShaped
  <1>2. \A o : Of(other(o)) /\ other(o).class = o.handle
    OBVIOUS
  <1>3. Of(own) /\ own.class = 1
    OBVIOUS
  <1> HIDE DEF own, other
  <1>4. \A n \in DOMAIN TheShaped :
            ToSet(parts[n]) = IF TheShaped[n] # i THEN {other(TheShaped[n])} ELSE {}
    BY ListNone, ListOne DEF Only
  <1>5. \A n \in DOMAIN TheShaped : parts[n] = << >> \/ \E x : parts[n] = << x >>
    BY DEF Only
  <1>6. parts = [n \in DOMAIN TheShaped |-> parts[n]] /\ DOMAIN parts = DOMAIN TheShaped
    OBVIOUS
  <1> HIDE DEF parts
  <1>7. /\ IsList(parts) /\ \A n \in DOMAIN parts : IsList(parts[n]) /\ NoTwins(parts[n])
        /\ IsList(rest) /\ ToSet(rest) = UNION {ToSet(parts[n]) : n \in DOMAIN TheShaped}
    BY <1>5, <1>6, OnlyEach, ShapedLemma
  <1>8. ASSUME NEW n \in DOMAIN parts, NEW m \in DOMAIN parts, n # m,
               NEW x \in ToSet(parts[n]), NEW y \in ToSet(parts[m])
        PROVE  ~Twins(x, y)
    <2>1. x.class = TheShaped[n].handle /\ y.class = TheShaped[m].handle
      BY <1>2, <1>4, <1>6, <1>8
    <2>2. TheShaped[n].handle = n + 1 /\ TheShaped[m].handle = m + 1 /\ n \in Nat /\ m \in Nat
      BY <1>6, ShapedLemma
    <2> QED
      BY <1>8, <2>1, <2>2 DEF Twins
  <1>9. NoTwins(rest)
    BY <1>7, <1>8, NoTwinsFlatten
  <1>10. ASSUME NEW k \in ToSet(rest) PROVE \E o \in ToSet(TheShaped) : k = other(o)
    <2>1. PICK n \in DOMAIN TheShaped : k \in ToSet(parts[n])
      BY <1>7
    <2>2. k = other(TheShaped[n]) /\ TheShaped[n] \in ToSet(TheShaped)
      BY <1>4, <2>1, ShapedLemma
    <2> QED
      BY <2>2
  <1>11. \A o \in ToSet(TheShaped) : o # i => other(o) \in ToSet(rest)
    <2>1. ASSUME NEW o \in ToSet(TheShaped), o # i PROVE other(o) \in ToSet(rest)
      <3>1. PICK n \in DOMAIN TheShaped : o = TheShaped[n]
        BY DEF ToSet
      <3>2. other(o) \in ToSet(parts[n])
        BY <1>4, <2>1, <3>1
      <3> QED
        BY <1>7, <3>2
    <2> QED
      BY <2>1
  <1> HIDE DEF rest
  <1> DEFINE all == << own >> \o rest
  <1>12. ASSUME NEW x \in ToSet(<< own >>), NEW y \in ToSet(rest) PROVE ~Twins(x, y)
    <2>1. x = own
      BY ListOne
    <2>2. PICK n \in DOMAIN TheShaped : y.class = TheShaped[n].handle
      BY <1>2, <1>10 DEF ToSet
    <2>3. y.class = n + 1 /\ n \in Nat /\ n # 0
      BY <2>2, ShapedLemma
    <2> QED
      BY <1>3, <2>1, <2>3 DEF Twins
  <1>13. IsList(all) /\ NoTwins(all) /\ ToSet(all) = {own} \union ToSet(rest)
    BY <1>7, <1>9, <1>12, ListOne, ListBoth, SetOfBoth, NoTwinsOne, NoTwinsBoth
  <1> HIDE DEF all
  <1>14. \A k \in ToSet(all) : Of(k) /\ (k.class = 1 \/ \E o \in ToSet(TheShaped) : k.class = o.handle)
    BY <1>2, <1>3, <1>10, <1>13
  <1>15. \E k \in ToSet(all) : k.class = 1
    BY <1>3, <1>13
  <1>16. \A o \in ToSet(TheShaped) : o.handle # i.handle => \E k \in ToSet(all) : k.class = o.handle
    BY <1>2, <1>11, <1>13
  <1>17. HasRoots(all, i)
    BY <1>13, <1>14, <1>15, <1>16 DEF HasRoots
  <1> QED
    BY <1>1, <1>17 DEF all

Roots == SetupRoots(Interfaces)
LEMMA RootsLemma ==
    /\ IsList(Roots) /\ NoTwins(Roots)
    /\ \A k \in ToSet(Roots) : k.parent = 0 /\ k.class \in 1..(Len(TheShaped) + 1)
    /\ \A k : Rooted(k) => \E j \in ToSet(Roots) : Called(j, k.device, k.handle, k.parent)
  <1> DEFINE parts == [n \in DOMAIN TheShaped |-> InterfaceClasses(Interfaces, TheShaped[n])]
  <1>1. Roots = FlattenSeq(parts)
    BY DEF Roots, SetupRoots, TheShaped
  <1>2. IsList(parts) /\ DOMAIN parts = DOMAIN TheShaped
    <2>1. parts = [n \in DOMAIN TheShaped |-> parts[n]]
      OBVIOUS
    <2> HIDE DEF parts
    <2> QED
      BY <2>1, ListEach, ShapedLemma
  <1>3. \A n \in DOMAIN parts : HasRoots(parts[n], TheShaped[n])
    BY InterfaceRoots, ShapedLemma
  <1> HIDE DEF parts
  <1>4. IsList(Roots) /\ ToSet(Roots) = UNION {ToSet(parts[n]) : n \in DOMAIN parts}
    BY <1>1, <1>2, <1>3, FlattenLemma DEF HasRoots
  <1>5. NoTwins(Roots)
    <2>1. ASSUME NEW n \in DOMAIN parts, NEW m \in DOMAIN parts, n # m,
                 NEW x \in ToSet(parts[n]), NEW y \in ToSet(parts[m])
          PROVE  ~Twins(x, y)
      <3>1. x.handle = n + 1 /\ y.handle = m + 1 /\ n \in Nat /\ m \in Nat
        BY <1>2, <1>3, ShapedLemma DEF HasRoots
      <3> QED
        BY <2>1, <3>1 DEF Twins
    <2> QED
      BY <1>1, <1>2, <1>3, <2>1, NoTwinsFlatten DEF HasRoots
  <1>6. ASSUME NEW k \in ToSet(Roots) PROVE k.parent = 0 /\ k.class \in 1..(Len(TheShaped) + 1)
    <2>1. PICK n \in DOMAIN parts : k \in ToSet(parts[n])
      BY <1>4, <1>6
    <2>2. k.parent = 0 /\ (k.class = 1 \/ \E o \in ToSet(TheShaped) : k.class = o.handle)
      BY <1>3, <2>1 DEF HasRoots
    <2>3. ASSUME NEW o \in ToSet(TheShaped) PROVE o.handle \in 1..(Len(TheShaped) + 1)
      <3>1. PICK m \in DOMAIN TheShaped : o = TheShaped[m]
        BY DEF ToSet
      <3> QED
        BY <3>1, ShapedLemma
    <2>4. 1 \in 1..(Len(TheShaped) + 1)
      BY ShapedLemma
    <2> QED
      BY <2>2, <2>3, <2>4
  <1>7. ASSUME NEW k, Rooted(k) PROVE \E j \in ToSet(Roots) : Called(j, k.device, k.handle, k.parent)
    <2>1. PICK i \in ToSet(TheShaped) :
              /\ k.handle = i.handle /\ k.device = i.device
              /\ k.parent = 1 \/ \E o \in ToSet(TheShaped) : k.parent = o.handle /\ o.handle # i.handle
      BY <1>7, ShapedLemma DEF Rooted
    <2>2. PICK n \in DOMAIN TheShaped : i = TheShaped[n]
      BY DEF ToSet
    <2>3. HasRoots(parts[n], i)
      BY <1>2, <1>3, <2>2
    <2>4. PICK j \in ToSet(parts[n]) : j.class = k.parent
      BY <2>1, <2>3 DEF HasRoots
    <2>5. Called(j, k.device, k.handle, k.parent)
      BY <2>1, <2>3, <2>4 DEF HasRoots, Called
    <2>6. j \in ToSet(Roots)
      BY <1>2, <1>4
    <2> QED
      BY <2>5, <2>6
  <1> QED
    BY <1>4, <1>5, <1>6, <1>7

LEMMA DefaultsLemma ==
    ASSUME NEW demands
    PROVE  LET s == DefaultRules(Interfaces, demands)
           IN  /\ IsList(s) /\ NoTwins(s)
               /\ \A k \in ToSet(s) : Rooted(k) /\ k.class \in (Len(TheShaped) + 2)..(2 * Len(TheShaped) + 1)
  <1> DEFINE class(i) == [handle |-> i.handle, class |-> DefaultClass(Interfaces, i), device |-> i.device,
                          parent |-> 1, rate |-> DefaultRate(i, demands)]
             s == [n \in DOMAIN TheShaped |-> class(TheShaped[n])]
             L == Len(TheShaped)
  <1>1. DefaultRules(Interfaces, demands) = s
    BY DEF DefaultRules, TheShaped
  <1>2. \A i : /\ class(i).handle = i.handle /\ class(i).class = L + i.handle /\ class(i).device = i.device
               /\ class(i).parent = 1
               /\ {"handle", "class", "device", "parent", "rate"} \subseteq DOMAIN class(i)
    BY DEF DefaultClass, TheShaped
  <1>3. DOMAIN s = DOMAIN TheShaped /\ \A n \in DOMAIN s : s[n] = class(TheShaped[n])
    OBVIOUS
  <1>4. s = [n \in DOMAIN TheShaped |-> s[n]]
    OBVIOUS
  <1> HIDE DEF class, s
  <1>5. IsList(s)
    BY <1>4, ListEach, ShapedLemma
  <1>6. ASSUME NEW n \in DOMAIN s
        PROVE  s[n].handle = n + 1 /\ s[n].class \in (L + 2)..(2 * L + 1) /\ Rooted(s[n]) /\ n \in Nat
    <2> DEFINE i == TheShaped[n]
    <2>1. /\ i.handle = n + 1 /\ n \in 1..L /\ L \in Nat
          /\ i \in ToSet(Interfaces) /\ Shaped(i)
      BY <1>3, ShapedLemma
    <2>2. s[n] = class(i)
      BY <1>3
    <2> HIDE DEF i, L
    <2>3. s[n].class \in (L + 2)..(2 * L + 1)
      BY <1>2, <2>1, <2>2
    <2> QED
      BY <1>2, <2>1, <2>2, <2>3 DEF Rooted
  <1>7. NoTwins(s)
    <2>1. \A n, m \in DOMAIN s : s[n].handle = s[m].handle => m = n
      BY <1>6
    <2> QED
      BY <2>1 DEF NoTwins, Twins
  <1>8. \A k \in ToSet(s) : Rooted(k) /\ k.class \in (L + 2)..(2 * L + 1)
    BY <1>6 DEF ToSet
  <1> QED
    BY <1>1, <1>5, <1>7, <1>8

\* the rate that is filled in is no part of the name of a class
LEMMA RatedLemma ==
    ASSUME NEW s, NEW number, NEW demands, ClassInv(s, number)
    PROVE  LET t == Rated(s, demands, Interfaces)
           IN  /\ ClassInv(t, number)
               /\ \A k \in ToSet(s) : \E j \in ToSet(t) : <<j.handle, j.class>> = <<k.handle, k.class>>
  <1> DEFINE iface(k) == ShapedOf(Interfaces)[k.handle - 1]
             rate(k) == IF k.rate = 0 THEN DefaultRate(iface(k), demands) ELSE k.rate
             of(k) == [k EXCEPT !.rate = rate(k)]
             t == [n \in DOMAIN s |-> of(s[n])]
  <1>1. Rated(s, demands, Interfaces) = t
    BY DEF Rated
  <1>2. ASSUME NEW k, Rooted(k)
        PROVE  /\ of(k).handle = k.handle /\ of(k).class = k.class /\ of(k).device = k.device
               /\ of(k).parent = k.parent /\ DOMAIN of(k) = DOMAIN k
    BY <1>2 DEF Rooted
  <1>3. DOMAIN t = DOMAIN s /\ \A n \in DOMAIN t : t[n] = of(s[n])
    OBVIOUS
  <1>4. t = [n \in DOMAIN s |-> t[n]]
    OBVIOUS
  <1> HIDE DEF of, t
  <1>5. IsList(t)
    BY <1>4, ListEach DEF ClassInv
  <1>6. ASSUME NEW k, Rooted(k) PROVE Rooted(of(k))
    <2> DEFINE q == of(k)
    <2>1. q.handle = k.handle /\ q.device = k.device /\ q.parent = k.parent /\ DOMAIN q = DOMAIN k
      BY <1>2, <1>6
    <2> HIDE DEF q
    <2>2. Rooted(q)
      BY <1>6, <2>1 DEF Rooted
    <2> QED
      BY <2>2 DEF q
  <1>7. \A n \in DOMAIN s : s[n] \in ToSet(s) /\ Rooted(s[n]) /\ s[n].class \in {number, number + 1}
    BY DEF ClassInv, Numbered, ToSet
  <1>8. \A n \in DOMAIN t : /\ t[n].handle = s[n].handle /\ t[n].class = s[n].class /\ t[n].device = s[n].device
                            /\ Rooted(t[n]) /\ t[n].class \in {number, number + 1}
    BY <1>2, <1>3, <1>6, <1>7
  <1>9. NoTwins(t)
    BY <1>3, <1>8 DEF ClassInv, NoTwins, Twins
  <1>10. Numbered(t, number)
    BY <1>8 DEF Numbered, ToSet
  <1>11. \A k \in ToSet(s) : \E j \in ToSet(t) : <<j.handle, j.class>> = <<k.handle, k.class>>
    BY <1>3, <1>8 DEF ToSet
  <1> QED
    BY <1>1, <1>5, <1>9, <1>10, <1>11 DEF ClassInv

-----------------------------------------------------------------------------
(* The creation of a ruleset.                                              *)

\* a rule that the analysis accepts: its zones have lists, and so has its service
LEMMA AcceptedLemma ==
    ASSUME NEW queue, IsList(queue)
    PROVE  LET s == Accepted(queue)
           IN  /\ IsList(s) /\ ToSet(s) \subseteq ToSet(queue)
               /\ LogsFirst(queue) => LogsFirst(s)
  <1> DEFINE bad == {n \in DOMAIN queue: ~ProcessRule(ipv, queue[n])}
             m == CHOOSE n \in bad: \A k \in bad: n <= k
             s == SubSeq(queue, 1, m - 1)
  <1>1. Accepted(queue) = IF bad = {} THEN queue ELSE s
    BY DEF Accepted
  <1>2. DOMAIN queue = 1..Len(queue) /\ Len(queue) \in Nat
    BY ListFacts
  <1>3. ASSUME bad # {}
        PROVE  IsList(s) /\ ToSet(s) \subseteq ToSet(queue) /\ (LogsFirst(queue) => LogsFirst(s))
    <2>1. m \in bad
      <3>1. bad \subseteq Nat
        BY <1>2
      <3>2. PICK b \in bad : TRUE
        BY <1>3
      <3> HIDE DEF bad
      <3>3. \E n \in bad : \A k \in bad : n <= k
        BY <3>1, <3>2, Least
      <3> QED
        BY <3>3
    <2>2. m \in 1..Len(queue)
      BY <1>2, <2>1
    <2> HIDE DEF m
    <2> DEFINE N == m - 1
    <2>3. N \in Nat /\ N <= Len(queue)
      BY <1>2, <2>2
    <2> HIDE DEF N
    <2>4. s = [n \in 1..N |-> queue[n]]
      <3>1. s = [n \in 1..((m - 1) - 1 + 1) |-> queue[n + 1 - 1]]
        BY <1>2, <2>2
      <3>2. \A n \in 1..N : n + 1 - 1 = n
        BY <2>3
      <3>3. (m - 1) - 1 + 1 = N
        BY <2>2 DEF N
      <3> QED
        BY <3>1, <3>2, <3>3
    <2> HIDE DEF s
    <2>5. DOMAIN s = 1..N /\ \A n \in 1..N : s[n] = queue[n] /\ n \in DOMAIN queue
      BY <1>2, <2>3, <2>4
    <2>6. IsList(s)
      BY <2>3, <2>4, <2>5, ListMade
    <2>7. ToSet(s) \subseteq ToSet(queue)
      BY <2>5 DEF ToSet
    <2>8. ASSUME LogsFirst(queue), NEW k \in 1..N PROVE LogBefore(s, k)
      <3>1. LogBefore(queue, k) /\ s[k] = queue[k] /\ \A j \in 1..(k - 1) : s[j] = queue[j]
        BY <2>3, <2>5, <2>8 DEF LogsFirst
      <3> QED
        BY <3>1 DEF LogBefore
    <2> QED
      BY <2>5, <2>6, <2>7, <2>8 DEF LogsFirst
  <1> HIDE DEF bad, s
  <1> QED
    BY <1>1, <1>3

\* a rule of the lists that RuleListsAssumption is about
Usual(d) ==
    /\ ZoneLists(d.from) /\ ZoneLists(d.to)
    /\ d.service = None \/ IsList(d.service.ranges)
    /\ OptFine(d.opt)

\* The classes so far: in front those of the interfaces, behind them such as hang
\* on these; no two have one name, and the number handle is still free.
ClassesKept(s, next) ==
    /\ next \in Nat /\ IsList(s) /\ NoTwins(s)
    /\ \A k \in ToSet(s) : k.class \in Nat /\ k.class < next
    /\ Len(Roots) <= Len(s)
    /\ \A n \in DOMAIN Roots : s[n] = Roots[n]
    /\ \A n \in DOMAIN s : n > Len(Roots) => Rooted(s[n])

\* where the lines of a rule lead: to one of the classes s
Led(queue, c, s) ==
    ShapesBoth(c.opt) =>
        \A l \in ToSet(queue) : Sends(l, Enters(c)) => \E k \in ToSet(s) : <<k.handle, k.class>> = l.target.v

LEMMA ListTail ==
    ASSUME NEW s, NEW t, IsList(s), IsList(t), NEW n \in DOMAIN (s \o t), n > Len(s)
    PROVE  (s \o t)[n] \in ToSet(t)
  <1> DEFINE u == s \o t
  <1>1. /\ DOMAIN u = 1..(Len(s) + Len(t)) /\ Len(s) \in Nat /\ Len(t) \in Nat /\ DOMAIN t = 1..Len(t)
        /\ \A m \in 1..Len(t) : u[Len(s) + m] = t[m]
    BY ListBoth, ListFacts
  <1>2. n - Len(s) \in 1..Len(t) /\ Len(s) + (n - Len(s)) = n
    BY <1>1
  <1>3. u[Len(s) + (n - Len(s))] = t[n - Len(s)]
    BY <1>1, <1>2
  <1> QED
    BY <1>1, <1>2, <1>3 DEF ToSet

LEMMA ClassesMore ==
    ASSUME NEW s, NEW u, NEW number, NEW next, ClassesKept(s, number), ClassInv(u, number),
           next = number + 2 \/ (next = number /\ u = << >>)
    PROVE  ClassesKept(s \o u, next)
  <1> DEFINE t == s \o u
  <1>1. /\ IsList(s) /\ IsList(u) /\ IsList(t) /\ ToSet(t) = ToSet(s) \union ToSet(u)
        /\ Len(s) \in Nat /\ Len(u) \in Nat /\ Len(t) = Len(s) + Len(u)
        /\ DOMAIN s = 1..Len(s) /\ DOMAIN t = 1..Len(t) /\ (\A n \in 1..Len(s) : t[n] = s[n])
        /\ Len(Roots) \in Nat /\ DOMAIN Roots = 1..Len(Roots) /\ Len(Roots) <= Len(s)
    BY ListBoth, ListFacts, SetOfBoth, RootsLemma DEF ClassesKept, ClassInv
  <1>2. \A n \in DOMAIN t : n > Len(s) => t[n] \in ToSet(u)
    BY <1>1, ListTail
  <1> HIDE DEF t
  <1>3. number \in Nat /\ next \in Nat
    BY DEF ClassesKept
  <1>4. \A k \in ToSet(u) : Rooted(k) /\ k.class \in Nat /\ number <= k.class /\ k.class < next
    <2>1. \A k \in ToSet(u) : Rooted(k) /\ k.class \in {number, number + 1}
      BY DEF ClassInv, Numbered
    <2>2. u # << >> => next = number + 2
      OBVIOUS
    <2>3. u = << >> => ToSet(u) = {}
      BY ListNone
    <2> QED
      BY <1>3, <2>1, <2>2, <2>3
  <1>5. \A k \in ToSet(s) : k.class \in Nat /\ k.class < number /\ k.class < next
    BY <1>3 DEF ClassesKept
  <1>6. NoTwins(t)
    <2>1. \A x \in ToSet(s) : \A y \in ToSet(u) : ~Twins(x, y)
      BY <1>3, <1>4, <1>5 DEF Twins
    <2> QED
      BY <1>1, <2>1, NoTwinsBoth DEF t, ClassesKept, ClassInv
  <1>7. \A n \in DOMAIN t : n > Len(Roots) => Rooted(t[n])
    <2>1. \A n \in DOMAIN s : n > Len(Roots) => Rooted(s[n])
      BY DEF ClassesKept
    <2>2. ASSUME NEW n \in DOMAIN t, n > Len(Roots) PROVE Rooted(t[n])
      <3>1. CASE n <= Len(s)
        BY <1>1, <2>1, <2>2, <3>1
      <3>2. CASE n > Len(s)
        BY <1>2, <1>4, <3>2
      <3> QED
        BY <1>1, <3>1, <3>2
    <2> QED
      BY <2>2
  <1>8. (\A n \in DOMAIN Roots : t[n] = Roots[n]) /\ Len(Roots) <= Len(t)
    BY <1>1 DEF ClassesKept
  <1>9. ClassesKept(t, next)
    BY <1>1, <1>3, <1>4, <1>5, <1>6, <1>7, <1>8 DEF ClassesKept
  <1> QED
    BY <1>9 DEF t

LEMMA ClassesStart ==
    ASSUME NEW demands
    PROVE  ClassesKept(SetupRoots(Interfaces) \o DefaultRules(Interfaces, demands), FirstClass(Interfaces))
  <1> DEFINE u == DefaultRules(Interfaces, demands)
             t == Roots \o u
             L == Len(TheShaped)
             next == FirstClass(Interfaces)
  <1>1. /\ IsList(u) /\ NoTwins(u) /\ \A k \in ToSet(u) : Rooted(k) /\ k.class \in (L + 2)..(2 * L + 1)
        /\ L \in Nat /\ next = 2 * L + 2
    BY DefaultsLemma, ShapedLemma DEF FirstClass, TheShaped
  <1>2. IsList(Roots) /\ NoTwins(Roots) /\ \A k \in ToSet(Roots) : k.class \in 1..(L + 1)
    BY RootsLemma
  <1> HIDE DEF u, L, next
  <1>3. /\ IsList(t) /\ ToSet(t) = ToSet(Roots) \union ToSet(u) /\ Len(t) = Len(Roots) + Len(u)
        /\ Len(u) \in Nat /\ Len(Roots) \in Nat /\ DOMAIN Roots = 1..Len(Roots)
        /\ \A n \in 1..Len(Roots) : t[n] = Roots[n]
    BY <1>1, <1>2, ListBoth, ListFacts, SetOfBoth
  <1>4. \A n \in DOMAIN t : n > Len(Roots) => t[n] \in ToSet(u)
    BY <1>1, <1>2, ListTail
  <1>5. \A x \in ToSet(Roots) : \A y \in ToSet(u) : ~Twins(x, y)
    <2>1. \A n \in 1..(L + 1) : \A m \in (L + 2)..(2 * L + 1) : n # m
      BY <1>1
    <2> QED
      BY <1>1, <1>2, <2>1 DEF Twins
  <1>6. NoTwins(t)
    BY <1>1, <1>2, <1>5, NoTwinsBoth
  <1>7. \A k \in ToSet(t) : k.class \in Nat /\ k.class < next
    <2>1. (\A n \in 1..(L + 1) : n \in Nat /\ n < next) /\ \A m \in (L + 2)..(2 * L + 1) : m \in Nat /\ m < next
      BY <1>1
    <2> QED
      BY <1>1, <1>2, <1>3, <2>1
  <1>8. next \in Nat /\ Len(Roots) <= Len(t)
    BY <1>1, <1>3
  <1> HIDE DEF t
  <1>9. ClassesKept(t, next)
    BY <1>1, <1>3, <1>4, <1>6, <1>7, <1>8 DEF ClassesKept
  <1> QED
    BY <1>9 DEF t, u, next, Roots

\* The inductive invariant.  What the analysis finds stays as it is while rules
\* are made; the lines of a rule are behind those of the rules before it; what
\* prepare_ruleset() has put in front keeps the blocklist, and no later line can
\* undo that; the queue of every rule that is made has its lines in order; and
\* the classes hang together, those that lines of rules lead to among them.
Created ==
    /\ stage \in {"analyze", "prepare", "failed", "rules", "done"}
    /\ IsList(rules) /\ \A n \in DOMAIN rules : Usual(rules[n])
    /\ stage # "analyze" => caches = [n \in DOMAIN rules |-> Cache(rules[n])]
    /\ IsList(made) /\ pos = Len(made) + 1
    /\ stage \in {"analyze", "prepare", "failed"} => pos = 1
    /\ pos <= Len(rules) + 1
    /\ stage = "done" => pos > Len(rules)
    /\ stage \in {"rules", "done"} => Sealed(ipv, lines)
    /\ \A n \in DOMAIN made : Logging(Cache(rules[n])) => LogsFirst(made[n].lines)
    /\ stage \in {"rules", "done"} => ClassesKept(classes, handle)
    /\ \A n \in DOMAIN made : Led(made[n].lines, Cache(rules[n]), classes)

LEMMA CreatedInit == CreateInit => Created
  <1> SUFFICES ASSUME CreateInit PROVE Created
    OBVIOUS
  <1>1. stage = "analyze" /\ pos = 1 /\ made = << >> /\ rules \in RuleLists
    BY DEF CreateInit
  <1>2. IsList(rules) /\ \A n \in DOMAIN rules : Usual(rules[n])
    BY <1>1, RuleListsAssumption DEF Usual, OptFine, Ifaces
  <1>3. Len(rules) \in Nat
    BY <1>2, ListFacts
  <1>4. IsList(made) /\ Len(made) = 0 /\ DOMAIN made = {}
    BY <1>1, ListNone
  <1> QED
    BY <1>1, <1>2, <1>3, <1>4 DEF Created

LEMMA AnalyzeStep == Created /\ Analyze => Created'
  <1> SUFFICES ASSUME Created, Analyze PROVE Created'
    OBVIOUS
  <1> DEFINE one(n) == << rules[n] >>
             parts == [n \in DOMAIN rules |-> Only(Analyzes(rules[n]), one(n))]
  <1>1. rules' = FlattenSeq(parts)
    BY DEF Analyze
  <1>2. \A n : IsList(one(n)) /\ ToSet(one(n)) = {rules[n]}
    BY ListOne
  <1> HIDE DEF one
  <1>3. IsList(parts) /\ DOMAIN parts = DOMAIN rules
    BY ListEach DEF Created
  <1>4. \A n \in DOMAIN rules : IsList(parts[n]) /\ ToSet(parts[n]) \subseteq {rules[n]}
    BY <1>2, ListNone DEF Only
  <1> HIDE DEF parts
  <1>5. IsList(rules') /\ ToSet(rules') = UNION {ToSet(parts[n]) : n \in DOMAIN parts}
    BY <1>1, <1>3, <1>4, FlattenLemma
  <1>6. \A d \in ToSet(rules') : \E n \in DOMAIN rules : d = rules[n]
    BY <1>3, <1>4, <1>5
  <1>7. \A n \in DOMAIN rules' : Usual(rules'[n])
    BY <1>6 DEF Created, ToSet
  <1>8. Len(rules') \in Nat
    BY <1>5, ListFacts
  <1>9. stage' = "prepare" /\ pos' = pos /\ made' = made /\ pos = 1
    BY DEF Analyze, Created
  <1>10. caches' = [n \in DOMAIN rules' |-> Cache(rules'[n])]
    BY DEF Analyze
  <1>11. Len(made) \in Nat /\ DOMAIN made = 1..Len(made) /\ Len(made) + 1 = 1
    BY <1>9, ListFacts DEF Created
  <1>12. DOMAIN made' = {}
    BY <1>9, <1>11
  <1> QED
    BY <1>5, <1>7, <1>8, <1>9, <1>10, <1>12 DEF Created

LEMMA PrepareStep == Created /\ (Prepare \/ PrepareFails) => Created'
  <1>1. ASSUME Created, Prepare PROVE Created'
    <2>1. Sealed(ipv, lines')
      BY <1>1, PrepareSealed DEF Created, Prepare
    <2>2. /\ stage = "prepare" /\ stage' = "rules"
          /\ ipv' = ipv /\ rules' = rules /\ caches' = caches /\ pos' = pos /\ made' = made
      BY <1>1 DEF Prepare
    <2>3. ClassesKept(classes', handle')
      BY <1>1, ClassesStart DEF Prepare
    <2>4. DOMAIN made' = {}
      <3>1. Len(made) \in Nat /\ DOMAIN made = 1..Len(made) /\ Len(made) + 1 = 1
        BY <1>1, <2>2, ListFacts DEF Created
      <3> QED
        BY <2>2, <3>1
    <2> QED
      BY <1>1, <2>1, <2>2, <2>3, <2>4 DEF Created
  <1>2. ASSUME Created, PrepareFails PROVE Created'
    <2>1. /\ stage = "prepare" /\ stage' = "failed"
          /\ ipv' = ipv /\ rules' = rules /\ caches' = caches /\ pos' = pos /\ made' = made
          /\ classes' = classes
      BY <1>2 DEF PrepareFails
    <2> QED
      BY <1>2, <2>1 DEF Created
  <1> QED
    BY <1>1, <1>2

(* A rule that is made, or not: its lines are the last of made.            *)
LEMMA MadeMore ==
    ASSUME Created, NEW x, stage = "rules", stage' = stage, pos <= Len(rules), pos' = pos + 1,
           rules' = rules, caches' = caches, made' = Append(made, x), Sealed(ipv', lines'),
           Logging(Cache(rules[pos])) => LogsFirst(x.lines),
           ClassesKept(classes', handle'), ToSet(classes) \subseteq ToSet(classes'),
           Led(x.lines, Cache(rules[pos]), classes')
    PROVE  Created'
  <1>1. /\ IsList(made') /\ Len(made') = Len(made) + 1 /\ made'[Len(made) + 1] = x
        /\ \A n \in 1..Len(made) : made'[n] = made[n]
    BY ListMore DEF Created
  <1>2. Len(made) \in Nat /\ DOMAIN made = 1..Len(made) /\ DOMAIN made' = 1..(Len(made) + 1) /\ Len(rules) \in Nat
    BY <1>1, ListFacts DEF Created
  <1>3. pos = Len(made) + 1 /\ pos' = Len(made') + 1 /\ pos' <= Len(rules') + 1
    BY <1>1, <1>2 DEF Created
  <1>4. ASSUME NEW n \in DOMAIN made', Logging(Cache(rules[n])) PROVE LogsFirst(made'[n].lines)
    <2>1. CASE n = pos
      BY <1>1, <1>3, <1>4, <2>1
    <2>2. CASE n # pos
      <3>1. n \in DOMAIN made /\ made'[n] = made[n]
        BY <1>1, <1>2, <1>3, <2>2
      <3> QED
        BY <1>4, <3>1 DEF Created
    <2> QED
      BY <2>1, <2>2
  <1>5. ASSUME NEW n \in DOMAIN made' PROVE Led(made'[n].lines, Cache(rules[n]), classes')
    <2>1. CASE n = pos
      BY <1>1, <1>3, <2>1
    <2>2. CASE n # pos
      <3>1. n \in DOMAIN made /\ made'[n] = made[n]
        BY <1>1, <1>2, <1>3, <2>2
      <3>2. Led(made[n].lines, Cache(rules[n]), classes)
        BY <3>1 DEF Created
      <3> QED
        BY <3>1, <3>2 DEF Led
    <2> QED
      BY <2>1, <2>2
  <1> QED
    BY <1>1, <1>3, <1>4, <1>5 DEF Created

LEMMA RuleStep == Created /\ (NewRule \/ NotCreated) => Created'
  <1>0. ASSUME Created, stage = "rules", pos <= Len(rules) PROVE pos \in DOMAIN rules
    <2>1. Len(made) \in Nat /\ Len(rules) \in Nat /\ DOMAIN rules = 1..Len(rules)
      BY <1>0, ListFacts DEF Created
    <2> QED
      BY <1>0, <2>1 DEF Created
  <1>1. ASSUME Created, NewRule PROVE Created'
    <2> DEFINE c == caches[pos]
               r == CreateRule({ipv}, c, handle)
               queue == Accepted(r.queue)
               rated == Rated(r.classes, RateDemands, Interfaces)
               x == [lines |-> queue, classes |-> rated]
    <2>1. /\ stage = "rules" /\ stage' = stage /\ pos <= Len(rules) /\ pos' = pos + 1 /\ ipv' = ipv
          /\ rules' = rules /\ caches' = caches /\ lines' = lines \o queue /\ made' = Append(made, x)
          /\ classes' = classes \o rated /\ handle' = IF Shapes(c.opt) THEN handle + 2 ELSE handle
      BY <1>1 DEF NewRule
    <2>2. pos \in DOMAIN rules /\ c = Cache(rules[pos]) /\ Usual(rules[pos])
      <3>1. pos \in DOMAIN rules
        BY <1>0, <1>1, <2>1
      <3> QED
        BY <1>1, <2>1, <3>1 DEF Created
    <2>3. CacheInv(c)
      BY <2>2, CacheLemma DEF Usual
    <2> HIDE DEF c
    <2>4. RuleInv(r, c, handle) /\ Names(r, c, Made(r))
      BY <2>3, CreateRuleInv DEF OuterInv
    <2> HIDE DEF r
    <2>5. /\ IsList(queue) /\ ToSet(queue) \subseteq ToSet(r.queue)
          /\ LogsFirst(r.queue) => LogsFirst(queue)
      BY <2>4, AcceptedLemma DEF RuleInv
    <2>6. SoundList(queue)
      BY <2>4, <2>5 DEF SoundList, RuleInv, InBase, Sound, Bases
    <2>7. Logging(c) => LogsFirst(queue)
      BY <2>4, <2>5 DEF RuleInv
    <2> HIDE DEF queue
    <2>10. /\ ClassInv(rated, handle)
           /\ \A k \in ToSet(r.classes) : \E j \in ToSet(rated) : <<j.handle, j.class>> = <<k.handle, k.class>>
      BY <2>4, RatedLemma DEF RuleInv
    <2>11. r.classes = << >> => rated = << >>
      BY DEF Rated
    <2> HIDE DEF rated
    <2>12. ClassesKept(classes', handle') /\ ToSet(classes') = ToSet(classes) \union ToSet(rated)
      <3>1. ClassesKept(classes, handle) /\ IsList(classes) /\ IsList(rated)
        BY <1>1, <2>1, <2>10 DEF Created, ClassesKept, ClassInv
      <3>2. handle' = handle + 2 \/ (handle' = handle /\ rated = << >>)
        BY <2>1, <2>4, <2>11 DEF RuleInv
      <3> QED
        BY <2>1, <2>10, <3>1, <3>2, ClassesMore, SetOfBoth
    <2>13. Led(queue, c, classes')
      <3>1. ASSUME ShapesBoth(c.opt), NEW l \in ToSet(queue), Sends(l, Enters(c))
            PROVE  \E k \in ToSet(classes') : <<k.handle, k.class>> = l.target.v
        <4>1. l.target.v \in Made(r)
          BY <2>4, <2>5, <3>1 DEF Names
        <4>2. PICK k \in ToSet(r.classes) : l.target.v = <<k.handle, k.class>>
          BY <4>1 DEF Made
        <4>3. PICK j \in ToSet(rated) : <<j.handle, j.class>> = <<k.handle, k.class>>
          BY <2>10, <4>2
        <4> QED
          BY <2>12, <4>2, <4>3
      <3> QED
        BY <3>1 DEF Led
    <2>8. Sealed(ipv', lines')
      <3>1. Sealed(ipv, lines)
        BY <1>1, <2>1 DEF Created
      <3> QED
        BY <2>1, <2>6, <3>1, SealedMore
    <2>9. x.lines = queue
      OBVIOUS
    <2> HIDE DEF x
    <2> QED
      BY <1>1, <2>1, <2>2, <2>7, <2>8, <2>9, <2>12, <2>13, MadeMore
  <1>2. ASSUME Created, NotCreated PROVE Created'
    <2> DEFINE x == [lines |-> << >>, classes |-> << >>]
    <2>1. /\ stage = "rules" /\ stage' = stage /\ pos <= Len(rules) /\ pos' = pos + 1 /\ ipv' = ipv
          /\ rules' = rules /\ caches' = caches /\ lines' = lines /\ made' = Append(made, x)
          /\ classes' = classes /\ handle' = handle
      BY <1>2 DEF NotCreated
    <2>2. LogsFirst(x.lines) /\ \A c, s : Led(x.lines, c, s)
      BY ListNone DEF LogsFirst, Led
    <2> HIDE DEF x
    <2>3. Sealed(ipv', lines') /\ ClassesKept(classes', handle')
      BY <1>2, <2>1 DEF Created
    <2> QED
      BY <1>2, <2>1, <2>2, <2>3, MadeMore
  <1> QED
    BY <1>1, <1>2

LEMMA PostStep == Created /\ Post => Created'
  <1> SUFFICES ASSUME Created, Post PROVE Created'
    OBVIOUS
  <1>1. /\ stage = "rules" /\ stage' = "done" /\ pos > Len(rules) /\ ipv' = ipv /\ rules' = rules
        /\ caches' = caches /\ pos' = pos /\ made' = made /\ lines' = lines \o PostRules(ipv)
        /\ classes' = classes /\ handle' = handle
    BY DEF Post
  <1>2. Sealed(ipv, lines')
    BY <1>1, PostSound, SealedMore DEF Created
  <1> QED
    BY <1>1, <1>2 DEF Created

LEMMA CreatedTheorem == CreateSpec => []Created
  <1>1. Created /\ [Step]_createVars => Created'
    <2>1. Created /\ UNCHANGED createVars => Created'
      BY DEF Created, createVars, Sealed, Guarded, Barred
    <2> QED
      BY <2>1, AnalyzeStep, PrepareStep, RuleStep, PostStep DEF Step
  <1> QED
    BY <1>1, CreatedInit, PTL DEF CreateSpec

\* No packet from or to an address of the blocklist opens a connection: the
\* jump to BLOCKLIST is in every hook before all lines of rules, what is before
\* it lets no new connection through, and BLOCKLIST and BLOCK do nothing else.
THEOREM BlockedTheorem == CreateSpec => []BlockedOut
  <1>1. Created => BlockedOut
    <2> SUFFICES ASSUME Created, stage = "done", NEW p \in Packets, p.ipv = ipv, ipv = 4,
                        NEW n \in DOMAIN Blocked, Blocked[n] \in {p.src, p.dst}
                 PROVE  Verdict(lines, p) = {Jump("DROP")}
      BY DEF BlockedOut, Done, Here, Blocks
    <2>1. Sealed(4, lines)
      BY DEF Created
    <2> QED
      BY <2>1, BlockedLemma
  <1> QED
    BY <1>1, CreatedTheorem, PTL

\* Of a rule that logs, each line that decides about a packet comes after one
\* that logs the same packet, for all rules, zones and interfaces.
THEOREM LogsTheorem == CreateSpec => []LogsWhatItDecides
  <1>1. Created => LogsWhatItDecides
    <2> SUFFICES ASSUME Created, stage = "done", NEW n \in DOMAIN rules, rules[n].opt.log, Can("log"),
                        Decides(rules[n]), NEW p \in Here, NEW k \in DOMAIN made[n].lines,
                        DecidesAt(made[n].lines[k], p)
                 PROVE  \E j \in 1..(k - 1) : LogsAt(made[n].lines[j], p)
      BY DEF LogsWhatItDecides, Done
    <2> DEFINE s == made[n].lines
    <2>1. n \in DOMAIN made
      <3>1. /\ Len(made) \in Nat /\ DOMAIN made = 1..Len(made)
            /\ Len(rules) \in Nat /\ DOMAIN rules = 1..Len(rules)
        BY ListFacts DEF Created
      <3>2. pos = Len(made) + 1 /\ pos > Len(rules)
        BY DEF Created
      <3> QED
        BY <3>1, <3>2
    <2>2. Logging(Cache(rules[n]))
      <3> DEFINE d == rules[n]
      <3>1. d.action # "log" /\ DetermineRuletype(d) \in {"INPUT", "OUTPUT", "FORWARD"}
        BY DEF Decides, DetermineRuletype
      <3>2. "log" \in DOMAIN d.opt
        BY DEF Created, Usual, OptFine
      <3>3. Cache(d).opt = [d.opt EXCEPT !.log = @ /\ d.action # "log"] /\ Cache(d).ruletype = DetermineRuletype(d)
        BY DEF Cache
      <3>4. Cache(d).opt.log
        BY <3>1, <3>2, <3>3
      <3> QED
        BY <3>1, <3>3, <3>4 DEF Logging, Bases
    <2>3. LogBefore(s, k)
      BY <2>1, <2>2 DEF Created, LogsFirst
    <2> HIDE DEF s
    <2>4. Settles(s[k]) /\ Hits(s[k], p.hook, p)
      BY DEF DecidesAt, Settles, IsLog, Hits, s
    <2>5. PICK j \in 1..(k - 1) : IsLog(s[j]) /\ SameMatch(s[j], s[k])
      BY <2>3, <2>4 DEF LogBefore
    <2>6. LogsAt(s[j], p)
      BY <2>4, <2>5 DEF LogsAt, IsLog, SameMatch, Hits, Matches
    <2> QED
      BY <2>6 DEF s
  <1> QED
    BY <1>1, CreatedTheorem, PTL

\* What tc is told and what iptables is told fit together: no class is made
\* twice, each has its parent before it, and the lines of a rule that is shaped
\* in both directions name classes that exist, for all rules and interfaces.
THEOREM ClassesTheorem == CreateSpec => []ClassesSound
  <1>1. Created => ClassesSound
    <2> SUFFICES ASSUME Created, stage = "done" PROVE ClassesMade /\ ClassesUsed
      BY DEF ClassesSound, Done
    <2>1. ClassesMade
      <3>1. /\ ClassesKept(classes, handle)
            /\ Len(classes) \in Nat /\ DOMAIN classes = 1..Len(classes)
            /\ Len(Roots) \in Nat /\ DOMAIN Roots = 1..Len(Roots) /\ Len(Roots) <= Len(classes)
        BY ListFacts, RootsLemma DEF Created, ClassesKept
      <3>2. ASSUME NEW n \in DOMAIN classes, NEW j \in DOMAIN classes,
                   Called(classes[j], classes[n].device, classes[n].handle, classes[n].class)
            PROVE  j = n
        BY <3>1, <3>2 DEF ClassesKept, NoTwins, Twins, Called
      <3>3. ASSUME NEW n \in DOMAIN classes
            PROVE  \/ classes[n].parent = 0
                   \/ \E j \in 1..(n - 1) : Called(classes[j], classes[n].device, classes[n].handle, classes[n].parent)
        <4>1. CASE n <= Len(Roots)
          <5>1. n \in DOMAIN Roots /\ classes[n] = Roots[n]
            BY <3>1, <4>1 DEF ClassesKept
          <5> QED
            BY <5>1, RootsLemma DEF ToSet
        <4>2. CASE n > Len(Roots)
          <5>1. Rooted(classes[n])
            BY <3>1, <4>2 DEF ClassesKept
          <5>2. PICK j \in DOMAIN Roots : Called(Roots[j], classes[n].device, classes[n].handle, classes[n].parent)
            BY <5>1, RootsLemma DEF ToSet
          <5>3. j \in 1..(n - 1) /\ classes[j] = Roots[j]
            BY <3>1, <4>2, <5>2 DEF ClassesKept
          <5> QED
            BY <5>2, <5>3
        <4> QED
          BY <3>1, <4>1, <4>2
      <3> QED
        BY <3>2, <3>3 DEF ClassesMade
    <2>2. ClassesUsed
      <3> SUFFICES ASSUME NEW n \in DOMAIN rules, ShapesBoth(rules[n].opt), NEW j \in DOMAIN made[n].lines,
                          Sends(made[n].lines[j], Enters(caches[n]))
                   PROVE  SentToAClass(made[n].lines[j])
        BY DEF ClassesUsed, Sends
      <3> DEFINE l == made[n].lines[j]
      <3>1. n \in DOMAIN made
        <4>1. /\ Len(made) \in Nat /\ DOMAIN made = 1..Len(made)
              /\ Len(rules) \in Nat /\ DOMAIN rules = 1..Len(rules)
          BY ListFacts DEF Created
        <4>2. pos = Len(made) + 1 /\ pos > Len(rules)
          BY DEF Created
        <4> QED
          BY <4>1, <4>2
      <3>2. caches[n] = Cache(rules[n]) /\ Usual(rules[n])
        BY DEF Created
      <3>3. ShapesBoth(Cache(rules[n]).opt)
        BY <3>2, OptLemma DEF Usual
      <3>4. l \in ToSet(made[n].lines)
        BY DEF ToSet
      <3>5. Led(made[n].lines, Cache(rules[n]), classes)
        BY <3>1 DEF Created
      <3> HIDE DEF l
      <3>6. \E k \in ToSet(classes) : <<k.handle, k.class>> = l.target.v
        BY <3>2, <3>3, <3>4, <3>5 DEF Led, l
      <3>7. SentToAClass(l)
        BY <3>6 DEF SentToAClass, ToSet
      <3> QED
        BY <3>7 DEF l
    <2> QED
      BY <2>1, <2>2
  <1> QED
    BY <1>1, CreatedTheorem, PTL
=============================================================================

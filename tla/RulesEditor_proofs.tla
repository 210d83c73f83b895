-------------------------- MODULE RulesEditor_proofs --------------------------
(***************************************************************************)
(* Proofs about RulesEditor: a key works on the rule under the cursor, what *)
(* is saved is read back, and the daemon sees every change.                *)
(***************************************************************************)
EXTENDS RulesEditor, FiniteSetTheorems, TLAPS

-----------------------------------------------------------------------------
(* Induction over the natural numbers, said of sets: a set of numbers that *)
(* has 0 and, with every number, the next one, has them all.               *)

(* A smallest number outside of S would be the top of a smallest interval. *)
LEMMA NatSets ==
    ASSUME NEW S, 0 \in S, \A n \in Nat : n \in S => n + 1 \in S
    PROVE  Nat \subseteq S
  <1> DEFINE T == {A \in FiniteSubsetsOf(Nat) : \E n \in Nat \ S : A = 0..n}
  <1> SUFFICES ASSUME NEW m \in Nat \ S PROVE FALSE
    OBVIOUS
  <1>1. \A n \in Nat : 0..n \in FiniteSubsetsOf(Nat)
    BY FS_Interval DEF FiniteSubsetsOf
  <1>2. 0..m \in T
    BY <1>1
  <1>3. PICK A \in T : \A B \in T : ~ (<<B, A>> \in StrictSubsetOrdering(Nat))
    <2> HIDE DEF T
    <2>1. IsWellFoundedOn(StrictSubsetOrdering(Nat), FiniteSubsetsOf(Nat))
      BY FS_StrictSubsetOrderingWellFounded
    <2>2. T \subseteq FiniteSubsetsOf(Nat)
      BY DEF T
    <2>3. QED
      BY <1>2, <2>1, <2>2, WFMin
  <1>4. PICK x \in Nat \ S : A = 0..x
    BY <1>3
  <1>5. x # 0 /\ x - 1 \in Nat
    BY <1>4
  <1>6. 0..(x - 1) \in SUBSET Nat /\ A \in SUBSET Nat /\ 0..(x - 1) \subseteq A /\ 0..(x - 1) # A
    <2>1. x \in A /\ x \notin 0..(x - 1)
      BY <1>4, <1>5
    <2>2. QED
      BY <1>4, <1>5, <2>1
  <1>7. <<0..(x - 1), A>> \in StrictSubsetOrdering(Nat)
    BY <1>6 DEF StrictSubsetOrdering
  <1>8. x - 1 \in S
    BY <1>1, <1>3, <1>5, <1>7
  <1>9. QED
    BY <1>4, <1>5, <1>8

(* The runs of N steps from base: step says what comes of what there was. *)
RunsOf(V, N, base, step) ==
    {f \in [0..N -> V] : f[0] = base /\ \A i \in 1..N : f[i] = step[<<i, f[i - 1]>>]}

(* There is one. *)
LEMMA Recursion ==
    ASSUME NEW V, NEW N \in Nat, NEW base \in V, NEW step \in [(1..N) \X V -> V]
    PROVE  RunsOf(V, N, base, step) # {}
  <1> DEFINE Runs(n) == {f \in [0..n -> V] :
                           f[0] = base /\ \A i \in 1..n : f[i] = step[<<i, f[i - 1]>>]}
             S == {n \in Nat : n <= N => Runs(n) # {}}
  <1>1. 0 \in S
    <2>1. [i \in 0..0 |-> base] \in Runs(0)
      OBVIOUS
    <2>2. QED
      BY <2>1
  <1>2. ASSUME NEW n \in Nat, n \in S PROVE n + 1 \in S
    <2>1. SUFFICES ASSUME n + 1 <= N PROVE Runs(n + 1) # {}
      OBVIOUS
    <2>2. PICK f \in Runs(n) : TRUE
      BY <1>2, <2>1
    <2>3. n \in 0..n /\ n + 1 \in 1..N /\ f[n] \in V /\ <<n + 1, f[n]>> \in (1..N) \X V
      BY <2>1, <2>2
    <2> DEFINE g == [i \in 0..(n + 1) |-> IF i = n + 1 THEN step[<<n + 1, f[n]>>] ELSE f[i]]
    <2>4. g \in [0..(n + 1) -> V]
      BY <2>2, <2>3
    <2>5. ASSUME NEW i \in 1..(n + 1) PROVE g[i] = step[<<i, g[i - 1]>>]
      <3>1. i \in 0..(n + 1) /\ i - 1 \in 0..(n + 1) /\ i - 1 # n + 1
        BY <2>5
      <3>2. g[i - 1] = f[i - 1]
        BY <3>1
      <3>3. CASE i = n + 1
        BY <3>1, <3>2, <3>3
      <3>4. CASE i # n + 1
        <4>1. g[i] = f[i] /\ i \in 1..n
          BY <3>1, <3>4
        <4>2. QED
          BY <2>2, <3>2, <4>1
      <3>5. QED
        BY <3>3, <3>4
    <2>6. g[0] = base
      BY <2>2
    <2>7. g \in Runs(n + 1)
      BY <2>4, <2>5, <2>6
    <2>8. QED
      BY <2>7
  <1>3. N \in S
    <2> HIDE DEF S
    <2>1. QED
      BY <1>1, <1>2, NatSets
  <1>4. QED
    BY <1>3 DEF RunsOf

-----------------------------------------------------------------------------
(* Going through a list. *)

(* The lists of what was kept so far, one for every length of a beginning. *)
KeptSoFar(s, places, A) ==
    {f \in [0 .. Len(s) -> Seq(A)] :
        /\ f[0] = << >>
        /\ \A i \in 1 .. Len(s) :
              f[i] = IF i \in places THEN Append(f[i - 1], s[i]) ELSE f[i - 1]}

(* There is such a function, and its last list is what is kept. *)
LEMMA KeptRuns ==
    ASSUME NEW A, NEW s \in Seq(A), NEW places
    PROVE  \E f \in KeptSoFar(s, places, A) : Kept(s, places) = f[Len(s)]
  <1> DEFINE kept[i \in 0 .. Len(s)] ==
               IF i = 0 THEN << >>
               ELSE IF i \in places THEN Append(kept[i - 1], s[i]) ELSE kept[i - 1]
             V == Seq(A)
             step == [p \in (1..Len(s)) \X V |->
                        IF p[1] \in places THEN Append(p[2], s[p[1]]) ELSE p[2]]
  <1>1. Len(s) \in Nat /\ \A i \in 1..Len(s) : s[i] \in A /\ i \in 0..Len(s) /\ i - 1 \in 0..Len(s)
    OBVIOUS
  <1>2. step \in [(1..Len(s)) \X V -> V] /\ <<>> \in V
    BY <1>1
  <1>3. \E f \in [0..Len(s) -> V] :
          f[0] = <<>> /\ \A i \in 1..Len(s) : f[i] = step[<<i, f[i - 1]>>]
    <2> DEFINE N == Len(s)
               empty == <<>>
    <2>1. N \in Nat /\ empty \in V /\ step \in [(1..N) \X V -> V]
      BY <1>1, <1>2
    <2> HIDE DEF V, step, N, empty
    <2>2. RunsOf(V, N, empty, step) # {}
      BY <2>1, Recursion
    <2>3. QED
      BY <2>2 DEF RunsOf, N, empty
  <1>4. PICK f \in [0..Len(s) -> V] :
          f[0] = <<>> /\ \A i \in 1..Len(s) : f[i] = step[<<i, f[i - 1]>>]
    BY <1>3
  <1>5. ASSUME NEW i \in 1..Len(s)
        PROVE  f[i] = IF i \in places THEN Append(f[i - 1], s[i]) ELSE f[i - 1]
    <2>1. f[i - 1] \in V
      <3> HIDE DEF V
      <3>1. QED
        BY <1>1, <1>4
    <2>2. <<i, f[i - 1]>> \in (1..Len(s)) \X V
      BY <2>1
    <2>3. f[i] = step[<<i, f[i - 1]>>]
      BY <1>4
    <2>4. QED
      BY <2>2, <2>3
  <1>6. f = [i \in 0..Len(s) |->
               IF i = 0 THEN <<>>
               ELSE IF i \in places THEN Append(f[i - 1], s[i]) ELSE f[i - 1]]
    <2> HIDE DEF V, step
    <2>1. ASSUME NEW i \in 0..Len(s)
          PROVE  f[i] = IF i = 0 THEN <<>>
                        ELSE IF i \in places THEN Append(f[i - 1], s[i]) ELSE f[i - 1]
      <3>1. i = 0 \/ i \in 1..Len(s)
        BY <1>1
      <3>2. QED
        BY <1>4, <1>5, <3>1
    <2>2. QED
      BY <1>4, <2>1
  <1>7. kept = [i \in 0..Len(s) |->
                  IF i = 0 THEN <<>>
                  ELSE IF i \in places THEN Append(kept[i - 1], s[i]) ELSE kept[i - 1]]
    BY <1>6
  <1>8. kept \in KeptSoFar(s, places, A)
    <2> HIDE DEF kept, step
    <2>1. kept[0] = <<>>
      BY <1>1, <1>7
    <2>2. ASSUME NEW i \in 1..Len(s)
          PROVE  kept[i] = IF i \in places THEN Append(kept[i - 1], s[i]) ELSE kept[i - 1]
      <3>1. i \in 0..Len(s) /\ i # 0
        BY <1>1
      <3>2. QED
        BY <1>7, <3>1
    <2> DEFINE T == {n \in Nat : n <= Len(s) => kept[n] \in V}
    <2>3. 0 \in T
      BY <1>2, <2>1
    <2>4. ASSUME NEW n \in Nat, n \in T PROVE n + 1 \in T
      <3>1. SUFFICES ASSUME n + 1 <= Len(s) PROVE kept[n + 1] \in V
        OBVIOUS
      <3>2. n + 1 \in 1..Len(s) /\ n + 1 - 1 = n /\ kept[n] \in V /\ s[n + 1] \in A
        BY <1>1, <2>4, <3>1
      <3>3. kept[n + 1] = IF n + 1 \in places THEN Append(kept[n], s[n + 1]) ELSE kept[n]
        BY <2>2, <3>2
      <3>4. QED
        BY <3>2, <3>3
    <2>5. Nat \subseteq T
      <3> HIDE DEF T
      <3>1. QED
        BY <2>3, <2>4, NatSets
    <2>6. ASSUME NEW n \in 0..Len(s) PROVE kept[n] \in V
      BY <1>1, <2>5
    <2>7. kept \in [0..Len(s) -> V]
      <3> HIDE DEF V
      <3>1. QED
        BY <1>7, <2>6
    <2>8. QED
      BY <2>1, <2>2, <2>7 DEF KeptSoFar
  <1>9. Kept(s, places) = kept[Len(s)]
    BY DEF Kept, kept
  <1>10. QED
    BY <1>8, <1>9

(* What is kept is a list of what was there. *)
LEMMA KeptType ==
    ASSUME NEW A, NEW s \in Seq(A), NEW places
    PROVE  Kept(s, places) \in Seq(A)
  <1>1. PICK f \in KeptSoFar(s, places, A) : Kept(s, places) = f[Len(s)]
    BY KeptRuns
  <1>2. Len(s) \in 0 .. Len(s)
    OBVIOUS
  <1>3. QED
    BY <1>1, <1>2 DEF KeptSoFar

(* What is kept, is. *)
LEMMA KeptOnly ==
    ASSUME NEW A, NEW s \in Seq(A), NEW places, NEW B,
           \A i \in 1 .. Len(s) : i \in places => s[i] \in B
    PROVE  Kept(s, places) \in Seq(A \cap B)
  <1>1. PICK f \in KeptSoFar(s, places, A) : Kept(s, places) = f[Len(s)]
    BY KeptRuns
  <1> DEFINE T == {n \in Nat : n <= Len(s) => f[n] \in Seq(A \cap B)}
  <1>2. 0 \in T
    BY <1>1 DEF KeptSoFar
  <1>3. ASSUME NEW n \in Nat, n \in T PROVE n + 1 \in T
    <2>1. SUFFICES ASSUME n + 1 <= Len(s) PROVE f[n + 1] \in Seq(A \cap B)
      OBVIOUS
    <2>2. n + 1 \in 1..Len(s) /\ n + 1 - 1 = n /\ f[n] \in Seq(A \cap B) /\ s[n + 1] \in A
      BY <1>3, <2>1
    <2>3. f[n + 1] = IF n + 1 \in places THEN Append(f[n], s[n + 1]) ELSE f[n]
      BY <1>1, <2>2 DEF KeptSoFar
    <2>4. n + 1 \in places => s[n + 1] \in A \cap B
      BY <2>2
    <2>5. QED
      BY <2>2, <2>3, <2>4
  <1>4. Nat \subseteq T
    <2> HIDE DEF T
    <2>1. QED
      BY <1>2, <1>3, NatSets
  <1>5. QED
    BY <1>1, <1>4

(* Where a list is the other one without its element at k. *)
IsWithout(t, s, k) ==
    /\ Len(t) + 1 = Len(s)
    /\ \A i \in 1 .. Len(t) : t[i] = s[IF i < k THEN i ELSE i + 1]

(* An element that is not kept does not matter. *)
LEMMA KeptWithout ==
    ASSUME NEW A, NEW s \in Seq(A), NEW t \in Seq(A), NEW k \in 1 .. Len(s),
           IsWithout(t, s, k), NEW P, NEW Q, k \notin P,
           \A i \in 1 .. Len(t) : i \in Q <=> (IF i < k THEN i ELSE i + 1) \in P
    PROVE  Kept(t, Q) = Kept(s, P)
  <1>1. PICK f \in KeptSoFar(s, P, A) : Kept(s, P) = f[Len(s)]
    BY KeptRuns
  <1>2. PICK g \in KeptSoFar(t, Q, A) : Kept(t, Q) = g[Len(t)]
    BY KeptRuns
  <1>3. Len(s) \in Nat /\ Len(t) \in Nat /\ k \in Nat /\ k >= 1 /\ k <= Len(s) /\ Len(s) = Len(t) + 1
    BY DEF IsWithout
  <1>4. f[0] = << >> /\ g[0] = << >>
    BY <1>1, <1>2 DEF KeptSoFar
  <1>5. \A i \in 1 .. Len(s) : f[i] = IF i \in P THEN Append(f[i - 1], s[i]) ELSE f[i - 1]
    BY <1>1 DEF KeptSoFar
  <1>6. \A i \in 1 .. Len(t) : g[i] = IF i \in Q THEN Append(g[i - 1], t[i]) ELSE g[i - 1]
    BY <1>2 DEF KeptSoFar
  <1> DEFINE T == {n \in Nat : n <= Len(t) => g[n] = f[IF n < k THEN n ELSE n + 1]}
  <1>7. 0 \in T
    BY <1>3, <1>4
  <1>8. ASSUME NEW n \in Nat, n \in T PROVE n + 1 \in T
    <2>1. SUFFICES ASSUME n + 1 <= Len(t) PROVE g[n + 1] = f[IF n + 1 < k THEN n + 1 ELSE n + 2]
      OBVIOUS
    <2>2. n + 1 \in 1..Len(t) /\ n + 1 - 1 = n /\ n + 1 \in 1..Len(s) /\ n + 2 \in 1..Len(s)
          /\ n + 2 - 1 = n + 1 /\ g[n] = f[IF n < k THEN n ELSE n + 1]
      BY <1>3, <1>8, <2>1
    <2>3. g[n + 1] = IF n + 1 \in Q THEN Append(g[n], t[n + 1]) ELSE g[n]
      BY <1>6, <2>2
    <2>4. t[n + 1] = s[IF n + 1 < k THEN n + 1 ELSE n + 2]
      BY <2>2 DEF IsWithout
    <2>5. n + 1 \in Q <=> (IF n + 1 < k THEN n + 1 ELSE n + 2) \in P
      BY <2>2
    <2>6. CASE n + 1 < k
      <3>1. f[n + 1] = IF n + 1 \in P THEN Append(f[n], s[n + 1]) ELSE f[n]
        BY <1>5, <2>2
      <3>2. n < k
        BY <1>3, <2>6
      <3>3. QED
        BY <2>2, <2>3, <2>4, <2>5, <2>6, <3>1, <3>2
    <2>7. CASE ~ (n + 1 < k)
      <3>1. f[n + 2] = IF n + 2 \in P THEN Append(f[n + 1], s[n + 2]) ELSE f[n + 1]
        BY <1>5, <2>2
      <3>2. g[n] = f[n + 1]
        <4>1. CASE n < k
          <5>1. k = n + 1
            BY <1>3, <2>7, <4>1
          <5>2. f[n + 1] = f[n]
            BY <1>5, <2>2, <5>1
          <5>3. QED
            BY <2>2, <4>1, <5>2
        <4>2. CASE ~ (n < k)
          BY <2>2, <4>2
        <4>3. QED
          BY <4>1, <4>2
      <3>3. QED
        BY <2>3, <2>4, <2>5, <2>7, <3>1, <3>2
    <2>8. QED
      BY <2>6, <2>7
  <1>9. Nat \subseteq T
    <2> HIDE DEF T
    <2>1. QED
      BY <1>7, <1>8, NatSets
  <1>10. g[Len(t)] = f[Len(s)]
    <2>1. g[Len(t)] = f[IF Len(t) < k THEN Len(t) ELSE Len(t) + 1]
      BY <1>3, <1>9
    <2>2. CASE Len(t) < k
      <3>1. k = Len(s) /\ Len(s) - 1 = Len(t)
        BY <1>3, <2>2
      <3>2. f[Len(s)] = f[Len(t)]
        BY <1>3, <1>5, <3>1
      <3>3. QED
        BY <2>1, <2>2, <3>2
    <2>3. CASE ~ (Len(t) < k)
      BY <1>3, <2>1, <2>3
    <2>4. QED
      BY <2>2, <2>3
  <1>11. QED
    BY <1>1, <1>2, <1>10

-----------------------------------------------------------------------------
(* The state.                                                              *)

Rule == [id : Nat, number : Nat, active : BOOLEAN, action : Actions,
         fields : Fields \cup {Blank}, opt : Options, filtered : BOOLEAN]

Ops == {"start", "open", "left", "saved", "failed", "reload", "filter", "refused",
        "toggle", "edit", "reject", "delete", "insert", "copy", "move", "double"}

TypeOK ==
    /\ saved \in Seq(Line)
    /\ rules \in Seq(Rule)
    /\ screen \in {"menu", "rules", "dead"} /\ show \in Directions /\ changed \in BOOLEAN
    /\ daemon \in Seq(Rule)
    /\ last \in [op : Ops, id : Nat]
    /\ nextId \in Nat /\ nextId > 0
    /\ doubled \in BOOLEAN /\ ops \in Nat

(* The number of a rule is its place, after every change of the list. *)
InOrder(list) == \A i \in DOMAIN list : list[i].number = i

(* No rule is in the list twice. *)
OnceEach(list) == \A i, j \in DOMAIN list : list[i].id = list[j].id => i = j

(* No two rules have the same id, and none has one that is still to come. *)
Known(list, next) ==
    /\ \A i \in DOMAIN list : list[i].id > 0 /\ list[i].id < next
    /\ OnceEach(list)

(* Between the end of a save and the next step the backend has the text of *)
(* the list.                                                               *)
SavedInv == last.op = "saved" => saved = Lines(rules)

IInv ==
    /\ TypeOK
    /\ ~doubled => InOrder(rules) /\ Known(rules, nextId)
    /\ SavedInv
    /\ ReloadSeesEveryChange

-----------------------------------------------------------------------------
(* The text of a rule.                                                     *)

LEMMA OptionFields ==
    ASSUME NEW o \in Options
    PROVE  /\ o.given \in BOOLEAN /\ o.log \in BOOLEAN /\ o.logprefix \in {NoText, "plain", "quote"}
           /\ o.limit \in 0 .. 1 /\ o.burst \in 0 .. 1 /\ o.redirectport \in {0, 80}
           /\ o.comment \in {NoText, "note"}
  BY DEF Options

LEMMA NothingGiven == NoOptions \in Options /\ NoOptions.given = FALSE
  BY DEF NoOptions, Options

LEMMA HeldFields ==
    ASSUME NEW a, NEW o
    PROVE  /\ Held(a, o).given = TRUE
           /\ Held(a, o).log = (o.log /\ a \notin {"Log", Separator})
           /\ Held(a, o).logprefix = IF a # Separator /\ (o.log \/ a = "Log") THEN o.logprefix ELSE NoText
           /\ Held(a, o).limit = o.limit
           /\ Held(a, o).burst = IF o.limit > 0 THEN o.burst ELSE 0
           /\ Held(a, o).redirectport = IF a = "Redirect" THEN o.redirectport ELSE 0
           /\ Held(a, o).comment = o.comment
  BY DEF Held

LEMMA HeldMade ==
    ASSUME NEW a, NEW o,
           o.log \in BOOLEAN, o.logprefix \in {NoText, "plain", "quote"}, o.limit \in 0 .. 1,
           o.burst \in 0 .. 1, o.redirectport \in {0, 80}, o.comment \in {NoText, "note"}
    PROVE  Held(a, o) \in Options
  <1>1. 0 \in 0 .. 1
    OBVIOUS
  <1>2. QED
    BY <1>1 DEF Held, Options

LEMMA HeldType ==
    ASSUME NEW a, NEW o \in Options
    PROVE  Held(a, o) \in Options
  BY OptionFields, HeldMade

LEMMA OptionsType ==
    ASSUME NEW a, NEW o \in Options
    PROVE  OptionsText(a, o) \in Options
  BY NothingGiven, HeldType DEF OptionsText

(* What is held is held again. *)
LEMMA HeldAgain ==
    ASSUME NEW a, NEW o
    PROVE  Held(a, Held(a, o)) = Held(a, o)
  <1> DEFINE r == Held(a, o)
  <1>1. /\ r.log = (o.log /\ a \notin {"Log", Separator})
        /\ r.logprefix = IF a # Separator /\ (o.log \/ a = "Log") THEN o.logprefix ELSE NoText
        /\ r.limit = o.limit /\ r.burst = IF o.limit > 0 THEN o.burst ELSE 0
        /\ r.redirectport = IF a = "Redirect" THEN o.redirectport ELSE 0
        /\ r.comment = o.comment
    BY HeldFields
  <1> HIDE DEF r
  <1>2. (r.log /\ a \notin {"Log", Separator}) = (o.log /\ a \notin {"Log", Separator})
    BY <1>1
  <1>3. (IF a # Separator /\ (r.log \/ a = "Log") THEN r.logprefix ELSE NoText) =
             (IF a # Separator /\ (o.log \/ a = "Log") THEN o.logprefix ELSE NoText)
    BY <1>1
  <1>4. /\ (IF r.limit > 0 THEN r.burst ELSE 0) = (IF o.limit > 0 THEN o.burst ELSE 0)
        /\ (IF a = "Redirect" THEN r.redirectport ELSE 0) = (IF a = "Redirect" THEN o.redirectport ELSE 0)
    BY <1>1
  <1>5. Held(a, r) = Held(a, o)
    BY <1>1, <1>2, <1>3, <1>4 DEF Held
  <1>6. QED
    BY <1>5 DEF r

(* What was written of the options and read back is written in the same    *)
(* way.                                                                    *)
LEMMA OptionsAgain ==
    ASSUME NEW a, NEW o \in Options
    PROVE  OptionsText(a, OptionsText(a, o)) = OptionsText(a, o)
  <1>1. OptionsText(a, NoOptions) = NoOptions
    BY NothingGiven DEF OptionsText
  <1> DEFINE h == Held(a, o)
             none == [NoOptions EXCEPT !.given = TRUE]
  <1>2. CASE o.given /\ h # none
    <2>1. OptionsText(a, o) = h
      BY <1>2 DEF OptionsText
    <2>2. h.given = TRUE /\ Held(a, h) = h
      BY HeldFields, HeldAgain
    <2> HIDE DEF h
    <2>3. OptionsText(a, h) = h
      BY <1>2, <2>2 DEF OptionsText
    <2>4. QED
      BY <2>1, <2>3
  <1>3. CASE ~(o.given /\ h # none)
    <2>1. OptionsText(a, o) = NoOptions
      BY <1>3 DEF OptionsText
    <2>2. QED
      BY <1>1, <2>1
  <1>4. QED
    BY <1>2, <1>3

LEMMA AssembleType ==
    ASSUME NEW r \in Rule
    PROVE  AssembleRule(r) \in Line
  BY OptionsType DEF AssembleRule, Line, Rule

LEMMA ParseType ==
    ASSUME NEW l \in Line, NEW n \in Nat, NEW id \in Nat
    PROVE  ParseLine(l, n, id) \in Rule
  BY DEF ParseLine, Rule, Line

(* The line of a rule that was read from the line of a rule is that line.  *)
LEMMA WrittenAgain ==
    ASSUME NEW r \in Rule, NEW n, NEW id
    PROVE  AssembleRule(ParseLine(AssembleRule(r), n, id)) = AssembleRule(r)
  BY OptionsAgain DEF AssembleRule, ParseLine, Rule

(* Rules that do not differ have the same text. *)
LEMMA SameText ==
    ASSUME NEW r \in Rule, NEW q \in Rule, r.active = q.active, r.action = q.action,
           r.fields = q.fields, ~OptionsDiffer(q.action, r.opt, q.opt)
    PROVE  AssembleRule(r) = AssembleRule(q)
  <1>1. OptionsText(q.action, r.opt) = OptionsText(q.action, q.opt)
    BY DEF OptionsDiffer, OptionsText, Rule
  <1>2. QED
    BY <1>1 DEF AssembleRule

-----------------------------------------------------------------------------
(* Lists.                                                                  *)

LEMMA LinesType ==
    ASSUME NEW list \in Seq(Rule)
    PROVE  /\ Lines(list) \in Seq({AssembleRule(r) : r \in Rule}) /\ Lines(list) \in Seq(Line)
           /\ Len(Lines(list)) = Len(list) /\ DOMAIN Lines(list) = 1 .. Len(list)
           /\ \A i \in 1 .. Len(list) : Lines(list)[i] = AssembleRule(list[i])
  <1>1. DOMAIN list = 1 .. Len(list) /\ Len(list) \in Nat /\ \A i \in 1 .. Len(list) : list[i] \in Rule
    OBVIOUS
  <1>2. Lines(list) = [i \in 1 .. Len(list) |-> AssembleRule(list[i])]
    BY <1>1 DEF Lines
  <1>3. \A i \in 1 .. Len(list) : AssembleRule(list[i]) \in Line
    BY <1>1, AssembleType
  <1> DEFINE ls == Lines(list)
             N == Len(list)
             A == {AssembleRule(r) : r \in Rule}
  <1>4. N \in Nat /\ DOMAIN ls = 1 .. N /\ ls = [i \in 1 .. N |-> ls[i]]
        /\ \A i \in 1 .. N : ls[i] \in Line /\ ls[i] \in A /\ ls[i] = AssembleRule(list[i])
    BY <1>1, <1>2, <1>3
  <1> HIDE DEF ls, N, A
  <1>5. ls \in Seq(Line) /\ ls \in Seq(A) /\ Len(ls) = N
    BY <1>4
  <1>6. QED
    BY <1>4, <1>5 DEF ls, N, A

(* Lists whose rules have the same text, one by one. *)
LEMMA SameLines ==
    ASSUME NEW a \in Seq(Rule), NEW b \in Seq(Rule), Len(a) = Len(b),
           \A i \in 1 .. Len(a) : AssembleRule(a[i]) = AssembleRule(b[i])
    PROVE  Lines(a) = Lines(b)
  BY DEF Lines

LEMMA ReadType ==
    ASSUME NEW lines \in Seq(Line), NEW id \in Nat
    PROVE  /\ ReadRules(lines, id) \in Seq(Rule)
           /\ InOrder(ReadRules(lines, id))
           /\ \A i \in DOMAIN ReadRules(lines, id) : ReadRules(lines, id)[i].id = id + i
  <1> DEFINE kept == Understood(lines)
             read == ReadRules(lines, id)
             N == Len(kept)
  <1>1. kept \in Seq(Line)
    BY KeptType DEF Understood
  <1>2. N \in Nat /\ DOMAIN kept = 1 .. N /\ \A i \in 1 .. N : kept[i] \in Line
    BY <1>1
  <1>3. read = [i \in 1 .. N |-> ParseLine(kept[i], i, id + i)]
    BY <1>2 DEF ReadRules
  <1>4. \A i \in 1 .. N : ParseLine(kept[i], i, id + i) \in Rule
    BY <1>2, ParseType
  <1>5. DOMAIN read = 1 .. N /\ \A i \in 1 .. N : read[i] \in Rule /\ read[i].number = i /\ read[i].id = id + i
    BY <1>3, <1>4 DEF ParseLine
  <1>6. read = [i \in 1 .. N |-> read[i]]
    BY <1>3
  <1> HIDE DEF read, N, kept
  <1>7. read \in Seq(Rule)
    BY <1>2, <1>5, <1>6
  <1>8. QED
    BY <1>5, <1>7 DEF read, InOrder

(* Reading and writing again what was written changes nothing. *)
LEMMA ReadBack ==
    ASSUME NEW list \in Seq(Rule)
    PROVE  Lines(ReadRules(Lines(list), 0)) = Understood(Lines(list))
  <1> DEFINE A == {AssembleRule(r) : r \in Rule}
             ls == Lines(list)
             kept == Understood(ls)
             N == Len(kept)
             read == ReadRules(ls, 0)
  <1>1. ls \in Seq(A) /\ ls \in Seq(Line)
    BY LinesType
  <1>2. kept \in Seq(A)
    <2> HIDE DEF A, ls
    <2>1. QED
      BY <1>1, KeptType DEF Understood
  <1>3. N \in Nat /\ DOMAIN kept = 1 .. N /\ kept = [i \in 1 .. N |-> kept[i]]
        /\ \A i \in 1 .. N : kept[i] \in A
    <2> HIDE DEF A, kept
    <2>1. QED
      BY <1>2
  <1>4. read = [i \in 1 .. N |-> ParseLine(kept[i], i, 0 + i)]
    BY <1>3 DEF ReadRules
  <1>5. \A i \in 1 .. N : AssembleRule(read[i]) = kept[i]
    <2>1. SUFFICES ASSUME NEW i \in 1 .. N PROVE AssembleRule(read[i]) = kept[i]
      OBVIOUS
    <2>2. PICK r \in Rule : kept[i] = AssembleRule(r)
      BY <1>3
    <2>3. read[i] = ParseLine(kept[i], i, 0 + i)
      BY <1>4
    <2>4. QED
      BY <2>2, <2>3, WrittenAgain
  <1>6. Lines(read) = [i \in 1 .. N |-> AssembleRule(read[i])]
    BY <1>4 DEF Lines
  <1>7. QED
    BY <1>3, <1>5, <1>6

LEMMA AnalyzeType ==
    ASSUME NEW list \in Seq(Rule)
    PROVE  AnalyzeNormalRules(list) \in Seq(Rule)
  BY KeptType DEF AnalyzeNormalRules

-----------------------------------------------------------------------------
(* The operations on the list.                                             *)

GoodList(list) == list \in Seq(Rule) /\ InOrder(list)

(* In a list that is in order a rule is found at its number. *)
LEMMA NumberedLemma ==
    ASSUME NEW list, GoodList(list), NEW n \in Int
    PROVE  Numbered(list, n) = IF n \in 1 .. Len(list) THEN n ELSE 0
  <1> DEFINE I == {i \in 1 .. Len(list) : list[i].number = n}
  <1>1. Numbered(list, n) = IF I # {} THEN Min(I) ELSE 0
    BY DEF Numbered, SelectInSeq
  <1>2. I = IF n \in 1 .. Len(list) THEN {n} ELSE {}
    BY DEF GoodList, InOrder
  <1>3. Min({n}) = n
    BY DEF Min
  <1>4. QED
    BY <1>1, <1>2, <1>3

(* Two lists, one after the other. *)
LEMMA Joined ==
    ASSUME NEW S, NEW a \in Seq(S), NEW b \in Seq(S)
    PROVE  /\ a \o b \in Seq(S) /\ Len(a \o b) = Len(a) + Len(b)
           /\ \A i \in 1 .. Len(a) : (a \o b)[i] = a[i]
           /\ \A i \in Len(a) + 1 .. Len(a) + Len(b) : (a \o b)[i] = b[i - Len(a)]
  OBVIOUS

(* A list with one more: those before the place stay, those from it on are *)
(* one further.                                                            *)
LEMMA Inserted ==
    ASSUME NEW S, NEW s \in Seq(S), NEW k \in 1 .. Len(s) + 1, NEW e \in S
    PROVE  /\ InsertAt(s, k, e) \in Seq(S)
           /\ Len(InsertAt(s, k, e)) = Len(s) + 1
           /\ \A i \in 1 .. Len(s) + 1 :
                InsertAt(s, k, e)[i] = IF i < k THEN s[i] ELSE IF i = k THEN e ELSE s[i - 1]
  <1>1. SubSeq(s, 1, k - 1) \in Seq(S) /\ Len(SubSeq(s, 1, k - 1)) = k - 1
    OBVIOUS
  <1>2. SubSeq(s, k, Len(s)) \in Seq(S) /\ Len(SubSeq(s, k, Len(s))) = Len(s) - k + 1
    OBVIOUS
  <1>3. <<e>> \in Seq(S) /\ Len(<<e>>) = 1 /\ <<e>>[1] = e
    OBVIOUS
  <1> DEFINE a == SubSeq(s, 1, k - 1)  b == SubSeq(s, k, Len(s))  c == <<e>>
  <1>4. \A i \in 1 .. k - 1 : a[i] = s[i]
    OBVIOUS
  <1>5. \A i \in 1 .. Len(s) - k + 1 : b[i] = s[i + k - 1]
    OBVIOUS
  <1>6. a \in Seq(S) /\ b \in Seq(S) /\ c \in Seq(S) /\ Len(a) = k - 1
        /\ Len(b) = Len(s) - k + 1 /\ Len(c) = 1 /\ c[1] = e
    BY <1>1, <1>2, <1>3
  <1>7. InsertAt(s, k, e) = (a \o c) \o b
    BY DEF InsertAt
  <1> HIDE DEF a, b, c
  <1>8. a \o c \in Seq(S) /\ Len(a \o c) = k
        /\ \A i \in 1 .. k : (a \o c)[i] = IF i < k THEN s[i] ELSE e
    <2>2. /\ a \o c \in Seq(S) /\ Len(a \o c) = Len(a) + Len(c)
          /\ \A i \in 1 .. Len(a) : (a \o c)[i] = a[i]
          /\ \A i \in Len(a) + 1 .. Len(a) + Len(c) : (a \o c)[i] = c[i - Len(a)]
      BY <1>6, Joined
    <2>3. (a \o c)[k] = e
      BY <1>6, <2>2
    <2>4. Len(a \o c) = k
      BY <1>6, <2>2
    <2>5. ASSUME NEW i \in 1 .. k, i < k PROVE (a \o c)[i] = s[i]
      <3>1. i \in 1 .. k - 1 /\ i \in 1 .. Len(a)
        BY <1>6, <2>5
      <3>2. QED
        BY <1>4, <2>2, <3>1
    <2>6. \A i \in 1 .. k : i < k \/ i = k
      OBVIOUS
    <2>7. QED
      BY <2>2, <2>3, <2>4, <2>5, <2>6
  <1> DEFINE d == a \o c
  <1> HIDE DEF d
  <1>9. d \in Seq(S) /\ Len(d) = k /\ \A i \in 1 .. k : d[i] = IF i < k THEN s[i] ELSE e
    BY <1>8 DEF d
  <1>10. InsertAt(s, k, e) = d \o b
    BY <1>7 DEF d
  <1>11. d \o b \in Seq(S) /\ Len(d \o b) = Len(s) + 1
    BY <1>6, <1>9
  <1>14. /\ \A i \in 1 .. Len(d) : (d \o b)[i] = d[i]
         /\ \A i \in Len(d) + 1 .. Len(d) + Len(b) : (d \o b)[i] = b[i - Len(d)]
    BY <1>6, <1>9, Joined
  <1>12. ASSUME NEW i \in 1 .. Len(s) + 1
         PROVE  (d \o b)[i] = IF i < k THEN s[i] ELSE IF i = k THEN e ELSE s[i - 1]
    <2>1. CASE i \in 1 .. k
      BY <1>9, <1>14, <2>1
    <2>2. CASE i \in k + 1 .. Len(s) + 1
      <3>1. i - k \in 1 .. Len(s) - k + 1 /\ (d \o b)[i] = b[i - k]
        <4>1. i \in Len(d) + 1 .. Len(d) + Len(b)
          BY <1>6, <1>9, <2>2
        <4>2. (d \o b)[i] = b[i - Len(d)]
          BY <1>14, <4>1
        <4>3. QED
          BY <1>9, <2>2, <4>2
      <3>2. b[i - k] = s[i - 1]
        BY <1>5, <2>2, <3>1
      <3>3. QED
        BY <2>2, <3>1, <3>2
    <2>3. i \in 1 .. k \/ i \in k + 1 .. Len(s) + 1
      OBVIOUS
    <2>4. QED
      BY <2>1, <2>2, <2>3
  <1>13. QED
    BY <1>10, <1>11, <1>12

(* A list with one less. *)
LEMMA Removed ==
    ASSUME NEW S, NEW s \in Seq(S), NEW k \in 1 .. Len(s)
    PROVE  /\ RemoveAt(s, k) \in Seq(S)
           /\ Len(RemoveAt(s, k)) = Len(s) - 1
           /\ \A i \in 1 .. Len(s) - 1 :
                RemoveAt(s, k)[i] = IF i < k THEN s[i] ELSE s[i + 1]
  <1> DEFINE a == SubSeq(s, 1, k - 1)  b == SubSeq(s, k + 1, Len(s))
  <1>1. a \in Seq(S) /\ Len(a) = k - 1 /\ \A i \in 1 .. k - 1 : a[i] = s[i]
    OBVIOUS
  <1>2. b \in Seq(S) /\ Len(b) = Len(s) - k /\ \A i \in 1 .. Len(s) - k : b[i] = s[i + k]
    OBVIOUS
  <1>3. RemoveAt(s, k) = a \o b
    BY DEF RemoveAt
  <1> HIDE DEF a, b
  <1>4. /\ a \o b \in Seq(S) /\ Len(a \o b) = Len(a) + Len(b)
        /\ \A i \in 1 .. Len(a) : (a \o b)[i] = a[i]
        /\ \A i \in Len(a) + 1 .. Len(a) + Len(b) : (a \o b)[i] = b[i - Len(a)]
    BY <1>1, <1>2, Joined
  <1>5. Len(a \o b) = Len(s) - 1
    BY <1>1, <1>2, <1>4
  <1>6. ASSUME NEW i \in 1 .. Len(s) - 1
        PROVE  (a \o b)[i] = IF i < k THEN s[i] ELSE s[i + 1]
    <2>1. CASE i < k
      <3>1. i \in 1 .. Len(a)
        BY <1>1, <2>1
      <3>2. (a \o b)[i] = a[i]
        BY <1>4, <3>1
      <3>3. QED
        BY <1>1, <2>1, <3>2
    <2>2. CASE i >= k
      <3>1. i \in Len(a) + 1 .. Len(a) + Len(b)
        BY <1>1, <1>2, <2>2
      <3>2. (a \o b)[i] = b[i - Len(a)]
        BY <1>4, <3>1
      <3>3. i - Len(a) = i - k + 1 /\ i - k + 1 \in 1 .. Len(s) - k
        BY <1>1, <2>2
      <3>4. b[i - k + 1] = s[i + 1]
        BY <1>2, <3>3
      <3>5. ~(i < k)
        BY <2>2
      <3>6. QED
        BY <3>2, <3>3, <3>4, <3>5
    <2>3. i < k \/ i >= k
      OBVIOUS
    <2>4. QED
      BY <2>1, <2>2, <2>3
  <1>7. QED
    BY <1>3, <1>4, <1>5, <1>6

(* What the properties say of a rule: its id and its line. *)
TextOf(r) == [id |-> r.id, line |-> AssembleRule(r)]
Text == [id : Nat, line : Line]

LEMMA TextsType ==
    ASSUME NEW list \in Seq(Rule)
    PROVE  /\ Texts(list) \in Seq(Text) /\ Len(Texts(list)) = Len(list)
           /\ DOMAIN Texts(list) = 1 .. Len(list)
           /\ \A i \in 1 .. Len(list) : Texts(list)[i] = TextOf(list[i]) /\ Texts(list)[i].id = list[i].id
  <1> DEFINE t == Texts(list)
             N == Len(list)
  <1>1. DOMAIN list = 1 .. N /\ N \in Nat /\ \A i \in 1 .. N : list[i] \in Rule
    OBVIOUS
  <1>2. t = [i \in 1 .. N |-> TextOf(list[i])]
    BY <1>1 DEF Texts, TextOf
  <1>3. ASSUME NEW i \in 1 .. N PROVE TextOf(list[i]) \in Text /\ TextOf(list[i]).id = list[i].id
    <2>1. AssembleRule(list[i]) \in Line /\ list[i].id \in Nat
      BY <1>1, AssembleType DEF Rule
    <2>2. QED
      BY <2>1 DEF TextOf, Text
  <1>4. DOMAIN t = 1 .. N /\ t = [i \in 1 .. N |-> t[i]]
        /\ \A i \in 1 .. N : t[i] = TextOf(list[i]) /\ t[i] \in Text /\ t[i].id = list[i].id
    BY <1>2, <1>3
  <1> HIDE DEF t, N
  <1>5. t \in Seq(Text) /\ Len(t) = N
    BY <1>1, <1>4
  <1>6. QED
    BY <1>4, <1>5 DEF t, N

(* A rule that gets another number, or is filtered out, has the same text. *)
LEMMA NumberOnly ==
    ASSUME NEW r \in Rule, NEW n \in Nat
    PROVE  /\ [r EXCEPT !.number = n] \in Rule /\ [r EXCEPT !.number = n].number = n
           /\ TextOf([r EXCEPT !.number = n]) = TextOf(r)
           /\ [r EXCEPT !.number = n].id = r.id
  BY DEF Rule, TextOf, AssembleRule

LEMMA FilteredOnly ==
    ASSUME NEW r \in Rule, NEW b \in BOOLEAN
    PROVE  /\ [r EXCEPT !.filtered = b] \in Rule /\ [r EXCEPT !.filtered = b].number = r.number
           /\ TextOf([r EXCEPT !.filtered = b]) = TextOf(r)
           /\ [r EXCEPT !.filtered = b].id = r.id
  BY DEF Rule, TextOf, AssembleRule

(* A list whose rules are in order, as they were read one by one. *)
LEMMA GoodByPlace ==
    ASSUME NEW list, NEW n \in Nat, DOMAIN list = 1 .. n, list = [i \in 1 .. n |-> list[i]],
           \A i \in 1 .. n : list[i] \in Rule /\ list[i].number = i
    PROVE  GoodList(list) /\ Len(list) = n
  BY DEF GoodList, InOrder

WithNumber(rule, n) == [rule EXCEPT !.number = n]

(* A struct that is in the list once is counted once. *)
LEMMA CountedOnce ==
    ASSUME NEW list \in Seq(Rule), OnceEach(list), NEW place \in Int, NEW i \in 1 .. Len(list)
    PROVE  /\ UpdateNumbers(list, place, TRUE)[i] =
                WithNumber(list[i], IF i > place THEN list[i].number + 1 ELSE list[i].number)
           /\ UpdateNumbers(list, place, FALSE)[i] =
                WithNumber(list[i], IF i >= place /\ list[i].number # 0
                                    THEN list[i].number - 1 ELSE list[i].number)
  <1>1. DOMAIN list = 1 .. Len(list) /\ i \in Nat /\ list[i] \in Rule /\ list[i].number \in Nat
    <2>1. \A r \in Rule : r.number \in Nat
      BY DEF Rule
    <2>2. QED
      BY <2>1
  <1> DEFINE n == list[i].number
             up == {j \in DOMAIN list : list[j].id = list[i].id /\ IF TRUE THEN j > place ELSE j >= place}
             down == {j \in DOMAIN list : list[j].id = list[i].id /\ IF FALSE THEN j > place ELSE j >= place}
  <1>2. \A j \in DOMAIN list : list[j].id = list[i].id <=> j = i
    BY <1>1 DEF OnceEach
  <1>3. up = (IF i > place THEN {i} ELSE {}) /\ down = (IF i >= place THEN {i} ELSE {})
    BY <1>1, <1>2
  <1>4. /\ UpdateNumbers(list, place, TRUE)[i] = [list[i] EXCEPT !.number = n + Cardinality(up)]
        /\ UpdateNumbers(list, place, FALSE)[i] =
             [list[i] EXCEPT !.number = IF n > Cardinality(down) THEN n - Cardinality(down) ELSE 0]
    BY <1>1 DEF UpdateNumbers
  <1> HIDE DEF n, up, down
  <1>5. Cardinality(up) = (IF i > place THEN 1 ELSE 0) /\ Cardinality(down) = (IF i >= place THEN 1 ELSE 0)
    BY <1>3, FS_EmptySet, FS_Singleton
  <1>6. n \in Nat
    BY <1>1 DEF n
  <1>7. n + Cardinality(up) = IF i > place THEN n + 1 ELSE n
    BY <1>5, <1>6
  <1>8. (IF n > Cardinality(down) THEN n - Cardinality(down) ELSE 0) = IF i >= place /\ n # 0 THEN n - 1 ELSE n
    BY <1>5, <1>6
  <1>9. QED
    BY <1>4, <1>7, <1>8 DEF n, WithNumber

LEMMA NumbersDomain ==
    ASSUME NEW list \in Seq(Rule), NEW place, NEW increase
    PROVE  /\ DOMAIN UpdateNumbers(list, place, increase) = 1 .. Len(list)
           /\ UpdateNumbers(list, place, increase) =
                [i \in 1 .. Len(list) |-> UpdateNumbers(list, place, increase)[i]]
  <1>1. DOMAIN list = 1 .. Len(list)
    OBVIOUS
  <1>2. QED
    BY <1>1 DEF UpdateNumbers

(* A struct that is not in the list is not seen by it. *)
LEMMA WrittenElsewhere ==
    ASSUME NEW list \in Seq(Rule), NEW r, r.id \notin IdsOf(list)
    PROVE  Written(list, r) = list
  <1>1. DOMAIN list = 1 .. Len(list) /\ list = [i \in 1 .. Len(list) |-> list[i]]
    OBVIOUS
  <1>2. \A i \in DOMAIN list : list[i].id # r.id
    BY DEF IdsOf
  <1>3. QED
    BY <1>1, <1>2 DEF Written

LEMMA WrittenOnce ==
    ASSUME NEW list \in Seq(Rule), OnceEach(list), NEW k \in 1 .. Len(list), NEW r, r.id = list[k].id
    PROVE  Written(list, r) = [list EXCEPT ![k] = r]
  <1>1. DOMAIN list = 1 .. Len(list) /\ list = [i \in 1 .. Len(list) |-> list[i]]
    OBVIOUS
  <1>2. \A i \in DOMAIN list : list[i].id = r.id <=> i = k
    BY <1>1 DEF OnceEach
  <1>3. QED
    BY <1>1, <1>2 DEF Written

LEMMA FilterLemma ==
    ASSUME NEW list, GoodList(list), NEW f
    PROVE  GoodList(UpdateFilter(list, f)) /\ Texts(UpdateFilter(list, f)) = Texts(list)
  <1> DEFINE new == UpdateFilter(list, f)
             N == Len(list)
  <1>1. DOMAIN list = 1 .. N /\ N \in Nat
        /\ \A i \in 1 .. N : list[i] \in Rule /\ list[i].number = i
    BY DEF GoodList, InOrder
  <1>2. new = [i \in 1 .. N |-> [list[i] EXCEPT !.filtered = ~MatchFilter(list[i], f)]]
    BY <1>1 DEF UpdateFilter
  <1>3. ASSUME NEW i \in 1 .. N
        PROVE  new[i] \in Rule /\ new[i].number = i /\ TextOf(new[i]) = TextOf(list[i])
    <2> DEFINE b == ~MatchFilter(list[i], f)
    <2>1. new[i] = [list[i] EXCEPT !.filtered = b]
      BY <1>2
    <2>2. b \in BOOLEAN
      OBVIOUS
    <2> HIDE DEF b
    <2>3. QED
      BY <1>1, <2>1, <2>2, FilteredOnly
  <1>4. DOMAIN new = 1 .. N /\ new = [i \in 1 .. N |-> new[i]]
    BY <1>2
  <1> HIDE DEF new
  <1>5. GoodList(new)
    BY <1>1, <1>3, <1>4, GoodByPlace
  <1>6. Texts(new) = Texts(list)
    BY <1>1, <1>3, <1>4 DEF Texts, TextOf
  <1>7. QED
    BY <1>5, <1>6 DEF new

(* A rule is put into the list: the others are what they were. *)
Adds(new, list, k, id) ==
    /\ GoodList(new) /\ k \in 1 .. Len(new) /\ new[k].id = id
    /\ IsWithout(Texts(list), Texts(new), k)

(* A rule is taken out. *)
Removes(new, list, k) == GoodList(new) /\ IsWithout(Texts(new), Texts(list), k)

LEMMA InsertLemma ==
    ASSUME NEW list, GoodList(list), OnceEach(list), NEW wanted \in Nat, wanted > 0,
           NEW rule \in Rule, rule.id \notin IdsOf(list)
    PROVE  /\ Adds(InsertList(list, wanted, rule), list,
                   IF wanted > Len(list) THEN Len(list) + 1 ELSE wanted, rule.id)
           /\ Len(InsertList(list, wanted, rule)) = Len(list) + 1
  <1> DEFINE N == Len(list)
             place == IF wanted > N THEN N + 1 ELSE wanted
             put == InsertAt(list, place, rule)
             above == IF place = 1 THEN 1 ELSE place - 1
             moved == UpdateNumbers(put, above, TRUE)
             new == Written(moved, [moved[place] EXCEPT !.number = place])
  <1>1. list \in Seq(Rule) /\ N \in Nat /\ DOMAIN list = 1 .. N
        /\ \A i \in 1 .. N : list[i] \in Rule /\ list[i].number = i
    BY DEF GoodList, InOrder
  <1>2. place \in 1 .. N + 1 /\ place \in Nat /\ above \in Nat
    BY <1>1
  <1>a. Written(list, rule) = list
    BY <1>1, WrittenElsewhere
  <1>3. InsertList(list, wanted, rule) = new
    <2> DEFINE first == IF list = << >> THEN 1 ELSE IF wanted > Len(list) THEN Len(list) + 1 ELSE wanted
               putAt(i) == UpdateNumbers(InsertAt(list, i, rule), first - (IF i = 1 THEN 0 ELSE 1), TRUE)
    <2>1. first = place
      BY <1>1
    <2>2. CASE place = 1
      <3>1. InsertList(list, wanted, rule) = Written(putAt(1), [putAt(1)[1] EXCEPT !.number = first])
        BY <1>a, <2>1, <2>2 DEF InsertList
      <3>2. above = 1 - 0
        BY <2>2
      <3>3. putAt(1) = moved
        BY <2>1, <2>2, <3>2
      <3> HIDE DEF moved, putAt, first, place
      <3>4. QED
        BY <2>1, <2>2, <3>1, <3>3
    <2>3. CASE place # 1
      <3>1. place - 1 \in 1 .. N /\ place - 1 \in Int
        BY <1>2, <2>3
      <3>2. Numbered(list, place - 1) = place - 1
        <4> DEFINE n == place - 1
        <4> HIDE DEF n
        <4>1. Numbered(list, n) = IF n \in 1 .. Len(list) THEN n ELSE 0
          BY <3>1, NumberedLemma DEF n
        <4>2. QED
          BY <3>1, <4>1 DEF n
      <3>3. place - 1 + 1 = place /\ place - 1 # 0
        BY <1>2, <2>3
      <3> DEFINE at == Numbered(list, first - 1) + 1
      <3>4. at = place
        BY <2>1, <3>2, <3>3
      <3>5. InsertList(list, wanted, rule) = Written(putAt(at), [putAt(at)[at] EXCEPT !.number = first])
        BY <1>a, <2>1, <2>3, <3>2, <3>3 DEF InsertList
      <3> HIDE DEF at, first
      <3>6. first - (IF at = 1 THEN 0 ELSE 1) = above
        BY <2>1, <2>3, <3>4
      <3>7. putAt(at) = moved
        BY <3>4, <3>6
      <3> HIDE DEF moved, putAt, place
      <3>8. QED
        BY <2>1, <3>4, <3>5, <3>7
    <2>4. QED
      BY <2>2, <2>3
  <1>4. put \in Seq(Rule) /\ Len(put) = N + 1
        /\ \A i \in 1 .. N + 1 : put[i] = IF i < place THEN list[i] ELSE IF i = place THEN rule ELSE list[i - 1]
    <2> HIDE DEF place
    <2>1. QED
      BY <1>1, <1>2, Inserted
  <1>5. DOMAIN put = 1 .. N + 1 /\ \A i \in 1 .. N + 1 : put[i] \in Rule
    <2> HIDE DEF put
    <2>1. QED
      BY <1>1, <1>4
  <1> HIDE DEF put
  <1>b. OnceEach(put)
    <2>1. ASSUME NEW i \in 1 .. N PROVE list[i].id # rule.id
      BY <1>1 DEF IdsOf
    <2>2. ASSUME NEW i \in 1 .. N + 1, i # place
          PROVE  /\ (IF i < place THEN i ELSE i - 1) \in 1 .. N
                 /\ put[i] = list[IF i < place THEN i ELSE i - 1]
      BY <1>1, <1>2, <1>4, <2>2
    <2>3. put[place] = rule
      BY <1>2, <1>4
    <2> HIDE DEF place
    <2>4. ASSUME NEW i \in 1 .. N + 1, NEW j \in 1 .. N + 1, put[i].id = put[j].id PROVE i = j
      <3>1. CASE i = place \/ j = place
        BY <2>1, <2>2, <2>3, <2>4, <3>1
      <3>2. CASE i # place /\ j # place
        <4>1. /\ (IF i < place THEN i ELSE i - 1) \in DOMAIN list
              /\ (IF j < place THEN j ELSE j - 1) \in DOMAIN list
              /\ list[IF i < place THEN i ELSE i - 1].id = list[IF j < place THEN j ELSE j - 1].id
          BY <1>1, <2>2, <2>4, <3>2
        <4>2. (IF i < place THEN i ELSE i - 1) = (IF j < place THEN j ELSE j - 1)
          BY <4>1 DEF OnceEach
        <4>3. QED
          BY <1>2, <3>2, <4>2
      <3>3. QED
        BY <3>1, <3>2
    <2>5. QED
      BY <1>5, <2>4 DEF OnceEach
  <1>6. ASSUME NEW i \in 1 .. N + 1
        PROVE  moved[i] = WithNumber(put[i], IF i > above THEN put[i].number + 1 ELSE put[i].number)
    <2> HIDE DEF above
    <2>1. put \in Seq(Rule) /\ i \in 1 .. Len(put) /\ above \in Int
      BY <1>2, <1>4
    <2>2. QED
      BY <1>b, <2>1, CountedOnce
  <1>7. ASSUME NEW i \in 1 .. N + 1
        PROVE  moved[i] \in Rule /\ TextOf(moved[i]) = TextOf(put[i]) /\ moved[i].id = put[i].id
               /\ moved[i].number = IF i > above THEN put[i].number + 1 ELSE put[i].number
    <2> DEFINE n == IF i > above THEN put[i].number + 1 ELSE put[i].number
    <2>1. moved[i] = [put[i] EXCEPT !.number = n]
      BY <1>6 DEF WithNumber
    <2>2. put[i] \in Rule /\ put[i].number \in Nat
      BY <1>5 DEF Rule
    <2>3. n \in Nat
      BY <2>2
    <2> HIDE DEF n, moved
    <2>4. /\ moved[i] \in Rule /\ TextOf(moved[i]) = TextOf(put[i]) /\ moved[i].number = n
          /\ moved[i].id = put[i].id
      BY <2>1, <2>2, <2>3, NumberOnly
    <2>5. QED
      BY <2>4 DEF n
  <1>8. DOMAIN moved = 1 .. N + 1 /\ moved = [i \in 1 .. N + 1 |-> moved[i]]
    <2> HIDE DEF above
    <2>1. put \in Seq(Rule) /\ Len(put) = N + 1
      BY <1>4
    <2>2. QED
      BY <2>1, NumbersDomain
  <1> HIDE DEF moved
  <1>9. new = [i \in 1 .. N + 1 |-> IF i = place THEN [moved[place] EXCEPT !.number = place] ELSE moved[i]]
    <2> DEFINE r == [moved[place] EXCEPT !.number = place]
               M == N + 1
    <2>1. M \in Nat /\ place \in 1 .. M /\ DOMAIN moved = 1 .. M /\ moved = [i \in 1 .. M |-> moved[i]]
          /\ \A i \in 1 .. M : moved[i] \in Rule
      BY <1>1, <1>2, <1>7, <1>8
    <2>2. r.id = moved[place].id
      BY <1>2, <1>7, NumberOnly
    <2>3. \A i \in 1 .. M : moved[i].id = put[i].id
      BY <1>7
    <2> HIDE DEF M, place
    <2>4. moved \in Seq(Rule) /\ Len(moved) = M
      BY <2>1
    <2>5. OnceEach(moved)
      BY <1>5, <1>b, <2>1, <2>3 DEF OnceEach, M
    <2> HIDE DEF r
    <2>6. Written(moved, r) = [moved EXCEPT ![place] = r]
      BY <2>1, <2>2, <2>4, <2>5, WrittenOnce
    <2>7. [moved EXCEPT ![place] = r] = [i \in 1 .. M |-> IF i = place THEN r ELSE moved[i]]
      BY <2>1
    <2>8. QED
      BY <2>6, <2>7 DEF r, M
  <1>10. ASSUME NEW i \in 1 .. N + 1
         PROVE  new[i] \in Rule /\ TextOf(new[i]) = TextOf(put[i]) /\ new[i].number = i
    <2>1. CASE i = place
      <3>1. new[i] = [moved[place] EXCEPT !.number = place]
        BY <1>9, <2>1
      <3>2. moved[place] \in Rule /\ TextOf(moved[place]) = TextOf(put[i])
        BY <1>7, <2>1
      <3> HIDE DEF new, place
      <3>3. QED
        BY <1>2, <2>1, <3>1, <3>2, NumberOnly
    <2>2. CASE i # place
      <3>1. new[i] = moved[i]
        BY <1>9, <2>2
      <3>2. put[i].number = IF i < place THEN i ELSE i - 1
        BY <1>1, <1>2, <1>4, <2>2
      <3>3. i > above <=> ~ (i < place)
        BY <1>2, <2>2
      <3>4. moved[i].number = i
        BY <1>7, <3>2, <3>3
      <3>5. QED
        BY <1>7, <3>1, <3>4
    <2>3. QED
      BY <2>1, <2>2
  <1>11. DOMAIN new = 1 .. N + 1 /\ new = [i \in 1 .. N + 1 |-> new[i]]
    BY <1>9
  <1> HIDE DEF new, place
  <1>12. GoodList(new) /\ Len(new) = N + 1
    <2> DEFINE M == N + 1
    <2>1. M \in Nat /\ DOMAIN new = 1 .. M /\ new = [i \in 1 .. M |-> new[i]]
          /\ \A i \in 1 .. M : new[i] \in Rule /\ new[i].number = i
      BY <1>1, <1>10, <1>11
    <2> HIDE DEF M
    <2>2. GoodList(new) /\ Len(new) = M
      BY <2>1, GoodByPlace
    <2>3. QED
      BY <2>2 DEF M
  <1>13. IsWithout(Texts(list), Texts(new), place)
    <2>1. /\ Len(Texts(list)) = N /\ Len(Texts(new)) = N + 1
          /\ \A i \in 1 .. N : Texts(list)[i] = TextOf(list[i])
          /\ \A i \in 1 .. N + 1 : Texts(new)[i] = TextOf(new[i])
      BY <1>1, <1>12, TextsType DEF GoodList
    <2>2. ASSUME NEW i \in 1 .. N
          PROVE  TextOf(list[i]) = TextOf(new[IF i < place THEN i ELSE i + 1])
      <3>1. CASE i < place
        BY <1>4, <1>10, <3>1
      <3>2. CASE ~ (i < place)
        <4>1. i + 1 \in 1 .. N + 1 /\ ~ (i + 1 < place) /\ i + 1 # place /\ i + 1 - 1 = i
          BY <1>1, <1>2, <3>2
        <4>2. put[i + 1] = list[i]
          BY <1>4, <4>1
        <4>3. QED
          BY <1>10, <3>2, <4>1, <4>2
      <3>3. QED
        BY <3>1, <3>2
    <2>3. ASSUME NEW i \in 1 .. N PROVE (IF i < place THEN i ELSE i + 1) \in 1 .. N + 1
      BY <1>1
    <2>4. QED
      BY <2>1, <2>2, <2>3 DEF IsWithout
  <1>14. new[place].id = rule.id
    <2>1. put[place] = rule /\ place \in 1 .. N + 1
      BY <1>2, <1>4
    <2>2. TextOf(new[place]) = TextOf(rule)
      BY <1>10, <2>1
    <2>3. QED
      BY <2>2 DEF TextOf
  <1>15. QED
    BY <1>2, <1>3, <1>12, <1>13, <1>14 DEF Adds, place

LEMMA RemoveLemma ==
    ASSUME NEW list, GoodList(list), OnceEach(list), NEW n \in 1 .. Len(list)
    PROVE  /\ Removes(RemoveFromList(list, n), list, n)
           /\ Len(RemoveFromList(list, n)) = Len(list) - 1
  <1> DEFINE N == Len(list)
             new == RemoveFromList(list, n)
  <1>1. list \in Seq(Rule) /\ N \in Nat /\ DOMAIN list = 1 .. N
        /\ \A i \in 1 .. N : list[i] \in Rule /\ list[i].number = i
    BY DEF GoodList, InOrder
  <1>2. Numbered(list, n) = n /\ n # 0 /\ n \in Nat /\ N - 1 \in Nat
    BY <1>1, NumberedLemma
  <1>3. /\ DOMAIN new = 1 .. N - 1 /\ new = [i \in 1 .. N - 1 |-> new[i]]
        /\ \A i \in 1 .. N - 1 : /\ new[i] \in Rule /\ new[i].number = i
                                 /\ TextOf(new[i]) = TextOf(list[IF i < n THEN i ELSE i + 1])
    <2>1. CASE n = N
      <3>1. new = SubSeq(list, 1, N - 1)
        BY <1>2, <2>1 DEF RemoveFromList, Front
      <3>2. new = [i \in 1 .. N - 1 |-> list[i]]
        BY <1>1, <1>2, <3>1
      <3>3. \A i \in 1 .. N - 1 : i < n /\ i \in 1 .. N
        BY <1>1, <2>1
      <3> HIDE DEF new
      <3>4. DOMAIN new = 1 .. N - 1 /\ \A i \in 1 .. N - 1 : new[i] = list[i]
        BY <3>2
      <3>5. QED
        BY <1>1, <3>2, <3>3, <3>4
    <2>2. CASE n # N
      <3> DEFINE rest == RemoveAt(list, n)
      <3>1. rest \in Seq(Rule) /\ Len(rest) = N - 1
            /\ \A i \in 1 .. N - 1 : rest[i] = IF i < n THEN list[i] ELSE list[i + 1]
        BY <1>1, Removed
      <3> HIDE DEF rest
      <3>2. DOMAIN rest = 1 .. N - 1 /\ \A i \in 1 .. N - 1 : rest[i] \in Rule
        BY <1>2, <3>1
      <3>3. new = UpdateNumbers(rest, n, FALSE)
        BY <1>2, <2>2 DEF RemoveFromList, rest
      <3>a. OnceEach(rest)
        <4>1. ASSUME NEW i \in 1 .. N - 1, NEW j \in 1 .. N - 1, rest[i].id = rest[j].id PROVE i = j
          <5>1. /\ (IF i < n THEN i ELSE i + 1) \in DOMAIN list /\ (IF j < n THEN j ELSE j + 1) \in DOMAIN list
                /\ list[IF i < n THEN i ELSE i + 1].id = list[IF j < n THEN j ELSE j + 1].id
            BY <1>1, <3>1, <4>1
          <5>2. (IF i < n THEN i ELSE i + 1) = (IF j < n THEN j ELSE j + 1)
            BY <5>1 DEF OnceEach
          <5>3. QED
            BY <5>2
        <4>2. QED
          BY <3>2, <4>1 DEF OnceEach
      <3>4. ASSUME NEW i \in 1 .. N - 1
            PROVE  new[i] = WithNumber(rest[i], IF i >= n /\ rest[i].number # 0
                                                THEN rest[i].number - 1 ELSE rest[i].number)
        <4> HIDE DEF new
        <4>1. i \in 1 .. Len(rest) /\ n \in Int
          BY <3>1
        <4>2. QED
          BY <3>1, <3>3, <3>a, <4>1, CountedOnce
      <3>5. ASSUME NEW i \in 1 .. N - 1
            PROVE  /\ new[i] \in Rule /\ new[i].number = i
                   /\ TextOf(new[i]) = TextOf(list[IF i < n THEN i ELSE i + 1])
        <4> DEFINE m == IF i >= n /\ rest[i].number # 0 THEN rest[i].number - 1 ELSE rest[i].number
        <4>1. new[i] = [rest[i] EXCEPT !.number = m]
          BY <3>4 DEF WithNumber
        <4>2. rest[i] = list[IF i < n THEN i ELSE i + 1] /\ rest[i] \in Rule
          BY <3>1, <3>2
        <4>3. (IF i < n THEN i ELSE i + 1) \in 1 .. N
          BY <1>1
        <4>4. rest[i].number = IF i < n THEN i ELSE i + 1
          BY <1>1, <4>2, <4>3
        <4>5. m = i
          BY <1>2, <4>4
        <4>6. i \in Nat
          OBVIOUS
        <4> HIDE DEF m, new
        <4>7. new[i] \in Rule /\ new[i].number = i /\ TextOf(new[i]) = TextOf(rest[i])
          BY <4>1, <4>2, <4>5, <4>6, NumberOnly
        <4>8. QED
          BY <4>2, <4>7
      <3>6. DOMAIN new = 1 .. N - 1 /\ new = [i \in 1 .. N - 1 |-> new[i]]
        <4> HIDE DEF new
        <4>1. QED
          BY <3>1, <3>3, NumbersDomain
      <3>7. QED
        BY <3>5, <3>6
    <2>3. QED
      BY <2>1, <2>2
  <1> HIDE DEF new
  <1>4. GoodList(new) /\ Len(new) = N - 1
    BY <1>2, <1>3, GoodByPlace
  <1>5. IsWithout(Texts(new), Texts(list), n)
    <2>1. /\ Len(Texts(list)) = N /\ Len(Texts(new)) = N - 1
          /\ \A i \in 1 .. N : Texts(list)[i] = TextOf(list[i])
          /\ \A i \in 1 .. N - 1 : Texts(new)[i] = TextOf(new[i])
      BY <1>1, <1>4, TextsType DEF GoodList
    <2>2. \A i \in 1 .. N - 1 : (IF i < n THEN i ELSE i + 1) \in 1 .. N
      BY <1>1
    <2>3. N - 1 + 1 = N
      BY <1>1
    <2>4. QED
      BY <1>3, <2>1, <2>2, <2>3 DEF IsWithout
  <1>6. QED
    BY <1>4, <1>5 DEF Removes, new

-----------------------------------------------------------------------------
(* What the properties ask of a list, and lists that differ in one place.  *)

OthersOf(t, id) == Kept(t, {i \in 1 .. Len(t) : t[i].id # id})

(* The text of the others. *)
Rest(list, id) == Others(list, {id})

LEMMA OthersText ==
    ASSUME NEW list \in Seq(Rule), NEW id
    PROVE  Rest(list, id) = OthersOf(Texts(list), id)
  <1> DEFINE t == Texts(list)
  <1>1. Len(t) = Len(list) /\ DOMAIN list = 1 .. Len(list) /\ \A i \in 1 .. Len(list) : t[i].id = list[i].id
    BY TextsType
  <1> HIDE DEF t
  <1>2. {i \in DOMAIN list : list[i].id \notin {id}} = {i \in 1 .. Len(t) : t[i].id # id}
    BY <1>1
  <1>3. QED
    BY <1>2 DEF Rest, Others, OthersOf, t

(* One list is the other without its rule at k. *)
Up(i, k) == IF i < k THEN i ELSE i + 1
Down(j, k) == IF j < k THEN j ELSE j - 1

LEMMA Without ==
    ASSUME NEW a, GoodList(a), NEW b, GoodList(b), NEW k \in 1 .. Len(b),
           IsWithout(Texts(a), Texts(b), k)
    PROVE  /\ \A i \in 1 .. Len(a) : Up(i, k) \in 1 .. Len(b) /\ a[i].id = b[Up(i, k)].id
           /\ \A j \in 1 .. Len(b) : j # k => Down(j, k) \in 1 .. Len(a) /\ b[j].id = a[Down(j, k)].id
           /\ Rest(a, b[k].id) = Rest(b, b[k].id)
  <1> DEFINE t == Texts(a)
             s == Texts(b)
             id == b[k].id
  <1>1. /\ t \in Seq(Text) /\ s \in Seq(Text) /\ Len(t) = Len(a) /\ Len(s) = Len(b)
        /\ \A i \in 1 .. Len(a) : t[i].id = a[i].id
        /\ \A i \in 1 .. Len(b) : s[i].id = b[i].id
    BY TextsType DEF GoodList
  <1>2. Len(a) \in Nat /\ Len(b) \in Nat /\ a \in Seq(Rule) /\ b \in Seq(Rule)
    BY DEF GoodList
  <1>3. Rest(a, id) = OthersOf(t, id) /\ Rest(b, id) = OthersOf(s, id)
    BY <1>2, OthersText
  <1>4. IsWithout(t, s, k)
    OBVIOUS
  <1> HIDE DEF t, s, id
  <1>5. Len(b) = Len(a) + 1 /\ \A i \in 1 .. Len(a) : t[i] = s[IF i < k THEN i ELSE i + 1]
    BY <1>1, <1>2, <1>4 DEF IsWithout
  <1>6. ASSUME NEW i \in 1 .. Len(a)
        PROVE  (IF i < k THEN i ELSE i + 1) \in 1 .. Len(b) /\ a[i].id = b[IF i < k THEN i ELSE i + 1].id
    <2>1. (IF i < k THEN i ELSE i + 1) \in 1 .. Len(b)
      BY <1>2, <1>5
    <2>2. QED
      BY <1>1, <1>5, <2>1
  <1>7. ASSUME NEW j \in 1 .. Len(b), j # k
        PROVE  (IF j < k THEN j ELSE j - 1) \in 1 .. Len(a) /\ b[j].id = a[IF j < k THEN j ELSE j - 1].id
    <2> DEFINE i == IF j < k THEN j ELSE j - 1
    <2>1. i \in 1 .. Len(a) /\ (IF i < k THEN i ELSE i + 1) = j
      BY <1>2, <1>5, <1>7
    <2> HIDE DEF i
    <2>2. a[i].id = b[j].id
      BY <1>6, <2>1
    <2>3. QED
      BY <2>1, <2>2 DEF i
  <1>8. OthersOf(t, id) = OthersOf(s, id)
    <2> DEFINE P == {i \in 1 .. Len(s) : s[i].id # id}
               Q == {i \in 1 .. Len(t) : t[i].id # id}
    <2>1. k \in 1 .. Len(s) /\ k \notin P
      BY <1>1 DEF id
    <2>2. \A i \in 1 .. Len(t) : i \in Q <=> (IF i < k THEN i ELSE i + 1) \in P
      BY <1>1, <1>5, <1>6
    <2> HIDE DEF P, Q
    <2>3. Kept(t, Q) = Kept(s, P)
      BY <1>1, <1>4, <2>1, <2>2, KeptWithout
    <2>4. QED
      BY <2>3 DEF OthersOf, P, Q
  <1>9. Rest(a, b[k].id) = Rest(b, b[k].id)
    BY <1>3, <1>8 DEF id
  <1>10. ASSUME NEW i \in 1 .. Len(a)
         PROVE  Up(i, k) \in 1 .. Len(b) /\ a[i].id = b[Up(i, k)].id
    BY <1>6 DEF Up
  <1>11. ASSUME NEW j \in 1 .. Len(b), j # k
         PROVE  Down(j, k) \in 1 .. Len(a) /\ b[j].id = a[Down(j, k)].id
    BY <1>7, <1>11 DEF Down
  <1>12. QED
    BY <1>9, <1>10, <1>11

LEMMA Added ==
    ASSUME NEW list, GoodList(list), NEW new, NEW k, NEW id \in Nat, Adds(new, list, k, id),
           NEW n \in Nat, NEW m \in Nat, Known(list, n), id > 0, id < m, n <= m, id \notin IdsOf(list)
    PROVE  /\ GoodList(new) /\ Known(new, m)
           /\ id \in IdsOf(new) /\ Rest(list, id) = Rest(new, id)
  <1>1. GoodList(new) /\ k \in 1 .. Len(new) /\ new[k].id = id /\ IsWithout(Texts(list), Texts(new), k)
    BY DEF Adds
  <1> DEFINE both == /\ \A j \in 1 .. Len(new) : j # k => Down(j, k) \in 1 .. Len(list) /\ new[j].id = list[Down(j, k)].id
                     /\ Rest(list, new[k].id) = Rest(new, new[k].id)
  <1>2. both
    <2>1. k \in 1 .. Len(new) /\ IsWithout(Texts(list), Texts(new), k) /\ GoodList(new)
      BY <1>1
    <2>2. QED
      BY ONLY GoodList(list), <2>1, Without
  <1>3. DOMAIN list = 1 .. Len(list) /\ DOMAIN new = 1 .. Len(new)
        /\ \A i \in 1 .. Len(list) : list[i].id \in Nat
    <2>1. list \in Seq(Rule) /\ new \in Seq(Rule)
      BY <1>1 DEF GoodList
    <2>2. \A r \in Rule : r.id \in Nat
      BY DEF Rule
    <2>3. QED
      BY <2>1, <2>2
  <1>4. \A i \in 1 .. Len(list) : list[i].id # id /\ list[i].id > 0 /\ list[i].id < n
    BY <1>3 DEF IdsOf, Known
  <1>5. ASSUME NEW i \in 1 .. Len(new) PROVE new[i].id > 0 /\ new[i].id < m
    <2>1. CASE i = k
      BY <1>1, <2>1
    <2>2. CASE i # k
      <3>1. Down(i, k) \in 1 .. Len(list) /\ new[i].id = list[Down(i, k)].id
        BY <1>2, <2>2
      <3>2. new[i].id \in Nat /\ new[i].id > 0 /\ new[i].id < n
        BY <1>3, <1>4, <3>1
      <3>3. QED
        BY <3>2
    <2>3. QED
      BY <2>1, <2>2
  <1>6. ASSUME NEW i \in 1 .. Len(new), NEW j \in 1 .. Len(new), new[i].id = new[j].id
        PROVE  i = j
    <2>1. CASE i = k /\ j # k
      BY <1>1, <1>2, <1>4, <1>6, <2>1
    <2>2. CASE i # k /\ j = k
      BY <1>1, <1>2, <1>4, <1>6, <2>2
    <2>3. CASE i # k /\ j # k
      <3>1. Down(i, k) \in DOMAIN list /\ Down(j, k) \in DOMAIN list /\ list[Down(i, k)].id = list[Down(j, k)].id
        BY <1>2, <1>3, <1>6, <2>3
      <3>2. Down(i, k) = Down(j, k)
        BY <3>1 DEF Known, OnceEach
      <3>3. k \in Int /\ i \in Int /\ j \in Int
        BY <1>1
      <3>4. QED
        BY <2>3, <3>2, <3>3 DEF Down
    <2>4. QED
      BY <2>1, <2>2, <2>3
  <1>7. Known(new, m)
    BY <1>3, <1>5, <1>6 DEF Known, OnceEach
  <1>8. id \in IdsOf(new)
    BY <1>1, <1>3 DEF IdsOf
  <1>9. Rest(list, id) = Rest(new, id)
    BY <1>1, <1>2
  <1>10. QED
    BY <1>1, <1>7, <1>8, <1>9

LEMMA TakenOut ==
    ASSUME NEW list, GoodList(list), NEW new, NEW k \in 1 .. Len(list), Removes(new, list, k),
           NEW n, Known(list, n)
    PROVE  /\ GoodList(new) /\ Known(new, n)
           /\ list[k].id \notin IdsOf(new)
           /\ Rest(list, list[k].id) = Rest(new, list[k].id)
  <1>1. GoodList(new) /\ IsWithout(Texts(new), Texts(list), k)
    BY DEF Removes
  <1>2. /\ \A i \in 1 .. Len(new) : Up(i, k) \in 1 .. Len(list) /\ new[i].id = list[Up(i, k)].id
        /\ Rest(new, list[k].id) = Rest(list, list[k].id)
    BY <1>1, Without
  <1>3. DOMAIN list = 1 .. Len(list) /\ DOMAIN new = 1 .. Len(new)
    BY <1>1 DEF GoodList
  <1>4. ASSUME NEW i \in 1 .. Len(new) PROVE new[i].id > 0 /\ new[i].id < n
    BY <1>2, <1>3 DEF Known
  <1>5. ASSUME NEW i \in 1 .. Len(new), NEW j \in 1 .. Len(new), new[i].id = new[j].id
        PROVE  i = j
    <2>1. Up(i, k) \in DOMAIN list /\ Up(j, k) \in DOMAIN list /\ list[Up(i, k)].id = list[Up(j, k)].id
      BY <1>2, <1>3, <1>5
    <2>2. Up(i, k) = Up(j, k)
      BY <2>1 DEF Known, OnceEach
    <2>3. QED
      BY <2>2 DEF Up
  <1>6. ASSUME NEW i \in 1 .. Len(new), new[i].id = list[k].id PROVE FALSE
    <2>1. Up(i, k) \in DOMAIN list /\ k \in DOMAIN list /\ list[Up(i, k)].id = list[k].id
      BY <1>2, <1>3, <1>6
    <2>2. Up(i, k) = k
      BY <2>1 DEF Known, OnceEach
    <2>3. QED
      BY <2>2 DEF Up
  <1>7. Known(new, n) /\ list[k].id \notin IdsOf(new)
    BY <1>3, <1>4, <1>5, <1>6 DEF Known, OnceEach, IdsOf
  <1>8. QED
    BY <1>1, <1>2, <1>7

(* Lists with the same text are the same to the properties. *)
LEMMA SameTexts ==
    ASSUME NEW a, GoodList(a), NEW b, GoodList(b), Texts(a) = Texts(b), NEW n, NEW id
    PROVE  /\ Known(a, n) => Known(b, n)
           /\ IdsOf(a) = IdsOf(b)
           /\ Rest(a, id) = Rest(b, id)
  <1>1. a \in Seq(Rule) /\ b \in Seq(Rule) /\ DOMAIN a = 1 .. Len(a) /\ DOMAIN b = 1 .. Len(b)
    BY DEF GoodList
  <1>2. Len(a) = Len(b) /\ \A i \in 1 .. Len(a) : a[i].id = b[i].id
    BY <1>1, TextsType
  <1>3. QED
    BY <1>1, <1>2, OthersText DEF Known, OnceEach, IdsOf

(* A rule is replaced by one with the same number and id. *)
LEMMA Replaced ==
    ASSUME NEW list, GoodList(list), NEW k \in 1 .. Len(list), NEW r \in Rule,
           r.number = list[k].number, r.id = list[k].id, NEW n, Known(list, n)
    PROVE  /\ GoodList([list EXCEPT ![k] = r]) /\ Known([list EXCEPT ![k] = r], n)
           /\ IdsOf([list EXCEPT ![k] = r]) = IdsOf(list) /\ r.id \in IdsOf(list)
           /\ Len([list EXCEPT ![k] = r]) = Len(list)
           /\ \A i \in 1 .. Len(list) : i # k => Texts([list EXCEPT ![k] = r])[i] = Texts(list)[i]
           /\ Rest([list EXCEPT ![k] = r], r.id) = Rest(list, r.id)
  <1> DEFINE new == [list EXCEPT ![k] = r]
             N == Len(list)
  <1>1. list \in Seq(Rule) /\ N \in Nat /\ DOMAIN list = 1 .. N
        /\ \A i \in 1 .. N : list[i] \in Rule /\ list[i].number = i
    BY DEF GoodList, InOrder
  <1>2. DOMAIN new = 1 .. N /\ new = [i \in 1 .. N |-> new[i]]
        /\ \A i \in 1 .. N : new[i] = IF i = k THEN r ELSE list[i]
    BY <1>1
  <1> HIDE DEF new, N
  <1>3. \A i \in 1 .. N : new[i] \in Rule /\ new[i].number = i /\ new[i].id = list[i].id
    BY <1>1, <1>2 DEF N
  <1>4. GoodList(new) /\ Len(new) = N
    BY <1>1, <1>2, <1>3, GoodByPlace
  <1>5. Known(new, n) /\ IdsOf(new) = IdsOf(list) /\ r.id \in IdsOf(list)
    <2>1. Known(new, n)
      BY <1>1, <1>2, <1>3 DEF Known, OnceEach
    <2>2. IdsOf(new) = {new[i].id : i \in 1 .. N} /\ IdsOf(list) = {list[i].id : i \in 1 .. N}
      BY <1>1, <1>2 DEF IdsOf
    <2>3. QED
      BY <1>3, <2>1, <2>2 DEF N
  <1>6. /\ Texts(list) \in Seq(Text) /\ Texts(new) \in Seq(Text)
        /\ Len(Texts(list)) = N /\ Len(Texts(new)) = N
        /\ \A i \in 1 .. N : Texts(list)[i] = TextOf(list[i]) /\ Texts(new)[i] = TextOf(new[i])
        /\ \A i \in 1 .. N : Texts(list)[i].id = list[i].id /\ Texts(new)[i].id = new[i].id
    BY <1>1, <1>4, TextsType DEF GoodList, N
  <1>7. ASSUME NEW i \in 1 .. N, i # k PROVE Texts(new)[i] = Texts(list)[i]
    BY <1>2, <1>6, <1>7
  <1>8. Rest(new, r.id) = Rest(list, r.id)
    <2> DEFINE s == Texts(list)
               u == Texts(new)
               t == RemoveAt(s, k)
               id == r.id
               P == {i \in 1 .. Len(s) : s[i].id # id}
               P2 == {i \in 1 .. Len(u) : u[i].id # id}
               Q == {i \in 1 .. Len(t) : t[i].id # id}
    <2>1. k \in 1 .. Len(s) /\ s \in Seq(Text) /\ u \in Seq(Text) /\ Len(s) = N /\ Len(u) = N /\ k \in 1 .. Len(u)
      BY <1>6 DEF N
    <2>2. k \notin P /\ k \notin P2
      BY <1>3, <1>6, <2>1
    <2>3. \A i \in 1 .. N : i # k => u[i] = s[i]
      BY <1>7
    <2> HIDE DEF s, u
    <2>4. t \in Seq(Text) /\ Len(t) = Len(s) - 1
          /\ \A i \in 1 .. Len(s) - 1 : t[i] = IF i < k THEN s[i] ELSE s[i + 1]
      BY <2>1, Removed
    <2> HIDE DEF t
    <2>5. \A i \in 1 .. Len(t) : /\ (IF i < k THEN i ELSE i + 1) \in 1 .. N
                                 /\ (IF i < k THEN i ELSE i + 1) # k
                                 /\ t[i] = s[IF i < k THEN i ELSE i + 1]
      BY <1>1, <2>1, <2>4
    <2>6. IsWithout(t, s, k) /\ IsWithout(t, u, k)
      BY <1>1, <2>1, <2>3, <2>4, <2>5 DEF IsWithout
    <2>7. /\ \A i \in 1 .. Len(t) : i \in Q <=> (IF i < k THEN i ELSE i + 1) \in P
          /\ \A i \in 1 .. Len(t) : i \in Q <=> (IF i < k THEN i ELSE i + 1) \in P2
      BY <2>1, <2>3, <2>5
    <2> HIDE DEF P, P2, Q, id
    <2>8. Kept(t, Q) = Kept(s, P) /\ Kept(t, Q) = Kept(u, P2)
      BY <2>1, <2>2, <2>4, <2>6, <2>7, KeptWithout
    <2>9. Rest(new, id) = OthersOf(u, id) /\ Rest(list, id) = OthersOf(s, id)
      BY <1>1, <1>4, OthersText DEF GoodList, u, s
    <2>10. QED
      BY <2>8, <2>9 DEF OthersOf, P, P2, id
  <1>9. QED
    BY <1>4, <1>5, <1>7, <1>8 DEF new, N

-----------------------------------------------------------------------------
(* A list of rules stays one, whatever the numbers in it are. *)

(* Of some places one is the first. *)
LEMMA Smallest ==
    ASSUME NEW I \in SUBSET Nat, I # {}
    PROVE  Min(I) \in I
  <1>1. SUFFICES ASSUME \A m \in I : \E k \in I : ~(m <= k) PROVE FALSE
    BY DEF Min
  <1> DEFINE T == {n \in Nat : \A k \in 0 .. n : k \notin I}
  <1>2. 0 \in T
    <2>1. \A k \in 0 .. 0 : k = 0
      OBVIOUS
    <2>2. \A k \in I : 0 <= k
      OBVIOUS
    <2>3. 0 \notin I
      BY <1>1, <2>2
    <2>4. QED
      BY <2>1, <2>3
  <1>3. ASSUME NEW n \in Nat, n \in T PROVE n + 1 \in T
    <2>1. \A k \in I : n + 1 <= k
      BY <1>3
    <2>2. n + 1 \notin I
      BY <1>1, <2>1
    <2>3. \A k \in 0 .. n + 1 : k = n + 1 \/ k \in 0 .. n
      OBVIOUS
    <2>4. QED
      BY <1>3, <2>2, <2>3
  <1>4. Nat \subseteq T
    <2> HIDE DEF T
    <2>1. QED
      BY <1>2, <1>3, NatSets
  <1>5. PICK m \in I : TRUE
    OBVIOUS
  <1>6. m \in 0 .. m /\ m \in T
    BY <1>4
  <1>7. QED
    BY <1>5, <1>6

LEMMA FoundPlace ==
    ASSUME NEW list \in Seq(Rule), NEW n
    PROVE  Numbered(list, n) \in 0 .. Len(list) /\ (Len(list) > 0 => Found(list, n) \in 1 .. Len(list))
  <1> DEFINE I == {i \in 1 .. Len(list) : list[i].number = n}
  <1>1. Numbered(list, n) = IF I # {} THEN Min(I) ELSE 0
    BY DEF Numbered, SelectInSeq
  <1>2. I \in SUBSET Nat /\ I \subseteq 1 .. Len(list) /\ Len(list) \in Nat
    OBVIOUS
  <1> HIDE DEF I
  <1>3. I # {} => Min(I) \in I
    BY <1>2, Smallest
  <1>4. Numbered(list, n) \in 0 .. Len(list)
    <2>1. 0 \in 0 .. Len(list) /\ 1 .. Len(list) \subseteq 0 .. Len(list)
      BY <1>2
    <2>2. CASE I = {}
      BY <1>1, <2>1, <2>2
    <2>3. CASE I # {}
      <3>1. Numbered(list, n) = Min(I)
        BY <1>1, <2>3
      <3>2. Min(I) \in 1 .. Len(list)
        BY <1>2, <1>3, <2>3
      <3>3. QED
        BY <2>1, <3>1, <3>2
    <2>4. QED
      BY <2>2, <2>3
  <1>5. Len(list) > 0 => Len(list) \in 1 .. Len(list)
    BY <1>2
  <1>6. QED
    BY <1>2, <1>4, <1>5 DEF Found

(* A list with rules at the places of another. *)
LEMMA ByPlace ==
    ASSUME NEW list \in Seq(Rule), NEW new, DOMAIN new = DOMAIN list,
           new = [i \in DOMAIN list |-> new[i]], \A i \in DOMAIN list : new[i] \in Rule
    PROVE  new \in Seq(Rule) /\ Len(new) = Len(list)
  <1>1. DOMAIN list = 1 .. Len(list) /\ Len(list) \in Nat
    OBVIOUS
  <1>2. QED
    BY <1>1

LEMMA WrittenType ==
    ASSUME NEW list \in Seq(Rule), NEW r \in Rule
    PROVE  Written(list, r) \in Seq(Rule) /\ Len(Written(list, r)) = Len(list)
  <1> DEFINE new == Written(list, r)
  <1>1. /\ DOMAIN new = DOMAIN list /\ new = [i \in DOMAIN list |-> new[i]]
        /\ \A i \in DOMAIN list : new[i] = r \/ new[i] = list[i]
    BY DEF Written
  <1>2. \A i \in DOMAIN list : list[i] \in Rule
    OBVIOUS
  <1> HIDE DEF new
  <1>3. new \in Seq(Rule) /\ Len(new) = Len(list)
    BY <1>1, <1>2, ByPlace
  <1>4. QED
    BY <1>3 DEF new

LEMMA FilterType ==
    ASSUME NEW list \in Seq(Rule), NEW f
    PROVE  UpdateFilter(list, f) \in Seq(Rule)
  <1> DEFINE new == UpdateFilter(list, f)
  <1>1. /\ DOMAIN new = DOMAIN list /\ new = [i \in DOMAIN list |-> new[i]]
        /\ \A i \in DOMAIN list : new[i] = [list[i] EXCEPT !.filtered = ~MatchFilter(list[i], f)]
    BY DEF UpdateFilter
  <1> HIDE DEF new
  <1>2. ASSUME NEW i \in DOMAIN list PROVE new[i] \in Rule
    <2> DEFINE b == ~MatchFilter(list[i], f)
    <2>1. list[i] \in Rule /\ new[i] = [list[i] EXCEPT !.filtered = b] /\ b \in BOOLEAN
      BY <1>1
    <2> HIDE DEF b
    <2>2. QED
      BY <2>1, FilteredOnly
  <1>3. new \in Seq(Rule)
    BY <1>1, <1>2, ByPlace
  <1>4. QED
    BY <1>3 DEF new

LEMMA NumbersType ==
    ASSUME NEW list \in Seq(Rule), NEW place \in Int, NEW increase \in BOOLEAN
    PROVE  /\ UpdateNumbers(list, place, increase) \in Seq(Rule)
           /\ Len(UpdateNumbers(list, place, increase)) = Len(list)
  <1> DEFINE new == UpdateNumbers(list, place, increase)
             C(i) == {j \in DOMAIN list : /\ list[j].id = list[i].id
                                         /\ IF increase THEN j > place ELSE j >= place}
             m(i) == IF increase THEN list[i].number + Cardinality(C(i))
                     ELSE IF list[i].number > Cardinality(C(i))
                       THEN list[i].number - Cardinality(C(i)) ELSE 0
  <1>1. /\ DOMAIN new = DOMAIN list /\ new = [i \in DOMAIN list |-> new[i]]
        /\ \A i \in DOMAIN list : new[i] = [list[i] EXCEPT !.number = m(i)]
    BY DEF UpdateNumbers
  <1> HIDE DEF new
  <1>2. IsFiniteSet(DOMAIN list)
    <2>1. DOMAIN list = 1 .. Len(list) /\ 1 \in Int /\ Len(list) \in Int
      OBVIOUS
    <2>2. QED
      BY <2>1, FS_Interval
  <1>3. ASSUME NEW i \in DOMAIN list PROVE new[i] \in Rule
    <2>1. list[i] \in Rule
      OBVIOUS
    <2>2. list[i].number \in Nat
      BY <2>1 DEF Rule
    <2>3. C(i) \subseteq DOMAIN list
      OBVIOUS
    <2>4. Cardinality(C(i)) \in Nat
      <3> DEFINE D == C(i)
      <3> HIDE DEF D
      <3>1. IsFiniteSet(D)
        BY <1>2, <2>3, FS_Subset DEF D
      <3>2. Cardinality(D) \in Nat
        BY <3>1, FS_CardinalityType
      <3>3. QED
        BY <3>2 DEF D
    <2> DEFINE c == Cardinality(C(i))
    <2>5. m(i) = IF increase THEN list[i].number + c ELSE IF list[i].number > c THEN list[i].number - c ELSE 0
      OBVIOUS
    <2>6. c \in Nat
      BY <2>4
    <2>7. new[i] = [list[i] EXCEPT !.number = m(i)]
      BY <1>1
    <2> DEFINE n == m(i)
    <2> HIDE DEF c
    <2>8. n \in Nat
      BY <2>2, <2>5, <2>6
    <2>9. new[i] = [list[i] EXCEPT !.number = n]
      BY <2>7
    <2> HIDE DEF n
    <2>10. QED
      BY <2>1, <2>8, <2>9, NumberOnly
  <1>4. new \in Seq(Rule) /\ Len(new) = Len(list)
    <2> HIDE DEF m
    <2>1. QED
      BY <1>1, <1>3, ByPlace
  <1>5. QED
    BY <1>4 DEF new

LEMMA InsertType ==
    ASSUME NEW list \in Seq(Rule), NEW wanted \in Nat, wanted > 0, NEW rule \in Rule
    PROVE  InsertList(list, wanted, rule) \in Seq(Rule) /\ Len(InsertList(list, wanted, rule)) > 0
  <1> DEFINE place == IF list = << >> THEN 1 ELSE IF wanted > Len(list) THEN Len(list) + 1 ELSE wanted
             held  == Written(list, rule)
             after == Numbered(held, place - 1)
             above(i) == place - (IF i = 1 THEN 0 ELSE 1)
             put(i) == UpdateNumbers(InsertAt(held, i, rule), above(i), TRUE)
             settled(i) == Written(put(i), [put(i)[i] EXCEPT !.number = place])
  <1>1. place \in Nat /\ Len(list) \in Nat /\ (place # 1 => Len(list) > 0)
    OBVIOUS
  <1>2. held \in Seq(Rule) /\ Len(held) = Len(list)
    BY WrittenType
  <1>3. InsertList(list, wanted, rule) =
          IF place = 1 THEN settled(1) ELSE IF after # 0 THEN settled(after + 1) ELSE held
    BY DEF InsertList
  <1> HIDE DEF place, held
  <1>4. after \in 0 .. Len(held)
    BY <1>2, FoundPlace
  <1>5. ASSUME NEW i \in 1 .. Len(held) + 1 PROVE settled(i) \in Seq(Rule) /\ Len(settled(i)) > 0
    <2> DEFINE s == InsertAt(held, i, rule)
               t == UpdateNumbers(s, above(i), TRUE)
               q == [t[i] EXCEPT !.number = place]
    <2>1. s \in Seq(Rule) /\ Len(s) = Len(held) + 1
      BY <1>2, Inserted
    <2>2. above(i) \in Int /\ TRUE \in BOOLEAN
      BY <1>1
    <2>3. settled(i) = Written(t, q)
      OBVIOUS
    <2> HIDE DEF s, above, settled
    <2>4. t \in Seq(Rule) /\ Len(t) = Len(s)
      BY <2>1, <2>2, NumbersType
    <2> HIDE DEF t
    <2>5. t[i] \in Rule
      BY <1>2, <2>1, <2>4
    <2>6. q \in Rule
      BY <1>1, <2>5, NumberOnly
    <2> HIDE DEF q
    <2>7. Written(t, q) \in Seq(Rule) /\ Len(Written(t, q)) = Len(t)
      BY <2>4, <2>6, WrittenType
    <2>8. Len(t) > 0
      BY <1>1, <1>2, <2>1, <2>4
    <2>9. QED
      BY <2>3, <2>7, <2>8
  <1> HIDE DEF settled, after
  <1>6. 1 \in 1 .. Len(held) + 1 /\ (after # 0 => after + 1 \in 1 .. Len(held) + 1)
    BY <1>2, <1>4
  <1>7. QED
    BY <1>1, <1>2, <1>3, <1>5, <1>6

LEMMA RemoveType ==
    ASSUME NEW list \in Seq(Rule), NEW n \in Int
    PROVE  RemoveFromList(list, n) \in Seq(Rule)
  <1> DEFINE i == Numbered(list, n)
             rest == RemoveAt(list, i)
  <1>1. RemoveFromList(list, n) =
          IF i = 0 THEN list ELSE IF i = Len(list) THEN Front(list) ELSE UpdateNumbers(rest, n, FALSE)
    BY DEF RemoveFromList
  <1>2. i \in 0 .. Len(list) /\ Len(list) \in Nat
    BY FoundPlace
  <1> HIDE DEF i
  <1>3. Front(list) \in Seq(Rule)
    BY DEF Front
  <1>4. i # 0 => rest \in Seq(Rule)
    BY <1>2, Removed
  <1> HIDE DEF rest
  <1>5. i # 0 => UpdateNumbers(rest, n, FALSE) \in Seq(Rule)
    <2>1. FALSE \in BOOLEAN
      OBVIOUS
    <2>2. QED
      BY <1>4, <2>1, NumbersType
  <1>6. QED
    BY <1>1, <1>3, <1>5

LEMMA MoveType ==
    ASSUME NEW list \in Seq(Rule), Len(list) > 0, NEW n \in Int, NEW wanted \in Int
    PROVE  MoveRule(list, n, wanted) \in Seq(Rule)
  <1> DEFINE place == IF wanted > Len(list) THEN Len(list) ELSE IF wanted < 1 THEN 1 ELSE wanted
             k == Found(list, n)
             rule == [list[k] EXCEPT !.number = place]
             rest == RemoveFromList(list, n)
  <1>1. MoveRule(list, n, wanted) = InsertList(rest, place, rule)
    BY DEF MoveRule
  <1>2. place \in Nat /\ place > 0
    OBVIOUS
  <1> HIDE DEF place
  <1>3. list[k] \in Rule
    <2>1. k \in 1 .. Len(list)
      BY FoundPlace
    <2> HIDE DEF k
    <2>2. QED
      BY <2>1
  <1> HIDE DEF k
  <1>4. rule \in Rule
    BY <1>2, <1>3, NumberOnly
  <1>5. rest \in Seq(Rule)
    BY RemoveType
  <1> HIDE DEF rule, rest
  <1>6. QED
    BY <1>1, <1>2, <1>4, <1>5, InsertType

-----------------------------------------------------------------------------
(* The screen: a key finds the rule under the cursor by its number, and    *)
(* the forms give a rule back with the number and the id it had.           *)

(* The rules that are shown and those that are not are all there are.      *)
LEMMA Shown ==
    ASSUME rules \in Seq(Rule), NEW i \in DOMAIN rules
    PROVE  NumberShown(i) = i
  <1> DEFINE A == {j \in 1 .. i : ~rules[j].filtered}
             B == {j \in 1 .. i : rules[j].filtered}
  <1>1. i \in Nat /\ i > 0
    OBVIOUS
  <1>2. IsFiniteSet(1 .. i) /\ Cardinality(1 .. i) = i
    BY <1>1, FS_Interval
  <1>3. A \cup B = 1 .. i /\ A \cap B = {} /\ A \subseteq 1 .. i /\ B \subseteq 1 .. i
    OBVIOUS
  <1>4. NumberShown(i) = Cardinality(A) + Cardinality(B)
    BY DEF NumberShown
  <1> HIDE DEF A, B
  <1>5. IsFiniteSet(A) /\ IsFiniteSet(B)
    BY <1>2, <1>3, FS_Subset
  <1>6. Cardinality(A \cup B) = Cardinality(A) + Cardinality(B) - Cardinality(A \cap B)
    BY <1>5, FS_Union
  <1>7. Cardinality(A \cap B) = 0
    BY <1>3, FS_EmptySet
  <1>8. Cardinality(A) \in Nat /\ Cardinality(B) \in Nat
    BY <1>5, FS_CardinalityType
  <1>9. Cardinality(A \cup B) = i
    BY <1>2, <1>3
  <1>10. QED
    BY <1>1, <1>4, <1>6, <1>7, <1>8, <1>9

LEMMA GivenOptions ==
    ASSUME NEW r \in Rule, NEW o \in Options
    PROVE  /\ WithOptions(r, o) \in Rule
           /\ WithOptions(r, o).id = r.id /\ WithOptions(r, o).number = r.number
  <1>1. [o EXCEPT !.given = TRUE] \in Options
    BY DEF Options
  <1> DEFINE p == [o EXCEPT !.given = TRUE]
  <1> HIDE DEF p
  <1>2. p \in Options
    BY <1>1 DEF p
  <1>3. [r EXCEPT !.opt = p] \in Rule /\ [r EXCEPT !.opt = p].id = r.id /\ [r EXCEPT !.opt = p].number = r.number
    BY <1>2 DEF Rule
  <1>4. QED
    BY <1>3 DEF WithOptions, p

(* One option is changed. *)
LEMMA OneOption ==
    ASSUME NEW o \in Options
    PROVE  /\ \A b \in BOOLEAN : [o EXCEPT !.log = b] \in Options
           /\ \A p \in {"plain", "quote"} : [o EXCEPT !.logprefix = p] \in Options
           /\ \A n \in 0 .. 1 : [o EXCEPT !.limit = n] \in Options
           /\ [o EXCEPT !.burst = 1] \in Options
           /\ [o EXCEPT !.redirectport = 80] \in Options
           /\ \A c \in {NoText, "note"} : [o EXCEPT !.comment = c] \in Options
  BY DEF Options

(* The rules the forms give back. *)
FromForm(r, rule) == r \in Rule /\ r.id = rule.id /\ r.number = rule.number

LEMMA Fielded ==
    ASSUME NEW rule \in Rule
    PROVE  \A r \in FieldsToRule(rule) \cup SepruleFieldsToRule(rule) : FromForm(r, rule)
  <1> DEFINE o == rule.opt
  <1>1. o \in Options
    BY DEF Rule
  <1>2. \A a \in Actions \ {Separator} : FromForm([rule EXCEPT !.action = a], rule)
    BY DEF Rule, FromForm
  <1>3. \A f \in {Input, Output} : FromForm([rule EXCEPT !.fields = f], rule)
    BY DEF Rule, FromForm, Fields
  <1> HIDE DEF o
  <1>4. \A p \in Options : FromForm(WithOptions(rule, p), rule)
    BY GivenOptions DEF FromForm
  <1>5. /\ \A b \in BOOLEAN : [o EXCEPT !.log = b] \in Options
        /\ \A p \in {"plain", "quote"} : [o EXCEPT !.logprefix = p] \in Options
        /\ \A n \in 0 .. 1 : [o EXCEPT !.limit = n] \in Options
        /\ [o EXCEPT !.burst = 1] \in Options
        /\ [o EXCEPT !.redirectport = 80] \in Options
        /\ \A c \in {NoText, "note"} : [o EXCEPT !.comment = c] \in Options
    BY <1>1, OneOption
  <1>6. \A b \in BOOLEAN : FromForm(WithOptions(rule, [o EXCEPT !.log = b]), rule)
    BY <1>4, <1>5
  <1>7. \A p \in {"plain", "quote"} : FromForm(WithOptions(rule, [o EXCEPT !.logprefix = p]), rule)
    BY <1>4, <1>5
  <1>8. \A n \in 0 .. 1 : FromForm(WithOptions(rule, [o EXCEPT !.limit = n]), rule)
    BY <1>4, <1>5
  <1>9. /\ FromForm(WithOptions(rule, [o EXCEPT !.burst = 1]), rule)
        /\ FromForm(WithOptions(rule, [o EXCEPT !.redirectport = 80]), rule)
    BY <1>4, <1>5
  <1>10. \A c \in {NoText, "note"} : FromForm(WithOptions(rule, [o EXCEPT !.comment = c]), rule)
    BY <1>4, <1>5
  <1>11. ASSUME NEW r \in FieldsToRule(rule) PROVE FromForm(r, rule)
    <2>1. \/ \E a \in Actions \ {Separator} : r = [rule EXCEPT !.action = a]
          \/ \E f \in {Input, Output} : r = [rule EXCEPT !.fields = f]
          \/ \E b \in BOOLEAN : r = WithOptions(rule, [o EXCEPT !.log = b])
          \/ \E p \in {"plain", "quote"} : r = WithOptions(rule, [o EXCEPT !.logprefix = p])
          \/ \E n \in 0 .. 1 : r = WithOptions(rule, [o EXCEPT !.limit = n])
          \/ r = WithOptions(rule, [o EXCEPT !.burst = 1])
          \/ r = WithOptions(rule, [o EXCEPT !.redirectport = 80])
      BY DEF FieldsToRule, o
    <2>2. QED
      BY <1>2, <1>3, <1>6, <1>7, <1>8, <1>9, <2>1
  <1>12. ASSUME NEW r \in SepruleFieldsToRule(rule) PROVE FromForm(r, rule)
    <2>1. \E c \in {NoText, "note"} : r = WithOptions(rule, [o EXCEPT !.comment = c])
      BY DEF SepruleFieldsToRule, o
    <2>2. QED
      BY <1>10, <2>1
  <1>13. QED
    BY <1>11, <1>12

LEMMA Edited ==
    ASSUME NEW rule \in Rule
    PROVE  \A r \in EditedRules(rule) \cup {NotEdited(rule)} \cup RejectedRules(rule) : FromForm(r, rule)
  <1>1. FromForm(rule, rule)
    BY DEF FromForm
  <1>2. EditedRules(rule) \cup RejectedRules(rule)
          \subseteq FieldsToRule(rule) \cup SepruleFieldsToRule(rule) \cup {rule}
    BY DEF EditedRules, RejectedRules
  <1>3. QED
    BY <1>1, <1>2, Fielded DEF NotEdited

LEMMA NewType ==
    ASSUME nextId \in Nat, NEW a \in Actions
    PROVE  NewRule(a) \in Rule /\ NewRule(a).id = nextId
  <1> DEFINE none == NoOptions
             q == [none EXCEPT !.log = NewRuleLog]
             o == [q EXCEPT !.given = NewRuleLog]
  <1>1. none \in Options /\ NewRuleLog \in BOOLEAN
    BY NothingGiven, RulesEditorAssumption
  <1> HIDE DEF none
  <1>a. q \in Options
    BY <1>1 DEF Options
  <1> HIDE DEF q
  <1>b. o \in Options
    BY <1>1, <1>a DEF Options
  <1> HIDE DEF o
  <1>2. NewRule(a) = [id |-> nextId, number |-> 0, active |-> TRUE, action |-> a, fields |-> Blank,
                      opt |-> o, filtered |-> FALSE]
    BY DEF NewRule, o, q, none
  <1>3. QED
    BY <1>b, <1>2 DEF Rule

(* A rule is moved: it is taken out and put in again. *)
LEMMA Moved ==
    ASSUME NEW list, GoodList(list), NEW i \in 1 .. Len(list), NEW wanted \in Int,
           NEW n \in Nat, Known(list, n)
    PROVE  /\ GoodList(MoveRule(list, i, wanted)) /\ Known(MoveRule(list, i, wanted), n)
           /\ list[i].id \in IdsOf(MoveRule(list, i, wanted))
           /\ Rest(list, list[i].id) = Rest(MoveRule(list, i, wanted), list[i].id)
  <1> DEFINE place == IF wanted > Len(list) THEN Len(list) ELSE IF wanted < 1 THEN 1 ELSE wanted
             rest == RemoveFromList(list, i)
             id == list[i].id
             rule == [list[i] EXCEPT !.number = place]
             new == InsertList(rest, place, rule)
             k == IF place > Len(rest) THEN Len(rest) + 1 ELSE place
  <1>1. list \in Seq(Rule) /\ Len(list) \in Nat /\ DOMAIN list = 1 .. Len(list) /\ list[i] \in Rule
    BY DEF GoodList
  <1>2. place \in Nat /\ place > 0
    BY <1>1
  <1>3. Numbered(list, i) = i /\ i # 0
    BY NumberedLemma
  <1>4. MoveRule(list, i, wanted) = new
    BY <1>3 DEF MoveRule, Found
  <1> HIDE DEF place
  <1>5. rule \in Rule /\ rule.id = id
    <2> DEFINE r == list[i]
    <2>1. r \in Rule
      BY <1>1
    <2> HIDE DEF r
    <2>2. [r EXCEPT !.number = place] \in Rule /\ [r EXCEPT !.number = place].id = r.id
      BY <1>2, <2>1, NumberOnly
    <2>3. QED
      BY <2>2 DEF r
  <1>6. id \in Nat /\ id > 0 /\ id < n
    BY <1>1 DEF Known, Rule
  <1>7. Removes(rest, list, i)
    BY RemoveLemma DEF Known
  <1> HIDE DEF rest
  <1>8. GoodList(rest) /\ Known(rest, n) /\ id \notin IdsOf(rest) /\ Rest(list, id) = Rest(rest, id)
    BY <1>7, TakenOut
  <1> HIDE DEF rule, id, k
  <1>9. Adds(new, rest, k, id)
    BY <1>2, <1>5, <1>8, InsertLemma DEF k, Known
  <1> HIDE DEF new
  <1>10. GoodList(new) /\ Known(new, n) /\ id \in IdsOf(new) /\ Rest(rest, id) = Rest(new, id)
    <2>1. n <= n
      OBVIOUS
    <2>2. /\ GoodList(rest) /\ Adds(new, rest, k, id) /\ Known(rest, n) /\ id \in Nat /\ n \in Nat
          /\ id > 0 /\ id < n /\ id \notin IdsOf(rest)
      BY <1>6, <1>8, <1>9
    <2>3. QED
      BY <2>1, <2>2, Added
  <1>11. QED
    BY <1>4, <1>8, <1>10 DEF id

-----------------------------------------------------------------------------
(* The keys.                                                               *)

(* What OnlyTheRuleUnderTheCursor says of a step. *)
CursorStep ==
    screen = "rules" /\ screen' = "rules" /\ ~doubled' =>
      /\ Rest(rules, last'.id) = Rest(rules', last'.id)
      /\ last'.op \in {"delete", "reject"} => last'.id \notin IdsOf(rules')
      /\ last'.op \in {"toggle", "edit", "insert", "copy", "move"} => last'.id \in IdsOf(rules')

Good == IInv' /\ CursorStep

LEMMA Typed ==
    ASSUME IInv
    PROVE  /\ rules \in Seq(Rule) /\ DOMAIN rules = 1 .. Len(rules) /\ Len(rules) \in Nat
           /\ nextId \in Nat /\ nextId > 0 /\ show \in Directions /\ changed \in BOOLEAN
           /\ \A i \in DOMAIN rules :
                NumberShown(i) = i /\ i \in Nat /\ i > 0 /\ rules[i] \in Rule /\ rules[i].id \in Nat
  <1>1. /\ rules \in Seq(Rule) /\ DOMAIN rules = 1 .. Len(rules) /\ Len(rules) \in Nat
        /\ nextId \in Nat /\ nextId > 0 /\ show \in Directions /\ changed \in BOOLEAN
    BY DEF IInv, TypeOK
  <1>2. ASSUME NEW i \in DOMAIN rules
        PROVE  NumberShown(i) = i /\ i \in Nat /\ i > 0 /\ rules[i] \in Rule /\ rules[i].id \in Nat
    <2>1. NumberShown(i) = i
      BY <1>1, Shown
    <2>2. rules[i] \in Rule /\ i \in Nat /\ i > 0
      BY <1>1
    <2>3. rules[i].id \in Nat
      BY <2>2 DEF Rule
    <2>4. QED
      BY <2>1, <2>2, <2>3
  <1>3. QED
    BY <1>1, <1>2

LEMMA Base ==
    ASSUME IInv, ~doubled
    PROVE  /\ GoodList(rules) /\ rules \in Seq(Rule) /\ DOMAIN rules = 1 .. Len(rules) /\ Len(rules) \in Nat
           /\ nextId \in Nat /\ nextId > 0 /\ Known(rules, nextId) /\ nextId \notin IdsOf(rules)
           /\ show \in Directions /\ changed \in BOOLEAN
           /\ \A i \in DOMAIN rules :
                /\ NumberShown(i) = i /\ Numbered(rules, i) = i /\ Found(rules, i) = i
                /\ rules[i] \in Rule /\ rules[i].number = i
                /\ rules[i].id \in Nat /\ rules[i].id \in IdsOf(rules)
  <1>1. GoodList(rules) /\ rules \in Seq(Rule) /\ DOMAIN rules = 1 .. Len(rules) /\ Len(rules) \in Nat
    BY DEF IInv, TypeOK, GoodList
  <1>2. nextId \in Nat /\ nextId > 0 /\ Known(rules, nextId) /\ show \in Directions /\ changed \in BOOLEAN
    BY DEF IInv, TypeOK
  <1>3. ASSUME NEW i \in DOMAIN rules
        PROVE  /\ NumberShown(i) = i /\ Numbered(rules, i) = i /\ Found(rules, i) = i
               /\ rules[i] \in Rule /\ rules[i].number = i
               /\ rules[i].id \in Nat /\ rules[i].id \in IdsOf(rules)
    <2>1. NumberShown(i) = i
      BY <1>1, Shown
    <2>2. i \in 1 .. Len(rules) /\ i \in Int
      BY <1>1
    <2>3. Numbered(rules, i) = i
      BY <1>1, <2>2, NumberedLemma
    <2>8. Found(rules, i) = i
      BY <2>2, <2>3 DEF Found
    <2>4. rules[i] \in Rule /\ rules[i].number = i
      BY <1>1 DEF GoodList, InOrder
    <2>5. rules[i].id \in Nat
      BY <2>4 DEF Rule
    <2>6. rules[i].id \in IdsOf(rules)
      BY DEF IdsOf
    <2>7. QED
      BY <2>1, <2>3, <2>4, <2>5, <2>6, <2>8
  <1>4. nextId \notin IdsOf(rules)
    <2>1. ASSUME NEW i \in DOMAIN rules, rules[i].id = nextId PROVE FALSE
      BY <1>2, <2>1 DEF Known
    <2>2. QED
      BY <2>1 DEF IdsOf
  <1>5. QED
    BY <1>1, <1>2, <1>3, <1>4

(* What a key leaves is of the right type. *)
LEMMA KeyTyped ==
    ASSUME IInv, NEW list \in Seq(Rule), NEW op \in Ops \ {"saved", "reload"}, NEW id \in Nat,
           Key(list, op, id), show' \in Directions, changed' \in BOOLEAN,
           nextId' \in Nat, nextId' > 0
    PROVE  TypeOK' /\ SavedInv' /\ ReloadSeesEveryChange'
  <1>1. /\ rules' = list /\ ops' = ops + 1 /\ last' = [op |-> op, id |-> id]
        /\ saved' = saved /\ screen' = screen /\ daemon' = daemon
    BY DEF Key
  <1>2. last'.op = op /\ last'.id = id /\ last' \in [op : Ops, id : Nat]
    BY <1>1
  <1>3. doubled' \in BOOLEAN
    BY DEF Key
  <1>4. ops' \in Nat
    BY <1>1 DEF IInv, TypeOK
  <1>5. TypeOK'
    BY <1>1, <1>2, <1>3, <1>4 DEF IInv, TypeOK
  <1>6. SavedInv' /\ ReloadSeesEveryChange'
    BY <1>2 DEF SavedInv, ReloadSeesEveryChange, Ops
  <1>7. QED
    BY <1>5, <1>6

(* A key whose list is in order, has rules that are known, and the text of *)
(* the others.                                                             *)
LEMMA KeyStep ==
    ASSUME IInv, ~doubled, NEW list, GoodList(list), NEW op \in Ops \ {"saved", "reload", "double"}, NEW id \in Nat,
           Key(list, op, id), show' \in Directions, changed' \in BOOLEAN,
           nextId' \in Nat, nextId' > 0, Known(list, nextId'), Rest(rules, id) = Rest(list, id),
           op \in {"delete", "reject"} => id \notin IdsOf(list),
           op \in {"toggle", "edit", "insert", "copy", "move"} => id \in IdsOf(list)
    PROVE  Good
  <1>1. rules' = list /\ last' = [op |-> op, id |-> id] /\ screen' = screen
    BY DEF Key
  <1>2. last'.op = op /\ last'.id = id
    BY <1>1
  <1>3. TypeOK' /\ SavedInv' /\ ReloadSeesEveryChange'
    BY KeyTyped DEF GoodList
  <1>4. InOrder(rules') /\ Known(rules', nextId')
    BY <1>1 DEF GoodList
  <1>5. IInv'
    BY <1>3, <1>4 DEF IInv
  <1>6. CursorStep
    BY <1>1, <1>2 DEF CursorStep
  <1>7. QED
    BY <1>5, <1>6 DEF Good

(* The list is filtered afterwards. *)
LEMMA FilteredAfter ==
    ASSUME NEW list, GoodList(list), NEW n, Known(list, n), NEW id, NEW f
    PROVE  /\ GoodList(UpdateFilter(list, f)) /\ Known(UpdateFilter(list, f), n)
           /\ IdsOf(UpdateFilter(list, f)) = IdsOf(list)
           /\ Rest(UpdateFilter(list, f), id) = Rest(list, id)
  <1> DEFINE new == UpdateFilter(list, f)
  <1>1. GoodList(new) /\ Texts(list) = Texts(new)
    BY FilterLemma
  <1> HIDE DEF new
  <1>2. Known(new, n) /\ IdsOf(list) = IdsOf(new) /\ Rest(list, id) = Rest(new, id)
    BY <1>1, SameTexts
  <1>3. QED
    BY <1>1, <1>2 DEF new

LEMMA ChangingStep ==
    ASSUME IInv, ~doubled, NEW list, GoodList(list), NEW op \in Ops \ {"saved", "reload", "double"}, NEW id \in Nat,
           Changing(list, op, id), Known(list, nextId), Rest(rules, id) = Rest(list, id),
           op \in {"delete", "reject"} => id \notin IdsOf(list),
           op \in {"toggle", "edit", "insert", "copy", "move"} => id \in IdsOf(list)
    PROVE  Good
  <1> DEFINE new == UpdateFilter(list, show)
  <1>1. GoodList(new) /\ Known(new, nextId) /\ IdsOf(new) = IdsOf(list) /\ Rest(new, id) = Rest(list, id)
    BY FilteredAfter
  <1>2. Key(new, op, id) /\ changed' = TRUE /\ show' = show /\ nextId' = nextId
    BY DEF Changing
  <1> HIDE DEF new
  <1>3. show' \in Directions /\ changed' \in BOOLEAN /\ nextId' \in Nat /\ nextId' > 0
    BY <1>2, Base
  <1>4. /\ Known(new, nextId') /\ Rest(rules, id) = Rest(new, id)
        /\ op \in {"delete", "reject"} => id \notin IdsOf(new)
        /\ op \in {"toggle", "edit", "insert", "copy", "move"} => id \in IdsOf(new)
    BY <1>1, <1>2
  <1>5. QED
    BY <1>1, <1>2, <1>3, <1>4, KeyStep

LEMMA AddingStep ==
    ASSUME IInv, ~doubled, NEW list, GoodList(list), NEW op \in {"insert", "copy"},
           Adding(list, op), Known(list, nextId + 1), Rest(rules, nextId) = Rest(list, nextId),
           nextId \in IdsOf(list)
    PROVE  Good
  <1> DEFINE new == UpdateFilter(list, show)
             n == nextId + 1
  <1>1. Known(list, n)
    OBVIOUS
  <1>2. Key(new, op, nextId) /\ changed' = TRUE /\ show' = show /\ nextId' = n
    BY DEF Adding
  <1>3. nextId \in Nat /\ n \in Nat /\ n > 0 /\ show \in Directions
    BY Base
  <1> HIDE DEF n
  <1>4. GoodList(new) /\ Known(new, n) /\ IdsOf(new) = IdsOf(list) /\ Rest(new, nextId) = Rest(list, nextId)
    BY <1>1, FilteredAfter
  <1> HIDE DEF new
  <1>5. show' \in Directions /\ changed' \in BOOLEAN /\ nextId' \in Nat /\ nextId' > 0
    BY <1>2, <1>3
  <1>6. /\ Known(new, nextId') /\ Rest(rules, nextId) = Rest(new, nextId)
        /\ op \in {"delete", "reject"} => nextId \notin IdsOf(new)
        /\ op \in {"toggle", "edit", "insert", "copy", "move"} => nextId \in IdsOf(new)
        /\ op \in Ops \ {"saved", "reload", "double"}
    BY <1>2, <1>4 DEF Ops
  <1>7. QED
    BY <1>2, <1>3, <1>4, <1>5, <1>6, KeyStep

LEMMA ToggleLemma ==
    ASSUME IInv, ~doubled, NEW i \in DOMAIN rules, Toggle(i)
    PROVE  Good
  <1> DEFINE r == rules[i]
             q == [r EXCEPT !.active = ~r.active]
             new == [rules EXCEPT ![i] = q]
             id == r.id
             op == "toggle"
  <1>1. /\ GoodList(rules) /\ Known(rules, nextId) /\ i \in 1 .. Len(rules) /\ NumberShown(i) = i
        /\ r \in Rule /\ r.number = i /\ id \in Nat /\ id \in IdsOf(rules)
    BY Base
  <1>2. q \in Rule /\ q.id = id /\ q.number = i
    <2> HIDE DEF r
    <2>1. q \in Rule /\ q.id = r.id /\ q.number = r.number
      BY <1>1 DEF Rule
    <2>2. QED
      BY <1>1, <2>1
  <1>a. Written(rules, q) = new
    <2> HIDE DEF q
    <2>1. rules \in Seq(Rule) /\ OnceEach(rules) /\ q.id = rules[i].id
      BY <1>1, <1>2 DEF GoodList, Known
    <2>2. QED
      BY <1>1, <2>1, WrittenOnce
  <1>3. Key(new, op, id) /\ changed' = TRUE /\ show' = show /\ nextId' = nextId
    BY <1>1, <1>a DEF Toggle
  <1> HIDE DEF q
  <1>4. GoodList(new) /\ Known(new, nextId) /\ IdsOf(new) = IdsOf(rules) /\ Rest(new, q.id) = Rest(rules, q.id)
    BY <1>1, <1>2, Replaced
  <1> HIDE DEF new, r
  <1>5. show' \in Directions /\ changed' \in BOOLEAN /\ nextId' \in Nat /\ nextId' > 0
    BY <1>3, Base
  <1>6. Known(new, nextId') /\ Rest(rules, id) = Rest(new, id) /\ id \in IdsOf(new) /\ id \in Nat
    BY <1>1, <1>2, <1>3, <1>4
  <1>7. op \in Ops \ {"saved", "reload", "double"} /\ op \notin {"delete", "reject"}
    BY DEF Ops
  <1> HIDE DEF op, id
  <1>8. QED
    BY <1>3, <1>4, <1>5, <1>6, <1>7, KeyStep

(* The rule at a place is taken out. *)
LEMMA OutStep ==
    ASSUME IInv, ~doubled, NEW i \in DOMAIN rules, NEW op \in {"delete", "reject"}, Drop(i, op)
    PROVE  Good
  <1> DEFINE new == RemoveFromList(rules, i)
             id == rules[i].id
  <1>1. /\ GoodList(rules) /\ Known(rules, nextId) /\ i \in 1 .. Len(rules) /\ id \in Nat
        /\ NumberShown(i) = i /\ Found(rules, i) = i
    BY Base
  <1>2. Removes(new, rules, i)
    BY <1>1, RemoveLemma DEF Known
  <1> HIDE DEF new
  <1>3. GoodList(new) /\ Known(new, nextId) /\ id \notin IdsOf(new) /\ Rest(rules, id) = Rest(new, id)
    BY <1>1, <1>2, TakenOut
  <1>4. Changing(new, op, id)
    BY <1>1, <1>3 DEF Drop, new
  <1>5. op \in Ops \ {"saved", "reload", "double"} /\ op \notin {"toggle", "edit", "insert", "copy", "move"}
    BY DEF Ops
  <1> HIDE DEF id
  <1>6. QED
    BY <1>1, <1>3, <1>4, <1>5, ChangingStep

LEMMA DeleteLemma ==
    ASSUME IInv, ~doubled, NEW i \in DOMAIN rules, Delete(i)
    PROVE  Good
  <1> DEFINE op == "delete"
  <1>1. Drop(i, op) /\ op \in {"delete", "reject"}
    BY DEF Delete
  <1> HIDE DEF op
  <1>2. QED
    BY <1>1, OutStep

LEMMA EditLemma ==
    ASSUME IInv, ~doubled, NEW i \in DOMAIN rules, Edit(i)
    PROVE  Good
  <1>1. /\ GoodList(rules) /\ Known(rules, nextId) /\ i \in 1 .. Len(rules) /\ NumberShown(i) = i
        /\ Found(rules, i) = i /\ rules[i] \in Rule /\ rules[i].id \in Nat
    BY Base
  <1>2. \/ \E r \in EditedRules(rules[i]) : Changing(Written(rules, r), "edit", rules[i].id)
        \/ Drop(i, "reject")
    BY <1>1 DEF Edit
  <1>3. CASE \E r \in EditedRules(rules[i]) : Changing(Written(rules, r), "edit", rules[i].id)
    <2>1. PICK r \in EditedRules(rules[i]) : Changing(Written(rules, r), "edit", rules[i].id)
      BY <1>3
    <2>2. r \in Rule /\ r.id = rules[i].id /\ r.number = rules[i].number
      BY <1>1, Edited DEF FromForm
    <2> DEFINE new == [rules EXCEPT ![i] = r]
               op == "edit"
               id == rules[i].id
    <2>7. Written(rules, r) = new
      <3>1. rules \in Seq(Rule) /\ OnceEach(rules)
        BY <1>1 DEF GoodList, Known
      <3>2. QED
        BY <1>1, <2>2, <3>1, WrittenOnce
    <2>3. /\ GoodList(new) /\ Known(new, nextId) /\ IdsOf(new) = IdsOf(rules)
          /\ r.id \in IdsOf(rules) /\ Rest(new, r.id) = Rest(rules, r.id)
      BY <1>1, <2>2, Replaced
    <2>4. Changing(new, op, id) /\ op \in Ops \ {"saved", "reload", "double"} /\ op \notin {"delete", "reject"}
      BY <2>1, <2>7 DEF Ops
    <2> HIDE DEF new, op
    <2>5. Rest(rules, id) = Rest(new, id) /\ id \in IdsOf(new) /\ id \in Nat
      BY <1>1, <2>2, <2>3
    <2> HIDE DEF id
    <2>6. QED
      BY <2>3, <2>4, <2>5, ChangingStep
  <1>4. CASE Drop(i, "reject")
    <2> DEFINE op == "reject"
    <2>1. Drop(i, op) /\ op \in {"delete", "reject"}
      BY <1>4
    <2> HIDE DEF op
    <2>2. QED
      BY <2>1, OutStep
  <1>5. QED
    BY <1>2, <1>3, <1>4

(* A rule with the next id is put into the list. *)
LEMMA PutIn ==
    ASSUME IInv, ~doubled, NEW p \in Nat, p > 0, NEW rule \in Rule, rule.id = nextId
    PROVE  /\ GoodList(InsertList(rules, p, rule)) /\ Known(InsertList(rules, p, rule), nextId + 1)
           /\ Rest(rules, nextId) = Rest(InsertList(rules, p, rule), nextId)
           /\ nextId \in IdsOf(InsertList(rules, p, rule))
           /\ Adds(InsertList(rules, p, rule), rules, IF p > Len(rules) THEN Len(rules) + 1 ELSE p, nextId)
           /\ Len(InsertList(rules, p, rule)) = Len(rules) + 1
  <1> DEFINE new == InsertList(rules, p, rule)
             k == IF p > Len(rules) THEN Len(rules) + 1 ELSE p
             n == nextId + 1
  <1>1. GoodList(rules) /\ Known(rules, nextId) /\ nextId \in Nat /\ nextId > 0 /\ nextId \notin IdsOf(rules)
    BY Base
  <1>2. Adds(new, rules, k, nextId) /\ Len(new) = Len(rules) + 1
    BY <1>1, InsertLemma DEF Known
  <1>3. n \in Nat /\ nextId < n /\ nextId <= n
    BY <1>1
  <1> HIDE DEF new, k, n
  <1>4. GoodList(new) /\ Known(new, n) /\ nextId \in IdsOf(new) /\ Rest(rules, nextId) = Rest(new, nextId)
    BY <1>1, <1>2, <1>3, Added
  <1>5. QED
    BY <1>2, <1>4 DEF new, k, n

LEMMA Place ==
    ASSUME IInv, ~doubled, NEW i \in DOMAIN rules \cup {0}
    PROVE  /\ PlaceOfNew(i) \in 1 .. Len(rules) + 1 /\ PlaceOfNew(i) \in Nat /\ PlaceOfNew(i) > 0
           /\ (IF PlaceOfNew(i) > Len(rules) THEN Len(rules) + 1 ELSE PlaceOfNew(i)) = PlaceOfNew(i)
  <1>1. DOMAIN rules = 1 .. Len(rules) /\ Len(rules) \in Nat /\ \A j \in DOMAIN rules : NumberShown(j) = j
    BY Base
  <1>2. PlaceOfNew(i) = 1 \/ PlaceOfNew(i) \in 1 .. Len(rules)
    BY <1>1 DEF PlaceOfNew, Visible
  <1>3. QED
    BY <1>1, <1>2

LEMMA InsertSeparatorLemma ==
    ASSUME IInv, ~doubled, NEW i \in DOMAIN rules \cup {0}, InsertSeparator(i)
    PROVE  Good
  <1> DEFINE p == PlaceOfNew(i)
             rule == NewRule(Separator)
             new == InsertList(rules, p, rule)
             op == "insert"
  <1>1. p \in Nat /\ p > 0
    BY Place
  <1>2. rule \in Rule /\ rule.id = nextId
    <2>1. Separator \in Actions /\ nextId \in Nat
      BY Base DEF Actions
    <2>2. QED
      BY <2>1, NewType
  <1>3. Adding(new, op) /\ op \in {"insert", "copy"}
    BY DEF InsertSeparator
  <1> HIDE DEF p, rule, op
  <1>4. /\ GoodList(new) /\ Known(new, nextId + 1) /\ Rest(rules, nextId) = Rest(new, nextId)
        /\ nextId \in IdsOf(new)
    BY <1>1, <1>2, PutIn
  <1> HIDE DEF new
  <1>5. QED
    BY <1>3, <1>4, AddingStep

(* A list that had its new rule taken out again is the one there was.      *)
LEMMA OutAgain ==
    ASSUME NEW a, GoodList(a), NEW b, GoodList(b), NEW m, GoodList(m), NEW k \in 1 .. Len(b),
           IsWithout(Texts(a), Texts(b), k), IsWithout(Texts(m), Texts(b), k)
    PROVE  Texts(a) = Texts(m)
  <1> DEFINE t == Texts(a)
             u == Texts(m)
             s == Texts(b)
  <1>1. t \in Seq(Text) /\ u \in Seq(Text) /\ s \in Seq(Text)
    BY TextsType DEF GoodList
  <1>2. IsWithout(t, s, k) /\ IsWithout(u, s, k)
    OBVIOUS
  <1> HIDE DEF t, u, s
  <1>3. Len(t) = Len(u) /\ \A i \in 1 .. Len(t) : t[i] = u[i]
    BY <1>1, <1>2 DEF IsWithout
  <1>4. t = u
    BY <1>1, <1>3
  <1>5. QED
    BY <1>4 DEF t, u

LEMMA InsertRuleLemma ==
    ASSUME IInv, ~doubled, NEW i \in DOMAIN rules \cup {0}, Insert(i)
    PROVE  Good
  <1> DEFINE p == PlaceOfNew(i)
             drop == "Drop"
             rule == NewRule(drop)
             list == InsertList(rules, p, rule)
  <1>1. /\ p \in Nat /\ p > 0 /\ p \in 1 .. Len(rules) + 1
        /\ (IF p > Len(rules) THEN Len(rules) + 1 ELSE p) = p
    BY Place
  <1>2. rule \in Rule /\ rule.id = nextId
    <2>1. drop \in Actions /\ nextId \in Nat
      BY Base DEF Actions
    <2> HIDE DEF drop
    <2>2. QED
      BY <2>1, NewType
  <1>3. \/ \E r \in EditedRules(list[Found(list, p)]) \cup {NotEdited(list[Found(list, p)])} :
               Adding(Written(list, r), "insert")
        \/ \E r \in RejectedRules(list[Found(list, p)]) :
              /\ Key(RemoveFromList(Written(list, r), p), "reject", nextId)
              /\ nextId' = IF nextId \in IdsOf(rules') THEN nextId + 1 ELSE nextId
              /\ UNCHANGED <<show, changed>>
    BY DEF Insert
  <1> HIDE DEF p, rule
  <1>4. /\ GoodList(list) /\ Known(list, nextId + 1) /\ Rest(rules, nextId) = Rest(list, nextId)
        /\ nextId \in IdsOf(list) /\ Len(list) = Len(rules) + 1
    BY <1>1, <1>2, PutIn
  <1>5. Adds(list, rules, p, nextId)
    BY <1>1, <1>2, PutIn
  <1> HIDE DEF list
  <1>6. p \in 1 .. Len(list) /\ list[p].id = nextId /\ IsWithout(Texts(rules), Texts(list), p)
    BY <1>5 DEF Adds
  <1>7. Found(list, p) = p
    <2>1. Numbered(list, p) = p
      BY <1>1, <1>4, <1>6, NumberedLemma
    <2>2. QED
      BY <1>1, <2>1 DEF Found
  <1>8. list[p] \in Rule
    BY <1>4, <1>6 DEF GoodList
  <1>9. /\ GoodList(rules) /\ Known(rules, nextId) /\ nextId \in Nat /\ nextId > 0 /\ nextId \notin IdsOf(rules)
        /\ show \in Directions /\ changed \in BOOLEAN
    BY Base
  <1>a. ASSUME NEW r, FromForm(r, list[p])
        PROVE  /\ r \in Rule /\ r.id = list[p].id /\ r.number = list[p].number
               /\ Written(list, r) = [list EXCEPT ![p] = r]
    <2>1. list \in Seq(Rule) /\ OnceEach(list) /\ r.id = list[p].id
      BY <1>4, <1>a DEF GoodList, Known, FromForm
    <2>2. Written(list, r) = [list EXCEPT ![p] = r]
      BY <1>6, <2>1, WrittenOnce
    <2>3. QED
      BY <1>a, <2>2 DEF FromForm
  <1>10. CASE \E r \in EditedRules(list[p]) \cup {NotEdited(list[p])} : Adding(Written(list, r), "insert")
    <2>1. PICK r \in EditedRules(list[p]) \cup {NotEdited(list[p])} : Adding(Written(list, r), "insert")
      BY <1>10
    <2>7. FromForm(r, list[p])
      BY <1>8, Edited
    <2>2. r \in Rule /\ r.id = list[p].id /\ r.number = list[p].number
      BY <1>a, <2>7
    <2> DEFINE new == [list EXCEPT ![p] = r]
               op == "insert"
               n == nextId + 1
    <2>3. Known(list, n) /\ Adding(new, op) /\ op \in {"insert", "copy"}
      BY <1>4, <1>a, <2>1, <2>7
    <2> HIDE DEF n, op
    <2>4. GoodList(new) /\ Known(new, n) /\ IdsOf(new) = IdsOf(list) /\ Rest(new, r.id) = Rest(list, r.id)
      BY <1>4, <1>6, <2>2, <2>3, Replaced
    <2> HIDE DEF new
    <2>5. Rest(rules, nextId) = Rest(new, nextId) /\ nextId \in IdsOf(new) /\ Known(new, nextId + 1)
      BY <1>4, <1>6, <2>2, <2>4 DEF n
    <2>6. QED
      BY <2>3, <2>4, <2>5, AddingStep
  <1>11. ASSUME NEW r \in RejectedRules(list[p]),
                Key(RemoveFromList(Written(list, r), p), "reject", nextId),
                nextId' = IF nextId \in IdsOf(rules') THEN nextId + 1 ELSE nextId,
                UNCHANGED <<show, changed>>
         PROVE  Good
    <2> DEFINE edited == [list EXCEPT ![p] = r]
               new == RemoveFromList(edited, p)
               op == "reject"
               n == nextId + 1
    <2>1. FromForm(r, list[p])
      BY <1>8, Edited
    <2>2. r \in Rule /\ r.id = list[p].id /\ r.number = list[p].number /\ Written(list, r) = edited
      BY <1>a, <2>1
    <2>3. Key(new, op, nextId) /\ show' = show /\ changed' = changed
      BY <1>11, <2>2
    <2>4. op \in Ops \ {"saved", "reload", "double"} /\ op \notin {"toggle", "edit", "insert", "copy", "move"}
      BY DEF Ops
    <2>5. Known(list, n)
      BY <1>4
    <2> HIDE DEF n
    <2>6. /\ GoodList(edited) /\ Known(edited, n) /\ Len(edited) = Len(list)
          /\ \A j \in 1 .. Len(list) : j # p => Texts(edited)[j] = Texts(list)[j]
      BY <1>4, <1>6, <2>2, <2>5, Replaced
    <2> HIDE DEF edited
    <2>7. Removes(new, edited, p)
      BY <1>6, <2>6, RemoveLemma DEF Known
    <2> HIDE DEF new, op
    <2>8. IsWithout(Texts(rules), Texts(edited), p)
      <3> DEFINE a == Texts(rules)
                 b == Texts(list)
                 c == Texts(edited)
      <3>1. Len(a) \in Nat /\ Len(b) = Len(list) /\ Len(c) = Len(list) /\ p \in Nat
        BY <1>1, <1>4, <1>9, <2>6, TextsType DEF GoodList
      <3>2. IsWithout(a, b, p) /\ \A j \in 1 .. Len(b) : j # p => c[j] = b[j]
        BY <1>6, <2>6, <3>1
      <3> HIDE DEF a, b, c
      <3>3. ASSUME NEW j \in 1 .. Len(a)
            PROVE  /\ (IF j < p THEN j ELSE j + 1) \in 1 .. Len(b)
                   /\ (IF j < p THEN j ELSE j + 1) # p
        BY <3>1, <3>2 DEF IsWithout
      <3>4. IsWithout(a, c, p)
        BY <3>1, <3>2, <3>3 DEF IsWithout
      <3>5. QED
        BY <3>4 DEF a, c
    <2>9. GoodList(new) /\ IsWithout(Texts(new), Texts(edited), p) /\ p \in 1 .. Len(edited)
      BY <1>6, <2>6, <2>7 DEF Removes
    <2>10. Texts(rules) = Texts(new)
      BY <1>9, <2>6, <2>8, <2>9, OutAgain
    <2>11. Known(new, nextId) /\ IdsOf(rules) = IdsOf(new) /\ Rest(rules, nextId) = Rest(new, nextId)
      BY <1>9, <2>9, <2>10, SameTexts
    <2>12. rules' = new
      BY <2>3 DEF Key
    <2>13. nextId' = nextId
      BY <1>9, <1>11, <2>11, <2>12
    <2>14. /\ show' \in Directions /\ changed' \in BOOLEAN /\ nextId' \in Nat /\ nextId' > 0
           /\ Known(new, nextId') /\ nextId \notin IdsOf(new)
      BY <1>9, <2>3, <2>11, <2>13
    <2>15. QED
      BY <1>9, <2>3, <2>4, <2>9, <2>11, <2>14, KeyStep
  <1>12. QED
    BY <1>3, <1>7, <1>10, <1>11

LEMMA CopyLemma ==
    ASSUME IInv, ~doubled, NEW i \in DOMAIN rules, Copy(i)
    PROVE  Good
  <1> DEFINE line == AssembleRule(rules[i])
             rule == ParseLine(line, i + 1, nextId)
             id == rules[i].id
  <1>1. /\ GoodList(rules) /\ Known(rules, nextId) /\ i \in 1 .. Len(rules) /\ NumberShown(i) = i
        /\ Found(rules, i) = i /\ rules[i] \in Rule /\ rules[i].number = i /\ id \in Nat
        /\ nextId \in Nat /\ nextId > 0 /\ show \in Directions /\ changed \in BOOLEAN
    BY Base
  <1>2. i # 0
    BY <1>1
  <1>3. IF CanParse(line)
          THEN Adding(InsertList(rules, i + 1, rule), "copy")
          ELSE /\ Key(rules, "refused", id)
               /\ UNCHANGED <<show, changed, nextId>>
    BY <1>1, <1>2 DEF Copy
  <1>4. line \in Line
    BY <1>1, AssembleType
  <1> HIDE DEF line, id
  <1>5. rule \in Rule /\ rule.id = nextId
    <2> DEFINE n == i + 1
    <2>1. n \in Nat
      BY <1>1
    <2> HIDE DEF n
    <2>2. ParseLine(line, n, nextId) \in Rule /\ ParseLine(line, n, nextId).id = nextId
      BY <1>1, <1>4, <2>1, ParseType DEF ParseLine
    <2>3. QED
      BY <2>2 DEF n
  <1>6. CASE CanParse(line)
    <2> DEFINE p == i + 1
               op == "copy"
               new == InsertList(rules, p, rule)
    <2>1. p \in Nat /\ p > 0
      BY <1>1
    <2>2. Adding(new, op) /\ op \in {"insert", "copy"}
      BY <1>3, <1>6
    <2> HIDE DEF p, rule, op
    <2>3. /\ GoodList(new) /\ Known(new, nextId + 1) /\ Rest(rules, nextId) = Rest(new, nextId)
          /\ nextId \in IdsOf(new)
      BY <1>5, <2>1, PutIn
    <2> HIDE DEF new
    <2>4. QED
      BY <2>2, <2>3, AddingStep
  <1>7. CASE ~CanParse(line)
    <2> DEFINE op == "refused"
    <2>1. Key(rules, op, id) /\ show' = show /\ changed' = changed /\ nextId' = nextId
      BY <1>3, <1>7
    <2>2. /\ op \in Ops \ {"saved", "reload", "double"} /\ op \notin {"delete", "reject"}
          /\ op \notin {"toggle", "edit", "insert", "copy", "move"}
      BY DEF Ops
    <2> HIDE DEF op
    <2>3. /\ show' \in Directions /\ changed' \in BOOLEAN /\ nextId' \in Nat /\ nextId' > 0
          /\ Known(rules, nextId')
      BY <1>1, <2>1
    <2>4. QED
      BY <1>1, <2>1, <2>2, <2>3, KeyStep
  <1>8. QED
    BY <1>6, <1>7

LEMMA MoveLemma ==
    ASSUME IInv, ~doubled, NEW i \in DOMAIN rules, NEW place \in Int, Move(i, place)
    PROVE  Good
  <1> DEFINE new == MoveRule(rules, i, place)
             id == rules[i].id
             op == "move"
  <1>1. /\ GoodList(rules) /\ Known(rules, nextId) /\ i \in 1 .. Len(rules) /\ NumberShown(i) = i
        /\ id \in Nat /\ nextId \in Nat
    BY Base
  <1>2. GoodList(new) /\ Known(new, nextId) /\ id \in IdsOf(new) /\ Rest(rules, id) = Rest(new, id)
    BY <1>1, Moved
  <1>3. Changing(new, op, id) /\ op \in Ops \ {"saved", "reload", "double"} /\ op \notin {"delete", "reject"}
    BY <1>1 DEF Move, Ops
  <1> HIDE DEF new, id, op
  <1>4. QED
    BY <1>1, <1>2, <1>3, ChangingStep

LEMMA MoveOneLemma ==
    ASSUME IInv, ~doubled, NEW i \in DOMAIN rules, MoveUp(i) \/ MoveDown(i)
    PROVE  Good
  <1>a. i # 0
    BY Base
  <1>1. NumberShown(i) = i /\ DOMAIN rules = 1 .. Len(rules)
    BY Base
  <1>2. i - 1 \in Int /\ i + 1 \in Int
    BY <1>1
  <1>3. Move(i, i - 1) \/ Move(i, i + 1)
    BY <1>1, <1>a DEF MoveUp, MoveDown
  <1>4. QED
    BY <1>2, <1>3, MoveLemma

(* The filter leaves the list as it is. *)
LEMMA FilterKeyLemma ==
    ASSUME IInv, NEW f \in Directions \ {"all"}, Filter(f)
    PROVE  Good
  <1> DEFINE next == IF show = f THEN "all" ELSE f
             new == UpdateFilter(rules, next)
  <1>1. next \in Directions
    BY DEF Directions
  <1>2. /\ rules' = new /\ show' = next /\ last' = [op |-> "filter", id |-> 0]
        /\ saved' = saved /\ screen' = screen /\ changed' = changed /\ daemon' = daemon
        /\ nextId' = nextId /\ doubled' = doubled /\ ops' = ops
    BY DEF Filter
  <1> HIDE DEF next
  <1>3. last'.op = "filter" /\ last'.id = 0 /\ last' \in [op : Ops, id : Nat]
    BY <1>2 DEF Ops
  <1>4. new \in Seq(Rule)
    BY Typed, FilterType
  <1>5. ~doubled => GoodList(new) /\ Known(new, nextId) /\ Rest(new, 0) = Rest(rules, 0)
    BY Base, FilteredAfter
  <1> HIDE DEF new
  <1>6. TypeOK'
    BY <1>1, <1>2, <1>3, <1>4 DEF IInv, TypeOK
  <1>7. SavedInv' /\ ReloadSeesEveryChange'
    BY <1>3 DEF SavedInv, ReloadSeesEveryChange
  <1>8. ~doubled' => InOrder(rules') /\ Known(rules', nextId')
    BY <1>2, <1>5 DEF GoodList
  <1>9. CursorStep
    BY <1>2, <1>3, <1>5 DEF CursorStep
  <1>10. QED
    BY <1>6, <1>7, <1>8, <1>9 DEF Good, IInv

-----------------------------------------------------------------------------
(* Once a rule was put into the list a second time, the list is still one  *)
(* of rules.                                                               *)

LEMMA LooseKey ==
    ASSUME IInv, NEW list \in Seq(Rule), NEW op \in Ops \ {"saved", "reload"}, NEW id \in Nat,
           Key(list, op, id), doubled \/ op = "double", show' \in Directions, changed' \in BOOLEAN,
           nextId' \in Nat, nextId' > 0
    PROVE  Good
  <1>1. doubled'
    BY DEF Key
  <1>2. TypeOK' /\ SavedInv' /\ ReloadSeesEveryChange'
    BY KeyTyped
  <1>3. QED
    BY <1>1, <1>2 DEF Good, IInv, CursorStep

LEMMA LooseChanging ==
    ASSUME IInv, NEW list \in Seq(Rule), NEW op \in Ops \ {"saved", "reload"}, NEW id \in Nat,
           doubled \/ op = "double", Changing(list, op, id)
    PROVE  Good
  <1> DEFINE new == UpdateFilter(list, show)
  <1>1. Key(new, op, id) /\ changed' = TRUE /\ show' = show /\ nextId' = nextId
    BY DEF Changing
  <1>2. new \in Seq(Rule)
    BY FilterType
  <1> HIDE DEF new
  <1>3. show' \in Directions /\ changed' \in BOOLEAN /\ nextId' \in Nat /\ nextId' > 0
    BY <1>1, Typed
  <1>4. QED
    BY <1>1, <1>2, <1>3, LooseKey

LEMMA LooseAdding ==
    ASSUME IInv, doubled, NEW list \in Seq(Rule), NEW op \in {"insert", "copy"}, Adding(list, op)
    PROVE  Good
  <1> DEFINE new == UpdateFilter(list, show)
  <1>1. Key(new, op, nextId) /\ changed' = TRUE /\ show' = show /\ nextId' = nextId + 1
    BY DEF Adding
  <1>2. new \in Seq(Rule)
    BY FilterType
  <1> HIDE DEF new
  <1>3. show' \in Directions /\ changed' \in BOOLEAN /\ nextId' \in Nat /\ nextId' > 0 /\ nextId \in Nat
    BY <1>1, Typed
  <1>4. op \in Ops \ {"saved", "reload"}
    BY DEF Ops
  <1>5. QED
    BY <1>1, <1>2, <1>3, <1>4, LooseKey

(* The struct that is freed may be in the list still. *)
LEMMA LooseDrop ==
    ASSUME IInv, doubled, NEW i \in DOMAIN rules, NEW op \in {"delete", "reject"}, Drop(i, op)
    PROVE  Good
  <1> DEFINE new == RemoveFromList(rules, i)
             id == rules[i].id
  <1>1. rules \in Seq(Rule) /\ id \in Nat /\ NumberShown(i) = i /\ i \in Int
    BY Typed
  <1>2. new \in Seq(Rule)
    BY <1>1, RemoveType
  <1>3. op \in Ops \ {"saved", "reload"}
    BY DEF Ops
  <1> HIDE DEF new, id
  <1>4. \/ Changing(new, op, id)
        \/ /\ ops' = ops + 1 /\ screen' = "dead" /\ last' = [op |-> op, id |-> id]
           /\ UNCHANGED <<saved, rules, show, changed, daemon, nextId, doubled>>
    BY <1>1 DEF Drop, new, id
  <1>5. CASE Changing(new, op, id)
    BY <1>1, <1>2, <1>3, <1>5, LooseChanging
  <1>6. CASE /\ ops' = ops + 1 /\ screen' = "dead" /\ last' = [op |-> op, id |-> id]
             /\ UNCHANGED <<saved, rules, show, changed, daemon, nextId, doubled>>
    <2>1. last'.op = op /\ last' \in [op : Ops, id : Nat]
      BY <1>1, <1>3, <1>6
    <2>2. ops' \in Nat
      BY <1>6 DEF IInv, TypeOK
    <2>3. TypeOK'
      BY <1>6, <2>1, <2>2 DEF IInv, TypeOK
    <2>4. SavedInv' /\ ReloadSeesEveryChange'
      BY <1>3, <2>1 DEF SavedInv, ReloadSeesEveryChange
    <2>5. doubled'
      BY <1>6
    <2>6. QED
      BY <2>3, <2>4, <2>5 DEF Good, IInv, CursorStep
  <1>7. QED
    BY <1>4, <1>5, <1>6

LEMMA LooseToggle ==
    ASSUME IInv, doubled, NEW i \in DOMAIN rules, Toggle(i)
    PROVE  Good
  <1> DEFINE r == rules[i]
             q == [r EXCEPT !.active = ~r.active]
             new == Written(rules, q)
             op == "toggle"
             id == r.id
  <1>1. /\ rules \in Seq(Rule) /\ r \in Rule /\ id \in Nat /\ NumberShown(i) = i
        /\ nextId \in Nat /\ nextId > 0 /\ show \in Directions
    BY Typed
  <1>2. Key(new, op, id) /\ changed' = TRUE /\ show' = show /\ nextId' = nextId
    BY <1>1 DEF Toggle
  <1> HIDE DEF r, id
  <1>3. q \in Rule
    BY <1>1 DEF Rule
  <1> HIDE DEF q
  <1>4. new \in Seq(Rule)
    BY <1>1, <1>3, WrittenType
  <1>5. op \in Ops \ {"saved", "reload"}
    BY DEF Ops
  <1> HIDE DEF new, op
  <1>6. QED
    BY <1>1, <1>2, <1>4, <1>5, LooseKey

LEMMA LooseDelete ==
    ASSUME IInv, doubled, NEW i \in DOMAIN rules, Delete(i)
    PROVE  Good
  <1> DEFINE op == "delete"
  <1>1. Drop(i, op) /\ op \in {"delete", "reject"}
    BY DEF Delete
  <1> HIDE DEF op
  <1>2. QED
    BY <1>1, LooseDrop

LEMMA LooseEdit ==
    ASSUME IInv, doubled, NEW i \in DOMAIN rules, Edit(i)
    PROVE  Good
  <1> DEFINE k == Found(rules, i)
             id == rules[i].id
  <1>1. rules \in Seq(Rule) /\ NumberShown(i) = i /\ id \in Nat /\ Len(rules) > 0
    BY Typed
  <1>2. (\E r \in EditedRules(rules[k]) : Changing(Written(rules, r), "edit", id)) \/ Drop(i, "reject")
    BY <1>1 DEF Edit
  <1>3. rules[k] \in Rule
    <2>1. k \in 1 .. Len(rules)
      BY <1>1, FoundPlace
    <2> HIDE DEF k
    <2>2. QED
      BY <1>1, <2>1
  <1> HIDE DEF k, id
  <1>4. ASSUME NEW r \in EditedRules(rules[k]), Changing(Written(rules, r), "edit", id) PROVE Good
    <2> DEFINE new == Written(rules, r)
               op == "edit"
    <2>1. r \in Rule
      BY <1>3, Edited DEF FromForm
    <2>2. new \in Seq(Rule)
      BY <1>1, <2>1, WrittenType
    <2>3. Changing(new, op, id) /\ op \in Ops \ {"saved", "reload"}
      BY <1>4 DEF Ops
    <2> HIDE DEF new, op
    <2>4. QED
      BY <1>1, <2>2, <2>3, LooseChanging
  <1>5. CASE Drop(i, "reject")
    <2> DEFINE op == "reject"
    <2>1. Drop(i, op) /\ op \in {"delete", "reject"}
      BY <1>5
    <2> HIDE DEF op
    <2>2. QED
      BY <2>1, LooseDrop
  <1>6. QED
    BY <1>2, <1>4, <1>5

(* A new rule is put into the list. *)
LEMMA LoosePut ==
    ASSUME IInv, NEW i \in DOMAIN rules \cup {0}, NEW action \in Actions
    PROVE  /\ InsertList(rules, PlaceOfNew(i), NewRule(action)) \in Seq(Rule)
           /\ Len(InsertList(rules, PlaceOfNew(i), NewRule(action))) > 0
           /\ PlaceOfNew(i) \in Nat
  <1>1. /\ rules \in Seq(Rule) /\ nextId \in Nat
        /\ \A j \in DOMAIN rules : NumberShown(j) = j /\ j \in Nat /\ j > 0
    BY Typed
  <1>2. PlaceOfNew(i) \in Nat /\ PlaceOfNew(i) > 0
    BY <1>1 DEF PlaceOfNew, Visible
  <1>3. NewRule(action) \in Rule
    BY <1>1, NewType
  <1>4. QED
    BY <1>1, <1>2, <1>3, InsertType

LEMMA LooseInsertSeparator ==
    ASSUME IInv, doubled, NEW i \in DOMAIN rules \cup {0}, InsertSeparator(i)
    PROVE  Good
  <1> DEFINE new == InsertList(rules, PlaceOfNew(i), NewRule(Separator))
             op == "insert"
  <1>1. Adding(new, op) /\ op \in {"insert", "copy"}
    BY DEF InsertSeparator
  <1>2. Separator \in Actions
    BY DEF Actions
  <1>3. new \in Seq(Rule)
    BY <1>2, LoosePut
  <1> HIDE DEF new, op
  <1>4. QED
    BY <1>1, <1>3, LooseAdding

LEMMA LooseInsert ==
    ASSUME IInv, doubled, NEW i \in DOMAIN rules \cup {0}, Insert(i)
    PROVE  Good
  <1> DEFINE p == PlaceOfNew(i)
             drop == "Drop"
             list == InsertList(rules, p, NewRule(drop))
             k == Found(list, p)
  <1>1. list \in Seq(Rule) /\ Len(list) > 0 /\ p \in Nat
    <2>1. drop \in Actions
      BY DEF Actions
    <2> HIDE DEF drop
    <2>2. QED
      BY <2>1, LoosePut
  <1>2. \/ \E r \in EditedRules(list[k]) \cup {NotEdited(list[k])} : Adding(Written(list, r), "insert")
        \/ \E r \in RejectedRules(list[k]) :
              /\ Key(RemoveFromList(Written(list, r), p), "reject", nextId)
              /\ nextId' = IF nextId \in IdsOf(rules') THEN nextId + 1 ELSE nextId
              /\ UNCHANGED <<show, changed>>
    BY DEF Insert
  <1> HIDE DEF p, list
  <1>3. list[k] \in Rule
    <2>1. k \in 1 .. Len(list)
      BY <1>1, FoundPlace
    <2> HIDE DEF k
    <2>2. QED
      BY <1>1, <2>1
  <1> HIDE DEF k
  <1>4. ASSUME NEW r, FromForm(r, list[k]) PROVE Written(list, r) \in Seq(Rule)
    BY <1>1, <1>4, WrittenType DEF FromForm
  <1>5. ASSUME NEW r \in EditedRules(list[k]) \cup {NotEdited(list[k])}, Adding(Written(list, r), "insert")
        PROVE  Good
    <2> DEFINE new == Written(list, r)
               op == "insert"
    <2>1. new \in Seq(Rule)
      BY <1>3, <1>4, Edited
    <2>2. Adding(new, op) /\ op \in {"insert", "copy"}
      BY <1>5
    <2> HIDE DEF new, op
    <2>3. QED
      BY <2>1, <2>2, LooseAdding
  <1>6. ASSUME NEW r \in RejectedRules(list[k]),
               Key(RemoveFromList(Written(list, r), p), "reject", nextId),
               nextId' = IF nextId \in IdsOf(rules') THEN nextId + 1 ELSE nextId,
               UNCHANGED <<show, changed>>
        PROVE  Good
    <2> DEFINE edited == Written(list, r)
               new == RemoveFromList(edited, p)
               op == "reject"
    <2>1. edited \in Seq(Rule)
      BY <1>3, <1>4, Edited
    <2> HIDE DEF edited
    <2>2. new \in Seq(Rule)
      BY <1>1, <2>1, RemoveType
    <2>3. Key(new, op, nextId) /\ show' = show /\ changed' = changed /\ op \in Ops \ {"saved", "reload"}
      BY <1>6 DEF edited, Ops
    <2>4. nextId \in Nat /\ nextId > 0 /\ show \in Directions /\ changed \in BOOLEAN
      BY Typed
    <2>5. nextId' \in Nat /\ nextId' > 0
      BY <1>6, <2>4
    <2> HIDE DEF new, op
    <2>6. QED
      BY <2>2, <2>3, <2>4, <2>5, LooseKey
  <1>7. QED
    BY <1>2, <1>5, <1>6

LEMMA LooseCopy ==
    ASSUME IInv, doubled, NEW i \in DOMAIN rules, Copy(i)
    PROVE  Good
  <1> DEFINE k == Found(rules, i)
             rule == rules[k]
             line == AssembleRule(rule)
             n == rule.number + 1
             copy == ParseLine(line, n, nextId)
             id == rules[i].id
  <1>1. /\ rules \in Seq(Rule) /\ NumberShown(i) = i /\ id \in Nat /\ Len(rules) > 0
        /\ nextId \in Nat /\ nextId > 0 /\ show \in Directions /\ changed \in BOOLEAN
    BY Typed
  <1>2. IF CanParse(line)
          THEN Adding(InsertList(rules, n, copy), "copy")
          ELSE Key(rules, "refused", id) /\ UNCHANGED <<show, changed, nextId>>
    BY <1>1 DEF Copy
  <1>3. rule \in Rule
    <2>1. k \in 1 .. Len(rules)
      BY <1>1, FoundPlace
    <2> HIDE DEF k
    <2>2. QED
      BY <1>1, <2>1
  <1> HIDE DEF k, rule, id
  <1>4. line \in Line /\ n \in Nat /\ n > 0
    BY <1>3, AssembleType DEF Rule
  <1> HIDE DEF line, n
  <1>5. copy \in Rule
    BY <1>1, <1>4, ParseType DEF ParseLine
  <1> HIDE DEF copy
  <1>6. CASE CanParse(line)
    <2> DEFINE new == InsertList(rules, n, copy)
               op == "copy"
    <2>1. new \in Seq(Rule)
      BY <1>1, <1>4, <1>5, InsertType
    <2>2. Adding(new, op) /\ op \in {"insert", "copy"}
      BY <1>2, <1>6
    <2> HIDE DEF new, op
    <2>3. QED
      BY <2>1, <2>2, LooseAdding
  <1>7. CASE ~CanParse(line)
    <2> DEFINE op == "refused"
    <2>1. /\ Key(rules, op, id) /\ show' = show /\ changed' = changed /\ nextId' = nextId
          /\ op \in Ops \ {"saved", "reload"}
      BY <1>2, <1>7 DEF Ops
    <2> HIDE DEF op
    <2>2. QED
      BY <1>1, <2>1, LooseKey
  <1>8. QED
    BY <1>6, <1>7

LEMMA LooseMove ==
    ASSUME IInv, doubled, NEW i \in DOMAIN rules, NEW place \in Int, Move(i, place)
    PROVE  Good
  <1> DEFINE new == MoveRule(rules, i, place)
             id == rules[i].id
             op == "move"
  <1>1. rules \in Seq(Rule) /\ Len(rules) > 0 /\ i \in Int /\ NumberShown(i) = i /\ id \in Nat
    BY Typed
  <1>2. Changing(new, op, id) /\ op \in Ops \ {"saved", "reload"}
    BY <1>1 DEF Move, Ops
  <1>3. new \in Seq(Rule)
    BY <1>1, MoveType
  <1> HIDE DEF new, id, op
  <1>4. QED
    BY <1>1, <1>2, <1>3, LooseChanging

LEMMA LooseMoveOne ==
    ASSUME IInv, doubled, NEW i \in DOMAIN rules, MoveUp(i) \/ MoveDown(i)
    PROVE  Good
  <1>1. NumberShown(i) = i /\ i \in Nat /\ i > 0
    BY Typed
  <1>2. i - 1 \in Int /\ i + 1 \in Int
    BY <1>1
  <1>3. Move(i, i - 1) \/ Move(i, i + 1)
    BY <1>1 DEF MoveUp, MoveDown
  <1>4. QED
    BY <1>2, <1>3, LooseMove

(* The key that puts a rule into the list a second time. *)
LEMMA DoubleLemma ==
    ASSUME IInv, MoveDown(0)
    PROVE  Good
  <1> DEFINE n == 0
             wanted == 1
             new == MoveRule(rules, n, wanted)
             op == "double"
  <1>1. rules \in Seq(Rule) /\ DOMAIN rules = 1 .. Len(rules) /\ Len(rules) \in Nat
    BY Typed
  <1>2. 0 \notin Visible
    BY <1>1 DEF Visible
  <1>3. 0 < Len(rules) /\ Changing(new, op, 0) /\ op = "double" /\ op \in Ops \ {"saved", "reload"}
    BY <1>2 DEF MoveDown, Ops
  <1>4. n \in Int /\ wanted \in Int /\ Len(rules) > 0
    BY <1>1, <1>3
  <1> HIDE DEF n, wanted
  <1>5. new \in Seq(Rule)
    BY <1>1, <1>4, MoveType
  <1> HIDE DEF new, op
  <1>6. QED
    BY <1>3, <1>5, LooseChanging

-----------------------------------------------------------------------------
(* Opening and leaving the screen, starting again, and the daemon.         *)

LEMMA OpenLemma ==
    ASSUME IInv, Open
    PROVE  Good
  <1> DEFINE new == UpdateFilter(rules, "all")
  <1>1. new \in Seq(Rule)
    BY Typed, FilterType
  <1>2. ~doubled => GoodList(new) /\ Known(new, nextId)
    BY Base, FilteredAfter
  <1>3. /\ rules' = new /\ screen' = "rules" /\ show' = "all" /\ changed' = FALSE
        /\ last' = [op |-> "open", id |-> 0]
        /\ saved' = saved /\ daemon' = daemon /\ nextId' = nextId /\ doubled' = doubled /\ ops' = ops
        /\ screen # "rules"
    BY DEF Open
  <1> HIDE DEF new
  <1>4. last'.op = "open" /\ last' \in [op : Ops, id : Nat]
    BY <1>3 DEF Ops
  <1>5. TypeOK'
    BY <1>1, <1>3, <1>4 DEF IInv, TypeOK, Directions
  <1>6. SavedInv' /\ ReloadSeesEveryChange'
    BY <1>4 DEF SavedInv, ReloadSeesEveryChange
  <1>7. ~doubled' => InOrder(rules') /\ Known(rules', nextId')
    BY <1>2, <1>3 DEF GoodList
  <1>8. CursorStep
    BY <1>3 DEF CursorStep
  <1>9. QED
    BY <1>5, <1>6, <1>7, <1>8 DEF Good, IInv

(* What is left of a save that was broken off are the first lines. *)
LEMMA QuitLemma ==
    ASSUME IInv, Quit
    PROVE  Good
  <1>1. /\ screen' = "menu" /\ rules' = rules /\ show' = "all" /\ changed' = changed
        /\ daemon' = daemon /\ nextId' = nextId /\ doubled' = doubled
    BY DEF Quit
  <1>2. /\ rules \in Seq(Rule) /\ Lines(rules) \in Seq(Line) /\ Len(Lines(rules)) = Len(rules)
        /\ Len(rules) \in Nat
    BY Typed, LinesType
  <1>3. saved \in Seq(Line) /\ ops \in Nat
    BY DEF IInv, TypeOK
  <1>4. \A n \in 0 .. Len(rules) : SubSeq(Lines(rules), 1, n) \in Seq(Line)
    BY <1>2
  <1>5. /\ saved' \in Seq(Line) /\ ops' \in Nat /\ last' \in [op : Ops, id : Nat]
        /\ last'.op # "reload" /\ (last'.op = "saved" => saved' = Lines(rules))
    <2>1. CASE ~changed /\ last' = [op |-> "left", id |-> 0] /\ saved' = saved /\ ops' = ops
      BY <1>3, <2>1 DEF Ops
    <2>2. CASE SaveList(Len(rules)) /\ last' = [op |-> "saved", id |-> 0] /\ ops' = ops
      <3> DEFINE ls == Lines(rules)
      <3>1. saved' = SubSeq(ls, 1, Len(ls))
        BY <1>2, <2>2 DEF SaveList
      <3>2. ls \in Seq(Line)
        BY <1>2
      <3> HIDE DEF ls
      <3>3. saved' = ls
        BY <3>1, <3>2
      <3>4. saved' = Lines(rules) /\ saved' \in Seq(Line)
        BY <3>2, <3>3 DEF ls
      <3>5. QED
        BY <1>3, <2>2, <3>4 DEF Ops
    <2>3. CASE /\ \/ \E n \in 1 .. Len(rules) - 1 : SaveList(n)
                  \/ UNCHANGED saved
               /\ ops' = ops + 1 /\ last' = [op |-> "failed", id |-> 0]
      <3>1. saved' \in Seq(Line)
        <4>1. ASSUME NEW n \in 1 .. Len(rules) - 1, SaveList(n) PROVE saved' \in Seq(Line)
          <5>1. n \in 0 .. Len(rules)
            BY <1>2
          <5>2. QED
            BY <1>4, <4>1, <5>1 DEF SaveList
        <4>2. QED
          BY <1>3, <2>3, <4>1
      <3>2. ops' \in Nat /\ last' \in [op : Ops, id : Nat] /\ last'.op # "reload" /\ last'.op # "saved"
        <4>1. ops' = ops + 1 /\ last' = [op |-> "failed", id |-> 0]
          BY <2>3
        <4>2. QED
          BY <1>3, <4>1 DEF Ops
      <3>3. QED
        BY <3>1, <3>2
    <2>4. QED
      BY <2>1, <2>2, <2>3 DEF Quit
  <1>6. TypeOK'
    BY <1>1, <1>5 DEF IInv, TypeOK, Directions
  <1>7. SavedInv' /\ ReloadSeesEveryChange'
    BY <1>1, <1>5 DEF SavedInv, ReloadSeesEveryChange
  <1>8. ~doubled' => InOrder(rules') /\ Known(rules', nextId')
    BY <1>1 DEF IInv
  <1>9. CursorStep
    BY <1>1 DEF CursorStep
  <1>10. QED
    BY <1>6, <1>7, <1>8, <1>9 DEF Good, IInv

(* The rules that are read have ids of their own. *)
LEMMA ReadKnown ==
    ASSUME NEW lines \in Seq(Line), NEW first \in Nat, NEW next \in Nat,
           next = first + Len(ReadRules(lines, first)) + 1
    PROVE  /\ ReadRules(lines, first) \in Seq(Rule) /\ InOrder(ReadRules(lines, first))
           /\ Known(ReadRules(lines, first), next)
  <1> DEFINE list == ReadRules(lines, first)
  <1>1. list \in Seq(Rule) /\ InOrder(list) /\ \A i \in DOMAIN list : list[i].id = first + i
    BY ReadType
  <1>2. next = first + Len(list) + 1
    OBVIOUS
  <1> HIDE DEF list
  <1>3. Known(list, next)
    BY <1>1, <1>2 DEF Known, OnceEach
  <1>4. QED
    BY <1>1, <1>3 DEF list

LEMMA RestartLemma ==
    ASSUME IInv, Restart
    PROVE  Good
  <1> DEFINE list == ReadRules(saved, nextId - 1)
  <1>1. /\ rules' = list /\ nextId' = nextId + Len(list) /\ ops' = ops + 1 /\ screen' = "menu"
        /\ changed' = FALSE /\ show' = "all" /\ last' = [op |-> "start", id |-> 0]
        /\ saved' = saved /\ daemon' = daemon /\ doubled' = FALSE
    BY DEF Restart
  <1>2. saved \in Seq(Line) /\ nextId \in Nat /\ nextId > 0 /\ ops \in Nat
    BY DEF IInv, TypeOK
  <1>3. list \in Seq(Rule) /\ InOrder(list) /\ Known(list, nextId + Len(list)) /\ Len(list) \in Nat
    <2> DEFINE first == nextId - 1
               next == first + Len(ReadRules(saved, first)) + 1
    <2>1. first \in Nat
      BY <1>2
    <2>2. ReadRules(saved, first) \in Seq(Rule)
      BY <1>2, <2>1, ReadType
    <2>3. next \in Nat
      BY <2>1, <2>2
    <2> HIDE DEF first
    <2>4. Len(ReadRules(saved, first)) \in Nat
      BY <2>2
    <2> HIDE DEF next
    <2>5. Known(ReadRules(saved, first), next) /\ InOrder(ReadRules(saved, first))
      BY <1>2, <2>1, <2>3, ReadKnown DEF next
    <2>6. next = nextId + Len(ReadRules(saved, first))
      BY <1>2, <2>4 DEF next, first
    <2>7. QED
      BY <2>2, <2>4, <2>5, <2>6 DEF first
  <1> HIDE DEF list
  <1>4. last'.op = "start" /\ last' \in [op : Ops, id : Nat]
    BY <1>1 DEF Ops
  <1>5. nextId' \in Nat /\ nextId' > 0 /\ ops' \in Nat
    BY <1>1, <1>2, <1>3
  <1>6. TypeOK'
    BY <1>1, <1>3, <1>4, <1>5 DEF IInv, TypeOK, Directions
  <1>7. SavedInv' /\ ReloadSeesEveryChange'
    BY <1>4 DEF SavedInv, ReloadSeesEveryChange
  <1>8. InOrder(rules') /\ Known(rules', nextId')
    BY <1>1, <1>3
  <1>9. CursorStep
    BY <1>1 DEF CursorStep
  <1>10. QED
    BY <1>6, <1>7, <1>8, <1>9 DEF Good, IInv

(* Lists between which the daemon sees no difference have the same text.   *)
LEMMA NoDifference ==
    ASSUME NEW old \in Seq(Rule), NEW new \in Seq(Rule), ~RulesDiffer(old, new)
    PROVE  Lines(old) = Lines(new)
  <1>1. Len(old) = Len(new)
    BY DEF RulesDiffer
  <1>2. ASSUME NEW i \in 1 .. Len(old) PROVE AssembleRule(old[i]) = AssembleRule(new[i])
    <2>1. i \in DOMAIN old \cap DOMAIN new /\ old[i] \in Rule /\ new[i] \in Rule
      BY <1>1
    <2>2. /\ old[i].active = new[i].active /\ old[i].action = new[i].action
          /\ old[i].fields = new[i].fields
          /\ ~OptionsDiffer(new[i].action, old[i].opt, new[i].opt)
      BY <2>1 DEF RulesDiffer
    <2>3. QED
      BY <2>1, <2>2, SameText
  <1>3. QED
    BY <1>1, <1>2, SameLines

LEMMA ReloadLemma ==
    ASSUME IInv, ReloadRules
    PROVE  Good
  <1> DEFINE new == AnalyzeNormalRules(ReadRules(saved, 0))
  <1>1. /\ daemon' = (IF RulesDiffer(daemon, new) THEN new ELSE daemon)
        /\ last' = [op |-> "reload", id |-> 0]
        /\ saved' = saved /\ rules' = rules /\ screen' = screen /\ show' = show /\ changed' = changed
        /\ nextId' = nextId /\ doubled' = doubled /\ ops' = ops
    BY DEF ReloadRules
  <1>2. saved \in Seq(Line) /\ daemon \in Seq(Rule) /\ ops \in Nat
    BY DEF IInv, TypeOK
  <1>3. new \in Seq(Rule)
    <2> DEFINE first == 0
    <2>1. first \in Nat
      OBVIOUS
    <2> HIDE DEF first
    <2>2. ReadRules(saved, first) \in Seq(Rule)
      BY <1>2, <2>1, ReadType
    <2>3. AnalyzeNormalRules(ReadRules(saved, first)) \in Seq(Rule)
      BY <2>2, AnalyzeType
    <2>4. QED
      BY <2>3 DEF first
  <1>4. last'.op = "reload" /\ last'.id = 0 /\ last' \in [op : Ops, id : Nat]
    BY <1>1 DEF Ops
  <1>5. Lines(daemon') = Lines(AnalyzeNormalRules(ReadRules(saved', 0)))
    <2>1. new = AnalyzeNormalRules(ReadRules(saved', 0))
      BY <1>1
    <2> HIDE DEF new
    <2>2. Lines(daemon') = Lines(new)
      BY <1>1, <1>2, <1>3, NoDifference
    <2>3. QED
      BY <2>1, <2>2
  <1> HIDE DEF new
  <1>6. daemon' \in Seq(Rule)
    BY <1>1, <1>2, <1>3
  <1>7. TypeOK'
    BY <1>1, <1>4, <1>6 DEF IInv, TypeOK
  <1>8. SavedInv' /\ ReloadSeesEveryChange'
    BY <1>4, <1>5 DEF SavedInv, ReloadSeesEveryChange
  <1>9. ~doubled' => InOrder(rules') /\ Known(rules', nextId')
    BY <1>1 DEF IInv
  <1>10. CursorStep
    BY <1>1, <1>4 DEF CursorStep
  <1>11. QED
    BY <1>7, <1>8, <1>9, <1>10 DEF Good, IInv

-----------------------------------------------------------------------------
(* The theorems.                                                           *)

LEMMA InitLemma ==
    ASSUME Init
    PROVE  IInv
  <1> DEFINE first == 0
             list == ReadRules(DiskRules, first)
  <1>1. /\ saved = DiskRules /\ rules = list /\ screen = "menu" /\ show = "all" /\ changed = FALSE
        /\ daemon = AnalyzeNormalRules(list) /\ last = [op |-> "start", id |-> 0]
        /\ nextId = Len(list) + 1 /\ doubled = FALSE /\ ops = 0
    BY DEF Init
  <1>2. DiskRules \in Seq(Line) /\ first \in Nat
    BY RulesEditorAssumption
  <1>3. first = 0
    OBVIOUS
  <1> HIDE DEF first
  <1>4. list \in Seq(Rule)
    BY <1>2, ReadType
  <1>5. Len(list) \in Nat /\ nextId \in Nat /\ nextId > 0 /\ nextId = first + Len(list) + 1
    BY <1>1, <1>3, <1>4
  <1>6. InOrder(list) /\ Known(list, nextId)
    BY <1>2, <1>5, ReadKnown
  <1> HIDE DEF list
  <1>7. daemon \in Seq(Rule)
    BY <1>1, <1>4, AnalyzeType
  <1>8. last.op = "start" /\ last \in [op : Ops, id : Nat]
    BY <1>1 DEF Ops
  <1>9. TypeOK
    BY <1>1, <1>2, <1>4, <1>5, <1>7, <1>8 DEF TypeOK, Directions
  <1>10. SavedInv /\ ReloadSeesEveryChange
    BY <1>8 DEF SavedInv, ReloadSeesEveryChange
  <1>11. QED
    BY <1>1, <1>6, <1>9, <1>10 DEF IInv

(* The keys on rules, while no rule is in the list twice and afterwards. *)
LEMMA RuleKeys ==
    ASSUME IInv, NEW i \in DOMAIN rules,
           Toggle(i) \/ Edit(i) \/ Delete(i) \/ Copy(i) \/ MoveUp(i) \/ MoveDown(i)
    PROVE  Good
  <1>1. CASE doubled
    BY <1>1, LooseToggle, LooseEdit, LooseDelete, LooseCopy, LooseMoveOne
  <1>2. CASE ~doubled
    BY <1>2, ToggleLemma, EditLemma, DeleteLemma, CopyLemma, MoveOneLemma
  <1>3. QED
    BY <1>1, <1>2

LEMMA NewKeys ==
    ASSUME IInv, NEW i \in DOMAIN rules \cup {0}, InsertSeparator(i) \/ Insert(i)
    PROVE  Good
  <1>1. CASE doubled
    BY <1>1, LooseInsertSeparator, LooseInsert
  <1>2. CASE ~doubled
    BY <1>2, InsertSeparatorLemma, InsertRuleLemma
  <1>3. QED
    BY <1>1, <1>2

LEMMA NextLemma ==
    ASSUME IInv, Next
    PROVE  Good
  <1>1. CASE \E i \in DOMAIN rules : Toggle(i)
    BY <1>1, RuleKeys
  <1>2. CASE \E i \in DOMAIN rules : Edit(i)
    BY <1>2, RuleKeys
  <1>3. CASE \E i \in DOMAIN rules : Delete(i)
    BY <1>3, RuleKeys
  <1>4. CASE \E i \in DOMAIN rules \cup {0} : InsertSeparator(i)
    BY <1>4, NewKeys
  <1>5. CASE \E i \in DOMAIN rules \cup {0} : Insert(i)
    BY <1>5, NewKeys
  <1>6. CASE \E i \in DOMAIN rules : Copy(i)
    BY <1>6, RuleKeys
  <1>7. CASE \E i \in DOMAIN rules, place \in 0 .. MaxLen + 1 : Move(i, place)
    <2>1. PICK i \in DOMAIN rules, place \in 0 .. MaxLen + 1 : Move(i, place)
      BY <1>7
    <2>2. place \in Int
      OBVIOUS
    <2>3. CASE doubled
      BY <2>1, <2>2, <2>3, LooseMove
    <2>4. CASE ~doubled
      BY <2>1, <2>2, <2>4, MoveLemma
    <2>5. QED
      BY <2>3, <2>4
  <1>8. CASE \E i \in DOMAIN rules : MoveUp(i)
    BY <1>8, RuleKeys
  <1>9. CASE \E i \in DOMAIN rules \cup {0} : MoveDown(i)
    <2>1. PICK i \in DOMAIN rules \cup {0} : MoveDown(i)
      BY <1>9
    <2>2. CASE i \in DOMAIN rules
      BY <2>1, <2>2, RuleKeys
    <2>3. CASE i = 0
      BY <2>1, <2>3, DoubleLemma
    <2>4. QED
      BY <2>2, <2>3
  <1>10. CASE \E f \in Directions \ {"all"} : Filter(f)
    BY <1>10, FilterKeyLemma
  <1>11. CASE Open
    BY <1>11, OpenLemma
  <1>12. CASE Quit
    BY <1>12, QuitLemma
  <1>13. CASE Restart
    BY <1>13, RestartLemma
  <1>14. CASE ReloadRules
    BY <1>14, ReloadLemma
  <1>15. QED
    BY <1>1, <1>2, <1>3, <1>4, <1>5, <1>6, <1>7, <1>8, <1>9, <1>10, <1>11, <1>12, <1>13, <1>14 DEF Next

LEMMA StutterLemma ==
    ASSUME IInv, UNCHANGED vars
    PROVE  IInv'
  <1>1. /\ saved' = saved /\ rules' = rules /\ screen' = screen /\ show' = show /\ changed' = changed
        /\ daemon' = daemon /\ last' = last /\ nextId' = nextId /\ doubled' = doubled /\ ops' = ops
    BY DEF vars
  <1>2. QED
    BY <1>1 DEF IInv, TypeOK, SavedInv, ReloadSeesEveryChange

LEMMA StepLemma == IInv /\ [Next]_vars => IInv' /\ [CursorStep]_vars
  BY NextLemma, StutterLemma DEF Good

LEMMA Invariant == Spec => []IInv
  <1>1. Init => IInv
    BY InitLemma
  <1>2. IInv /\ [Next]_vars => IInv'
    BY StepLemma
  <1>3. QED
    BY <1>1, <1>2, PTL DEF Spec

(* The lists on the screen, in the backend and in the daemon always hold   *)
(* rules; until + was pressed with every rule hidden, the rules on the     *)
(* screen are numbered by their place and no struct is there twice.        *)
THEOREM NumbersTheorem == Spec => [](TypeOK /\ (~doubled => InOrder(rules) /\ Known(rules, nextId)))
  <1>1. IInv => TypeOK /\ (~doubled => InOrder(rules) /\ Known(rules, nextId))
    BY DEF IInv
  <1>2. QED
    BY <1>1, Invariant, PTL

(* What rules_save_list wrote is read back by rules_init_list, line for    *)
(* line, but for the lines that are not understood.                        *)
THEOREM SavedTheorem == Spec => []SavedIsReadBack
  <1>1. IInv => SavedIsReadBack
    <2>1. SUFFICES ASSUME IInv, last.op = "saved" PROVE Lines(ReadRules(saved, 0)) = Understood(Lines(rules))
      BY DEF SavedIsReadBack
    <2>2. saved = Lines(rules) /\ rules \in Seq(Rule)
      BY <2>1 DEF IInv, SavedInv, TypeOK
    <2>3. QED
      BY <2>2, ReadBack
  <1>2. QED
    BY <1>1, Invariant, PTL

(* After reload_rules the daemon works with the text of the rules that one *)
(* that is started now would read, whether it saw a difference or not.     *)
THEOREM ReloadTheorem == Spec => []ReloadSeesEveryChange
  <1>1. IInv => ReloadSeesEveryChange
    BY DEF IInv
  <1>2. QED
    BY <1>1, Invariant, PTL

(* A key of the screen works on the rule under the cursor: with any filter *)
(* the others keep their text and their order.  So it is until + is        *)
(* pressed with every rule hidden, and again when the program was started  *)
(* again.                                                                  *)
THEOREM CursorTheorem == Spec => OnlyTheRuleUnderTheCursor
  <1>1. IInv /\ [Next]_vars =>
          [screen = "rules" /\ screen' = "rules" /\ ~doubled' =>
             /\ Others(rules, {last'.id}) = Others(rules', {last'.id})
             /\ last'.op \in {"delete", "reject"} => last'.id \notin IdsOf(rules')
             /\ last'.op \in {"toggle", "edit", "insert", "copy", "move"} => last'.id \in IdsOf(rules')]_vars
    BY StepLemma DEF CursorStep, Rest
  <1>2. QED
    BY <1>1, Invariant, PTL DEF Spec, OnlyTheRuleUnderTheCursor

=============================================================================

--------------------------- MODULE ZoneEditor_proofs ---------------------------
(* Proofs about ZoneEditor: its types, that its counters count, that nothing in
   memory points at what was freed, that references follow renames and that
   memory is what a restart would load. *)
EXTENDS ZoneEditor, FiniteSetTheorems, FunctionTheorems, TLAPS

-----------------------------------------------------------------------------
(* Induction over the natural numbers, said of sets: a set of numbers that *)
(* has 0 and, with every number, the next one, has them all.               *)

(* A smallest number outside of S would be the top of a smallest interval. *)
LEMMA NatSets ==
    ASSUME NEW S, 0 \in S, \A n \in Nat : n \in S => n + 1 \in S
    PROVE  Nat \subseteq S
  <1> DEFINE T == {A \in FiniteSubsetsOf(Nat) : \E n \in Nat \ S : A = 0..n}
  <1> SUFFICES ASSUME NEW m \in Nat \ S PROVE FALSE
    OBVIOUS
  <1>1. \A n \in Nat : 0..n \in FiniteSubsetsOf(Nat)
    BY FS_Interval DEF FiniteSubsetsOf
  <1>2. 0..m \in T
    BY <1>1
  <1>3. PICK A \in T : \A B \in T : ~ (<<B, A>> \in StrictSubsetOrdering(Nat))
    <2> HIDE DEF T
    <2>1. IsWellFoundedOn(StrictSubsetOrdering(Nat), FiniteSubsetsOf(Nat))
      BY FS_StrictSubsetOrderingWellFounded
    <2>2. T \subseteq FiniteSubsetsOf(Nat)
      BY DEF T
    <2>3. QED
      BY <1>2, <2>1, <2>2, WFMin
  <1>4. PICK x \in Nat \ S : A = 0..x
    BY <1>3
  <1>5. x # 0 /\ x - 1 \in Nat
    BY <1>4
  <1>6. 0..(x - 1) \in SUBSET Nat /\ A \in SUBSET Nat /\ 0..(x - 1) \subseteq A /\ 0..(x - 1) # A
    <2>1. x \in A /\ x \notin 0..(x - 1)
      BY <1>4, <1>5
    <2>2. QED
      BY <1>4, <1>5, <2>1
  <1>7. <<0..(x - 1), A>> \in StrictSubsetOrdering(Nat)
    BY <1>6 DEF StrictSubsetOrdering
  <1>8. x - 1 \in S
    BY <1>1, <1>3, <1>5, <1>7
  <1>9. QED
    BY <1>4, <1>5, <1>8

(* The runs of N steps from base: step says what comes of what there was. *)
RunsOf(V, N, base, step) ==
    {f \in [0..N -> V] : f[0] = base /\ \A i \in 1..N : f[i] = step[<<i, f[i - 1]>>]}

(* There is one. *)
LEMMA Recursion ==
    ASSUME NEW V, NEW N \in Nat, NEW base \in V, NEW step \in [(1..N) \X V -> V]
    PROVE  RunsOf(V, N, base, step) # {}
  <1> DEFINE Runs(n) == {f \in [0..n -> V] :
                           f[0] = base /\ \A i \in 1..n : f[i] = step[<<i, f[i - 1]>>]}
             S == {n \in Nat : n <= N => Runs(n) # {}}
  <1>1. 0 \in S
    <2>1. [i \in 0..0 |-> base] \in Runs(0)
      OBVIOUS
    <2>2. QED
      BY <2>1
  <1>2. ASSUME NEW n \in Nat, n \in S PROVE n + 1 \in S
    <2>1. SUFFICES ASSUME n + 1 <= N PROVE Runs(n + 1) # {}
      OBVIOUS
    <2>2. PICK f \in Runs(n) : TRUE
      BY <1>2, <2>1
    <2>3. n \in 0..n /\ n + 1 \in 1..N /\ f[n] \in V /\ <<n + 1, f[n]>> \in (1..N) \X V
      BY <2>1, <2>2
    <2> DEFINE g == [i \in 0..(n + 1) |-> IF i = n + 1 THEN step[<<n + 1, f[n]>>] ELSE f[i]]
    <2>4. g \in [0..(n + 1) -> V]
      BY <2>2, <2>3
    <2>5. ASSUME NEW i \in 1..(n + 1) PROVE g[i] = step[<<i, g[i - 1]>>]
      <3>1. i \in 0..(n + 1) /\ i - 1 \in 0..(n + 1) /\ i - 1 # n + 1
        BY <2>5
      <3>2. g[i - 1] = f[i - 1]
        BY <3>1
      <3>3. CASE i = n + 1
        BY <3>1, <3>2, <3>3
      <3>4. CASE i # n + 1
        <4>1. g[i] = f[i] /\ i \in 1..n
          BY <3>1, <3>4
        <4>2. QED
          BY <2>2, <3>2, <4>1
      <3>5. QED
        BY <3>3, <3>4
    <2>6. g[0] = base
      BY <2>2
    <2>7. g \in Runs(n + 1)
      BY <2>4, <2>5, <2>6
    <2>8. QED
      BY <2>7
  <1>3. N \in S
    <2> HIDE DEF S
    <2>1. QED
      BY <1>1, <1>2, NatSets
  <1>4. QED
    BY <1>3 DEF RunsOf

(* A set of numbers that is not empty has a smallest one: it is the top of *)
(* the smallest of the intervals from 0 to a number of the set.            *)
LEMMA LeastNumber ==
    ASSUME NEW I, I \subseteq Nat, I # {}
    PROVE  \E x \in I : \A y \in I : x <= y
  <1> DEFINE T == {A \in FiniteSubsetsOf(Nat) : \E n \in I : A = 0..n}
  <1>1. \A n \in Nat : 0..n \in FiniteSubsetsOf(Nat)
    BY FS_Interval DEF FiniteSubsetsOf
  <1>2. T # {}
    BY <1>1
  <1>3. PICK A \in T : \A B \in T : ~ (<<B, A>> \in StrictSubsetOrdering(Nat))
    <2> HIDE DEF T
    <2>1. IsWellFoundedOn(StrictSubsetOrdering(Nat), FiniteSubsetsOf(Nat))
      BY FS_StrictSubsetOrderingWellFounded
    <2>2. T \subseteq FiniteSubsetsOf(Nat)
      BY DEF T
    <2>3. QED
      BY <1>2, <2>1, <2>2, WFMin
  <1>4. PICK x \in I : A = 0..x
    BY <1>3
  <1>5. ASSUME NEW y \in I, ~ (x <= y) PROVE FALSE
    <2>1. 0..y \in T
      BY <1>1
    <2>2. x \in A /\ x \notin 0..y /\ 0..y \subseteq A /\ 0..y # A
      BY <1>4, <1>5
    <2>3. <<0..y, A>> \in StrictSubsetOrdering(Nat)
      BY <1>4, <2>2 DEF StrictSubsetOrdering
    <2>4. QED
      BY <1>3, <2>1, <2>3
  <1>6. QED
    BY <1>5

-----------------------------------------------------------------------------

(* The files of a disk are in directories that are there. *)
DiskOK(d) ==
    /\ DOMAIN d \subseteq File /\ d \in [DOMAIN d -> Row]
    /\ \A f \in DOMAIN d : Parents(f) \subseteq DOMAIN d

(* The name of an object in memory fits its type, only groups have members, and
   members are hosts. *)
MemOK(z) ==
    /\ DOMAIN z \subseteq File /\ z \in [DOMAIN z -> ZoneData]
    /\ \A b \in DOMAIN z :
          /\ [type |-> z[b].type, name |-> z[b].name] \in File
          /\ z[b].GroupList # {} => z[b].type = "group"
          /\ \A h \in z[b].GroupList \cap DOMAIN z : z[h].type = "host"

(* The blocklist grows by at most one item per operation. *)
ListsFit ==
    /\ Len(blocked) <= Len(DiskBlocked) + ops
    /\ Len(savedBlocked) <= Len(DiskBlocked) + ops

BaseInv == TypeOK /\ DiskOK(disk) /\ MemOK(zones) /\ ListsFit

CountInv == "delete" \notin hurt => Defined /\ MembersCounted

(* The name of p says that it is the network or the zone of c. *)
IsAbove(z, p, c) ==
    \/ /\ z[p].type = "network" /\ z[c].type \in {"host", "group"}
       /\ NetName(z[c].name) = z[p].name
    \/ /\ z[p].type = "zone" /\ z[c].type # "zone"
       /\ ZoneName(z[c].name) = z[p].name

ParentsAbove(z) == \A c \in DOMAIN z : \A p \in z[c].parents : p \in DOMAIN z /\ IsAbove(z, p, c)

ZonesUnique(z) ==
    \A b, c \in DOMAIN z :
        z[b].type = "zone" /\ z[c].type = "zone" /\ z[b].name = z[c].name => b = c

(* Every rename changed the names of all that is below, and nothing else. *)
Whole == hurt \cap {"torn", "twin", "clash"} = {}

TreeInv == Whole => ParentsAbove(zones) /\ ZonesUnique(zones)

(* Nothing went wrong: names are unique, every object has its network and its
   zone, and what is blocked are hosts and groups. *)
NamesUnique(z) == \A b, c \in DOMAIN z : z[b].name = z[c].name => b = c

AllAbove(z) ==
    \A c \in DOMAIN z :
        /\ z[c].type # "zone" => \E p \in DOMAIN z : z[p].type = "zone" /\ IsAbove(z, p, c)
        /\ z[c].type \in {"host", "group"} =>
             \E p \in DOMAIN z : z[p].type = "network" /\ IsAbove(z, p, c)

BlockedHosts(z, s) ==
    \A i \in DOMAIN s : \E b \in DOMAIN z : z[b].name = s[i] /\ z[b].type \in {"host", "group"}

BlockedCounted(z, s) ==
    \A b \in DOMAIN z : z[b].refcnt_blocklist = Occurrences(z[b].name, s)

BlocklistFine(z, s) == NamesUnique(z) /\ BlockedHosts(z, s) /\ BlockedCounted(z, s)

BlockInv == hurt = {} => AllAbove(zones) /\ BlocklistFine(zones, blocked)

-----------------------------------------------------------------------------
(* Numbers and sets. *)

LEMMA ModSmall == ASSUME NEW b \in Nat, NEW a \in 0..b PROVE a % (b + 1) = a
  OBVIOUS

LEMMA ModIn == ASSUME NEW b \in Nat, NEW a \in Nat PROVE a % (b + 1) \in 0..b
  OBVIOUS

LEMMA ModOver == ASSUME NEW b \in Nat, NEW a \in 1..b PROVE (a + b) % (b + 1) = a - 1
  OBVIOUS

(* The counters count: they wrap around only where there is nothing left. *)
LEMMA UpDown ==
    /\ \A n \in 0..MaxRef : Up(n) \in 0..MaxRef /\ Down(n) \in 0..MaxRef
    /\ \A n \in 0..MaxRef : n < MaxRef => Up(n) = n + 1
    /\ \A n \in 0..MaxRef : n > 0 => Down(n) = n - 1
  <1>1. MaxRef \in Nat
    BY EditorAssumption
  <1>2. ASSUME NEW n \in 0..MaxRef PROVE Up(n) \in 0..MaxRef /\ Down(n) \in 0..MaxRef
    BY <1>1, ModIn DEF Up, Down
  <1>3. ASSUME NEW n \in 0..MaxRef, n < MaxRef PROVE Up(n) = n + 1
    <2>1. n + 1 \in 0..MaxRef
      BY <1>1, <1>3
    <2>2. QED
      BY <1>1, <2>1, ModSmall DEF Up
  <1>4. ASSUME NEW n \in 0..MaxRef, n > 0 PROVE Down(n) = n - 1
    BY <1>1, <1>4, ModOver DEF Down
  <1>5. QED
    BY <1>2, <1>3, <1>4

LEMMA FilesFit ==
    ASSUME NEW S, S \subseteq File
    PROVE  /\ IsFiniteSet(S) /\ Cardinality(S) \in 0..MaxRef
           /\ Cardinality(S) % (MaxRef + 1) = Cardinality(S)
  <1>1. IsFiniteSet(File) /\ Cardinality(File) <= MaxRef /\ MaxRef \in Nat
    BY CountersFit, EditorAssumption
  <1>2. IsFiniteSet(S) /\ Cardinality(S) <= Cardinality(File)
    BY <1>1, FS_Subset
  <1>3. Cardinality(S) \in Nat /\ Cardinality(File) \in Nat
    BY <1>1, <1>2, FS_CardinalityType
  <1>4. Cardinality(S) \in 0..MaxRef
    BY <1>1, <1>2, <1>3
  <1>5. QED
    BY <1>1, <1>2, <1>4, ModSmall

(* What is read of a list is a list of what is in S, and not longer. *)
LEMMA SelectedLemma ==
    ASSUME NEW A, NEW s \in Seq(A), NEW S
    PROVE  /\ Selected(s, S) \in Seq(A \cap S) /\ Len(Selected(s, S)) <= Len(s)
           /\ (\A i \in 1..Len(s) : s[i] \in S) => Selected(s, S) = s
  <1> DEFINE read[i \in 0..Len(s)] ==
               IF i = 0 THEN <<>>
               ELSE IF s[i] \in S THEN Append(read[i - 1], s[i]) ELSE read[i - 1]
             V == Seq(A \cap S)
             step == [p \in (1..Len(s)) \X V |->
                        IF s[p[1]] \in S THEN Append(p[2], s[p[1]]) ELSE p[2]]
  <1>1. Len(s) \in Nat /\ \A i \in 1..Len(s) : s[i] \in A /\ i \in 0..Len(s) /\ i - 1 \in 0..Len(s)
    OBVIOUS
  <1>2. step \in [(1..Len(s)) \X V -> V] /\ <<>> \in V
    BY <1>1
  <1>3. \E f \in [0..Len(s) -> V] :
          f[0] = <<>> /\ \A i \in 1..Len(s) : f[i] = step[<<i, f[i - 1]>>]
    <2> DEFINE N == Len(s)
               empty == <<>>
    <2>1. N \in Nat /\ empty \in V /\ step \in [(1..N) \X V -> V]
      BY <1>1, <1>2
    <2> HIDE DEF V, step, N, empty
    <2>2. RunsOf(V, N, empty, step) # {}
      BY <2>1, Recursion
    <2>3. QED
      BY <2>2 DEF RunsOf, N, empty
  <1>4. PICK f \in [0..Len(s) -> V] :
          f[0] = <<>> /\ \A i \in 1..Len(s) : f[i] = step[<<i, f[i - 1]>>]
    BY <1>3
  <1>5. ASSUME NEW i \in 1..Len(s)
        PROVE  f[i] = IF s[i] \in S THEN Append(f[i - 1], s[i]) ELSE f[i - 1]
    <2>1. f[i - 1] \in V
      <3> HIDE DEF V
      <3>1. QED
        BY <1>1, <1>4
    <2>2. <<i, f[i - 1]>> \in (1..Len(s)) \X V
      BY <2>1
    <2>3. f[i] = step[<<i, f[i - 1]>>]
      BY <1>4
    <2>4. QED
      BY <2>2, <2>3
  <1>6. f = [i \in 0..Len(s) |->
               IF i = 0 THEN <<>>
               ELSE IF s[i] \in S THEN Append(f[i - 1], s[i]) ELSE f[i - 1]]
    <2> HIDE DEF V, step
    <2>1. ASSUME NEW i \in 0..Len(s)
          PROVE  f[i] = IF i = 0 THEN <<>>
                        ELSE IF s[i] \in S THEN Append(f[i - 1], s[i]) ELSE f[i - 1]
      <3>1. i = 0 \/ i \in 1..Len(s)
        BY <1>1
      <3>2. QED
        BY <1>4, <1>5, <3>1
    <2>2. QED
      BY <1>4, <2>1
  <1>7. read = [i \in 0..Len(s) |->
                  IF i = 0 THEN <<>>
                  ELSE IF s[i] \in S THEN Append(read[i - 1], s[i]) ELSE read[i - 1]]
    BY <1>6
  <1> HIDE DEF read, step
  <1>8. read[0] = <<>>
    BY <1>1, <1>7
  <1>9. ASSUME NEW i \in 1..Len(s)
        PROVE  read[i] = IF s[i] \in S THEN Append(read[i - 1], s[i]) ELSE read[i - 1]
    <2>1. i \in 0..Len(s) /\ i # 0
      BY <1>1
    <2>2. QED
      BY <1>7, <2>1
  <1> DEFINE T == {n \in Nat : n <= Len(s) => read[n] \in V /\ Len(read[n]) <= n}
  <1>10. 0 \in T
    <2>1. <<>> \in V /\ Len(<<>>) = 0
      OBVIOUS
    <2> HIDE DEF V
    <2>2. read[0] \in V /\ Len(read[0]) = 0
      BY <1>8, <2>1
    <2>3. QED
      BY <2>2
  <1>11. ASSUME NEW n \in Nat, n \in T PROVE n + 1 \in T
    <2>1. SUFFICES ASSUME n + 1 <= Len(s) PROVE read[n + 1] \in V /\ Len(read[n + 1]) <= n + 1
      OBVIOUS
    <2>2. n + 1 \in 1..Len(s) /\ n + 1 - 1 = n /\ read[n] \in V /\ Len(read[n]) <= n
      BY <1>1, <1>11, <2>1
    <2>3. read[n + 1] = IF s[n + 1] \in S THEN Append(read[n], s[n + 1]) ELSE read[n]
      BY <1>9, <2>2
    <2>4. CASE s[n + 1] \in S
      <3>1. s[n + 1] \in A \cap S
        BY <1>1, <2>2, <2>4
      <3>2. QED
        BY <2>2, <2>3, <2>4, <3>1
    <2>5. CASE s[n + 1] \notin S
      BY <2>2, <2>3, <2>5
    <2>6. QED
      BY <2>4, <2>5
  <1>12. Nat \subseteq T
    <2> HIDE DEF T
    <2>1. QED
      BY <1>10, <1>11, NatSets
  <1>13. read[Len(s)] \in V /\ Len(read[Len(s)]) <= Len(s)
    BY <1>1, <1>12
  <1>14. Selected(s, S) = read[Len(s)]
    BY DEF Selected, read
  <1>15. ASSUME \A i \in 1..Len(s) : s[i] \in S PROVE read[Len(s)] = s
    <2> DEFINE U == {n \in Nat : n <= Len(s) =>
                       Len(read[n]) = n /\ \A j \in 1..n : read[n][j] = s[j]}
    <2>1. 0 \in U
      <3>1. read[0] = <<>>
        BY <1>8
      <3>2. QED
        BY <3>1
    <2>2. ASSUME NEW n \in Nat, n \in U PROVE n + 1 \in U
      <3>1. SUFFICES ASSUME n + 1 <= Len(s)
                     PROVE  Len(read[n + 1]) = n + 1 /\ \A j \in 1..n + 1 : read[n + 1][j] = s[j]
        OBVIOUS
      <3>2. n + 1 \in 1..Len(s) /\ n + 1 - 1 = n /\ Len(read[n]) = n
            /\ \A j \in 1..n : read[n][j] = s[j]
        BY <1>1, <2>2, <3>1
      <3>3. read[n] \in V /\ s[n + 1] \in A \cap S
        <4>1. n \in T
          BY <1>12
        <4>2. n <= Len(s)
          BY <1>1, <3>2
        <4>3. QED
          BY <1>1, <1>15, <3>2, <4>1, <4>2
      <3>4. read[n + 1] = Append(read[n], s[n + 1])
        <4>1. read[n + 1] = IF s[n + 1] \in S THEN Append(read[n], s[n + 1]) ELSE read[n]
          BY <1>9, <3>2
        <4>2. s[n + 1] \in S
          BY <3>3
        <4>3. QED
          BY <4>1, <4>2
      <3> DEFINE q == read[n]
      <3>5. q \in Seq(A \cap S) /\ Len(q) = n /\ \A j \in 1..n : q[j] = s[j]
        BY <3>2, <3>3
      <3> DEFINE x == s[n + 1]
      <3> HIDE DEF q, x
      <3>6. Len(Append(q, x)) = n + 1 /\ \A j \in 1..n + 1 : Append(q, x)[j] = s[j]
        <4>1. x \in A \cap S
          BY <3>3 DEF x
        <4>2. /\ Len(Append(q, x)) = n + 1 /\ Append(q, x)[n + 1] = x
              /\ \A j \in 1..n : Append(q, x)[j] = q[j]
          BY <3>5, <4>1
        <4>3. \A j \in 1..n + 1 : j \in 1..n \/ j = n + 1
          OBVIOUS
        <4>4. QED
          BY <3>5, <4>2, <4>3 DEF x
      <3>7. QED
        BY <3>4, <3>6 DEF q, x
    <2>3. Nat \subseteq U
      <3> HIDE DEF U
      <3>1. QED
        BY <2>1, <2>2, NatSets
    <2>4. Len(read[Len(s)]) = Len(s) /\ \A j \in 1..Len(s) : read[Len(s)][j] = s[j]
      BY <1>1, <2>3
    <2> DEFINE r == read[Len(s)]
    <2> HIDE DEF r
    <2>5. r \in Seq(A \cap S) /\ Len(r) = Len(s) /\ \A j \in 1..Len(s) : r[j] = s[j]
      BY <1>13, <2>4 DEF r
    <2>6. r = [j \in 1..Len(s) |-> r[j]] /\ s = [j \in 1..Len(s) |-> s[j]]
      BY <2>5
    <2>7. QED
      BY <2>5, <2>6 DEF r
  <1>16. QED
    BY <1>13, <1>14, <1>15

-----------------------------------------------------------------------------
(* Files and their directories. *)

LEMMA FileLemma ==
    \A f \in File : /\ f.type \in {"zone", "network", "host", "group"} /\ f.name \in Name
                    /\ f = [type |-> f.type, name |-> f.name]
  BY DEF File, ZoneFile, NetFile, HostFile, Name

LEMMA FileParts ==
    /\ \A f \in File : f.type = "zone" => f \in ZoneFile
    /\ \A f \in File : f.type = "network" => f \in NetFile
    /\ \A f \in File : f.type \in {"host", "group"} => f \in HostFile
    /\ \A f \in ZoneFile : f.type = "zone"
    /\ \A f \in NetFile : f.type = "network"
    /\ \A f \in HostFile : f.type \in {"host", "group"}
  BY DEF File, ZoneFile, NetFile, HostFile

(* A network, host or group is in its zone, a host or group in its network. *)
LEMMA ParentsLemma ==
    ASSUME NEW f \in File, NEW p
    PROVE  p \in Parents(f) <=>
             \/ f.type # "zone" /\ p = [type |-> "zone", name |-> ZoneName(f.name)]
             \/ f.type \in {"host", "group"} /\ p = [type |-> "network", name |-> NetName(f.name)]
  <1>1. f.type # "zone" => [type |-> "zone", name |-> ZoneName(f.name)] \in ZoneFile
    BY FileLemma DEF ZoneFile, ZoneName, Name
  <1>2. f.type \in {"host", "group"} =>
          [type |-> "network", name |-> NetName(f.name)] \in NetFile
    BY FileParts DEF NetFile, HostFile, NetName
  <1>3. \A q \in ZoneFile : q.name = ZoneName(f.name) => q = [type |-> "zone", name |-> ZoneName(f.name)]
    BY DEF ZoneFile
  <1>4. \A q \in NetFile : q.name = NetName(f.name) => q = [type |-> "network", name |-> NetName(f.name)]
    BY DEF NetFile
  <1>5. QED
    BY <1>1, <1>2, <1>3, <1>4 DEF Parents

LEMMA ParentsAreFiles ==
    ASSUME NEW f \in File, NEW p \in Parents(f)
    PROVE  p \in File /\ p.type \in {"zone", "network"} /\ p # f
  BY FileParts DEF Parents, File

LEMMA DiskRewritten ==
    ASSUME NEW d, DiskOK(d), NEW e, e \in [DOMAIN d -> Row]
    PROVE  DiskOK(e)
  BY DEF DiskOK

LEMMA DiskAdded ==
    ASSUME NEW d, DiskOK(d), NEW f \in File, Parents(f) \subseteq DOMAIN d, NEW r \in Row
    PROVE  DiskOK(With(d, f, r))
  BY DEF DiskOK, With

LEMMA DiskRemoved ==
    ASSUME NEW d, DiskOK(d), NEW f \in File, \A g \in DOMAIN d : f \notin Parents(g)
    PROVE  DiskOK(Without(d, f))
  BY DEF DiskOK, Without, Restrict

(* A renamed host or group stays where it was. *)
LEMMA SameParents ==
    ASSUME NEW f \in File, f.type \in {"host", "group"}, NEW part \in HostParts
    PROVE  LET g == [f EXCEPT !.name = [f.name EXCEPT !.host = part]] IN
           g \in File /\ g.type = f.type /\ Parents(g) = Parents(f)
  <1> DEFINE g == [f EXCEPT !.name = [f.name EXCEPT !.host = part]]
  <1>1. f \in HostFile
    BY FileParts
  <1>2. g \in HostFile /\ g.type = f.type /\ g.name = [f.name EXCEPT !.host = part]
    BY <1>1 DEF HostFile
  <1>3. ZoneName(g.name) = ZoneName(f.name) /\ NetName(g.name) = NetName(f.name)
    BY <1>1, <1>2 DEF ZoneName, NetName, HostFile
  <1> HIDE DEF g
  <1>4. g \in File
    BY <1>2 DEF File
  <1>5. \A p : p \in Parents(g) <=> p \in Parents(f)
    BY <1>2, <1>3, <1>4, ParentsLemma
  <1>6. QED
    BY <1>2, <1>4, <1>5 DEF g

LEMMA DiskRenamed ==
    ASSUME NEW d, DiskOK(d), NEW f \in DOMAIN d, f.type \in {"host", "group"},
           NEW g \in File, Parents(g) = Parents(f)
    PROVE  DiskOK(With(Without(d, f), g, d[f]))
  <1>1. f \in File /\ d[f] \in Row /\ Parents(f) \subseteq DOMAIN d
    BY DEF DiskOK
  <1>2. \A q \in DOMAIN d : f \notin Parents(q)
    BY ParentsAreFiles DEF DiskOK
  <1>3. DiskOK(Without(d, f))
    BY <1>1, <1>2, DiskRemoved
  <1>4. Parents(g) \subseteq DOMAIN Without(d, f)
    BY <1>1, <1>2 DEF Without, Restrict
  <1>5. QED
    BY <1>1, <1>3, <1>4, DiskAdded

(* What is above a file that was moved was moved along, or stayed. *)
LEMMA MovedParents ==
    ASSUME NEW top \in File, top.type \in {"zone", "network"},
           NEW part \in (IF top.type = "network" THEN NetParts ELSE ZoneParts),
           NEW f \in File
    PROVE  /\ Moved(f, top, part) \in File
           /\ \A p \in Parents(Moved(f, top, part)) :
                \E q \in Parents(f) : p = Moved(q, top, part)
  <1> DEFINE g == Moved(f, top, part)
             zf == [type |-> "zone", name |-> ZoneName(f.name)]
             nf == [type |-> "network", name |-> NetName(f.name)]
  <1>1. /\ f.type \in {"zone", "network", "host", "group"} /\ f.name \in Name
        /\ f = [type |-> f.type, name |-> f.name] /\ top.name \in Name
        /\ top = [type |-> top.type, name |-> top.name]
    BY FileLemma
  <1>2. /\ f.type # "zone" => zf \in Parents(f)
        /\ f.type \in {"host", "group"} => nf \in Parents(f)
        /\ \A p \in Parents(f) : (p = zf /\ f.type # "zone") \/ (p = nf /\ f.type \in {"host", "group"})
    BY ParentsLemma
  <1>3. g.type = f.type /\ g \in File
    <2>1. CASE f = top \/ top \in Parents(f)
      <3>1. g = [type |-> f.type, name |-> Replaced(top.type, f.name, part)]
        BY <2>1 DEF Moved
      <3>2. f \in ZoneFile \/ f \in NetFile \/ f \in HostFile
        BY DEF File
      <3>3. top.type = "network" => f.type # "zone"
        BY <1>1, <1>2, <2>1
      <3>4. CASE f \in ZoneFile
        BY <3>1, <3>3, <3>4, FileParts DEF ZoneFile, Replaced, File
      <3>5. CASE f \in NetFile
        BY <3>1, <3>5 DEF NetFile, Replaced, File
      <3>6. CASE f \in HostFile
        BY <3>1, <3>6 DEF HostFile, Replaced, File
      <3>7. QED
        BY <3>2, <3>4, <3>5, <3>6
    <2>2. CASE ~ (f = top \/ top \in Parents(f))
      BY <2>2 DEF Moved
    <2>3. QED
      BY <2>1, <2>2
  <1>4. f.type # "zone" => Moved(zf, top, part) = [type |-> "zone", name |-> ZoneName(g.name)]
    <2>1. SUFFICES ASSUME f.type # "zone"
                   PROVE  Moved(zf, top, part) = [type |-> "zone", name |-> ZoneName(g.name)]
      OBVIOUS
    <2>2. zf \in File /\ Parents(zf) = {}
      <3>1. zf \in File
        BY <1>2, <2>1, ParentsAreFiles
      <3>2. QED
        BY <3>1, ParentsLemma
    <2>3. Moved(zf, top, part) =
            IF zf = top THEN [type |-> "zone", name |-> Replaced(top.type, zf.name, part)] ELSE zf
      BY <2>2 DEF Moved
    <2>4. CASE zf = top
      <3>1. top.type = "zone" /\ g = [type |-> f.type, name |-> Replaced(top.type, f.name, part)]
        BY <1>2, <2>1, <2>4 DEF Moved
      <3>2. QED
        BY <2>3, <2>4, <3>1 DEF Replaced, ZoneName
    <2>5. CASE zf # top
      <3>1. g = f \/ /\ top.type = "network"
                     /\ g = [type |-> f.type, name |-> Replaced(top.type, f.name, part)]
        BY <1>1, <1>2, <2>1, <2>5 DEF Moved
      <3>2. ZoneName(g.name) = ZoneName(f.name)
        BY <3>1 DEF Replaced, ZoneName
      <3>3. QED
        BY <2>3, <2>5, <3>2
    <2>6. QED
      BY <2>4, <2>5
  <1>5. f.type \in {"host", "group"} =>
          Moved(nf, top, part) = [type |-> "network", name |-> NetName(g.name)]
    <2>1. SUFFICES ASSUME f.type \in {"host", "group"}
                   PROVE  Moved(nf, top, part) = [type |-> "network", name |-> NetName(g.name)]
      OBVIOUS
    <2>2. nf \in File /\ ZoneName(NetName(f.name)) = ZoneName(f.name)
      BY <1>2, <2>1, ParentsAreFiles DEF ZoneName, NetName
    <2>3. \A p : p \in Parents(nf) <=> p = zf
      BY <2>2, ParentsLemma
    <2>4. CASE nf = top
      <3>1. /\ top.type = "network" /\ g = [type |-> f.type, name |-> Replaced(top.type, f.name, part)]
            /\ Moved(nf, top, part) = [type |-> "network", name |-> Replaced(top.type, nf.name, part)]
        BY <1>2, <2>1, <2>4 DEF Moved
      <3>2. QED
        BY <3>1 DEF Replaced, NetName
    <2>5. CASE zf = top
      <3>1. /\ top.type = "zone" /\ g = [type |-> f.type, name |-> Replaced(top.type, f.name, part)]
            /\ Moved(nf, top, part) = [type |-> "network", name |-> Replaced(top.type, nf.name, part)]
        BY <1>2, <2>1, <2>3, <2>5 DEF Moved
      <3>2. QED
        BY <3>1 DEF Replaced, NetName
    <2>6. CASE nf # top /\ zf # top
      <3>1. Moved(nf, top, part) = nf
        BY <2>3, <2>6 DEF Moved
      <3>2. g = f
        BY <1>2, <2>1, <2>6 DEF Moved
      <3>3. QED
        BY <3>1, <3>2
    <2>7. QED
      BY <2>4, <2>5, <2>6
  <1>6. ASSUME NEW p \in Parents(g) PROVE \E q \in Parents(f) : p = Moved(q, top, part)
    <2>1. \/ f.type # "zone" /\ p = [type |-> "zone", name |-> ZoneName(g.name)]
          \/ f.type \in {"host", "group"} /\ p = [type |-> "network", name |-> NetName(g.name)]
      BY <1>3, <1>6, ParentsLemma
    <2>2. QED
      BY <1>2, <1>4, <1>5, <2>1
  <1>7. QED
    BY <1>3, <1>6

LEMMA DiskMoved ==
    ASSUME NEW d, DiskOK(d), NEW top \in File, top.type \in {"zone", "network"},
           NEW part \in (IF top.type = "network" THEN NetParts ELSE ZoneParts)
    PROVE  DiskOK(DirMoved(d, top, part))
  <1>1. DOMAIN DirMoved(d, top, part) = {Moved(f, top, part) : f \in DOMAIN d}
    BY DEF DirMoved
  <1>2. \A f \in DOMAIN d : f \in File /\ d[f] \in Row /\ Parents(f) \subseteq DOMAIN d
    BY DEF DiskOK
  <1>3. \A f \in DOMAIN d : Moved(f, top, part) \in File
    BY <1>2, MovedParents
  <1>4. ASSUME NEW g \in DOMAIN DirMoved(d, top, part)
        PROVE  DirMoved(d, top, part)[g] \in Row
    <2>1. PICK f \in DOMAIN d : Moved(f, top, part) = g
      BY <1>1, <1>4
    <2>2. (CHOOSE q \in DOMAIN d : Moved(q, top, part) = g) \in DOMAIN d
      BY <2>1
    <2>3. DirMoved(d, top, part)[g] = d[CHOOSE q \in DOMAIN d : Moved(q, top, part) = g]
      BY <1>1, <1>4 DEF DirMoved
    <2>4. QED
      BY <1>2, <2>2, <2>3
  <1>5. ASSUME NEW g \in DOMAIN DirMoved(d, top, part)
        PROVE  Parents(g) \subseteq DOMAIN DirMoved(d, top, part)
    <2>1. PICK f \in DOMAIN d : g = Moved(f, top, part)
      BY <1>1, <1>5
    <2>2. \A p \in Parents(g) : \E q \in Parents(f) : p = Moved(q, top, part)
      BY <1>2, <2>1, MovedParents
    <2>3. QED
      BY <1>1, <1>2, <2>2
  <1>6. DirMoved(d, top, part) \in [DOMAIN DirMoved(d, top, part) -> Row]
    <2>1. DirMoved(d, top, part) = [g \in DOMAIN DirMoved(d, top, part) |-> DirMoved(d, top, part)[g]]
      BY DEF DirMoved
    <2>2. QED
      BY <1>4, <2>1
  <1>7. QED
    BY <1>1, <1>3, <1>5, <1>6 DEF DiskOK

-----------------------------------------------------------------------------
(* Lists. *)

(* RemoveFirst takes one of the items out and shifts the rest. *)
LEMMA RemoveFirstLemma ==
    ASSUME NEW A, NEW s \in Seq(A), NEW n \in ToSet(s)
    PROVE  /\ RemoveFirst(s, n) \in Seq(A) /\ Len(RemoveFirst(s, n)) = Len(s) - 1
           /\ \E k \in 1..Len(s) :
                /\ s[k] = n
                /\ \A j \in 1..(Len(s) - 1) :
                     RemoveFirst(s, n)[j] = IF j < k THEN s[j] ELSE s[j + 1]
  <1> DEFINE I == {i \in 1..Len(s) : s[i] = n}
  <1>1. I # {} /\ I \subseteq Nat
    BY DEF ToSet
  <1>2. \E x \in I : \A y \in I : x <= y
    <2> HIDE DEF I
    <2>1. QED
      BY <1>1, LeastNumber
  <1>3. Min(I) \in I
    <2> HIDE DEF I
    <2>1. QED
      BY <1>2 DEF Min
  <1>4. RemoveFirst(s, n) = RemoveAt(s, Min(I))
    BY <1>1 DEF RemoveFirst, SelectInSeq
  <1>5. PICK k \in 1..Len(s) : s[k] = n /\ RemoveFirst(s, n) = RemoveAt(s, k)
    BY <1>3, <1>4
  <1>6. /\ SubSeq(s, 1, k - 1) \in Seq(A) /\ Len(SubSeq(s, 1, k - 1)) = k - 1
        /\ \A j \in 1..(k - 1) : SubSeq(s, 1, k - 1)[j] = s[j]
    OBVIOUS
  <1>7. /\ SubSeq(s, k + 1, Len(s)) \in Seq(A)
        /\ Len(SubSeq(s, k + 1, Len(s))) = Len(s) - k
        /\ \A j \in 1..(Len(s) - k) : SubSeq(s, k + 1, Len(s))[j] = s[j + k]
    OBVIOUS
  <1> DEFINE u == SubSeq(s, 1, k - 1)
             v == SubSeq(s, k + 1, Len(s))
  <1>8. RemoveFirst(s, n) = u \o v
    BY <1>5 DEF RemoveAt
  <1> HIDE DEF u, v
  <1>9. /\ u \in Seq(A) /\ Len(u) = k - 1 /\ v \in Seq(A) /\ Len(v) = Len(s) - k
        /\ \A j \in 1..(k - 1) : u[j] = s[j]
        /\ \A j \in 1..(Len(s) - k) : v[j] = s[j + k]
    BY <1>6, <1>7 DEF u, v
  <1>10. u \o v \in Seq(A) /\ Len(u \o v) = Len(s) - 1
    BY <1>9
  <1>11. ASSUME NEW j \in 1..(Len(s) - 1) PROVE (u \o v)[j] = IF j < k THEN s[j] ELSE s[j + 1]
    <2>1. CASE j < k
      <3>1. j \in 1..Len(u)
        BY <1>9, <2>1
      <3>2. (u \o v)[j] = u[j]
        BY <1>9, <3>1
      <3>3. QED
        BY <1>9, <2>1, <3>1, <3>2
    <2>2. CASE ~ (j < k)
      <3>1. j - Len(u) \in 1..Len(v) /\ j \in (Len(u) + 1)..(Len(u) + Len(v)) /\ j - Len(u) + k = j + 1
        BY <1>9, <2>2
      <3>2. (u \o v)[j] = v[j - Len(u)]
        BY <1>9, <3>1
      <3>3. QED
        BY <1>9, <2>2, <3>1, <3>2
    <2>3. QED
      BY <2>1, <2>2
  <1>12. QED
    BY <1>5, <1>8, <1>10, <1>11

LEMMA ReplaceAllLemma ==
    ASSUME NEW A, NEW s \in Seq(A), NEW old, NEW new \in A
    PROVE  ReplaceAll(s, old, new) \in Seq(A) /\ Len(ReplaceAll(s, old, new)) = Len(s)
  BY DEF ReplaceAll

(* A list that is saved is the old one, the new one or the head of the new one. *)
LEMMA ListSavedLemma ==
    ASSUME NEW A, NEW old \in Seq(A), NEW new \in Seq(A), NEW ok \in BOOLEAN,
           NEW s \in ListSaved(old, new, ok)
    PROVE  s \in Seq(A) /\ (Len(s) <= Len(old) \/ Len(s) <= Len(new))
  <1>1. s = old \/ s = new \/ s \in Prefixes(new)
    BY DEF ListSaved, TornList
  <1>2. CASE s \in Prefixes(new)
    <2>1. PICK l \in 0..Len(new) : s = SubSeq(new, 1, l)
      BY <1>2 DEF Prefixes
    <2>2. SubSeq(new, 1, l) \in Seq(A) /\ Len(SubSeq(new, 1, l)) <= Len(new)
      OBVIOUS
    <2>3. QED
      BY <2>1, <2>2
  <1>3. QED
    BY <1>1, <1>2

-----------------------------------------------------------------------------
(* Objects in memory. *)

(* r is what became of q when only its name, active and refcnt_blocklist changed. *)
Like(r, q) ==
    /\ r \in ZoneData /\ r.type = q.type /\ r.parents = q.parents
    /\ r.GroupList = q.GroupList /\ r.InterfaceList = q.InterfaceList
    /\ r.refcnt_group = q.refcnt_group

LEMMA LikeLemma ==
    ASSUME NEW r \in ZoneData
    PROVE  /\ Like(r, r)
           /\ \A a \in BOOLEAN : LET q == [r EXCEPT !.active = a] IN
                Like(q, r) /\ q.name = r.name /\ q.refcnt_blocklist = r.refcnt_blocklist
           /\ \A n \in Name : LET q == [r EXCEPT !.name = n] IN
                Like(q, r) /\ q.name = n /\ q.refcnt_blocklist = r.refcnt_blocklist
           /\ \A c \in 0..MaxRef : LET q == [r EXCEPT !.refcnt_blocklist = c] IN
                Like(q, r) /\ q.name = r.name /\ q.refcnt_blocklist = c
  BY DEF Like, ZoneData

LEMMA MemLike ==
    ASSUME NEW z, MemOK(z), NEW y, DOMAIN y = DOMAIN z, y \in [DOMAIN z -> ZoneData],
           \A b \in DOMAIN z : /\ Like(y[b], z[b])
                               /\ [type |-> y[b].type, name |-> y[b].name] \in File
    PROVE  MemOK(y)
  BY DEF MemOK, Like

LEMMA FileOfLemma ==
    ASSUME BaseInv, NEW b \in DOMAIN zones
    PROVE  /\ FileOf(b) \in File /\ FileOf(b).type = zones[b].type /\ FileOf(b).name = zones[b].name
           /\ zones[b] \in ZoneData /\ zones[b].name \in Name /\ b \in File
  BY DEF BaseInv, MemOK, FileOf, ZoneData

LEMMA BeginLemma ==
    ASSUME BaseInv, NEW fault \in BOOLEAN, Begin(fault)
    PROVE  /\ Defined /\ ops' = ops + 1 /\ ops' \in 0..MaxOps /\ failures' \in 0..MaxFailures
           /\ ops \in Nat
  <1>1. ops \in 0..MaxOps /\ failures \in 0..MaxFailures /\ MaxOps \in Nat /\ MaxFailures \in Nat
    BY EditorAssumption DEF BaseInv, TypeOK
  <1>2. Defined /\ ops < MaxOps /\ ops' = ops + 1 /\ (fault => failures < MaxFailures)
        /\ failures' = failures + (IF fault THEN 1 ELSE 0)
    BY DEF Begin
  <1>3. failures' \in 0..MaxFailures
    <2>1. CASE fault
      BY <1>1, <1>2, <2>1
    <2>2. CASE ~fault
      BY <1>1, <1>2, <2>2
    <2>3. QED
      BY <2>1, <2>2
  <1>4. QED
    BY <1>1, <1>2, <1>3

LEMMA EndLemma ==
    ASSUME BaseInv, NEW ok \in BOOLEAN, NEW harms, harms \subseteq Harms, End(ok, harms)
    PROVE  outcome' \in {"started", "ok", "failed"} /\ hurt' \subseteq Harms /\ hurt' = hurt \cup harms
  BY DEF End, BaseInv, TypeOK

(* What is left to say of a step that keeps memory and disk in order. *)
LEMMA BaseStep ==
    ASSUME BaseInv, MemOK(zones'), DiskOK(disk'),
           DOMAIN refcnt_network' \subseteq Ifaces,
           refcnt_network' \in [DOMAIN refcnt_network' -> 0..MaxRef],
           rules' \in Seq(Name \cup {Firewall, Broken}),
           savedRules' \in Seq(Name \cup {Firewall, Broken}),
           blocked' \in Seq(Name), savedBlocked' \in Seq(Name),
           ops' = ops + 1, ops' \in 0..MaxOps, failures' \in 0..MaxFailures,
           outcome' \in {"started", "ok", "failed"}, hurt' \subseteq Harms,
           Len(blocked') <= Len(DiskBlocked) + ops + 1,
           Len(savedBlocked') <= Len(DiskBlocked) + ops + 1
    PROVE  BaseInv'
  <1>1. ops \in Nat /\ Len(DiskBlocked) \in Nat
    BY EditorAssumption DEF BaseInv, TypeOK
  <1>2. TypeOK'
    BY DEF TypeOK, MemOK, DiskOK
  <1>3. ListsFit'
    BY <1>1 DEF ListsFit
  <1>4. QED
    BY <1>2, <1>3 DEF BaseInv, MemOK, DiskOK

(* The lists did not change. *)
LEMMA SameLists ==
    ASSUME BaseInv
    PROVE  /\ rules \in Seq(Name \cup {Firewall, Broken})
           /\ savedRules \in Seq(Name \cup {Firewall, Broken})
           /\ blocked \in Seq(Name) /\ savedBlocked \in Seq(Name)
           /\ DOMAIN refcnt_network \subseteq Ifaces
           /\ refcnt_network \in [DOMAIN refcnt_network -> 0..MaxRef]
           /\ Len(blocked) <= Len(DiskBlocked) + ops + 1
           /\ Len(savedBlocked) <= Len(DiskBlocked) + ops + 1
  <1>1. ops \in Nat /\ Len(DiskBlocked) \in Nat /\ Len(blocked) \in Nat /\ Len(savedBlocked) \in Nat
    BY EditorAssumption DEF BaseInv, TypeOK
  <1>2. QED
    BY <1>1 DEF BaseInv, TypeOK, ListsFit

(* The objects stay, with what they point at. *)
Alike ==
    /\ zones' \in [DOMAIN zones -> ZoneData] /\ refcnt_network' = refcnt_network
    /\ \A b \in DOMAIN zones : Like(zones'[b], zones[b])

LEMMA SetActiveBase ==
    ASSUME BaseInv, NEW b \in DOMAIN zones, NEW fault \in BOOLEAN, SetActive(b, fault)
    PROVE  /\ BaseInv' /\ Alike
           /\ \A c \in DOMAIN zones : /\ zones'[c].name = zones[c].name
                                      /\ zones'[c].refcnt_blocklist = zones[c].refcnt_blocklist
  <1> DEFINE ok == ~fault /\ FileOf(b) \in DOMAIN disk
             r == [zones[b] EXCEPT !.active = ~zones[b].active]
  <1>1. /\ zones' = [zones EXCEPT ![b] = r]
        /\ disk' = IF ok THEN [disk EXCEPT ![FileOf(b)].active = zones'[b].active] ELSE disk
        /\ Begin(fault) /\ End(ok, Halfway(ok))
        /\ UNCHANGED <<refcnt_network, rules, blocked, savedRules, savedBlocked>>
    BY DEF SetActive
  <1>2. /\ Like(r, zones[b]) /\ r.name = zones[b].name
        /\ r.refcnt_blocklist = zones[b].refcnt_blocklist
    <2>1. zones[b] \in ZoneData /\ (~zones[b].active) \in BOOLEAN
      BY FileOfLemma
    <2>2. QED
      BY <2>1, LikeLemma
  <1> HIDE DEF r
  <1>3. zones \in [DOMAIN zones -> ZoneData] /\ MemOK(zones) /\ r \in ZoneData
    BY <1>2 DEF BaseInv, TypeOK, Like
  <1>4. /\ zones' \in [DOMAIN zones -> ZoneData]
        /\ \A c \in DOMAIN zones : zones'[c] = IF c = b THEN r ELSE zones[c]
    BY <1>1, <1>3
  <1>5. \A c \in DOMAIN zones : /\ Like(zones'[c], zones[c]) /\ zones'[c].name = zones[c].name
                                /\ zones'[c].refcnt_blocklist = zones[c].refcnt_blocklist
    BY <1>2, <1>3, <1>4, LikeLemma
  <1>6. MemOK(zones')
    <2>1. \A c \in DOMAIN zones : [type |-> zones'[c].type, name |-> zones'[c].name] \in File
      BY <1>5 DEF Like, BaseInv, MemOK
    <2>2. QED
      BY <1>3, <1>4, <1>5, <2>1, MemLike
  <1>7. DiskOK(disk')
    <2>1. CASE ok
      <3>1. zones'[b].active \in BOOLEAN /\ disk \in [DOMAIN disk -> Row]
        BY <1>4 DEF ZoneData, BaseInv, TypeOK
      <3>2. [disk[FileOf(b)] EXCEPT !.active = zones'[b].active] \in Row
        BY <2>1, <3>1 DEF Row
      <3>3. disk' \in [DOMAIN disk -> Row]
        BY <1>1, <2>1, <3>1, <3>2
      <3>4. QED
        BY <3>3, DiskRewritten DEF BaseInv
    <2>2. QED
      BY <1>1, <2>1 DEF BaseInv
  <1>8. BaseInv'
    <2>1. Halfway(ok) \subseteq Harms /\ ok \in BOOLEAN
      BY DEF Halfway, Harms
    <2>2. QED
      BY <1>1, <1>6, <1>7, <2>1, BeginLemma, EndLemma, SameLists, BaseStep
  <1>9. QED
    BY <1>1, <1>4, <1>5, <1>8 DEF Alike

LEMMA OneChanged ==
    ASSUME BaseInv, NEW b \in DOMAIN zones, NEW r, Like(r, zones[b]),
           [type |-> r.type, name |-> r.name] \in File, zones' = [zones EXCEPT ![b] = r]
    PROVE  /\ zones' \in [DOMAIN zones -> ZoneData] /\ MemOK(zones')
           /\ \A c \in DOMAIN zones : /\ Like(zones'[c], zones[c])
                                      /\ zones'[c] = IF c = b THEN r ELSE zones[c]
  <1>1. zones \in [DOMAIN zones -> ZoneData] /\ MemOK(zones) /\ r \in ZoneData
    BY DEF BaseInv, TypeOK, Like
  <1>2. /\ zones' \in [DOMAIN zones -> ZoneData]
        /\ \A c \in DOMAIN zones : zones'[c] = IF c = b THEN r ELSE zones[c]
    BY <1>1
  <1>3. \A c \in DOMAIN zones : Like(zones'[c], zones[c])
    BY <1>1, <1>2, LikeLemma
  <1>4. \A c \in DOMAIN zones : [type |-> zones'[c].type, name |-> zones'[c].name] \in File
    BY <1>1, <1>2 DEF MemOK
  <1>5. DOMAIN zones' = DOMAIN zones
    BY <1>2
  <1>6. MemOK(zones')
    BY <1>1, <1>2, <1>3, <1>4, <1>5, MemLike
  <1>7. QED
    BY <1>2, <1>3, <1>6

(* The members of a group are hosts, and have the names of hosts. *)
LEMMA HostNamesLemma ==
    ASSUME NEW m, MemOK(m), NEW g \in DOMAIN m, m[g].GroupList \subseteq DOMAIN m
    PROVE  HostNames(m, g) \in SUBSET HostParts
  <1>1. ASSUME NEW h \in m[g].GroupList PROVE m[h].name.host \in HostParts
    <2>1. m[h].type = "host" /\ [type |-> m[h].type, name |-> m[h].name] \in File
      BY DEF MemOK
    <2>2. [type |-> m[h].type, name |-> m[h].name] \in HostFile
      BY <2>1, FileParts
    <2>3. QED
      BY <2>2 DEF HostFile
  <1>2. QED
    BY <1>1 DEF HostNames

LEMMA MemberWritten ==
    ASSUME NEW d, DiskOK(d), NEW f \in DOMAIN d, NEW s \in SUBSET HostParts
    PROVE  DiskOK([d EXCEPT ![f].MEMBER = s])
  <1>1. [d[f] EXCEPT !.MEMBER = s] \in Row /\ d \in [DOMAIN d -> Row]
    BY DEF DiskOK, Row
  <1>2. [d EXCEPT ![f].MEMBER = s] \in [DOMAIN d -> Row]
    BY <1>1
  <1>3. QED
    BY <1>2, DiskRewritten

LEMMA InterfaceWritten ==
    ASSUME NEW d, DiskOK(d), NEW f \in DOMAIN d, NEW s \in SUBSET Ifaces
    PROVE  DiskOK([d EXCEPT ![f].INTERFACE = s])
  <1>1. [d[f] EXCEPT !.INTERFACE = s] \in Row /\ d \in [DOMAIN d -> Row]
    BY DEF DiskOK, Row
  <1>2. [d EXCEPT ![f].INTERFACE = s] \in [DOMAIN d -> Row]
    BY <1>1
  <1>3. QED
    BY <1>2, DiskRewritten

LEMMA MembersSavedLemma ==
    ASSUME NEW d, DiskOK(d), NEW m, MemOK(m), NEW g \in DOMAIN m,
           m[g].GroupList \subseteq DOMAIN m, NEW ok \in BOOLEAN,
           NEW e \in MembersSaved(d, m, g, ok)
    PROVE  DiskOK(e)
  <1> DEFINE f == [type |-> m[g].type, name |-> m[g].name]
  <1>1. HostNames(m, g) \in SUBSET HostParts
    BY HostNamesLemma
  <1>2. CASE f \in DOMAIN d
    <2>1. d[f] \in Row
      BY <1>2 DEF DiskOK
    <2>2. d[f].MEMBER \in SUBSET HostParts
      BY <2>1 DEF Row
    <2>3. PICK s \in IF ok THEN {HostNames(m, g)} ELSE Torn(d[f].MEMBER, HostNames(m, g)) :
            e = [d EXCEPT ![f].MEMBER = s]
      BY <1>2 DEF MembersSaved
    <2>4. s \in SUBSET HostParts
      BY <1>1, <2>2 DEF Torn
    <2>5. QED
      BY <1>2, <2>3, <2>4, MemberWritten
  <1>3. CASE f \notin DOMAIN d
    BY <1>3 DEF MembersSaved
  <1>4. QED
    BY <1>2, <1>3

LEMMA InterfacesSavedLemma ==
    ASSUME NEW d, DiskOK(d), NEW m, MemOK(m), NEW n \in DOMAIN m, NEW ok \in BOOLEAN,
           NEW e \in InterfacesSaved(d, m, n, ok)
    PROVE  DiskOK(e)
  <1> DEFINE f == [type |-> m[n].type, name |-> m[n].name]
  <1>1. m[n].InterfaceList \in SUBSET Ifaces
    BY DEF MemOK, ZoneData
  <1>2. CASE f \in DOMAIN d
    <2>1. d[f] \in Row
      BY <1>2 DEF DiskOK
    <2>2. d[f].INTERFACE \in SUBSET Ifaces
      BY <2>1 DEF Row
    <2>3. PICK s \in IF ok THEN {m[n].InterfaceList} ELSE Torn(d[f].INTERFACE, m[n].InterfaceList) :
            e = [d EXCEPT ![f].INTERFACE = s]
      BY <1>2 DEF InterfacesSaved
    <2>4. s \in SUBSET Ifaces
      BY <1>1, <2>2 DEF Torn
    <2>5. QED
      BY <1>2, <2>3, <2>4, InterfaceWritten
  <1>3. CASE f \notin DOMAIN d
    BY <1>3 DEF InterfacesSaved
  <1>4. QED
    BY <1>2, <1>3

LEMMA GroupsSavedLemma ==
    ASSUME NEW d, DiskOK(d), NEW m, MemOK(m), NEW S \in SUBSET DOMAIN m,
           \A g \in S : m[g].GroupList \subseteq DOMAIN m, NEW ok \in BOOLEAN,
           NEW e \in GroupsSaved(d, m, S, ok)
    PROVE  DiskOK(e)
  <1>1. ASSUME NEW T \in SUBSET S PROVE DiskOK(AllSaved(d, m, T))
    <2>1. ASSUME NEW f \in DOMAIN d PROVE AllSaved(d, m, T)[f] \in Row
      <3>1. d[f] \in Row
        BY DEF DiskOK
      <3>2. CASE \E g \in T : m[g].name = f.name /\ f.type = "group"
        <4>1. PICK g \in T : g = CHOOSE q \in T : m[q].name = f.name
          BY <3>2
        <4>2. HostNames(m, g) \in SUBSET HostParts
          BY HostNamesLemma
        <4>3. AllSaved(d, m, T)[f] = [d[f] EXCEPT !.MEMBER = HostNames(m, g)]
          BY <3>2, <4>1 DEF AllSaved
        <4>4. QED
          BY <3>1, <4>2, <4>3 DEF Row
      <3>3. CASE ~ \E g \in T : m[g].name = f.name /\ f.type = "group"
        BY <3>1, <3>3 DEF AllSaved
      <3>4. QED
        BY <3>2, <3>3
    <2>2. AllSaved(d, m, T) = [f \in DOMAIN d |-> AllSaved(d, m, T)[f]]
      BY DEF AllSaved
    <2>3. AllSaved(d, m, T) \in [DOMAIN d -> Row]
      BY <2>1, <2>2
    <2>4. QED
      BY <2>3, DiskRewritten
  <1>2. CASE ok
    BY <1>1, <1>2 DEF GroupsSaved
  <1>3. CASE ~ok
    <2> DEFINE saved(T, g) == MembersSaved(AllSaved(d, m, T), m, g, FALSE)
    <2>1. PICK T \in SUBSET S, g \in S : e \in saved(T, g)
      <3>1. GroupsSaved(d, m, S, ok) = UNION {saved(T, g) : T \in SUBSET S, g \in S}
        BY <1>3 DEF GroupsSaved
      <3> HIDE DEF saved
      <3>2. QED
        <4>1. PICK X \in {saved(T, g) : T \in SUBSET S, g \in S} : e \in X
          BY <3>1
        <4>2. QED
          BY <4>1
    <2>2. QED
      BY <1>1, <2>1, MembersSavedLemma
  <1>4. QED
    BY <1>2, <1>3

LEMMA BlockBase ==
    ASSUME BaseInv, NEW b \in DOMAIN zones, NEW fault \in BOOLEAN, Block(b, fault)
    PROVE  /\ BaseInv' /\ Alike
           /\ \A c \in DOMAIN zones : zones'[c].name = zones[c].name
  <1> DEFINE c == Up(zones[b].refcnt_blocklist)
             r == [zones[b] EXCEPT !.refcnt_blocklist = c]
  <1>1. /\ zones' = IF Counted(b) THEN [zones EXCEPT ![b] = r] ELSE zones
        /\ blocked' = Append(blocked, zones[b].name)
        /\ savedBlocked' \in ListSaved(savedBlocked, blocked', ~fault)
        /\ Begin(fault) /\ End(~fault, Halfway(~fault) \cup IF zones[b].active THEN {} ELSE {"blind"})
        /\ UNCHANGED <<refcnt_network, rules, disk, savedRules>>
    BY DEF Block
  <1>2. zones[b] \in ZoneData /\ zones[b].name \in Name /\ c \in 0..MaxRef
    <2>1. zones[b] \in ZoneData /\ zones[b].name \in Name
      BY FileOfLemma
    <2>2. zones[b].refcnt_blocklist \in 0..MaxRef
      BY <2>1 DEF ZoneData
    <2>3. QED
      BY <2>1, <2>2, UpDown
  <1>3. Like(r, zones[b]) /\ r.name = zones[b].name /\ r.type = zones[b].type
    <2> HIDE DEF c
    <2>1. QED
      BY <1>2, LikeLemma DEF Like
  <1> HIDE DEF r, c
  <1>4. /\ zones' \in [DOMAIN zones -> ZoneData] /\ MemOK(zones')
        /\ \A q \in DOMAIN zones : Like(zones'[q], zones[q]) /\ zones'[q].name = zones[q].name
    <2>1. CASE Counted(b)
      <3>1. [type |-> r.type, name |-> r.name] \in File
        BY <1>3, FileOfLemma DEF FileOf
      <3>2. zones' = [zones EXCEPT ![b] = r]
        BY <1>1, <2>1
      <3>3. /\ zones' \in [DOMAIN zones -> ZoneData] /\ MemOK(zones')
            /\ \A q \in DOMAIN zones : /\ Like(zones'[q], zones[q])
                                       /\ zones'[q] = IF q = b THEN r ELSE zones[q]
        BY <1>3, <3>1, <3>2, OneChanged
      <3>4. QED
        BY <1>3, <3>3
    <2>2. CASE ~Counted(b)
      <3>1. zones' = zones
        BY <1>1, <2>2
      <3>2. \A q \in DOMAIN zones : Like(zones[q], zones[q])
        BY FileOfLemma, LikeLemma
      <3>3. QED
        BY <3>1, <3>2 DEF BaseInv, TypeOK
    <2>3. QED
      BY <2>1, <2>2
  <1>5. blocked' \in Seq(Name) /\ Len(blocked') = Len(blocked) + 1 /\ Len(blocked) \in Nat
        /\ blocked \in Seq(Name) /\ savedBlocked \in Seq(Name)
    BY <1>1, <1>2, SameLists
  <1>6. savedBlocked' \in Seq(Name)
        /\ (Len(savedBlocked') <= Len(savedBlocked) \/ Len(savedBlocked') <= Len(blocked'))
    <2>1. (~fault) \in BOOLEAN
      OBVIOUS
    <2>2. QED
      BY <1>1, <1>5, <2>1, ListSavedLemma
  <1>7. /\ Len(blocked') <= Len(DiskBlocked) + ops + 1
        /\ Len(savedBlocked') <= Len(DiskBlocked) + ops + 1
    <2>1. ops \in Nat /\ Len(DiskBlocked) \in Nat /\ Len(savedBlocked) \in Nat /\ Len(savedBlocked') \in Nat
      BY <1>5, <1>6, EditorAssumption DEF BaseInv, TypeOK
    <2>2. Len(blocked) <= Len(DiskBlocked) + ops /\ Len(savedBlocked) <= Len(DiskBlocked) + ops
      BY DEF BaseInv, ListsFit
    <2>3. QED
      BY <1>5, <1>6, <2>1, <2>2
  <1>8. BaseInv'
    <2>1. (Halfway(~fault) \cup IF zones[b].active THEN {} ELSE {"blind"}) \subseteq Harms
          /\ (~fault) \in BOOLEAN
      BY DEF Halfway, Harms
    <2>2. DiskOK(disk')
      BY <1>1 DEF BaseInv
    <2>3. outcome' \in {"started", "ok", "failed"} /\ hurt' \subseteq Harms
      BY <1>1, <2>1, EndLemma
    <2>4. QED
      BY <1>1, <1>4, <1>5, <1>6, <1>7, <2>2, <2>3, BeginLemma, SameLists, BaseStep
  <1>9. QED
    BY <1>1, <1>4, <1>8 DEF Alike

LEMMA UnblockBase ==
    ASSUME BaseInv, NEW n \in ToSet(blocked), NEW fault \in BOOLEAN, Unblock(n, fault)
    PROVE  /\ BaseInv' /\ Alike
           /\ \A c \in DOMAIN zones : zones'[c].name = zones[c].name
  <1>1. /\ zones' \in IF Search(n) = {} THEN {zones}
                      ELSE {[zones EXCEPT ![b].refcnt_blocklist = IF @ > 0 THEN @ - 1 ELSE 0] :
                               b \in Search(n)}
        /\ blocked' = RemoveFirst(blocked, n)
        /\ savedBlocked' \in ListSaved(savedBlocked, blocked', ~fault)
        /\ Begin(fault) /\ End(~fault, Halfway(~fault))
        /\ UNCHANGED <<refcnt_network, rules, disk, savedRules>>
    BY DEF Unblock
  <1>2. /\ zones' \in [DOMAIN zones -> ZoneData] /\ MemOK(zones')
        /\ \A q \in DOMAIN zones : Like(zones'[q], zones[q]) /\ zones'[q].name = zones[q].name
    <2>1. CASE Search(n) # {}
      <3>1. PICK b \in Search(n) :
              zones' = [zones EXCEPT ![b].refcnt_blocklist = IF @ > 0 THEN @ - 1 ELSE 0]
        BY <1>1, <2>1
      <3> DEFINE k == zones[b].refcnt_blocklist
                 c == IF k > 0 THEN k - 1 ELSE 0
                 r == [zones[b] EXCEPT !.refcnt_blocklist = c]
      <3>2. b \in DOMAIN zones /\ zones' = [zones EXCEPT ![b] = r]
        BY <3>1 DEF Search
      <3>3. zones[b] \in ZoneData /\ k \in 0..MaxRef /\ c \in 0..MaxRef
        <4>1. zones[b] \in ZoneData
          BY <3>2, FileOfLemma
        <4>2. k \in 0..MaxRef /\ MaxRef \in Nat
          BY <4>1, EditorAssumption DEF ZoneData
        <4>3. c \in 0..MaxRef
          BY <4>2
        <4>4. QED
          BY <4>1, <4>2, <4>3
      <3>4. Like(r, zones[b]) /\ r.name = zones[b].name /\ r.type = zones[b].type
        <4> HIDE DEF c
        <4>1. QED
          BY <3>3, LikeLemma DEF Like
      <3> HIDE DEF r, c
      <3>5. [type |-> r.type, name |-> r.name] \in File
        BY <3>2, <3>4, FileOfLemma DEF FileOf
      <3>6. /\ zones' \in [DOMAIN zones -> ZoneData] /\ MemOK(zones')
            /\ \A q \in DOMAIN zones : /\ Like(zones'[q], zones[q])
                                       /\ zones'[q] = IF q = b THEN r ELSE zones[q]
        BY <3>2, <3>4, <3>5, OneChanged
      <3>7. QED
        BY <3>4, <3>6
    <2>2. CASE Search(n) = {}
      <3>1. zones' = zones
        BY <1>1, <2>2
      <3>2. \A q \in DOMAIN zones : Like(zones[q], zones[q])
        BY FileOfLemma, LikeLemma
      <3>3. QED
        BY <3>1, <3>2 DEF BaseInv, TypeOK
    <2>3. QED
      BY <2>1, <2>2
  <1>3. blocked' \in Seq(Name) /\ Len(blocked') = Len(blocked) - 1 /\ Len(blocked) \in Nat
        /\ blocked \in Seq(Name) /\ savedBlocked \in Seq(Name)
    BY <1>1, SameLists, RemoveFirstLemma
  <1>4. savedBlocked' \in Seq(Name)
        /\ (Len(savedBlocked') <= Len(savedBlocked) \/ Len(savedBlocked') <= Len(blocked'))
    <2>1. (~fault) \in BOOLEAN
      OBVIOUS
    <2>2. QED
      BY <1>1, <1>3, <2>1, ListSavedLemma
  <1>5. /\ Len(blocked') <= Len(DiskBlocked) + ops + 1
        /\ Len(savedBlocked') <= Len(DiskBlocked) + ops + 1
    <2>1. ops \in Nat /\ Len(DiskBlocked) \in Nat /\ Len(savedBlocked) \in Nat /\ Len(savedBlocked') \in Nat
      BY <1>3, <1>4, EditorAssumption DEF BaseInv, TypeOK
    <2>2. Len(blocked) <= Len(DiskBlocked) + ops /\ Len(savedBlocked) <= Len(DiskBlocked) + ops
      BY DEF BaseInv, ListsFit
    <2>3. QED
      BY <1>3, <1>4, <2>1, <2>2
  <1>6. BaseInv'
    <2>1. Halfway(~fault) \subseteq Harms /\ (~fault) \in BOOLEAN
      BY DEF Halfway, Harms
    <2>2. DiskOK(disk')
      BY <1>1 DEF BaseInv
    <2>3. outcome' \in {"started", "ok", "failed"} /\ hurt' \subseteq Harms
      BY <1>1, <2>1, EndLemma
    <2>4. QED
      BY <1>1, <1>2, <1>3, <1>4, <1>5, <2>2, <2>3, BeginLemma, SameLists, BaseStep
  <1>7. QED
    BY <1>1, <1>2, <1>6 DEF Alike

(* Nothing but the outcome changed. *)
LEMMA NothingBase ==
    ASSUME BaseInv, NEW fault \in BOOLEAN, Begin(fault), NEW ok \in BOOLEAN,
           NEW harms, harms \subseteq Harms, End(ok, harms), UNCHANGED <<memory, backend>>
    PROVE  BaseInv' /\ Alike
  <1>1. /\ zones' = zones /\ refcnt_network' = refcnt_network /\ rules' = rules
        /\ blocked' = blocked /\ disk' = disk /\ savedRules' = savedRules
        /\ savedBlocked' = savedBlocked
    BY DEF memory, backend
  <1>2. \A q \in DOMAIN zones : Like(zones[q], zones[q])
    BY FileOfLemma, LikeLemma
  <1>3. zones \in [DOMAIN zones -> ZoneData] /\ MemOK(zones') /\ DiskOK(disk')
    BY <1>1 DEF BaseInv, TypeOK
  <1>4. Alike
    BY <1>1, <1>2, <1>3 DEF Alike
  <1>5. BaseInv'
    BY <1>1, <1>3, BeginLemma, EndLemma, SameLists, BaseStep
  <1>6. QED
    BY <1>4, <1>5

(* The object in block b is renamed, its file and its lists. *)
LEMMA RenameHostGroupBase ==
    ASSUME BaseInv, NEW b \in DOMAIN zones, NEW part \in HostParts, NEW at \in Stages,
           RenameHostGroup(b, part, at)
    PROVE  BaseInv' /\ Alike
  <1> DEFINE old     == zones[b].name
             new     == [old EXCEPT !.host = part]
             from    == FileOf(b)
             to      == [from EXCEPT !.name = new]
             r       == [zones[b] EXCEPT !.name = new]
             renamed == [zones EXCEPT ![b].name = new]
             groups  == IF zones[b].type = "host" THEN GroupsNaming(renamed, new) ELSE {}
             moved   == With(Without(disk, from), to, disk[from])
             ok      == at = "none" /\ Written(moved, renamed, groups)
             taken   == IF Search(new) # {} \/ to \in DOMAIN disk THEN {"clash"} ELSE {}
  <1>1. Begin(at # "none") /\ (at # "none") \in BOOLEAN
    BY DEF RenameHostGroup
  <1>2. zones[b].type \in {"host", "group"}
    BY DEF RenameHostGroup
  <1>3. CASE at = "rename" \/ from \notin DOMAIN disk
    <2>1. End(FALSE, {}) /\ UNCHANGED <<memory, backend>>
      BY <1>3 DEF RenameHostGroup
    <2>2. FALSE \in BOOLEAN /\ {} \subseteq Harms
      OBVIOUS
    <2>3. QED
      BY <1>1, <2>1, <2>2, NothingBase
  <1>4. CASE ~ (at = "rename" \/ from \notin DOMAIN disk)
    <2>1. /\ zones' = renamed
          /\ rules' = ReplaceAll(rules, old, new)
          /\ savedRules' \in IF Contains(rules, old)
                             THEN ListSaved(savedRules, rules', at # "rules") ELSE {savedRules}
          /\ blocked' = IF at = "rules" THEN blocked ELSE ReplaceAll(blocked, old, new)
          /\ savedBlocked' \in IF blocked' # blocked
                               THEN ListSaved(savedBlocked, blocked', at # "blocklist")
                               ELSE {savedBlocked}
          /\ disk' \in IF at \in {"rules", "blocklist"} THEN {moved}
                       ELSE GroupsSaved(moved, renamed, groups, ok)
          /\ End(ok, Halfway(ok) \cup taken)
          /\ refcnt_network' = refcnt_network
      BY <1>4 DEF RenameHostGroup
    <2>2. /\ from \in File /\ from.type = zones[b].type /\ from.name = old
          /\ zones[b] \in ZoneData /\ old \in Name
      BY FileOfLemma
    <2>3. new \in Name
      BY <2>2 DEF Name
    <2>4. to \in File /\ to.type = from.type /\ Parents(to) = Parents(from)
      BY <1>2, <2>2, SameParents
    <2>5. [type |-> zones[b].type, name |-> new] = to
      BY <2>2 DEF FileOf
    <2>6. Like(r, zones[b]) /\ r.name = new /\ r.type = zones[b].type
      <3> HIDE DEF new
      <3>1. QED
        BY <2>2, <2>3, LikeLemma DEF Like
    <2>7. zones' = [zones EXCEPT ![b] = r]
      BY <2>1
    <2>8. /\ zones' \in [DOMAIN zones -> ZoneData] /\ MemOK(zones')
          /\ \A c \in DOMAIN zones : Like(zones'[c], zones[c])
      <3> HIDE DEF r, new, to
      <3>1. QED
        BY <2>4, <2>5, <2>6, <2>7, OneChanged
    <2>9. DiskOK(moved)
      BY <1>2, <1>4, <2>2, <2>4, DiskRenamed DEF BaseInv
    <2>10. DiskOK(disk')
      <3>1. groups \in SUBSET DOMAIN zones' /\ DOMAIN zones' = DOMAIN zones
        BY <2>1 DEF GroupsNaming, Groups
      <3>2. \A g \in DOMAIN zones' : zones'[g].GroupList \subseteq DOMAIN zones'
        BY <1>1, <2>8, <3>1, BeginLemma DEF Defined, Like
      <3>3. disk' = moved \/ disk' \in GroupsSaved(moved, zones', groups, ok)
        BY <2>1
      <3>4. ok \in BOOLEAN
        OBVIOUS
      <3> HIDE DEF moved, groups, ok
      <3>5. QED
        BY <2>8, <2>9, <3>1, <3>2, <3>3, <3>4, GroupsSavedLemma
    <2>11. /\ rules' \in Seq(Name \cup {Firewall, Broken})
           /\ savedRules' \in Seq(Name \cup {Firewall, Broken})
      <3>1. rules' \in Seq(Name \cup {Firewall, Broken})
        BY <2>1, <2>3, SameLists, ReplaceAllLemma
      <3>2. savedRules' = savedRules \/ savedRules' \in ListSaved(savedRules, rules', at # "rules")
        BY <2>1
      <3>3. QED
        BY <3>1, <3>2, SameLists, ListSavedLemma
    <2>12. /\ blocked' \in Seq(Name) /\ Len(blocked') = Len(blocked)
           /\ savedBlocked' \in Seq(Name)
           /\ Len(savedBlocked') <= Len(savedBlocked) \/ Len(savedBlocked') <= Len(blocked')
      <3>1. blocked' \in Seq(Name) /\ Len(blocked') = Len(blocked)
        BY <2>1, <2>3, SameLists, ReplaceAllLemma
      <3>2. \/ savedBlocked' = savedBlocked
            \/ savedBlocked' \in ListSaved(savedBlocked, blocked', at # "blocklist")
        BY <2>1
      <3>3. savedBlocked' = savedBlocked => Len(savedBlocked') <= Len(savedBlocked)
        BY SameLists
      <3>4. QED
        BY <3>1, <3>2, <3>3, SameLists, ListSavedLemma
    <2>13. /\ Len(blocked') <= Len(DiskBlocked) + ops + 1
           /\ Len(savedBlocked') <= Len(DiskBlocked) + ops + 1
      <3>1. Len(blocked') \in Nat /\ Len(savedBlocked') \in Nat /\ Len(savedBlocked) \in Nat
            /\ ops \in Nat /\ Len(DiskBlocked) \in Nat
        BY <2>12, SameLists, EditorAssumption DEF BaseInv, TypeOK
      <3>2. QED
        BY <2>12, <3>1, SameLists
    <2>14. (Halfway(ok) \cup taken) \subseteq Harms /\ ok \in BOOLEAN
      BY DEF Halfway, Harms
    <2>15. outcome' \in {"started", "ok", "failed"} /\ hurt' \subseteq Harms
      <3> HIDE DEF ok, taken
      <3>1. QED
        BY <2>1, <2>14, EndLemma
    <2>16. BaseInv'
      BY <1>1, <2>1, <2>8, <2>10, <2>11, <2>12, <2>13, <2>15, BeginLemma, SameLists, BaseStep
    <2>17. QED
      BY <2>1, <2>8, <2>16 DEF Alike
  <1>5. QED
    BY <1>3, <1>4

(* A name that is replaced in an object below a network or a zone fits its type. *)
LEMMA ReplacedFits ==
    ASSUME NEW f \in File, NEW t \in {"network", "zone"}, t = "network" => f.type # "zone",
           NEW part \in (IF t = "network" THEN NetParts ELSE ZoneParts)
    PROVE  [type |-> f.type, name |-> Replaced(t, f.name, part)] \in File
  <1>1. f \in ZoneFile \/ f \in NetFile \/ f \in HostFile
    BY DEF File
  <1>2. CASE f \in ZoneFile
    BY <1>2, FileParts DEF ZoneFile, Replaced, File
  <1>3. CASE f \in NetFile
    BY <1>3 DEF NetFile, Replaced, File
  <1>4. CASE f \in HostFile
    BY <1>4 DEF HostFile, Replaced, File
  <1>5. QED
    BY <1>1, <1>2, <1>3, <1>4

LEMMA ReplacedName ==
    ASSUME NEW n \in Name, NEW t \in {"network", "zone"},
           NEW part \in (IF t = "network" THEN NetParts ELSE ZoneParts)
    PROVE  Replaced(t, n, part) \in Name
  BY DEF Name, Replaced

(* What a rename of a network or a zone does to the objects. *)
Renamed(z, b, part, all) ==
    [c \in DOMAIN z |->
        IF c = b \/ /\ all /\ Touched(z[b].type, z[b].name, z[c].name)
                    /\ z[c].type \in (IF z[b].type = "network" THEN {"host", "group"}
                                      ELSE {"network", "host", "group"})
        THEN [z[c] EXCEPT !.name = Replaced(z[b].type, @, part)] ELSE z[c]]

LEMMA RenamedLemma ==
    ASSUME BaseInv, NEW b \in DOMAIN zones, zones[b].type \in {"network", "zone"},
           NEW part \in (IF zones[b].type = "network" THEN NetParts ELSE ZoneParts),
           NEW all \in BOOLEAN, zones' = Renamed(zones, b, part, all)
    PROVE  /\ zones' \in [DOMAIN zones -> ZoneData] /\ MemOK(zones')
           /\ \A c \in DOMAIN zones : Like(zones'[c], zones[c])
  <1> DEFINE t == zones[b].type
  <1>1. ASSUME NEW c \in DOMAIN zones
        PROVE  Like(zones'[c], zones[c]) /\ [type |-> zones'[c].type, name |-> zones'[c].name] \in File
    <2>1. zones[c] \in ZoneData /\ FileOf(c) \in File /\ zones[c].name \in Name
          /\ FileOf(c).type = zones[c].type /\ FileOf(c).name = zones[c].name
      BY FileOfLemma
    <2>2. zones'[c] = IF c = b \/ /\ all /\ Touched(t, zones[b].name, zones[c].name)
                                  /\ zones[c].type \in (IF t = "network" THEN {"host", "group"}
                                                        ELSE {"network", "host", "group"})
                      THEN [zones[c] EXCEPT !.name = Replaced(t, zones[c].name, part)] ELSE zones[c]
      BY DEF Renamed
    <2>3. CASE zones'[c] = zones[c]
      BY <2>1, <2>3, LikeLemma DEF FileOf
    <2>4. CASE zones'[c] # zones[c]
      <3> DEFINE n == Replaced(t, zones[c].name, part)
      <3>1. n \in Name
        BY <2>1, ReplacedName
      <3>2. zones'[c] = [zones[c] EXCEPT !.name = n]
        BY <2>2, <2>4
      <3>3. t = "network" => zones[c].type # "zone"
        BY <2>2, <2>4
      <3>4. [type |-> zones[c].type, name |-> n] \in File
        BY <2>1, <3>3, ReplacedFits
      <3> HIDE DEF n
      <3>5. Like(zones'[c], zones[c]) /\ zones'[c].name = n /\ zones'[c].type = zones[c].type
        BY <2>1, <3>1, <3>2, LikeLemma DEF Like
      <3>6. QED
        BY <3>4, <3>5
    <2>5. QED
      BY <2>3, <2>4
  <1>2. DOMAIN zones' = DOMAIN zones /\ zones' \in [DOMAIN zones -> ZoneData]
    <2>1. zones' = [c \in DOMAIN zones |-> zones'[c]]
      BY DEF Renamed
    <2>2. \A c \in DOMAIN zones : zones'[c] \in ZoneData
      BY <1>1 DEF Like
    <2>3. QED
      BY <2>1, <2>2
  <1>3. MemOK(zones')
    BY <1>1, <1>2, MemLike DEF BaseInv
  <1>4. QED
    BY <1>1, <1>2, <1>3

(* The names in the rules and in the blocklist, after the rename. *)
LEMMA FieldsLemma ==
    ASSUME BaseInv, NEW t \in {"network", "zone"}, NEW old \in Name,
           NEW part \in (IF t = "network" THEN NetParts ELSE ZoneParts)
    PROVE  FieldsRenamed(t, old, part) \in Seq(Name \cup {Firewall, Broken})
  <1> DEFINE fields == FieldsRenamed(t, old, part)
  <1>1. rules \in Seq(Name \cup {Firewall, Broken})
    BY SameLists
  <1>2. DOMAIN rules = 1..Len(rules) /\ Len(rules) \in Nat
        /\ \A i \in 1..Len(rules) : rules[i] \in Name \cup {Firewall, Broken}
    BY <1>1
  <1>3. \A i \in DOMAIN rules : FieldRenamed(t, old, rules[i], part) \in Name \cup {Firewall, Broken}
    BY <1>2, ReplacedName DEF FieldRenamed
  <1>4. /\ fields = [i \in 1..Len(rules) |-> fields[i]]
        /\ \A i \in 1..Len(rules) : fields[i] \in Name \cup {Firewall, Broken}
    BY <1>2, <1>3 DEF FieldsRenamed
  <1> HIDE DEF fields
  <1>5. fields \in [1..Len(rules) -> Name \cup {Firewall, Broken}]
    BY <1>4
  <1>6. fields \in Seq(Name \cup {Firewall, Broken})
    BY <1>2, <1>5
  <1>7. QED
    BY <1>6 DEF fields

LEMMA ItemsLemma ==
    ASSUME BaseInv, NEW t \in {"network", "zone"}, NEW old \in Name,
           NEW part \in (IF t = "network" THEN NetParts ELSE ZoneParts)
    PROVE  LET items == [i \in DOMAIN blocked |-> ItemRenamed(t, old, blocked[i], part)] IN
           items \in Seq(Name) /\ Len(items) = Len(blocked)
  <1> DEFINE items == [i \in DOMAIN blocked |-> ItemRenamed(t, old, blocked[i], part)]
  <1>1. DOMAIN blocked = 1..Len(blocked) /\ Len(blocked) \in Nat
        /\ \A i \in 1..Len(blocked) : blocked[i] \in Name
    BY SameLists
  <1>2. \A i \in DOMAIN blocked : ItemRenamed(t, old, blocked[i], part) \in Name
    BY <1>1, ReplacedName DEF ItemRenamed
  <1>3. items \in [1..Len(blocked) -> Name]
    BY <1>1, <1>2
  <1> HIDE DEF items
  <1>4. items \in Seq(Name) /\ Len(items) = Len(blocked)
    BY <1>1, <1>3
  <1>5. QED
    BY <1>4 DEF items

(* What a rename does that is not stopped at once. *)
NetworkZoneRenamed(b, part, at) ==
    LET t      == zones[b].type
        old    == zones[b].name
        new    == Replaced(t, old, part)
        items  == [i \in DOMAIN blocked |-> ItemRenamed(t, old, blocked[i], part)]
    IN
    /\ disk' = DirMoved(disk, FileOf(b), part)
    /\ FileOf(b) \in DOMAIN disk
    /\ blocked' = items
    /\ zones' = Renamed(zones, b, part, at # "blocklist")
    /\ refcnt_network' = refcnt_network
    /\ at = "blocklist" => items # blocked
    /\ HasTwin(b) => "twin" \in hurt'
    /\ Search(new) # {} => "clash" \in hurt'
    /\ at = "blocklist" => "torn" \in hurt'
    /\ at # "none" => "fault" \in hurt'
    /\ hurt \subseteq hurt'

LEMMA RenameNetworkZoneBase ==
    ASSUME BaseInv, NEW b \in DOMAIN zones, NEW part \in NetParts \cup ZoneParts,
           NEW at \in Stages \ {"groups"}, RenameNetworkZone(b, part, at)
    PROVE  /\ BaseInv' /\ Alike /\ zones[b].type \in {"network", "zone"}
           /\ part \in (IF zones[b].type = "network" THEN NetParts ELSE ZoneParts)
           /\ \/ hurt' = hurt /\ UNCHANGED <<memory, backend>>
              \/ NetworkZoneRenamed(b, part, at)
  <1> DEFINE t      == zones[b].type
             old    == zones[b].name
             new    == Replaced(t, old, part)
             from   == FileOf(b)
             to     == [from EXCEPT !.name = new]
             fields == FieldsRenamed(t, old, part)
             parses == ~ Contains(rules, Broken)
             ok     == at = "none" /\ parses
             harms  == (IF HasTwin(b) THEN {"twin"} ELSE {})
                       \cup (IF Search(new) # {} THEN {"clash"} ELSE {})
             items  == [i \in DOMAIN blocked |-> ItemRenamed(t, old, blocked[i], part)]
             stops  == at = "rename" \/ from \notin DOMAIN disk \/ to \in DOMAIN disk
  <1>1. Begin(at # "none") /\ (at # "none") \in BOOLEAN
    BY DEF RenameNetworkZone
  <1>2. t \in {"network", "zone"} /\ part \in (IF t = "network" THEN NetParts ELSE ZoneParts)
    BY DEF RenameNetworkZone
  <1>3. CASE stops
    <2>1. End(FALSE, {}) /\ UNCHANGED <<memory, backend>>
      BY <1>3 DEF RenameNetworkZone
    <2>2. FALSE \in BOOLEAN /\ {} \subseteq Harms
      OBVIOUS
    <2>3. hurt' = hurt
      BY <2>1 DEF End
    <2>4. QED
      BY <1>1, <1>2, <2>1, <2>2, <2>3, NothingBase
  <1>4. CASE ~stops
    <2>1. /\ disk' = DirMoved(disk, from, part)
          /\ blocked' = items
          /\ savedBlocked' \in IF items = blocked THEN {savedBlocked}
                               ELSE ListSaved(savedBlocked, items, at # "blocklist")
          /\ zones' = IF at = "blocklist" THEN [zones EXCEPT ![b].name = new]
                      ELSE RenamedBelow(t, old, b, part)
          /\ rules' = IF at = "blocklist" THEN rules ELSE fields
          /\ savedRules' \in IF rules' = rules \/ ~parses THEN {savedRules}
                             ELSE ListSaved(savedRules, fields, at # "rules")
          /\ End(ok, Halfway(ok) \cup harms \cup IF at = "blocklist" THEN {"torn"} ELSE {})
          /\ refcnt_network' = refcnt_network
          /\ at = "blocklist" => items # blocked
      BY <1>4 DEF RenameNetworkZone
    <2>2. from \in File /\ from.type = t /\ old \in Name
      BY FileOfLemma
    <2>3. zones' = Renamed(zones, b, part, at # "blocklist")
      <3>1. zones \in [DOMAIN zones -> ZoneData]
        BY DEF BaseInv, TypeOK
      <3>2. CASE at = "blocklist"
        <4>1. zones' = [c \in DOMAIN zones |-> IF c = b THEN [zones[c] EXCEPT !.name = new] ELSE zones[c]]
          BY <2>1, <3>1, <3>2
        <4>2. QED
          BY <3>2, <4>1 DEF Renamed
      <3>3. CASE at # "blocklist"
        BY <2>1, <3>3 DEF Renamed, RenamedBelow
      <3>4. QED
        BY <3>2, <3>3
    <2>4. /\ zones' \in [DOMAIN zones -> ZoneData] /\ MemOK(zones')
          /\ \A c \in DOMAIN zones : Like(zones'[c], zones[c])
      BY <1>2, <2>3, RenamedLemma
    <2>5. DiskOK(disk')
      BY <1>2, <2>1, <2>2, DiskMoved DEF BaseInv
    <2>6. fields \in Seq(Name \cup {Firewall, Broken})
      BY <1>2, <2>2, FieldsLemma
    <2>7. items \in Seq(Name) /\ Len(items) = Len(blocked)
      BY <1>2, <2>2, ItemsLemma
    <2> HIDE DEF fields, items
    <2>8. /\ rules' \in Seq(Name \cup {Firewall, Broken})
          /\ savedRules' \in Seq(Name \cup {Firewall, Broken})
      <3>1. savedRules' = savedRules \/ savedRules' \in ListSaved(savedRules, fields, at # "rules")
        BY <2>1
      <3>2. QED
        BY <2>1, <2>6, <3>1, SameLists, ListSavedLemma
    <2>9. /\ blocked' \in Seq(Name)
          /\ savedBlocked' \in Seq(Name)
          /\ Len(savedBlocked') <= Len(savedBlocked) \/ Len(savedBlocked') <= Len(blocked')
      <3>1. \/ savedBlocked' = savedBlocked
            \/ savedBlocked' \in ListSaved(savedBlocked, items, at # "blocklist")
        BY <2>1
      <3>2. savedBlocked' = savedBlocked => Len(savedBlocked') <= Len(savedBlocked)
        BY SameLists
      <3>3. QED
        BY <2>1, <2>7, <3>1, <3>2, SameLists, ListSavedLemma
    <2>10. /\ Len(blocked') <= Len(DiskBlocked) + ops + 1
           /\ Len(savedBlocked') <= Len(DiskBlocked) + ops + 1
      <3>1. Len(blocked') \in Nat /\ Len(savedBlocked') \in Nat /\ Len(savedBlocked) \in Nat
            /\ ops \in Nat /\ Len(DiskBlocked) \in Nat
        BY <2>9, SameLists, EditorAssumption DEF BaseInv, TypeOK
      <3>2. QED
        BY <2>1, <2>7, <2>9, <3>1, SameLists
    <2> DEFINE all == Halfway(ok) \cup harms \cup IF at = "blocklist" THEN {"torn"} ELSE {}
    <2>11. all \subseteq Harms /\ ok \in BOOLEAN
      BY DEF Halfway, Harms
    <2>12. outcome' \in {"started", "ok", "failed"} /\ hurt' \subseteq Harms /\ hurt' = hurt \cup all
      <3> HIDE DEF ok, all
      <3>1. End(ok, all)
        BY <2>1 DEF all
      <3>2. QED
        BY <2>11, <3>1, EndLemma
    <2>13. BaseInv'
      BY <1>1, <2>1, <2>4, <2>5, <2>8, <2>9, <2>10, <2>12, BeginLemma, SameLists, BaseStep
    <2>14. /\ HasTwin(b) => "twin" \in hurt'
           /\ Search(new) # {} => "clash" \in hurt'
           /\ at = "blocklist" => "torn" \in hurt'
           /\ at # "none" => "fault" \in hurt'
           /\ hurt \subseteq hurt'
      BY <2>12 DEF Halfway
    <2>15. NetworkZoneRenamed(b, part, at)
      BY <1>4, <2>1, <2>3, <2>14 DEF NetworkZoneRenamed, items
    <2>16. Alike
      BY <2>1, <2>4 DEF Alike
    <2>17. QED
      BY <1>2, <2>13, <2>15, <2>16
  <1>5. QED
    BY <1>3, <1>4

-----------------------------------------------------------------------------
(* Steps that change what there is, or what points at what. *)

(* Objects that are left, with fewer members: memory is still in order. *)
LEMMA MemFewer ==
    ASSUME NEW z, MemOK(z), NEW y, DOMAIN y \subseteq DOMAIN z, y \in [DOMAIN y -> ZoneData],
           \A b \in DOMAIN y : /\ y[b].type = z[b].type /\ y[b].name = z[b].name
                               /\ y[b].GroupList \subseteq z[b].GroupList
    PROVE  MemOK(y)
  <1>1. DOMAIN y \subseteq File
    BY DEF MemOK
  <1>2. ASSUME NEW b \in DOMAIN y
        PROVE  /\ [type |-> y[b].type, name |-> y[b].name] \in File
               /\ y[b].GroupList # {} => y[b].type = "group"
               /\ \A h \in y[b].GroupList \cap DOMAIN y : y[h].type = "host"
    BY DEF MemOK
  <1>3. QED
    BY <1>1, <1>2 DEF MemOK

LEMMA FieldLemma ==
    ASSUME NEW r \in ZoneData
    PROVE  /\ \A c \in 0..MaxRef : LET q == [r EXCEPT !.refcnt_group = c] IN
                q \in ZoneData /\ q.type = r.type /\ q.name = r.name /\ q.active = r.active
                /\ q.parents = r.parents
                /\ q.GroupList = r.GroupList /\ q.InterfaceList = r.InterfaceList
                /\ q.refcnt_group = c /\ q.refcnt_blocklist = r.refcnt_blocklist
           /\ \A S \in SUBSET File : LET q == [r EXCEPT !.GroupList = S] IN
                q \in ZoneData /\ q.type = r.type /\ q.name = r.name /\ q.active = r.active
                /\ q.parents = r.parents
                /\ q.GroupList = S /\ q.InterfaceList = r.InterfaceList
                /\ q.refcnt_group = r.refcnt_group /\ q.refcnt_blocklist = r.refcnt_blocklist
           /\ \A S \in SUBSET Ifaces : LET q == [r EXCEPT !.InterfaceList = S] IN
                q \in ZoneData /\ q.type = r.type /\ q.name = r.name /\ q.active = r.active
                /\ q.parents = r.parents
                /\ q.GroupList = r.GroupList /\ q.InterfaceList = S
                /\ q.refcnt_group = r.refcnt_group /\ q.refcnt_blocklist = r.refcnt_blocklist
  BY DEF ZoneData

(* A new object: nothing points at it and it points at nothing but its parents. *)
NewZoneDone(f) ==
    \E n \in File \ DOMAIN zones :
        /\ zones' = With(zones, n, NewData(f)) /\ zones' \in [DOMAIN zones \cup {n} -> ZoneData]
        /\ Search(f.name) = {}
        /\ \A p \in Parents(f) : \E b \in DOMAIN zones : Holds(b, p)
        /\ refcnt_network' = refcnt_network /\ blocked' = blocked
        /\ hurt \subseteq hurt'

LEMMA NewZoneBase ==
    ASSUME BaseInv, NEW f \in File, NEW fault \in BOOLEAN, NewZone(f, fault)
    PROVE  BaseInv' /\ NewZoneDone(f)
  <1> DEFINE created == With(disk, f, [active |-> FALSE, MEMBER |-> {}, INTERFACE |-> {}])
             fits == f \notin DOMAIN disk /\ Parents(f) \subseteq DOMAIN disk
             n == FreeBlock(f)
             r == NewData(f)
  <1>1. /\ Begin(fault)
        /\ Search(f.name) = {}
        /\ \A p \in Parents(f) : \E b \in DOMAIN zones : Holds(b, p)
        /\ DOMAIN zones # File
        /\ zones' = With(zones, n, r)
        /\ disk' \in IF ~fits THEN {disk} ELSE IF fault THEN {disk, created} ELSE {created}
        /\ End(fits /\ ~fault, Halfway(fits /\ disk' = created))
        /\ UNCHANGED <<refcnt_network, rules, blocked, savedRules, savedBlocked>>
    BY DEF NewZone
  <1>2. n \in File \ DOMAIN zones
    <2>1. \E b : b \in File \ DOMAIN zones
      BY <1>1 DEF BaseInv, TypeOK
    <2>2. QED
      BY <2>1 DEF FreeBlock
  <1>3. /\ r \in ZoneData /\ r.type = f.type /\ r.name = f.name
        /\ r.GroupList = {} /\ r.InterfaceList = {}
    <2>1. f.type \in {"zone", "network", "host", "group"} /\ f.name \in Name
      BY FileLemma
    <2>2. {b \in DOMAIN zones : FileOf(b) \in Parents(f)} \subseteq File /\ MaxRef \in Nat
      BY EditorAssumption DEF BaseInv, TypeOK
    <2>3. QED
      BY <2>1, <2>2 DEF NewData, ZoneData
  <1> HIDE DEF r, n
  <1>4. /\ DOMAIN zones' = DOMAIN zones \cup {n}
        /\ zones' \in [DOMAIN zones \cup {n} -> ZoneData]
        /\ \A b \in DOMAIN zones : zones'[b] = zones[b]
        /\ zones'[n] = r
    <2>1. zones \in [DOMAIN zones -> ZoneData]
      BY DEF BaseInv, TypeOK
    <2>2. QED
      BY <1>1, <1>2, <1>3, <2>1 DEF With
  <1>5. MemOK(zones')
    <2>1. Defined /\ MemOK(zones)
      BY <1>1, BeginLemma DEF BaseInv
    <2>2. DOMAIN zones' \subseteq File /\ zones' \in [DOMAIN zones' -> ZoneData]
      BY <1>2, <1>4, <2>1 DEF MemOK
    <2>3. ASSUME NEW b \in DOMAIN zones'
          PROVE  /\ [type |-> zones'[b].type, name |-> zones'[b].name] \in File
                 /\ zones'[b].GroupList # {} => zones'[b].type = "group"
                 /\ \A h \in zones'[b].GroupList \cap DOMAIN zones' : zones'[h].type = "host"
      <3>1. CASE b = n
        BY <1>3, <1>4, <3>1, FileLemma
      <3>2. CASE b # n
        <4>1. b \in DOMAIN zones /\ zones'[b] = zones[b] /\ zones[b].GroupList \subseteq DOMAIN zones
          BY <1>4, <2>1, <3>2 DEF Defined
        <4>2. QED
          BY <1>4, <2>1, <4>1 DEF MemOK
      <3>3. QED
        BY <3>1, <3>2
    <2>4. QED
      BY <2>2, <2>3 DEF MemOK
  <1>6. DiskOK(disk')
    <2>1. disk' = disk \/ (fits /\ disk' = created)
      BY <1>1
    <2>2. [active |-> FALSE, MEMBER |-> {}, INTERFACE |-> {}] \in Row
      BY DEF Row
    <2>3. fits => DiskOK(created)
      BY <2>2, DiskAdded DEF BaseInv
    <2>4. QED
      BY <2>1, <2>3 DEF BaseInv
  <1>7. /\ outcome' \in {"started", "ok", "failed"} /\ hurt' \subseteq Harms
        /\ hurt \subseteq hurt'
    <2> DEFINE ok == fits /\ ~fault
               harms == Halfway(fits /\ disk' = created)
    <2>1. harms \subseteq Harms /\ ok \in BOOLEAN
      BY DEF Halfway, Harms
    <2>2. End(ok, harms)
      BY <1>1
    <2> HIDE DEF ok, harms
    <2>3. QED
      BY <2>1, <2>2, EndLemma
  <1>8. BaseInv'
    BY <1>1, <1>5, <1>6, <1>7, BeginLemma, SameLists, BaseStep
  <1>9. NewZoneDone(f)
    BY <1>1, <1>2, <1>4, <1>7 DEF NewZoneDone, r
  <1>10. QED
    BY <1>8, <1>9

(* The counters of what the object in block b points at went down. *)
LEMMA ReleasedLemma ==
    ASSUME BaseInv, NEW b \in DOMAIN zones
    PROVE  /\ DOMAIN Released(b)[1] = DOMAIN zones
           /\ Released(b)[1] \in [DOMAIN zones -> ZoneData]
           /\ \A c \in DOMAIN zones : LET r == Released(b)[1][c] IN
                /\ r.type = zones[c].type /\ r.name = zones[c].name /\ r.active = zones[c].active
                /\ r.parents = zones[c].parents
                /\ r.GroupList = zones[c].GroupList /\ r.InterfaceList = zones[c].InterfaceList
                /\ r.refcnt_blocklist = zones[c].refcnt_blocklist
                /\ r.refcnt_group = IF c \in zones[b].GroupList THEN Down(zones[c].refcnt_group)
                                    ELSE zones[c].refcnt_group
           /\ DOMAIN Released(b)[2] = DOMAIN refcnt_network
           /\ Released(b)[2] \in [DOMAIN refcnt_network -> 0..MaxRef]
           /\ \A i \in DOMAIN refcnt_network :
                Released(b)[2][i] = IF i \in zones[b].InterfaceList THEN Down(refcnt_network[i])
                                    ELSE refcnt_network[i]
  <1> DEFINE R1 == Released(b)[1]
             R2 == Released(b)[2]
  <1>1. /\ R1 = [c \in DOMAIN zones |->
                   IF c \in zones[b].GroupList
                   THEN [zones[c] EXCEPT !.refcnt_group = Down(zones[c].refcnt_group)] ELSE zones[c]]
        /\ R2 = [i \in DOMAIN refcnt_network |-> IF i \in zones[b].InterfaceList
                                                 THEN Down(refcnt_network[i]) ELSE refcnt_network[i]]
    BY DEF Released
  <1> HIDE DEF R1, R2
  <1>2. \A c \in DOMAIN zones : zones[c] \in ZoneData /\ Down(zones[c].refcnt_group) \in 0..MaxRef
    <2>1. \A c \in DOMAIN zones : zones[c] \in ZoneData
      BY FileOfLemma
    <2>2. \A c \in DOMAIN zones : zones[c].refcnt_group \in 0..MaxRef
      BY <2>1 DEF ZoneData
    <2>3. QED
      BY <2>1, <2>2, UpDown
  <1>3. \A i \in DOMAIN refcnt_network : refcnt_network[i] \in 0..MaxRef /\ Down(refcnt_network[i]) \in 0..MaxRef
    BY SameLists, UpDown
  <1>4. ASSUME NEW c \in DOMAIN zones
        PROVE  LET r == R1[c] IN
                /\ r \in ZoneData
                /\ r.type = zones[c].type /\ r.name = zones[c].name /\ r.active = zones[c].active
                /\ r.parents = zones[c].parents
                /\ r.GroupList = zones[c].GroupList /\ r.InterfaceList = zones[c].InterfaceList
                /\ r.refcnt_blocklist = zones[c].refcnt_blocklist
                /\ r.refcnt_group = IF c \in zones[b].GroupList THEN Down(zones[c].refcnt_group)
                                    ELSE zones[c].refcnt_group
    <2>1. CASE c \in zones[b].GroupList
      <3>1. R1[c] = [zones[c] EXCEPT !.refcnt_group = Down(zones[c].refcnt_group)]
        BY <1>1, <2>1
      <3>2. QED
        BY <1>2, <2>1, <3>1, FieldLemma
    <2>2. CASE c \notin zones[b].GroupList
      BY <1>1, <1>2, <2>2
    <2>3. QED
      BY <2>1, <2>2
  <1>5. DOMAIN R1 = DOMAIN zones /\ R1 \in [DOMAIN zones -> ZoneData]
    BY <1>1, <1>4
  <1>6. /\ DOMAIN R2 = DOMAIN refcnt_network /\ R2 \in [DOMAIN refcnt_network -> 0..MaxRef]
        /\ \A i \in DOMAIN refcnt_network :
              R2[i] = IF i \in zones[b].InterfaceList THEN Down(refcnt_network[i])
                      ELSE refcnt_network[i]
    BY <1>1, <1>3
  <1>7. QED
    BY <1>4, <1>5, <1>6 DEF R1, R2

LEMMA DeleteZoneBase ==
    ASSUME BaseInv, NEW b \in DOMAIN zones, NEW fault \in BOOLEAN, DeleteZone(b, fault)
    PROVE  /\ BaseInv' /\ ~Referenced(b) /\ Empty(b)
           /\ refcnt_network' = Released(b)[2] /\ blocked' = blocked /\ hurt \subseteq hurt'
           /\ \/ zones' = Without(Released(b)[1], b)
              \/ zones' = Released(b)[1] /\ "delete" \in hurt'
              \/ zones' = zones /\ refcnt_network' = refcnt_network
  <1> DEFINE f  == FileOf(b)
             ok == ~fault /\ f \in DOMAIN disk /\ \A g \in DOMAIN disk : f \notin Parents(g)
             harms == IF ok \/ Released(b) = <<zones, refcnt_network>> THEN {} ELSE {"delete"}
  <1>1. /\ Begin(fault)
        /\ ~ Referenced(b)
        /\ Empty(b)
        /\ zones' = IF ok THEN Without(Released(b)[1], b) ELSE Released(b)[1]
        /\ refcnt_network' = Released(b)[2]
        /\ disk' = IF ok THEN Without(disk, f) ELSE disk
        /\ End(ok, harms)
        /\ UNCHANGED <<rules, blocked, savedRules, savedBlocked>>
    BY DEF DeleteZone
  <1>2. f \in File
    BY FileOfLemma
  <1>3. /\ outcome' \in {"started", "ok", "failed"} /\ hurt' \subseteq Harms
        /\ hurt' = hurt \cup harms
    <2>1. harms \subseteq Harms /\ ok \in BOOLEAN
      BY DEF Harms
    <2> HIDE DEF ok, harms
    <2>2. QED
      BY <1>1, <2>1, EndLemma
  <1>4. DiskOK(disk')
    <2>1. CASE ok
      BY <1>1, <1>2, <2>1, DiskRemoved DEF BaseInv
    <2>2. CASE ~ok
      BY <1>1, <2>2 DEF BaseInv
    <2>3. QED
      BY <2>1, <2>2
  <1> DEFINE R1 == Released(b)[1]
  <1>5. /\ DOMAIN R1 = DOMAIN zones /\ R1 \in [DOMAIN zones -> ZoneData]
        /\ \A c \in DOMAIN zones : /\ R1[c].type = zones[c].type /\ R1[c].name = zones[c].name
                                   /\ R1[c].GroupList = zones[c].GroupList
    BY ReleasedLemma
  <1>6. /\ DOMAIN refcnt_network' \subseteq Ifaces
        /\ refcnt_network' \in [DOMAIN refcnt_network' -> 0..MaxRef]
    BY <1>1, ReleasedLemma, SameLists
  <1>7. MemOK(zones')
    <2>1. CASE ok
      <3>1. zones' = Without(R1, b)
        BY <1>1, <2>1
      <3> HIDE DEF R1
      <3>2. /\ DOMAIN zones' = DOMAIN zones \ {b} /\ zones' \in [DOMAIN zones' -> ZoneData]
            /\ \A c \in DOMAIN zones' : zones'[c] = R1[c]
        BY <1>5, <3>1 DEF Without, Restrict
      <3>3. QED
        BY <1>5, <3>2, MemFewer DEF BaseInv
    <2>2. CASE ~ok
      <3>1. zones' = R1
        BY <1>1, <2>2
      <3> HIDE DEF R1
      <3>2. QED
        BY <1>5, <3>1, MemFewer DEF BaseInv
    <2>3. QED
      BY <2>1, <2>2
  <1>8. BaseInv'
    BY <1>1, <1>3, <1>4, <1>6, <1>7, BeginLemma, SameLists, BaseStep
  <1>9. \/ zones' = Without(Released(b)[1], b)
        \/ zones' = Released(b)[1] /\ "delete" \in hurt'
        \/ zones' = zones /\ refcnt_network' = refcnt_network
    <2>1. CASE ok
      BY <1>1, <2>1
    <2>2. CASE ~ok /\ Released(b) = <<zones, refcnt_network>>
      BY <1>1, <2>2
    <2>3. CASE ~ok /\ Released(b) # <<zones, refcnt_network>>
      BY <1>1, <1>3, <2>3
    <2>4. QED
      BY <2>1, <2>2, <2>3
  <1>10. QED
    BY <1>1, <1>3, <1>8, <1>9

(* What one member more or less, or one interface, does to memory. *)
Unmoved(c) ==
    /\ zones'[c].type = zones[c].type /\ zones'[c].name = zones[c].name
    /\ zones'[c].parents = zones[c].parents /\ zones'[c].active = zones[c].active
    /\ zones'[c].refcnt_blocklist = zones[c].refcnt_blocklist

MembersChanged(g, h, S, count) ==
    /\ DOMAIN zones' = DOMAIN zones /\ zones' \in [DOMAIN zones -> ZoneData]
    /\ \A c \in DOMAIN zones :
         /\ Unmoved(c) /\ zones'[c].InterfaceList = zones[c].InterfaceList
         /\ zones'[c].GroupList = IF c = g THEN S ELSE zones[c].GroupList
         /\ zones'[c].refcnt_group = IF c = h THEN count ELSE zones[c].refcnt_group
    /\ refcnt_network' = refcnt_network /\ blocked' = blocked /\ hurt \subseteq hurt'

LEMMA MembersEffect ==
    ASSUME BaseInv, NEW g \in DOMAIN zones, NEW h \in DOMAIN zones, g # h,
           NEW S \in SUBSET File, NEW count \in 0..MaxRef,
           zones' = [zones EXCEPT ![g].GroupList = S, ![h].refcnt_group = count],
           refcnt_network' = refcnt_network, blocked' = blocked, hurt \subseteq hurt'
    PROVE  MembersChanged(g, h, S, count)
  <1> DEFINE rg == [zones[g] EXCEPT !.GroupList = S]
             rh == [zones[h] EXCEPT !.refcnt_group = count]
  <1>1. zones \in [DOMAIN zones -> ZoneData] /\ zones[g] \in ZoneData /\ zones[h] \in ZoneData
    BY DEF BaseInv, TypeOK
  <1>2. /\ rg \in ZoneData /\ rg.type = zones[g].type /\ rg.name = zones[g].name
        /\ rg.parents = zones[g].parents /\ rg.GroupList = S
        /\ rg.InterfaceList = zones[g].InterfaceList /\ rg.refcnt_group = zones[g].refcnt_group
        /\ rg.refcnt_blocklist = zones[g].refcnt_blocklist /\ rg.active = zones[g].active
    BY <1>1 DEF ZoneData
  <1>3. /\ rh \in ZoneData /\ rh.type = zones[h].type /\ rh.name = zones[h].name
        /\ rh.parents = zones[h].parents /\ rh.GroupList = zones[h].GroupList
        /\ rh.InterfaceList = zones[h].InterfaceList /\ rh.refcnt_group = count
        /\ rh.refcnt_blocklist = zones[h].refcnt_blocklist /\ rh.active = zones[h].active
    BY <1>1, FieldLemma
  <1>4. zones' = [[zones EXCEPT ![g] = rg] EXCEPT ![h] = rh]
    BY <1>1
  <1> HIDE DEF rg, rh
  <1>5. /\ zones' \in [DOMAIN zones -> ZoneData]
        /\ \A c \in DOMAIN zones : zones'[c] = IF c = h THEN rh ELSE IF c = g THEN rg ELSE zones[c]
    BY <1>1, <1>2, <1>3, <1>4
  <1>6. QED
    BY <1>2, <1>3, <1>5 DEF MembersChanged, Unmoved

(* What is left to say of a step that changes members or interfaces of one object. *)
LEMMA ListStep ==
    ASSUME BaseInv, NEW fault \in BOOLEAN, Begin(fault), NEW ok \in BOOLEAN,
           End(ok, Halfway(ok)), MemOK(zones'), DiskOK(disk'),
           DOMAIN refcnt_network' \subseteq Ifaces,
           refcnt_network' \in [DOMAIN refcnt_network' -> 0..MaxRef],
           UNCHANGED <<rules, blocked, savedRules, savedBlocked>>
    PROVE  BaseInv' /\ hurt \subseteq hurt'
  <1>1. Halfway(ok) \subseteq Harms
    BY DEF Halfway, Harms
  <1>2. outcome' \in {"started", "ok", "failed"} /\ hurt' \subseteq Harms /\ hurt \subseteq hurt'
    BY <1>1, EndLemma
  <1>3. QED
    BY <1>2, BeginLemma, SameLists, BaseStep

LEMMA AddMemberBase ==
    ASSUME BaseInv, NEW g \in DOMAIN zones, NEW h \in DOMAIN zones, NEW fault \in BOOLEAN,
           AddMember(g, h, fault)
    PROVE  /\ BaseInv' /\ h \notin zones[g].GroupList
           /\ MembersChanged(g, h, zones[g].GroupList \cup {h}, Up(zones[h].refcnt_group))
  <1> DEFINE ok == ~fault /\ FileOf(g) \in DOMAIN disk
             S == zones[g].GroupList \cup {h}
             count == Up(zones[h].refcnt_group)
  <1>1. /\ Begin(fault)
        /\ zones[g].type = "group" /\ zones[h].type = "host"
        /\ \A m \in zones[g].GroupList : zones[m].name # zones[h].name
        /\ zones' = [zones EXCEPT ![g].GroupList = @ \cup {h}, ![h].refcnt_group = Up(@)]
        /\ disk' \in MembersSaved(disk, zones', g, ok)
        /\ End(ok, Halfway(ok)) /\ ok \in BOOLEAN
        /\ UNCHANGED <<refcnt_network, rules, blocked, savedRules, savedBlocked>>
    BY DEF AddMember
  <1>2. Defined
    BY <1>1, BeginLemma
  <1>3. g # h /\ h \notin zones[g].GroupList
    BY <1>1
  <1>4. S \in SUBSET File /\ count \in 0..MaxRef /\ S \subseteq DOMAIN zones
    <2>1. zones[g] \in ZoneData /\ zones[h] \in ZoneData /\ h \in File
      BY FileOfLemma
    <2>2. zones[h].refcnt_group \in 0..MaxRef
      BY <2>1 DEF ZoneData
    <2>3. QED
      BY <1>2, <2>1, <2>2, UpDown DEF Defined, ZoneData
  <1>5. zones' = [zones EXCEPT ![g].GroupList = S, ![h].refcnt_group = count]
    <2>1. zones \in [DOMAIN zones -> ZoneData]
      BY DEF BaseInv, TypeOK
    <2>2. QED
      BY <1>1, <1>3, <2>1
  <1>6. hurt \subseteq hurt'
    BY <1>1 DEF End
  <1>7. MembersChanged(g, h, S, count)
    <2> HIDE DEF S, count
    <2>1. QED
      BY <1>1, <1>3, <1>4, <1>5, <1>6, MembersEffect
  <1>8. MemOK(zones')
    <2>1. /\ DOMAIN zones' = DOMAIN zones /\ zones' \in [DOMAIN zones -> ZoneData]
          /\ \A c \in DOMAIN zones : /\ zones'[c].type = zones[c].type
                                     /\ zones'[c].name = zones[c].name
                                     /\ zones'[c].GroupList = IF c = g THEN S ELSE zones[c].GroupList
      BY <1>7 DEF MembersChanged, Unmoved
    <2>2. ASSUME NEW b \in DOMAIN zones'
          PROVE  /\ [type |-> zones'[b].type, name |-> zones'[b].name] \in File
                 /\ zones'[b].GroupList # {} => zones'[b].type = "group"
                 /\ \A q \in zones'[b].GroupList \cap DOMAIN zones' : zones'[q].type = "host"
      <3>1. MemOK(zones) /\ b \in DOMAIN zones
        BY <2>1 DEF BaseInv
      <3>2. [type |-> zones'[b].type, name |-> zones'[b].name] \in File
        BY <2>1, <3>1 DEF MemOK
      <3>3. zones'[b].GroupList # {} => zones'[b].type = "group"
        BY <1>1, <2>1, <3>1 DEF MemOK
      <3>4. ASSUME NEW q \in zones'[b].GroupList \cap DOMAIN zones' PROVE zones'[q].type = "host"
        <4>1. q \in DOMAIN zones /\ zones'[q].type = zones[q].type
          BY <2>1
        <4>2. q = h \/ q \in zones[b].GroupList
          BY <2>1, <3>1
        <4>3. q \in zones[b].GroupList => zones[q].type = "host"
          BY <3>1, <4>1 DEF MemOK
        <4>4. QED
          BY <1>1, <4>1, <4>2, <4>3
      <3>5. QED
        BY <3>2, <3>3, <3>4
    <2>3. QED
      BY <2>1, <2>2 DEF MemOK, BaseInv
  <1>9. DiskOK(disk')
    <2>1. g \in DOMAIN zones' /\ zones'[g].GroupList \subseteq DOMAIN zones'
      BY <1>4, <1>7 DEF MembersChanged
    <2> HIDE DEF ok
    <2>2. QED
      BY <1>1, <1>8, <2>1, MembersSavedLemma DEF BaseInv
  <1>10. BaseInv'
    <2> HIDE DEF ok
    <2>1. QED
      BY <1>1, <1>8, <1>9, ListStep, SameLists
  <1>11. QED
    BY <1>3, <1>7, <1>10

LEMMA RemMemberBase ==
    ASSUME BaseInv, NEW g \in DOMAIN zones, NEW m \in DOMAIN zones, NEW fault \in BOOLEAN,
           RemMember(g, m, fault)
    PROVE  /\ BaseInv' /\ m \in zones[g].GroupList
           /\ MembersChanged(g, m, zones[g].GroupList \ {m}, Down(zones[m].refcnt_group))
  <1> DEFINE ok == ~fault /\ FileOf(g) \in DOMAIN disk
             S == zones[g].GroupList \ {m}
             count == Down(zones[m].refcnt_group)
  <1>1. /\ Begin(fault)
        /\ m \in zones[g].GroupList
        /\ zones' = [zones EXCEPT ![g].GroupList = @ \ {m}, ![m].refcnt_group = Down(@)]
        /\ disk' \in MembersSaved(disk, zones', g, ok)
        /\ End(ok, Halfway(ok)) /\ ok \in BOOLEAN
        /\ UNCHANGED <<refcnt_network, rules, blocked, savedRules, savedBlocked>>
    BY DEF RemMember
  <1>2. Defined
    BY <1>1, BeginLemma
  <1>3. g # m
    <2>1. zones[g].type = "group" /\ zones[m].type = "host"
      BY <1>1 DEF BaseInv, MemOK
    <2>2. QED
      BY <2>1
  <1>4. S \in SUBSET File /\ count \in 0..MaxRef /\ S \subseteq DOMAIN zones
    <2>1. zones[g] \in ZoneData /\ zones[m] \in ZoneData
      BY FileOfLemma
    <2>2. zones[m].refcnt_group \in 0..MaxRef
      BY <2>1 DEF ZoneData
    <2>3. QED
      BY <1>2, <2>1, <2>2, UpDown DEF Defined, ZoneData
  <1>5. zones' = [zones EXCEPT ![g].GroupList = S, ![m].refcnt_group = count]
    <2>1. zones \in [DOMAIN zones -> ZoneData]
      BY DEF BaseInv, TypeOK
    <2>2. QED
      BY <1>1, <1>3, <2>1
  <1>6. hurt \subseteq hurt'
    BY <1>1 DEF End
  <1>7. MembersChanged(g, m, S, count)
    <2> HIDE DEF S, count
    <2>1. QED
      BY <1>1, <1>3, <1>4, <1>5, <1>6, MembersEffect
  <1>8. MemOK(zones')
    <2>1. /\ DOMAIN zones' = DOMAIN zones /\ zones' \in [DOMAIN zones' -> ZoneData]
          /\ \A c \in DOMAIN zones' : /\ zones'[c].type = zones[c].type
                                      /\ zones'[c].name = zones[c].name
                                      /\ zones'[c].GroupList \subseteq zones[c].GroupList
      BY <1>7 DEF MembersChanged, Unmoved
    <2>2. QED
      BY <2>1, MemFewer DEF BaseInv
  <1>9. DiskOK(disk')
    <2>1. g \in DOMAIN zones' /\ zones'[g].GroupList \subseteq DOMAIN zones'
      BY <1>4, <1>7 DEF MembersChanged
    <2> HIDE DEF ok
    <2>2. QED
      BY <1>1, <1>8, <2>1, MembersSavedLemma DEF BaseInv
  <1>10. BaseInv'
    <2> HIDE DEF ok
    <2>1. QED
      BY <1>1, <1>8, <1>9, ListStep, SameLists
  <1>11. QED
    BY <1>1, <1>7, <1>10

IfacesChanged(n, i, S, count) ==
    /\ DOMAIN zones' = DOMAIN zones /\ zones' \in [DOMAIN zones -> ZoneData]
    /\ \A c \in DOMAIN zones :
         /\ Unmoved(c) /\ zones'[c].GroupList = zones[c].GroupList
         /\ zones'[c].refcnt_group = zones[c].refcnt_group
         /\ zones'[c].InterfaceList = IF c = n THEN S ELSE zones[c].InterfaceList
    /\ DOMAIN refcnt_network' = DOMAIN refcnt_network
    /\ \A j \in DOMAIN refcnt_network :
         refcnt_network'[j] = IF j = i THEN count ELSE refcnt_network[j]
    /\ blocked' = blocked /\ hurt \subseteq hurt'

LEMMA IfacesEffect ==
    ASSUME BaseInv, NEW n \in DOMAIN zones, NEW i \in DOMAIN refcnt_network,
           NEW S \in SUBSET Ifaces, NEW count \in 0..MaxRef,
           zones' = [zones EXCEPT ![n].InterfaceList = S],
           refcnt_network' = [refcnt_network EXCEPT ![i] = count],
           blocked' = blocked, hurt \subseteq hurt'
    PROVE  /\ IfacesChanged(n, i, S, count) /\ MemOK(zones')
           /\ DOMAIN refcnt_network' \subseteq Ifaces
           /\ refcnt_network' \in [DOMAIN refcnt_network' -> 0..MaxRef]
  <1> DEFINE rn == [zones[n] EXCEPT !.InterfaceList = S]
  <1>1. /\ zones \in [DOMAIN zones -> ZoneData] /\ zones[n] \in ZoneData
        /\ refcnt_network \in [DOMAIN refcnt_network -> 0..MaxRef]
        /\ DOMAIN refcnt_network \subseteq Ifaces
    BY DEF BaseInv, TypeOK
  <1>2. /\ rn \in ZoneData /\ rn.type = zones[n].type /\ rn.name = zones[n].name
        /\ rn.parents = zones[n].parents /\ rn.InterfaceList = S
        /\ rn.GroupList = zones[n].GroupList /\ rn.refcnt_group = zones[n].refcnt_group
        /\ rn.refcnt_blocklist = zones[n].refcnt_blocklist /\ rn.active = zones[n].active
    BY <1>1, FieldLemma
  <1>3. zones' = [zones EXCEPT ![n] = rn]
    BY <1>1
  <1> HIDE DEF rn
  <1>4. /\ zones' \in [DOMAIN zones -> ZoneData]
        /\ \A c \in DOMAIN zones : zones'[c] = IF c = n THEN rn ELSE zones[c]
    BY <1>1, <1>2, <1>3
  <1>5. /\ DOMAIN refcnt_network' = DOMAIN refcnt_network
        /\ refcnt_network' \in [DOMAIN refcnt_network' -> 0..MaxRef]
        /\ \A j \in DOMAIN refcnt_network :
             refcnt_network'[j] = IF j = i THEN count ELSE refcnt_network[j]
    BY <1>1
  <1>6. IfacesChanged(n, i, S, count)
    BY <1>2, <1>4, <1>5 DEF IfacesChanged, Unmoved
  <1>7. MemOK(zones')
    <2>1. /\ DOMAIN zones' = DOMAIN zones /\ zones' \in [DOMAIN zones' -> ZoneData]
          /\ \A c \in DOMAIN zones' : /\ zones'[c].type = zones[c].type
                                      /\ zones'[c].name = zones[c].name
                                      /\ zones'[c].GroupList \subseteq zones[c].GroupList
      BY <1>6 DEF IfacesChanged, Unmoved
    <2>2. QED
      BY <2>1, MemFewer DEF BaseInv
  <1>8. QED
    BY <1>1, <1>5, <1>6, <1>7

LEMMA AddIfaceBase ==
    ASSUME BaseInv, NEW n \in DOMAIN zones, NEW i \in DOMAIN refcnt_network,
           NEW fault \in BOOLEAN, AddIface(n, i, fault)
    PROVE  /\ BaseInv' /\ i \notin zones[n].InterfaceList
           /\ IfacesChanged(n, i, zones[n].InterfaceList \cup {i}, Up(refcnt_network[i]))
  <1> DEFINE ok == ~fault /\ FileOf(n) \in DOMAIN disk
             S == zones[n].InterfaceList \cup {i}
             count == Up(refcnt_network[i])
  <1>1. /\ Begin(fault)
        /\ i \notin zones[n].InterfaceList
        /\ zones' = [zones EXCEPT ![n].InterfaceList = S]
        /\ refcnt_network' = [refcnt_network EXCEPT ![i] = count]
        /\ disk' \in InterfacesSaved(disk, zones', n, ok)
        /\ End(ok, Halfway(ok)) /\ ok \in BOOLEAN
        /\ UNCHANGED <<rules, blocked, savedRules, savedBlocked>>
    BY DEF AddIface
  <1>2. S \in SUBSET Ifaces /\ count \in 0..MaxRef
    <2>1. zones[n] \in ZoneData /\ refcnt_network[i] \in 0..MaxRef /\ i \in Ifaces
      BY FileOfLemma, SameLists
    <2>2. QED
      BY <2>1, UpDown DEF ZoneData
  <1>3. hurt \subseteq hurt'
    BY <1>1 DEF End
  <1> HIDE DEF S, count, ok
  <1>4. /\ IfacesChanged(n, i, S, count) /\ MemOK(zones')
        /\ DOMAIN refcnt_network' \subseteq Ifaces
        /\ refcnt_network' \in [DOMAIN refcnt_network' -> 0..MaxRef]
    BY <1>1, <1>2, <1>3, IfacesEffect
  <1>5. DiskOK(disk')
    <2>1. n \in DOMAIN zones'
      BY <1>4 DEF IfacesChanged
    <2>2. QED
      BY <1>1, <1>4, <2>1, InterfacesSavedLemma DEF BaseInv
  <1>6. BaseInv'
    BY <1>1, <1>4, <1>5, ListStep
  <1>7. QED
    BY <1>1, <1>4, <1>6 DEF S, count

LEMMA RemIfaceBase ==
    ASSUME BaseInv, NEW n \in DOMAIN zones, NEW i \in DOMAIN refcnt_network,
           NEW fault \in BOOLEAN, RemIface(n, i, fault)
    PROVE  /\ BaseInv' /\ i \in zones[n].InterfaceList
           /\ IfacesChanged(n, i, zones[n].InterfaceList \ {i}, Down(refcnt_network[i]))
  <1> DEFINE ok == ~fault /\ FileOf(n) \in DOMAIN disk
             S == zones[n].InterfaceList \ {i}
             count == Down(refcnt_network[i])
  <1>1. /\ Begin(fault)
        /\ i \in zones[n].InterfaceList
        /\ zones' = [zones EXCEPT ![n].InterfaceList = S]
        /\ refcnt_network' = [refcnt_network EXCEPT ![i] = count]
        /\ disk' \in InterfacesSaved(disk, zones', n, ok)
        /\ End(ok, Halfway(ok)) /\ ok \in BOOLEAN
        /\ UNCHANGED <<rules, blocked, savedRules, savedBlocked>>
    BY DEF RemIface
  <1>2. S \in SUBSET Ifaces /\ count \in 0..MaxRef
    <2>1. zones[n] \in ZoneData /\ refcnt_network[i] \in 0..MaxRef
      BY FileOfLemma, SameLists
    <2>2. QED
      BY <2>1, UpDown DEF ZoneData
  <1>3. hurt \subseteq hurt'
    BY <1>1 DEF End
  <1> HIDE DEF S, count, ok
  <1>4. /\ IfacesChanged(n, i, S, count) /\ MemOK(zones')
        /\ DOMAIN refcnt_network' \subseteq Ifaces
        /\ refcnt_network' \in [DOMAIN refcnt_network' -> 0..MaxRef]
    BY <1>1, <1>2, <1>3, IfacesEffect
  <1>5. DiskOK(disk')
    <2>1. n \in DOMAIN zones'
      BY <1>4 DEF IfacesChanged
    <2>2. QED
      BY <1>1, <1>4, <2>1, InterfacesSavedLemma DEF BaseInv
  <1>6. BaseInv'
    BY <1>1, <1>4, <1>5, ListStep
  <1>7. QED
    BY <1>1, <1>4, <1>6 DEF S, count

LEMMA DeleteIfaceBase ==
    ASSUME BaseInv, NEW i \in DOMAIN refcnt_network, DeleteIface(i)
    PROVE  /\ BaseInv' /\ zones' = zones /\ blocked' = blocked /\ hurt' = hurt
           /\ refcnt_network[i] = 0
           /\ DOMAIN refcnt_network' = DOMAIN refcnt_network \ {i}
           /\ \A j \in DOMAIN refcnt_network \ {i} : refcnt_network'[j] = refcnt_network[j]
  <1>1. /\ Begin(FALSE) /\ refcnt_network[i] = 0
        /\ refcnt_network' = Without(refcnt_network, i)
        /\ End(TRUE, {})
        /\ UNCHANGED <<zones, rules, blocked, backend>>
    BY DEF DeleteIface
  <1>2. /\ outcome' \in {"started", "ok", "failed"} /\ hurt' \subseteq Harms /\ hurt' = hurt
    BY <1>1 DEF End, BaseInv, TypeOK
  <1>3. /\ DOMAIN refcnt_network' = DOMAIN refcnt_network \ {i}
        /\ \A j \in DOMAIN refcnt_network \ {i} : refcnt_network'[j] = refcnt_network[j]
        /\ refcnt_network' = [j \in DOMAIN refcnt_network \ {i} |-> refcnt_network[j]]
    BY <1>1 DEF Without, Restrict
  <1>4. DOMAIN refcnt_network' \subseteq Ifaces /\ refcnt_network' \in [DOMAIN refcnt_network' -> 0..MaxRef]
    BY <1>3, SameLists
  <1>5. FALSE \in BOOLEAN
    OBVIOUS
  <1>6. /\ zones' = zones /\ rules' = rules /\ blocked' = blocked /\ disk' = disk
        /\ savedRules' = savedRules /\ savedBlocked' = savedBlocked
    BY <1>1 DEF backend
  <1>7. MemOK(zones') /\ DiskOK(disk')
    BY <1>6 DEF BaseInv
  <1>8. BaseInv'
    BY <1>1, <1>2, <1>4, <1>5, <1>6, <1>7, BeginLemma, SameLists, BaseStep
  <1>9. QED
    BY <1>1, <1>2, <1>3, <1>6, <1>8

(* Occurrences in a list. *)
LEMMA OccurrencesFinite ==
    ASSUME NEW s \in Seq(Name), NEW I \in SUBSET DOMAIN s
    PROVE  IsFiniteSet(I) /\ Cardinality(I) \in 0..Len(s)
  <1> DEFINE J == 1..Len(s)
  <1>1. DOMAIN s = J /\ Len(s) \in Nat
    OBVIOUS
  <1>2. IsFiniteSet(J) /\ Cardinality(J) = Len(s)
    <2>1. 1 \in Int /\ Len(s) \in Int
      BY <1>1
    <2>2. IsFiniteSet(1..Len(s)) /\ Cardinality(1..Len(s)) = IF 1 > Len(s) THEN 0 ELSE Len(s) - 1 + 1
      BY <2>1, FS_Interval
    <2>3. QED
      BY <1>1, <2>2
  <1> HIDE DEF J
  <1>3. IsFiniteSet(I) /\ Cardinality(I) <= Len(s)
    BY <1>1, <1>2, FS_Subset
  <1>4. Cardinality(I) \in Nat
    BY <1>3, FS_CardinalityType
  <1>5. QED
    BY <1>1, <1>3, <1>4

LEMMA OccurrencesLemma ==
    ASSUME NEW s \in Seq(Name), NEW n
    PROVE  Occurrences(n, s) \in 0..Len(s)
  <1> DEFINE I == {i \in DOMAIN s : s[i] = n}
  <1>1. I \in SUBSET DOMAIN s
    OBVIOUS
  <1> HIDE DEF I
  <1>2. Cardinality(I) \in 0..Len(s)
    BY <1>1, OccurrencesFinite
  <1>3. QED
    BY <1>2 DEF Occurrences, I

(* What is loaded is in order, and its counters count. *)
LoadedWell(d, s, I, z, n) ==
    /\ MemOK(z) /\ DOMAIN z = DOMAIN d /\ n \in [I -> 0..MaxRef]
    /\ \A f \in DOMAIN d :
         /\ z[f].type = f.type /\ z[f].name = f.name /\ z[f].active = d[f].active
         /\ z[f].parents = Parents(f) /\ z[f].parents \subseteq DOMAIN d
         /\ z[f].GroupList \subseteq DOMAIN d /\ z[f].InterfaceList \subseteq I
         /\ z[f].refcnt_group = Cardinality({g \in DOMAIN d : f \in z[g].GroupList})
         /\ z[f].refcnt_blocklist = IF f.type \in {"host", "group"} /\ d[f].active
                                    THEN Occurrences(f.name, s) % (MaxRef + 1) ELSE 0
    /\ \A i \in I : n[i] = Cardinality({f \in DOMAIN d : i \in z[f].InterfaceList})

LEMMA LoadedLemma ==
    ASSUME NEW d, DiskOK(d), NEW s \in Seq(Name), NEW I \in SUBSET Ifaces
    PROVE  LoadedWell(d, s, I, LoadedZones(d, s, I), LoadedCounters(d, I))
  <1> DEFINE z == LoadedZones(d, s, I)
             n == LoadedCounters(d, I)
  <1>1. MaxRef \in Nat /\ DOMAIN d \subseteq File /\ \A f \in DOMAIN d : d[f] \in Row
    BY EditorAssumption DEF DiskOK
  <1>2. DOMAIN z = DOMAIN d
    BY DEF LoadedZones
  <1>3. ASSUME NEW f \in DOMAIN d
        PROVE  /\ z[f].type = f.type /\ z[f].name = f.name /\ z[f].active = d[f].active
               /\ z[f].parents = Parents(f) /\ z[f].GroupList = LoadedMembers(d, f)
               /\ z[f].InterfaceList = d[f].INTERFACE \cap I
               /\ z[f].refcnt_group = Cardinality({g \in DOMAIN d : f \in LoadedMembers(d, g)}) % (MaxRef + 1)
               /\ z[f].refcnt_blocklist = IF f.type \in {"host", "group"} /\ d[f].active
                                          THEN Occurrences(f.name, s) % (MaxRef + 1) ELSE 0
               /\ z[f] = [type |-> f.type, name |-> f.name, active |-> z[f].active,
                          parents |-> z[f].parents, GroupList |-> z[f].GroupList,
                          InterfaceList |-> z[f].InterfaceList, refcnt_group |-> z[f].refcnt_group,
                          refcnt_blocklist |-> z[f].refcnt_blocklist]
    BY DEF LoadedZones
  <1>counters. n = [i \in I |-> Cardinality({f \in DOMAIN d : i \in d[f].INTERFACE}) % (MaxRef + 1)]
    BY DEF LoadedCounters
  <1>memory. z = [f \in DOMAIN d |-> z[f]]
    BY DEF LoadedZones
  <1> HIDE DEF z, n
  <1>4. \A f \in DOMAIN d : z[f].refcnt_group = Cardinality({g \in DOMAIN d : f \in z[g].GroupList})
    <2>1. ASSUME NEW f \in DOMAIN d
          PROVE  z[f].refcnt_group = Cardinality({g \in DOMAIN d : f \in z[g].GroupList})
      <3> DEFINE S == {g \in DOMAIN d : f \in z[g].GroupList}
      <3>1. {g \in DOMAIN d : f \in LoadedMembers(d, g)} = S
        BY <1>3
      <3>2. S \subseteq File
        BY <1>1
      <3>3. z[f].refcnt_group = Cardinality(S) % (MaxRef + 1)
        BY <1>3, <3>1
      <3> HIDE DEF S
      <3>4. Cardinality(S) % (MaxRef + 1) = Cardinality(S)
        BY <3>2, FilesFit
      <3>5. z[f].refcnt_group = Cardinality(S)
        BY <3>3, <3>4
      <3>6. QED
        BY <3>5 DEF S
    <2>2. QED
      BY <2>1
  <1>5. \A i \in I : /\ n[i] = Cardinality({f \in DOMAIN d : i \in z[f].InterfaceList})
                     /\ n[i] \in 0..MaxRef
    <2>1. ASSUME NEW i \in I
          PROVE  /\ n[i] = Cardinality({f \in DOMAIN d : i \in z[f].InterfaceList})
                 /\ n[i] \in 0..MaxRef
      <3> DEFINE S == {f \in DOMAIN d : i \in z[f].InterfaceList}
      <3>1. {f \in DOMAIN d : i \in d[f].INTERFACE} = S
        BY <1>3
      <3>2. S \subseteq File
        BY <1>1
      <3>3. n[i] = Cardinality(S) % (MaxRef + 1)
        BY <1>counters, <3>1
      <3> HIDE DEF S
      <3>4. Cardinality(S) % (MaxRef + 1) = Cardinality(S) /\ Cardinality(S) \in 0..MaxRef
        BY <3>2, FilesFit
      <3>5. n[i] = Cardinality(S) /\ n[i] \in 0..MaxRef
        BY <3>3, <3>4
      <3>6. QED
        BY <3>5 DEF S
    <2>2. QED
      BY <2>1
  <1>6. n \in [I -> 0..MaxRef]
    BY <1>5, <1>counters
  <1>7. ASSUME NEW f \in DOMAIN d PROVE z[f] \in ZoneData
    <2>1. /\ f.type \in {"zone", "network", "host", "group"} /\ f.name \in Name
          /\ d[f].active \in BOOLEAN
      BY <1>1, FileLemma DEF Row
    <2>2. z[f].parents \in SUBSET File /\ z[f].GroupList \in SUBSET File
          /\ z[f].InterfaceList \in SUBSET Ifaces
      BY <1>1, <1>3 DEF LoadedMembers, DiskOK
    <2>3. z[f].refcnt_group \in 0..MaxRef
      <3> DEFINE S == {g \in DOMAIN d : f \in z[g].GroupList}
      <3>1. S \subseteq File
        BY <1>1
      <3>2. z[f].refcnt_group = Cardinality(S)
        BY <1>4
      <3> HIDE DEF S
      <3>3. QED
        BY <3>1, <3>2, FilesFit
    <2>4. z[f].refcnt_blocklist \in 0..MaxRef
      <3>1. Occurrences(f.name, s) \in Nat
        <4>1. Occurrences(f.name, s) \in 0..Len(s) /\ Len(s) \in Nat
          BY OccurrencesLemma
        <4>2. QED
          BY <4>1
      <3>2. Occurrences(f.name, s) % (MaxRef + 1) \in 0..MaxRef
        BY <1>1, <3>1, ModIn
      <3>3. z[f].refcnt_blocklist = Occurrences(f.name, s) % (MaxRef + 1)
            \/ z[f].refcnt_blocklist = 0
        BY <1>3
      <3> HIDE DEF Occurrences
      <3>4. QED
        BY <1>1, <3>2, <3>3
    <2>5. z[f].type = f.type /\ z[f].name = f.name /\ z[f].active = d[f].active
      BY <1>3
    <2>6. z[f] = [type |-> f.type, name |-> f.name, active |-> z[f].active,
                  parents |-> z[f].parents, GroupList |-> z[f].GroupList,
                  InterfaceList |-> z[f].InterfaceList, refcnt_group |-> z[f].refcnt_group,
                  refcnt_blocklist |-> z[f].refcnt_blocklist]
      BY <1>3
    <2>7. QED
      BY <2>1, <2>2, <2>3, <2>4, <2>5, <2>6 DEF ZoneData
  <1>8. z \in [DOMAIN d -> ZoneData]
    BY <1>7, <1>memory
  <1>9. MemOK(z)
    <2>1. ASSUME NEW f \in DOMAIN d
          PROVE  /\ [type |-> z[f].type, name |-> z[f].name] \in File
                 /\ z[f].GroupList # {} => z[f].type = "group"
                 /\ \A h \in z[f].GroupList \cap DOMAIN d : z[h].type = "host"
      <3>1. [type |-> z[f].type, name |-> z[f].name] \in File
        <4>1. z[f].type = f.type /\ z[f].name = f.name /\ f \in File
          BY <1>1, <1>3
        <4>2. f = [type |-> f.type, name |-> f.name]
          BY <4>1, FileLemma
        <4>3. QED
          BY <4>1, <4>2
      <3>2. \A h \in z[f].GroupList : f.type = "group" /\ h.type = "host"
        BY <1>3 DEF LoadedMembers, MemberFiles
      <3>3. \A h \in DOMAIN d : z[h].type = h.type
        BY <1>3
      <3>4. QED
        BY <3>1, <3>2, <3>3
    <2>2. QED
      BY <1>1, <1>2, <1>8, <2>1 DEF MemOK
  <1>10. \A f \in DOMAIN d : /\ z[f].parents \subseteq DOMAIN d
                             /\ z[f].GroupList \subseteq DOMAIN d /\ z[f].InterfaceList \subseteq I
    BY <1>3 DEF DiskOK, LoadedMembers
  <1>11. LoadedWell(d, s, I, z, n)
    BY <1>2, <1>3, <1>4, <1>5, <1>6, <1>9, <1>10 DEF LoadedWell
  <1>12. QED
    BY <1>11 DEF z, n

LEMMA InitBase == Init => BaseInv /\ CountInv
  <1>1. SUFFICES ASSUME Init PROVE BaseInv /\ CountInv
    OBVIOUS
  <1>2. /\ disk = Disk /\ blocked = DiskBlocked /\ savedBlocked = DiskBlocked
        /\ rules = DiskRules /\ savedRules = DiskRules
        /\ zones = LoadedZones(Disk, DiskBlocked, Ifaces)
        /\ refcnt_network = LoadedCounters(Disk, Ifaces)
        /\ ops = 0 /\ failures = 0 /\ outcome = "started"
        /\ hurt = BlindIn(DiskBlocked, Disk) \cup ClashIn(Disk)
    BY <1>1 DEF Init
  <1>3. DiskBlocked \in Seq(Name) /\ DiskRules \in Seq(Name \cup {Firewall, Broken})
    <2>1. {f.name : f \in {g \in DOMAIN Disk : g.type \in {"host", "group"}}} \subseteq Name
      BY EditorAssumption, FileLemma
    <2>2. DiskBlocked \in Seq({f.name : f \in {g \in DOMAIN Disk : g.type \in {"host", "group"}}})
      BY EditorAssumption
    <2>3. DiskBlocked \in Seq(Name)
      <3> DEFINE S == {f.name : f \in {g \in DOMAIN Disk : g.type \in {"host", "group"}}}
      <3>1. S \subseteq Name /\ DiskBlocked \in Seq(S)
        BY <2>1, <2>2
      <3> HIDE DEF S
      <3>2. QED
        BY <3>1
    <2>4. DiskRules \in Seq(Name \cup {Firewall})
      BY EditorAssumption
    <2>5. QED
      BY <2>3, <2>4
  <1>4. DiskOK(Disk)
    BY EditorAssumption DEF DiskOK
  <1>5. /\ MemOK(zones) /\ DOMAIN zones = DOMAIN Disk /\ refcnt_network \in [Ifaces -> 0..MaxRef]
        /\ \A f \in DOMAIN Disk :
              /\ zones[f].GroupList \subseteq DOMAIN Disk /\ zones[f].InterfaceList \subseteq Ifaces
              /\ zones[f].refcnt_group = Cardinality({g \in DOMAIN Disk : f \in zones[g].GroupList})
        /\ \A i \in Ifaces : refcnt_network[i] = Cardinality({f \in DOMAIN Disk : i \in zones[f].InterfaceList})
    <2>1. LoadedWell(Disk, DiskBlocked, Ifaces, zones, refcnt_network)
      BY <1>2, <1>3, <1>4, LoadedLemma
    <2>2. QED
      BY <2>1 DEF LoadedWell
  <1>6. CountInv
    BY <1>5 DEF CountInv, Defined, MembersCounted
  <1>7. /\ ops \in 0..MaxOps /\ failures \in 0..MaxFailures /\ hurt \subseteq Harms
        /\ outcome \in {"started", "ok", "failed"}
    BY <1>2, EditorAssumption DEF BlindIn, ClashIn, Harms
  <1>8. TypeOK
    BY <1>2, <1>3, <1>4, <1>5, <1>7 DEF TypeOK, MemOK, DiskOK
  <1>9. ListsFit
    BY <1>2, <1>3 DEF ListsFit
  <1>10. QED
    BY <1>2, <1>4, <1>5, <1>6, <1>8, <1>9 DEF BaseInv

LEMMA RestartBase ==
    ASSUME BaseInv, Restart
    PROVE  /\ BaseInv' /\ blocked' \in Seq(Name)
           /\ LoadedWell(disk, blocked', DOMAIN refcnt_network, zones', refcnt_network')
           /\ hurt' = BlindIn(blocked', disk) \cup ClashIn(disk) \cup StrayIn(disk, DOMAIN refcnt_network)
  <1> DEFINE I == DOMAIN refcnt_network
  <1>1. /\ ops < MaxOps /\ ops' = ops + 1
        /\ blocked' = LoadedBlocked(savedBlocked, disk)
        /\ rules' = LoadedRules(savedRules)
        /\ zones' = LoadedZones(disk, blocked', I)
        /\ refcnt_network' = LoadedCounters(disk, I)
        /\ outcome' = "started"
        /\ hurt' = BlindIn(blocked', disk) \cup ClashIn(disk) \cup StrayIn(disk, I)
        /\ disk' = disk /\ savedRules' = savedRules /\ savedBlocked' = savedBlocked
        /\ failures' = failures
    BY DEF Restart, backend
  <1>2. DiskOK(disk) /\ I \in SUBSET Ifaces
    BY DEF BaseInv, TypeOK
  <1>3. blocked' \in Seq(Name) /\ Len(blocked') <= Len(savedBlocked)
    <2> DEFINE S == {n \in Name : /\ [type |-> "network", name |-> n] \notin DOMAIN disk
                                  /\ [type |-> "zone", name |-> n] \notin DOMAIN disk}
    <2>1. blocked' = Selected(savedBlocked, S) /\ S \subseteq Name
      BY <1>1 DEF LoadedBlocked
    <2> HIDE DEF S
    <2>2. blocked' \in Seq(Name \cap S) /\ Len(blocked') <= Len(savedBlocked)
      BY <2>1, SameLists, SelectedLemma
    <2>3. Name \cap S \subseteq Name
      OBVIOUS
    <2>4. QED
      BY <2>2, <2>3
  <1>4. rules' \in Seq(Name \cup {Firewall, Broken})
    <2> DEFINE A == Name \cup {Firewall, Broken}
               S == Name \cup {Firewall}
    <2>1. rules' = Selected(savedRules, S) /\ savedRules \in Seq(A)
      BY <1>1, SameLists DEF LoadedRules
    <2> HIDE DEF S, A
    <2>2. rules' \in Seq(A \cap S)
      BY <2>1, SelectedLemma
    <2>3. A \cap S \subseteq A
      OBVIOUS
    <2>4. rules' \in Seq(A)
      BY <2>2, <2>3
    <2>5. QED
      BY <2>4 DEF A
  <1>5. LoadedWell(disk, blocked', I, zones', refcnt_network')
    <2> HIDE DEF I
    <2>1. QED
      BY <1>1, <1>2, <1>3, LoadedLemma
  <1>6. MemOK(zones') /\ refcnt_network' \in [I -> 0..MaxRef]
    BY <1>5 DEF LoadedWell
  <1>7. DOMAIN refcnt_network' \subseteq Ifaces /\ refcnt_network' \in [DOMAIN refcnt_network' -> 0..MaxRef]
    BY <1>2, <1>6
  <1>8. ops' \in 0..MaxOps /\ failures' \in 0..MaxFailures /\ outcome' \in {"started", "ok", "failed"}
    BY <1>1, EditorAssumption DEF BaseInv, TypeOK
  <1>9. hurt' \subseteq Harms
    BY <1>1 DEF BlindIn, ClashIn, StrayIn, Harms
  <1>10. Len(blocked') <= Len(DiskBlocked) + ops + 1
    <2>1. Len(blocked') \in Nat /\ Len(savedBlocked) \in Nat /\ ops \in Nat /\ Len(DiskBlocked) \in Nat
      BY <1>3, SameLists, EditorAssumption DEF BaseInv, TypeOK
    <2>2. QED
      BY <1>3, <2>1, SameLists
  <1>11. savedRules' \in Seq(Name \cup {Firewall, Broken}) /\ savedBlocked' \in Seq(Name)
         /\ Len(savedBlocked') <= Len(DiskBlocked) + ops + 1 /\ DiskOK(disk')
    BY <1>1, <1>2, SameLists
  <1>12. BaseInv'
    BY <1>1, <1>3, <1>4, <1>6, <1>7, <1>8, <1>9, <1>10, <1>11, BaseStep
  <1>13. QED
    BY <1>1, <1>3, <1>5, <1>12

-----------------------------------------------------------------------------
(* The counters of members and interfaces. *)

LEMMA CountMore ==
    ASSUME NEW S, S \subseteq File, NEW b \in File, b \notin S
    PROVE  Cardinality(S \cup {b}) = Up(Cardinality(S))
  <1>1. IsFiniteSet(S) /\ Cardinality(S) \in 0..MaxRef
    BY FilesFit
  <1>2. Cardinality(S \cup {b}) = Cardinality(S) + 1
    BY <1>1, FS_AddElement
  <1>3. Cardinality(S \cup {b}) \in 0..MaxRef
    <2>1. S \cup {b} \subseteq File
      OBVIOUS
    <2>2. QED
      BY <2>1, FilesFit
  <1>4. Cardinality(S) < MaxRef
    BY <1>1, <1>2, <1>3, EditorAssumption
  <1>5. QED
    BY <1>1, <1>2, <1>4, UpDown

LEMMA CountLess ==
    ASSUME NEW S, S \subseteq File, NEW b \in S
    PROVE  Cardinality(S \ {b}) = Down(Cardinality(S))
  <1>1. IsFiniteSet(S) /\ Cardinality(S) \in 0..MaxRef
    BY FilesFit
  <1>2. Cardinality(S \ {b}) = Cardinality(S) - 1
    BY <1>1, FS_RemoveElement
  <1>3. Cardinality(S \ {b}) \in 0..MaxRef
    <2>1. S \ {b} \subseteq File
      OBVIOUS
    <2>2. QED
      BY <2>1, FilesFit
  <1>4. Cardinality(S) > 0
    BY <1>1, <1>2, <1>3, EditorAssumption
  <1>5. QED
    BY <1>1, <1>2, <1>4, UpDown

LEMMA CountNone ==
    ASSUME NEW S, S \subseteq File
    PROVE  Cardinality(S) = 0 <=> S = {}
  BY FilesFit, FS_EmptySet

(* Who points at h, and at i. *)
Users(z, h)    == {g \in DOMAIN z : h \in z[g].GroupList}
Networks(z, i) == {n \in DOMAIN z : i \in z[n].InterfaceList}

LEMMA UsersAreFiles ==
    BaseInv => \A x : Users(zones, x) \subseteq File /\ Networks(zones, x) \subseteq File
  BY DEF BaseInv, TypeOK, Users, Networks

LEMMA CountedLemma ==
    MembersCounted <=>
        /\ \A h \in DOMAIN zones : zones[h].refcnt_group = Cardinality(Users(zones, h))
        /\ \A i \in DOMAIN refcnt_network : refcnt_network[i] = Cardinality(Networks(zones, i))
  BY DEF MembersCounted, Users, Networks

LEMMA CountedNext ==
    ASSUME \A h \in DOMAIN zones' : zones'[h].refcnt_group = Cardinality(Users(zones', h)),
           \A i \in DOMAIN refcnt_network' : refcnt_network'[i] = Cardinality(Networks(zones', i)),
           \A b \in DOMAIN zones' : /\ zones'[b].GroupList \subseteq DOMAIN zones'
                                    /\ zones'[b].InterfaceList \subseteq DOMAIN refcnt_network'
    PROVE  CountInv'
  BY DEF CountInv, Defined, MembersCounted, Users, Networks

LEMMA AlikeCount ==
    ASSUME BaseInv, CountInv, Alike, hurt \subseteq hurt'
    PROVE  CountInv'
  <1>1. CASE "delete" \in hurt'
    BY <1>1 DEF CountInv
  <1>2. CASE "delete" \notin hurt'
    <2>1. Defined /\ MembersCounted
      BY <1>2 DEF CountInv
    <2>2. /\ DOMAIN zones' = DOMAIN zones /\ refcnt_network' = refcnt_network
          /\ \A b \in DOMAIN zones : /\ zones'[b].GroupList = zones[b].GroupList
                                     /\ zones'[b].InterfaceList = zones[b].InterfaceList
                                     /\ zones'[b].refcnt_group = zones[b].refcnt_group
      BY DEF Alike, Like
    <2>3. \A x : Users(zones', x) = Users(zones, x) /\ Networks(zones', x) = Networks(zones, x)
      BY <2>2 DEF Users, Networks
    <2>4. /\ \A h \in DOMAIN zones : zones[h].refcnt_group = Cardinality(Users(zones, h))
          /\ \A i \in DOMAIN refcnt_network : refcnt_network[i] = Cardinality(Networks(zones, i))
      BY <2>1, CountedLemma
    <2>5. QED
      BY <2>1, <2>2, <2>3, <2>4, CountedNext DEF Defined
  <1>3. QED
    BY <1>1, <1>2

LEMMA NewZoneCount ==
    ASSUME BaseInv, CountInv, NEW f \in File, NewZoneDone(f)
    PROVE  CountInv'
  <1>1. CASE "delete" \in hurt'
    BY <1>1 DEF CountInv
  <1>2. CASE "delete" \notin hurt'
    <2>1. PICK n \in File \ DOMAIN zones :
            /\ zones' = With(zones, n, NewData(f)) /\ zones' \in [DOMAIN zones \cup {n} -> ZoneData]
            /\ refcnt_network' = refcnt_network /\ hurt \subseteq hurt'
      BY DEF NewZoneDone
    <2>2. Defined /\ MembersCounted
      BY <1>2, <2>1 DEF CountInv
    <2>3. /\ DOMAIN zones' = DOMAIN zones \cup {n}
          /\ \A b \in DOMAIN zones : zones'[b] = zones[b]
          /\ zones'[n].GroupList = {} /\ zones'[n].InterfaceList = {} /\ zones'[n].refcnt_group = 0
      BY <2>1 DEF With, NewData
    <2>4. \A x : Users(zones', x) = Users(zones, x) /\ Networks(zones', x) = Networks(zones, x)
      BY <2>3 DEF Users, Networks
    <2>5. Cardinality(Users(zones, n)) = 0
      <3>1. Users(zones, n) = {}
        BY <2>1, <2>2 DEF Users, Defined
      <3>2. QED
        BY <3>1, FS_EmptySet
    <2>6. /\ \A h \in DOMAIN zones : zones[h].refcnt_group = Cardinality(Users(zones, h))
          /\ \A i \in DOMAIN refcnt_network : refcnt_network[i] = Cardinality(Networks(zones, i))
      BY <2>2, CountedLemma
    <2>7. \A h \in DOMAIN zones' : zones'[h].refcnt_group = Cardinality(Users(zones', h))
      BY <2>3, <2>4, <2>5, <2>6
    <2>8. \A b \in DOMAIN zones' : /\ zones'[b].GroupList \subseteq DOMAIN zones'
                                   /\ zones'[b].InterfaceList \subseteq DOMAIN refcnt_network'
      BY <2>1, <2>2, <2>3 DEF Defined
    <2>9. QED
      BY <2>1, <2>4, <2>6, <2>7, <2>8, CountedNext
  <1>3. QED
    BY <1>1, <1>2

(* Nothing that is counted points at an object that may be deleted. *)
LEMMA NotReferenced ==
    ASSUME BaseInv, Defined, MembersCounted, NEW b \in DOMAIN zones, ~Referenced(b)
    PROVE  \A g \in DOMAIN zones : b \notin zones[g].GroupList
  <1>1. ASSUME NEW g \in DOMAIN zones, b \in zones[g].GroupList PROVE FALSE
    <2>1. zones[b].type = "host"
      BY <1>1 DEF BaseInv, MemOK
    <2>2. ~ (zones[b].refcnt_group > 0) /\ zones[b].refcnt_group \in 0..MaxRef
      BY <2>1, FileOfLemma DEF Referenced, ZoneData
    <2>3. zones[b].refcnt_group = 0
      BY <2>2, EditorAssumption
    <2>4. Cardinality(Users(zones, b)) = 0
      BY <2>3, CountedLemma
    <2>5. Users(zones, b) = {}
      BY <2>4, UsersAreFiles, CountNone
    <2>6. QED
      BY <1>1, <2>5 DEF Users
  <1>2. QED
    BY <1>1

LEMMA DeleteZoneCount ==
    ASSUME BaseInv, CountInv, NEW b \in DOMAIN zones, NEW fault \in BOOLEAN,
           DeleteZone(b, fault)
    PROVE  CountInv'
  <1>1. /\ ~Referenced(b) /\ refcnt_network' = Released(b)[2] /\ hurt \subseteq hurt'
        /\ \/ zones' = Without(Released(b)[1], b)
           \/ zones' = Released(b)[1] /\ "delete" \in hurt'
           \/ zones' = zones /\ refcnt_network' = refcnt_network
    BY DeleteZoneBase
  <1>2. CASE "delete" \in hurt'
    BY <1>2 DEF CountInv
  <1>3. CASE "delete" \notin hurt' /\ zones' = zones /\ refcnt_network' = refcnt_network
    BY <1>1, <1>3 DEF CountInv, Defined, MembersCounted
  <1>4. CASE "delete" \notin hurt' /\ zones' = Without(Released(b)[1], b)
    <2>1. Defined /\ MembersCounted
      BY <1>1, <1>4 DEF CountInv
    <2>2. \A g \in DOMAIN zones : b \notin zones[g].GroupList
      BY <1>1, <2>1, NotReferenced
    <2>3. /\ DOMAIN zones' = DOMAIN zones \ {b}
          /\ \A c \in DOMAIN zones \ {b} :
                /\ zones'[c].GroupList = zones[c].GroupList
                /\ zones'[c].InterfaceList = zones[c].InterfaceList
                /\ zones'[c].refcnt_group = IF c \in zones[b].GroupList THEN Down(zones[c].refcnt_group)
                                            ELSE zones[c].refcnt_group
      <3> DEFINE R1 == Released(b)[1]
      <3>1. /\ DOMAIN R1 = DOMAIN zones
            /\ \A c \in DOMAIN zones :
                 /\ R1[c].GroupList = zones[c].GroupList /\ R1[c].InterfaceList = zones[c].InterfaceList
                 /\ R1[c].refcnt_group = IF c \in zones[b].GroupList THEN Down(zones[c].refcnt_group)
                                         ELSE zones[c].refcnt_group
        BY ReleasedLemma
      <3>2. zones' = Without(R1, b)
        BY <1>4
      <3> HIDE DEF R1
      <3>3. QED
        BY <3>1, <3>2 DEF Without, Restrict
    <2>4. /\ DOMAIN refcnt_network' = DOMAIN refcnt_network
          /\ \A i \in DOMAIN refcnt_network :
                refcnt_network'[i] = IF i \in zones[b].InterfaceList THEN Down(refcnt_network[i])
                                     ELSE refcnt_network[i]
      BY <1>1, ReleasedLemma
    <2>5. /\ \A h \in DOMAIN zones : zones[h].refcnt_group = Cardinality(Users(zones, h))
          /\ \A i \in DOMAIN refcnt_network : refcnt_network[i] = Cardinality(Networks(zones, i))
      BY <2>1, CountedLemma
    <2>6. \A x : /\ Users(zones', x) = Users(zones, x) \ {b}
                 /\ Networks(zones', x) = Networks(zones, x) \ {b}
                 /\ (b \in Users(zones, x) <=> x \in zones[b].GroupList)
                 /\ (b \in Networks(zones, x) <=> x \in zones[b].InterfaceList)
      BY <2>3 DEF Users, Networks
    <2>7. ASSUME NEW h \in DOMAIN zones' PROVE zones'[h].refcnt_group = Cardinality(Users(zones', h))
      <3>1. CASE b \in Users(zones, h)
        BY <2>3, <2>5, <2>6, <3>1, UsersAreFiles, CountLess
      <3>2. CASE b \notin Users(zones, h)
        <4>1. Users(zones', h) = Users(zones, h)
          BY <2>6, <3>2
        <4>2. QED
          BY <2>3, <2>5, <2>6, <3>2, <4>1
      <3>3. QED
        BY <3>1, <3>2
    <2>8. ASSUME NEW i \in DOMAIN refcnt_network'
          PROVE  refcnt_network'[i] = Cardinality(Networks(zones', i))
      <3>1. CASE b \in Networks(zones, i)
        BY <2>4, <2>5, <2>6, <3>1, UsersAreFiles, CountLess
      <3>2. CASE b \notin Networks(zones, i)
        <4>1. Networks(zones', i) = Networks(zones, i)
          BY <2>6, <3>2
        <4>2. QED
          BY <2>4, <2>5, <2>6, <3>2, <4>1
      <3>3. QED
        BY <3>1, <3>2
    <2>9. \A c \in DOMAIN zones' : /\ zones'[c].GroupList \subseteq DOMAIN zones'
                                   /\ zones'[c].InterfaceList \subseteq DOMAIN refcnt_network'
      BY <2>1, <2>2, <2>3, <2>4 DEF Defined
    <2>10. QED
      BY <2>7, <2>8, <2>9, CountedNext
  <1>5. QED
    BY <1>1, <1>2, <1>3, <1>4

(* One pointer more or less to a host, and its counter along with it. *)
LEMMA MembersCount ==
    ASSUME BaseInv, CountInv, NEW g \in DOMAIN zones, NEW h \in DOMAIN zones, NEW S,
           NEW count, MembersChanged(g, h, S, count),
           \/ h \notin zones[g].GroupList /\ S = zones[g].GroupList \cup {h}
                /\ count = Up(zones[h].refcnt_group)
           \/ h \in zones[g].GroupList /\ S = zones[g].GroupList \ {h}
                /\ count = Down(zones[h].refcnt_group)
    PROVE  CountInv'
  <1>1. /\ DOMAIN zones' = DOMAIN zones
        /\ \A c \in DOMAIN zones :
             /\ zones'[c].InterfaceList = zones[c].InterfaceList
             /\ zones'[c].GroupList = IF c = g THEN S ELSE zones[c].GroupList
             /\ zones'[c].refcnt_group = IF c = h THEN count ELSE zones[c].refcnt_group
        /\ refcnt_network' = refcnt_network /\ hurt \subseteq hurt'
    BY DEF MembersChanged
  <1>2. CASE "delete" \in hurt'
    BY <1>2 DEF CountInv
  <1>3. CASE "delete" \notin hurt'
    <2>1. Defined /\ MembersCounted
      BY <1>1, <1>3 DEF CountInv
    <2>2. /\ \A x \in DOMAIN zones : zones[x].refcnt_group = Cardinality(Users(zones, x))
          /\ \A i \in DOMAIN refcnt_network : refcnt_network[i] = Cardinality(Networks(zones, i))
      BY <2>1, CountedLemma
    <2>3. \A i : Networks(zones', i) = Networks(zones, i)
      BY <1>1 DEF Networks
    <2>4. \A x : x # h => Users(zones', x) = Users(zones, x)
      BY <1>1 DEF Users
    <2>5. count = Cardinality(Users(zones', h))
      <3>1. CASE h \notin zones[g].GroupList
        <4>1. Users(zones', h) = Users(zones, h) \cup {g} /\ g \notin Users(zones, h) /\ g \in File
          BY <1>1, <3>1, FileOfLemma DEF Users
        <4>2. QED
          BY <2>2, <3>1, <4>1, UsersAreFiles, CountMore
      <3>2. CASE h \in zones[g].GroupList
        <4>1. Users(zones', h) = Users(zones, h) \ {g} /\ g \in Users(zones, h)
          BY <1>1, <3>2 DEF Users
        <4>2. QED
          BY <2>2, <3>2, <4>1, UsersAreFiles, CountLess
      <3>3. QED
        BY <3>1, <3>2
    <2>6. \A x \in DOMAIN zones' : zones'[x].refcnt_group = Cardinality(Users(zones', x))
      BY <1>1, <2>2, <2>4, <2>5
    <2>7. \A c \in DOMAIN zones' : /\ zones'[c].GroupList \subseteq DOMAIN zones'
                                   /\ zones'[c].InterfaceList \subseteq DOMAIN refcnt_network'
      BY <1>1, <2>1 DEF Defined
    <2>8. QED
      BY <1>1, <2>2, <2>3, <2>6, <2>7, CountedNext
  <1>4. QED
    BY <1>2, <1>3

LEMMA IfacesCount ==
    ASSUME BaseInv, CountInv, NEW n \in DOMAIN zones, NEW i \in DOMAIN refcnt_network, NEW S,
           NEW count, IfacesChanged(n, i, S, count),
           \/ i \notin zones[n].InterfaceList /\ S = zones[n].InterfaceList \cup {i}
                /\ count = Up(refcnt_network[i])
           \/ i \in zones[n].InterfaceList /\ S = zones[n].InterfaceList \ {i}
                /\ count = Down(refcnt_network[i])
    PROVE  CountInv'
  <1>1. /\ DOMAIN zones' = DOMAIN zones
        /\ \A c \in DOMAIN zones :
             /\ zones'[c].GroupList = zones[c].GroupList
             /\ zones'[c].refcnt_group = zones[c].refcnt_group
             /\ zones'[c].InterfaceList = IF c = n THEN S ELSE zones[c].InterfaceList
        /\ DOMAIN refcnt_network' = DOMAIN refcnt_network
        /\ \A j \in DOMAIN refcnt_network :
             refcnt_network'[j] = IF j = i THEN count ELSE refcnt_network[j]
        /\ hurt \subseteq hurt'
    BY DEF IfacesChanged
  <1>2. CASE "delete" \in hurt'
    BY <1>2 DEF CountInv
  <1>3. CASE "delete" \notin hurt'
    <2>1. Defined /\ MembersCounted
      BY <1>1, <1>3 DEF CountInv
    <2>2. /\ \A x \in DOMAIN zones : zones[x].refcnt_group = Cardinality(Users(zones, x))
          /\ \A j \in DOMAIN refcnt_network : refcnt_network[j] = Cardinality(Networks(zones, j))
      BY <2>1, CountedLemma
    <2>3. \A x : Users(zones', x) = Users(zones, x)
      BY <1>1 DEF Users
    <2>4. \A j : j # i => Networks(zones', j) = Networks(zones, j)
      BY <1>1 DEF Networks
    <2>5. count = Cardinality(Networks(zones', i))
      <3>1. CASE i \notin zones[n].InterfaceList
        <4>1. Networks(zones', i) = Networks(zones, i) \cup {n} /\ n \notin Networks(zones, i) /\ n \in File
          BY <1>1, <3>1, FileOfLemma DEF Networks
        <4>2. QED
          BY <2>2, <3>1, <4>1, UsersAreFiles, CountMore
      <3>2. CASE i \in zones[n].InterfaceList
        <4>1. Networks(zones', i) = Networks(zones, i) \ {n} /\ n \in Networks(zones, i)
          BY <1>1, <3>2 DEF Networks
        <4>2. QED
          BY <2>2, <3>2, <4>1, UsersAreFiles, CountLess
      <3>3. QED
        BY <3>1, <3>2
    <2>6. \A j \in DOMAIN refcnt_network' : refcnt_network'[j] = Cardinality(Networks(zones', j))
      BY <1>1, <2>2, <2>4, <2>5
    <2>7. \A c \in DOMAIN zones' : /\ zones'[c].GroupList \subseteq DOMAIN zones'
                                   /\ zones'[c].InterfaceList \subseteq DOMAIN refcnt_network'
      BY <1>1, <2>1 DEF Defined
    <2>8. QED
      BY <1>1, <2>2, <2>3, <2>6, <2>7, CountedNext
  <1>4. QED
    BY <1>2, <1>3

(* An interface is deleted when no network has it. *)
LEMMA DeleteIfaceCount ==
    ASSUME BaseInv, CountInv, NEW i \in DOMAIN refcnt_network, DeleteIface(i)
    PROVE  CountInv'
  <1>1. /\ zones' = zones /\ hurt' = hurt /\ refcnt_network[i] = 0
        /\ DOMAIN refcnt_network' = DOMAIN refcnt_network \ {i}
        /\ \A j \in DOMAIN refcnt_network \ {i} : refcnt_network'[j] = refcnt_network[j]
    BY DeleteIfaceBase
  <1>2. CASE "delete" \in hurt
    BY <1>1, <1>2 DEF CountInv
  <1>3. CASE "delete" \notin hurt
    <2>1. Defined /\ MembersCounted
      BY <1>3 DEF CountInv
    <2>2. /\ \A x \in DOMAIN zones : zones[x].refcnt_group = Cardinality(Users(zones, x))
          /\ \A j \in DOMAIN refcnt_network : refcnt_network[j] = Cardinality(Networks(zones, j))
      BY <2>1, CountedLemma
    <2>3. Networks(zones, i) = {}
      BY <1>1, <2>2, UsersAreFiles, CountNone
    <2>4. \A c \in DOMAIN zones' : /\ zones'[c].GroupList \subseteq DOMAIN zones'
                                   /\ zones'[c].InterfaceList \subseteq DOMAIN refcnt_network'
      BY <1>1, <2>1, <2>3 DEF Defined, Networks
    <2>5. QED
      BY <1>1, <2>2, <2>4, CountedNext
  <1>4. QED
    BY <1>2, <1>3

LEMMA RestartCount ==
    ASSUME BaseInv, Restart
    PROVE  CountInv'
  <1>1. LoadedWell(disk, blocked', DOMAIN refcnt_network, zones', refcnt_network')
    BY RestartBase
  <1>2. /\ DOMAIN zones' = DOMAIN disk /\ DOMAIN refcnt_network' = DOMAIN refcnt_network
        /\ \A f \in DOMAIN disk :
              /\ zones'[f].GroupList \subseteq DOMAIN disk
              /\ zones'[f].InterfaceList \subseteq DOMAIN refcnt_network
              /\ zones'[f].refcnt_group = Cardinality({g \in DOMAIN disk : f \in zones'[g].GroupList})
        /\ \A i \in DOMAIN refcnt_network :
              refcnt_network'[i] = Cardinality({f \in DOMAIN disk : i \in zones'[f].InterfaceList})
    BY <1>1 DEF LoadedWell
  <1>3. QED
    BY <1>2, CountedNext DEF Users, Networks

LEMMA CountNext == BaseInv /\ CountInv /\ [Next]_vars => BaseInv' /\ CountInv'
  <1>1. SUFFICES ASSUME BaseInv, CountInv, [Next]_vars PROVE BaseInv' /\ CountInv'
    OBVIOUS
  <1>2. ASSUME NEW f \in File, NEW fault \in BOOLEAN, NewZone(f, fault)
        PROVE  BaseInv' /\ CountInv'
    BY <1>1, <1>2, NewZoneBase, NewZoneCount
  <1>3. ASSUME NEW b \in DOMAIN zones, NEW fault \in BOOLEAN, DeleteZone(b, fault)
        PROVE  BaseInv' /\ CountInv'
    BY <1>1, <1>3, DeleteZoneBase, DeleteZoneCount
  <1>4. ASSUME NEW b \in DOMAIN zones, NEW fault \in BOOLEAN, SetActive(b, fault)
        PROVE  BaseInv' /\ CountInv'
    <2>1. hurt \subseteq hurt'
      BY <1>4 DEF SetActive, End
    <2>2. QED
      BY <1>1, <1>4, <2>1, SetActiveBase, AlikeCount
  <1>5. ASSUME NEW b \in DOMAIN zones, NEW fault \in BOOLEAN, Block(b, fault)
        PROVE  BaseInv' /\ CountInv'
    <2>1. hurt \subseteq hurt'
      BY <1>5 DEF Block, End
    <2>2. QED
      BY <1>1, <1>5, <2>1, BlockBase, AlikeCount
  <1>6. ASSUME NEW g \in DOMAIN zones, NEW h \in DOMAIN zones, NEW fault \in BOOLEAN,
               AddMember(g, h, fault)
        PROVE  BaseInv' /\ CountInv'
    BY <1>1, <1>6, AddMemberBase, MembersCount
  <1>7. ASSUME NEW g \in DOMAIN zones, NEW h \in DOMAIN zones, NEW fault \in BOOLEAN,
               RemMember(g, h, fault)
        PROVE  BaseInv' /\ CountInv'
    BY <1>1, <1>7, RemMemberBase, MembersCount
  <1>8. ASSUME NEW n \in DOMAIN zones, NEW i \in DOMAIN refcnt_network, NEW fault \in BOOLEAN,
               AddIface(n, i, fault)
        PROVE  BaseInv' /\ CountInv'
    BY <1>1, <1>8, AddIfaceBase, IfacesCount
  <1>9. ASSUME NEW n \in DOMAIN zones, NEW i \in DOMAIN refcnt_network, NEW fault \in BOOLEAN,
               RemIface(n, i, fault)
        PROVE  BaseInv' /\ CountInv'
    BY <1>1, <1>9, RemIfaceBase, IfacesCount
  <1>10. ASSUME NEW i \in DOMAIN refcnt_network, DeleteIface(i)
         PROVE  BaseInv' /\ CountInv'
    BY <1>1, <1>10, DeleteIfaceBase, DeleteIfaceCount
  <1>11. ASSUME NEW n \in ToSet(blocked), NEW fault \in BOOLEAN, Unblock(n, fault)
         PROVE  BaseInv' /\ CountInv'
    <2>1. hurt \subseteq hurt'
      BY <1>11 DEF Unblock, End
    <2>2. QED
      BY <1>1, <1>11, <2>1, UnblockBase, AlikeCount
  <1>12. ASSUME NEW b \in DOMAIN zones, NEW part \in HostParts, NEW at \in Stages,
                RenameHostGroup(b, part, at)
         PROVE  BaseInv' /\ CountInv'
    <2>1. hurt \subseteq hurt'
      BY <1>12 DEF RenameHostGroup, End
    <2>2. QED
      BY <1>1, <1>12, <2>1, RenameHostGroupBase, AlikeCount
  <1>13. ASSUME NEW b \in DOMAIN zones, NEW part \in NetParts \cup ZoneParts,
                NEW at \in Stages \ {"groups"}, RenameNetworkZone(b, part, at)
         PROVE  BaseInv' /\ CountInv'
    <2>1. hurt \subseteq hurt'
      BY <1>13 DEF RenameNetworkZone, End
    <2>2. QED
      BY <1>1, <1>13, <2>1, RenameNetworkZoneBase, AlikeCount
  <1>14. CASE Restart
    BY <1>1, <1>14, RestartBase, RestartCount
  <1>15. CASE UNCHANGED vars
    BY <1>1, <1>15 DEF vars, memory, backend, bounds, BaseInv, TypeOK, DiskOK, MemOK, ListsFit,
                       CountInv, Defined, MembersCounted
  <1>16. QED
    BY <1>1, <1>2, <1>3, <1>4, <1>5, <1>6, <1>7, <1>8, <1>9, <1>10, <1>11, <1>12, <1>13, <1>14,
       <1>15 DEF Next, Done

(* In every state the variables have their types: no counter leaves 0 .. MaxRef,
   no list holds anything but names (the operations of vuurmuur_conf). *)
THEOREM TypeTheorem == Spec => []TypeOK
  <1>1. Init => BaseInv /\ CountInv
    BY InitBase
  <1>2. (BaseInv /\ CountInv) /\ [Next]_vars => (BaseInv /\ CountInv)'
    BY CountNext
  <1>3. BaseInv => TypeOK
    BY DEF BaseInv
  <1>4. QED
    BY <1>1, <1>2, <1>3, PTL DEF Spec

-----------------------------------------------------------------------------
(* What is above what. *)

LEMMA WholeBefore == ASSUME hurt \subseteq hurt', Whole' PROVE Whole
  BY DEF Whole

(* What was loaded is a tree: the files of a disk are in directories. *)
LEMMA LoadedTree ==
    ASSUME NEW d, DiskOK(d), NEW s, NEW I, NEW z, NEW n, LoadedWell(d, s, I, z, n)
    PROVE  ParentsAbove(z) /\ ZonesUnique(z)
  <1>1. /\ DOMAIN z = DOMAIN d /\ DOMAIN d \subseteq File
        /\ \A f \in DOMAIN d : /\ z[f].type = f.type /\ z[f].name = f.name
                               /\ z[f].parents = Parents(f) /\ z[f].parents \subseteq DOMAIN d
    BY DEF LoadedWell, DiskOK
  <1>2. ASSUME NEW c \in DOMAIN z, NEW p \in z[c].parents
        PROVE  p \in DOMAIN z /\ IsAbove(z, p, c)
    <2>1. c \in File /\ p \in Parents(c) /\ p \in DOMAIN d
      BY <1>1
    <2>2. \/ c.type # "zone" /\ p = [type |-> "zone", name |-> ZoneName(c.name)]
          \/ c.type \in {"host", "group"} /\ p = [type |-> "network", name |-> NetName(c.name)]
      BY <2>1, ParentsLemma
    <2>3. /\ z[p].type = p.type /\ z[p].name = p.name
          /\ z[c].type = c.type /\ z[c].name = c.name
      BY <1>1, <2>1
    <2>4. QED
      BY <1>1, <2>1, <2>2, <2>3 DEF IsAbove
  <1>3. ASSUME NEW b \in DOMAIN z, NEW c \in DOMAIN z, z[b].type = z[c].type,
               z[b].name = z[c].name
        PROVE  b = c
    <2>1. b \in File /\ c \in File /\ b.type = c.type /\ b.name = c.name
      BY <1>1, <1>3
    <2>2. b = [type |-> b.type, name |-> b.name] /\ c = [type |-> c.type, name |-> c.name]
      BY <2>1, FileLemma
    <2>3. QED
      BY <2>1, <2>2
  <1>4. QED
    BY <1>2, <1>3 DEF ParentsAbove, ZonesUnique

LEMMA InitTree == Init => TreeInv
  <1>1. SUFFICES ASSUME Init PROVE TreeInv
    OBVIOUS
  <1>2. BaseInv /\ disk = Disk /\ blocked = DiskBlocked
        /\ zones = LoadedZones(Disk, DiskBlocked, Ifaces)
    BY <1>1, InitBase DEF Init
  <1>3. DiskOK(Disk) /\ DiskBlocked \in Seq(Name) /\ Ifaces \in SUBSET Ifaces
    BY <1>2 DEF BaseInv, TypeOK
  <1>4. LoadedWell(Disk, DiskBlocked, Ifaces, zones, LoadedCounters(Disk, Ifaces))
    BY <1>2, <1>3, LoadedLemma
  <1>5. QED
    BY <1>3, <1>4, LoadedTree DEF TreeInv

(* Types, names and parents stay, or objects that nothing is below go. *)
LEMMA SameTree ==
    ASSUME TreeInv, hurt \subseteq hurt', DOMAIN zones' \subseteq DOMAIN zones,
           \A c \in DOMAIN zones' :
              /\ zones'[c].type = zones[c].type /\ zones'[c].name = zones[c].name
              /\ zones'[c].parents = zones[c].parents
              /\ Whole => zones[c].parents \cap DOMAIN zones \subseteq DOMAIN zones'
    PROVE  TreeInv'
  <1>1. SUFFICES ASSUME Whole' PROVE ParentsAbove(zones') /\ ZonesUnique(zones')
    BY DEF TreeInv
  <1>2. Whole /\ ParentsAbove(zones) /\ ZonesUnique(zones)
    BY <1>1, WholeBefore DEF TreeInv
  <1>3. ParentsAbove(zones')
    BY <1>2 DEF ParentsAbove, IsAbove
  <1>4. ZonesUnique(zones')
    BY <1>2 DEF ZonesUnique
  <1>5. QED
    BY <1>3, <1>4

LEMMA NewZoneTree ==
    ASSUME BaseInv, TreeInv, NEW f \in File, NewZoneDone(f)
    PROVE  TreeInv'
  <1>1. SUFFICES ASSUME Whole' PROVE ParentsAbove(zones') /\ ZonesUnique(zones')
    BY DEF TreeInv
  <1>2. PICK n \in File \ DOMAIN zones : zones' = With(zones, n, NewData(f)) /\ hurt \subseteq hurt'
    BY DEF NewZoneDone
  <1>3. Search(f.name) = {}
    BY DEF NewZoneDone
  <1>4. Whole /\ ParentsAbove(zones) /\ ZonesUnique(zones)
    BY <1>1, <1>2, WholeBefore DEF TreeInv
  <1>5. /\ DOMAIN zones' = DOMAIN zones \cup {n}
        /\ \A b \in DOMAIN zones : zones'[b] = zones[b]
        /\ zones'[n].type = f.type /\ zones'[n].name = f.name
        /\ zones'[n].parents = {b \in DOMAIN zones : FileOf(b) \in Parents(f)}
    BY <1>2 DEF With, NewData
  <1>6. ASSUME NEW c \in DOMAIN zones', NEW p \in zones'[c].parents
        PROVE  p \in DOMAIN zones' /\ IsAbove(zones', p, c)
    <2>1. CASE c = n
      <3>1. p \in DOMAIN zones /\ FileOf(p) \in Parents(f) /\ zones'[p] = zones[p]
        BY <1>5, <1>6, <2>1
      <3>2. \/ f.type # "zone" /\ FileOf(p) = [type |-> "zone", name |-> ZoneName(f.name)]
            \/ f.type \in {"host", "group"} /\ FileOf(p) = [type |-> "network", name |-> NetName(f.name)]
        BY <3>1, ParentsLemma
      <3>3. FileOf(p).type = zones[p].type /\ FileOf(p).name = zones[p].name
        BY <3>1, FileOfLemma
      <3>4. QED
        BY <1>5, <2>1, <3>1, <3>2, <3>3 DEF IsAbove
    <2>2. CASE c # n
      <3>1. c \in DOMAIN zones /\ zones'[c] = zones[c]
        BY <1>5, <2>2
      <3>2. p \in DOMAIN zones /\ IsAbove(zones, p, c)
        BY <1>4, <1>6, <3>1 DEF ParentsAbove
      <3>3. QED
        BY <1>5, <3>1, <3>2 DEF IsAbove
    <2>3. QED
      BY <2>1, <2>2
  <1>7. ParentsAbove(zones')
    BY <1>6 DEF ParentsAbove
  <1>8. \A b \in DOMAIN zones : zones[b].name # f.name
    BY <1>3 DEF Search
  <1>9. ZonesUnique(zones')
    BY <1>4, <1>5, <1>8 DEF ZonesUnique
  <1>10. QED
    BY <1>7, <1>9

(* An object that is deleted is empty: it is above nothing. *)
LEMMA EmptyLemma ==
    ASSUME NEW b \in DOMAIN zones, Empty(b), NEW c \in DOMAIN zones, c # b
    PROVE  ~IsAbove(zones, b, c)
  BY DEF Empty, IsAbove

LEMMA DeleteZoneTree ==
    ASSUME BaseInv, TreeInv, NEW b \in DOMAIN zones, NEW fault \in BOOLEAN,
           DeleteZone(b, fault)
    PROVE  TreeInv'
  <1> DEFINE R1 == Released(b)[1]
  <1>1. /\ Empty(b) /\ hurt \subseteq hurt'
        /\ zones' = Without(R1, b) \/ zones' = R1 \/ zones' = zones
    BY DeleteZoneBase
  <1>2. /\ DOMAIN R1 = DOMAIN zones
        /\ \A c \in DOMAIN zones : /\ R1[c].type = zones[c].type /\ R1[c].name = zones[c].name
                                   /\ R1[c].parents = zones[c].parents
    BY ReleasedLemma
  <1> HIDE DEF R1
  <1>3. CASE zones' = Without(R1, b)
    <2>1. /\ DOMAIN zones' = DOMAIN zones \ {b}
          /\ \A c \in DOMAIN zones' : zones'[c] = R1[c]
      BY <1>2, <1>3 DEF Without, Restrict
    <2>2. ASSUME NEW c \in DOMAIN zones', Whole
          PROVE  zones[c].parents \cap DOMAIN zones \subseteq DOMAIN zones'
      <3>1. ParentsAbove(zones)
        BY <2>2 DEF TreeInv
      <3>2. b \notin zones[c].parents
        BY <1>1, <2>1, <3>1, EmptyLemma DEF ParentsAbove
      <3>3. QED
        BY <2>1, <3>2
    <2>3. QED
      BY <1>1, <1>2, <2>1, <2>2, SameTree
  <1>4. CASE zones' = R1 \/ zones' = zones
    BY <1>1, <1>2, <1>4, SameTree
  <1>5. QED
    BY <1>1, <1>3, <1>4

(* A host or a group that is renamed stays in its network and zone. *)
HostRenamed(b, new, at) ==
    /\ DOMAIN zones' = DOMAIN zones
    /\ \A c \in DOMAIN zones :
         /\ zones'[c].name = IF c = b THEN new ELSE zones[c].name
         /\ zones'[c].refcnt_blocklist = zones[c].refcnt_blocklist
    /\ new # zones[b].name
    /\ NetName(new) = NetName(zones[b].name) /\ ZoneName(new) = ZoneName(zones[b].name)
    /\ at = "rules" => "fault" \in hurt'
    /\ at # "rules" => blocked' = ReplaceAll(blocked, zones[b].name, new)
    /\ Search(new) # {} => "clash" \in hurt'

LEMMA RenameHostGroupNames ==
    ASSUME BaseInv, NEW b \in DOMAIN zones, NEW part \in HostParts, NEW at \in Stages,
           RenameHostGroup(b, part, at)
    PROVE  /\ zones[b].type \in {"host", "group"} /\ hurt \subseteq hurt'
           /\ \/ hurt' = hurt /\ UNCHANGED <<memory, backend>>
              \/ \E new \in Name : HostRenamed(b, new, at)
  <1> DEFINE old     == zones[b].name
             new     == [old EXCEPT !.host = part]
             from    == FileOf(b)
             to      == [from EXCEPT !.name = new]
             renamed == [zones EXCEPT ![b].name = new]
             groups  == IF zones[b].type = "host" THEN GroupsNaming(renamed, new) ELSE {}
             moved   == With(Without(disk, from), to, disk[from])
             ok      == at = "none" /\ Written(moved, renamed, groups)
             taken   == IF Search(new) # {} \/ to \in DOMAIN disk THEN {"clash"} ELSE {}
  <1>1. zones[b].type \in {"host", "group"} /\ part # old.host /\ hurt \subseteq hurt'
    BY DEF RenameHostGroup, End
  <1>2. CASE at = "rename" \/ from \notin DOMAIN disk
    <2>1. End(FALSE, {}) /\ UNCHANGED <<memory, backend>>
      BY <1>2 DEF RenameHostGroup
    <2>2. hurt' = hurt
      BY <2>1 DEF End
    <2>3. QED
      BY <1>1, <2>1, <2>2
  <1>3. CASE ~ (at = "rename" \/ from \notin DOMAIN disk)
    <2>1. /\ zones' = renamed
          /\ blocked' = IF at = "rules" THEN blocked ELSE ReplaceAll(blocked, old, new)
          /\ End(ok, Halfway(ok) \cup taken)
      BY <1>3 DEF RenameHostGroup
    <2>2. /\ at = "rules" => "fault" \in hurt'
          /\ Search(new) # {} => "clash" \in hurt'
      <3>1. taken \subseteq hurt' /\ Halfway(ok) \subseteq hurt'
        BY <2>1 DEF End
      <3>2. at = "rules" => "fault" \in Halfway(ok)
        BY DEF Halfway
      <3>3. Search(new) # {} => "clash" \in taken
        OBVIOUS
      <3>4. QED
        BY <3>1, <3>2, <3>3
    <2>3. zones[b] \in ZoneData /\ old \in Name /\ zones \in [DOMAIN zones -> ZoneData]
      BY FileOfLemma DEF BaseInv, TypeOK
    <2>4. /\ new \in Name /\ new # old
          /\ NetName(new) = NetName(old) /\ ZoneName(new) = ZoneName(old)
      BY <1>1, <2>3 DEF Name, NetName, ZoneName
    <2> DEFINE r == [zones[b] EXCEPT !.name = new]
    <2>5. r.name = new /\ r.refcnt_blocklist = zones[b].refcnt_blocklist
      <3> HIDE DEF new
      <3>1. QED
        BY <2>3, <2>4, LikeLemma
    <2>6. zones' = [zones EXCEPT ![b] = r]
      BY <2>1
    <2> HIDE DEF r, new
    <2>7. /\ DOMAIN zones' = DOMAIN zones
          /\ \A c \in DOMAIN zones :
               /\ zones'[c].name = IF c = b THEN new ELSE zones[c].name
               /\ zones'[c].refcnt_blocklist = zones[c].refcnt_blocklist
      BY <2>3, <2>5, <2>6
    <2>8. HostRenamed(b, new, at)
      BY <1>3, <2>1, <2>2, <2>4, <2>7 DEF HostRenamed, new
    <2>9. QED
      BY <1>1, <2>4, <2>8
  <1>4. QED
    BY <1>2, <1>3

LEMMA RenameHostGroupTree ==
    ASSUME BaseInv, TreeInv, NEW b \in DOMAIN zones, NEW part \in HostParts, NEW at \in Stages,
           RenameHostGroup(b, part, at)
    PROVE  TreeInv'
  <1>1. /\ zones[b].type \in {"host", "group"} /\ hurt \subseteq hurt' /\ Alike
        /\ \/ zones' = zones
           \/ \E new \in Name :
                 /\ \A c \in DOMAIN zones : zones'[c].name = IF c = b THEN new ELSE zones[c].name
                 /\ NetName(new) = NetName(zones[b].name) /\ ZoneName(new) = ZoneName(zones[b].name)
    BY RenameHostGroupBase, RenameHostGroupNames DEF memory, HostRenamed
  <1>2. SUFFICES ASSUME Whole' PROVE ParentsAbove(zones') /\ ZonesUnique(zones')
    BY DEF TreeInv
  <1>3. Whole /\ ParentsAbove(zones) /\ ZonesUnique(zones)
    BY <1>1, <1>2, WholeBefore DEF TreeInv
  <1>4. /\ DOMAIN zones' = DOMAIN zones
        /\ \A c \in DOMAIN zones : /\ zones'[c].type = zones[c].type
                                   /\ zones'[c].parents = zones[c].parents
                                   /\ NetName(zones'[c].name) = NetName(zones[c].name)
                                   /\ ZoneName(zones'[c].name) = ZoneName(zones[c].name)
                                   /\ c # b => zones'[c].name = zones[c].name
    BY <1>1 DEF Alike, Like
  <1>5. ASSUME NEW c \in DOMAIN zones', NEW p \in zones'[c].parents
        PROVE  p \in DOMAIN zones' /\ IsAbove(zones', p, c)
    <2>1. p \in DOMAIN zones /\ IsAbove(zones, p, c)
      BY <1>3, <1>4, <1>5 DEF ParentsAbove
    <2>2. p # b
      BY <1>1, <2>1 DEF IsAbove
    <2>3. QED
      BY <1>4, <2>1, <2>2 DEF IsAbove
  <1>6. ParentsAbove(zones')
    BY <1>5 DEF ParentsAbove
  <1>7. ZonesUnique(zones')
    BY <1>1, <1>3, <1>4 DEF ZonesUnique
  <1>8. QED
    BY <1>6, <1>7

(* The names after a rename of a network or a zone. *)
Below(b, c) ==
    /\ Touched(zones[b].type, zones[b].name, zones[c].name)
    /\ zones[c].type \in (IF zones[b].type = "network" THEN {"host", "group"}
                          ELSE {"network", "host", "group"})

LEMMA RenamedNames ==
    ASSUME BaseInv, NEW b \in DOMAIN zones, zones[b].type \in {"network", "zone"},
           NEW part \in (IF zones[b].type = "network" THEN NetParts ELSE ZoneParts),
           NEW all \in BOOLEAN, zones' = Renamed(zones, b, part, all)
    PROVE  /\ DOMAIN zones' = DOMAIN zones
           /\ \A c \in DOMAIN zones :
                /\ zones'[c].type = zones[c].type /\ zones'[c].parents = zones[c].parents
                /\ zones'[c].refcnt_blocklist = zones[c].refcnt_blocklist
                /\ zones'[c].name = IF c = b \/ (all /\ Below(b, c))
                                    THEN Replaced(zones[b].type, zones[c].name, part)
                                    ELSE zones[c].name
  <1> DEFINE t == zones[b].type
  <1>1. DOMAIN zones' = DOMAIN zones
    BY DEF Renamed
  <1>2. ASSUME NEW c \in DOMAIN zones
        PROVE  /\ zones'[c].type = zones[c].type /\ zones'[c].parents = zones[c].parents
               /\ zones'[c].refcnt_blocklist = zones[c].refcnt_blocklist
               /\ zones'[c].name = IF c = b \/ (all /\ Below(b, c))
                                   THEN Replaced(t, zones[c].name, part) ELSE zones[c].name
    <2> DEFINE n == Replaced(t, zones[c].name, part)
    <2>1. zones[c] \in ZoneData /\ zones[c].name \in Name
      BY FileOfLemma
    <2>2. n \in Name
      BY <2>1, ReplacedName
    <2>3. zones'[c] = IF c = b \/ (all /\ Below(b, c)) THEN [zones[c] EXCEPT !.name = n] ELSE zones[c]
      BY DEF Renamed, Below
    <2> HIDE DEF n
    <2>4. LET q == [zones[c] EXCEPT !.name = n] IN
            /\ q.name = n /\ q.type = zones[c].type /\ q.parents = zones[c].parents
            /\ q.refcnt_blocklist = zones[c].refcnt_blocklist
      BY <2>1, <2>2, LikeLemma DEF Like
    <2>5. QED
      BY <2>3, <2>4 DEF n
  <1>3. QED
    BY <1>1, <1>2

(* Names and what they say is above them. *)
LEMMA ReplacedParts ==
    ASSUME NEW n, NEW part
    PROVE  /\ Replaced("network", n, part).zone = n.zone
           /\ ZoneName(Replaced("network", n, part)) = ZoneName(n)
           /\ NetName(Replaced("network", n, part)) = Replaced("network", NetName(n), part)
           /\ ZoneName(Replaced("zone", n, part)) = Replaced("zone", ZoneName(n), part)
           /\ NetName(Replaced("zone", n, part)) = Replaced("zone", NetName(n), part)
           /\ ZoneName(n).zone = n.zone /\ NetName(n).zone = n.zone /\ NetName(n).net = n.net
  BY DEF Replaced, ZoneName, NetName

(* What was above an object still is. *)
AboveStays ==
    /\ DOMAIN zones' = DOMAIN zones
    /\ \A c, p \in DOMAIN zones : /\ zones'[c].type = zones[c].type
                                  /\ zones'[c].parents = zones[c].parents
                                  /\ IsAbove(zones, p, c) => IsAbove(zones', p, c)

(* Everything below a network moves with it, when no other network has its name
   in another zone: what was above an object still is. *)
LEMMA NetworkTree ==
    ASSUME BaseInv, ZonesUnique(zones), NEW b \in DOMAIN zones,
           zones[b].type = "network", ~HasTwin(b), NEW part \in NetParts,
           zones' = Renamed(zones, b, part, TRUE)
    PROVE  AboveStays /\ ZonesUnique(zones')
  <1> DEFINE old == zones[b].name
  <1>1. /\ DOMAIN zones' = DOMAIN zones
        /\ \A c \in DOMAIN zones :
             /\ zones'[c].type = zones[c].type /\ zones'[c].parents = zones[c].parents
             /\ zones'[c].name = IF c = b \/ /\ zones[c].type \in {"host", "group"}
                                             /\ zones[c].name.net = old.net
                                 THEN Replaced("network", zones[c].name, part) ELSE zones[c].name
    <2>1. /\ DOMAIN zones' = DOMAIN zones
          /\ \A c \in DOMAIN zones :
               /\ zones'[c].type = zones[c].type /\ zones'[c].parents = zones[c].parents
               /\ zones'[c].name = IF c = b \/ Below(b, c)
                                   THEN Replaced(zones[b].type, zones[c].name, part)
                                   ELSE zones[c].name
      <3>1. TRUE \in BOOLEAN
        OBVIOUS
      <3>2. QED
        BY <3>1, RenamedNames
    <2>2. QED
      BY <2>1 DEF Below, Touched
  <1>2. ASSUME NEW c \in DOMAIN zones, NEW p \in DOMAIN zones, IsAbove(zones, p, c)
        PROVE  IsAbove(zones', p, c)
    <2>1. c \in DOMAIN zones /\ p \in DOMAIN zones /\ IsAbove(zones, p, c)
      BY <1>2
    <2>2. CASE /\ zones[p].type = "network" /\ zones[c].type \in {"host", "group"}
               /\ NetName(zones[c].name) = zones[p].name
      <3>1. zones[p].name.net = zones[c].name.net /\ c # b
        BY <2>2, ReplacedParts
      <3>2. CASE zones[c].name.net = old.net
        <4>1. p = b
          BY <2>1, <2>2, <3>1, <3>2 DEF HasTwin
        <4>2. /\ zones'[c].name = Replaced("network", zones[c].name, part)
              /\ zones'[p].name = Replaced("network", NetName(zones[c].name), part)
          BY <1>1, <2>1, <2>2, <3>2, <4>1
        <4>3. NetName(zones'[c].name) = zones'[p].name
          <5>1. \A n : NetName(Replaced("network", n, part)) = Replaced("network", NetName(n), part)
            BY ReplacedParts
          <5>2. QED
            BY <4>2, <5>1
        <4>4. QED
          BY <1>1, <2>1, <2>2, <4>3 DEF IsAbove
      <3>3. CASE zones[c].name.net # old.net
        <4>1. p # b
          BY <3>1, <3>3
        <4>2. zones'[c].name = zones[c].name /\ zones'[p].name = zones[p].name
          BY <1>1, <2>1, <2>2, <3>1, <3>3, <4>1
        <4>3. QED
          BY <1>1, <2>1, <2>2, <4>2 DEF IsAbove
      <3>4. QED
        BY <3>2, <3>3
    <2>3. CASE /\ zones[p].type = "zone" /\ zones[c].type # "zone"
               /\ ZoneName(zones[c].name) = zones[p].name
      <3>1. zones'[p].name = zones[p].name
        BY <1>1, <2>1, <2>3
      <3>2. ZoneName(zones'[c].name) = ZoneName(zones[c].name)
        <4>1. \A n : ZoneName(Replaced("network", n, part)) = ZoneName(n)
          BY ReplacedParts
        <4>2. \/ zones'[c].name = zones[c].name
              \/ zones'[c].name = Replaced("network", zones[c].name, part)
          BY <1>1, <2>1
        <4>3. QED
          BY <4>1, <4>2
      <3>3. QED
        BY <1>1, <2>1, <2>3, <3>1, <3>2 DEF IsAbove
    <2>4. QED
      BY <2>1, <2>2, <2>3 DEF IsAbove
  <1>3. AboveStays
    BY <1>1, <1>2 DEF AboveStays
  <1>4. \A c \in DOMAIN zones : zones[c].type = "zone" => zones'[c].name = zones[c].name
    BY <1>1
  <1>5. ZonesUnique(zones')
    <2>1. DOMAIN zones' = DOMAIN zones /\ \A c \in DOMAIN zones : zones'[c].type = zones[c].type
      BY <1>1
    <2>2. QED
      <3>1. SUFFICES ASSUME NEW x \in DOMAIN zones', NEW y \in DOMAIN zones',
                            zones'[x].type = "zone", zones'[y].type = "zone",
                            zones'[x].name = zones'[y].name
                     PROVE  x = y
        BY DEF ZonesUnique
      <3>2. zones[x].name = zones[y].name /\ zones[x].type = "zone" /\ zones[y].type = "zone"
            /\ x \in DOMAIN zones /\ y \in DOMAIN zones
        BY <1>4, <2>1, <3>1
      <3>3. QED
        BY <3>2 DEF ZonesUnique
  <1>6. QED
    BY <1>3, <1>5

(* Everything in a zone moves with it. *)
LEMMA ZoneTree ==
    ASSUME BaseInv, ZonesUnique(zones), NEW b \in DOMAIN zones,
           zones[b].type = "zone", NEW part \in ZoneParts,
           Search(Replaced("zone", zones[b].name, part)) = {},
           zones' = Renamed(zones, b, part, TRUE)
    PROVE  AboveStays /\ ZonesUnique(zones')
  <1> DEFINE old == zones[b].name
  <1>1. /\ DOMAIN zones' = DOMAIN zones
        /\ \A c \in DOMAIN zones :
             /\ zones'[c].type = zones[c].type /\ zones'[c].parents = zones[c].parents
             /\ zones'[c].name = IF c = b \/ /\ zones[c].type \in {"network", "host", "group"}
                                             /\ zones[c].name.zone = old.zone
                                 THEN Replaced("zone", zones[c].name, part) ELSE zones[c].name
    <2>1. /\ DOMAIN zones' = DOMAIN zones
          /\ \A c \in DOMAIN zones :
               /\ zones'[c].type = zones[c].type /\ zones'[c].parents = zones[c].parents
               /\ zones'[c].name = IF c = b \/ Below(b, c)
                                   THEN Replaced(zones[b].type, zones[c].name, part)
                                   ELSE zones[c].name
      <3>1. TRUE \in BOOLEAN
        OBVIOUS
      <3>2. QED
        BY <3>1, RenamedNames
    <2>2. QED
      BY <2>1 DEF Below, Touched
  <1>2. \A c \in DOMAIN zones : zones[c].type \in {"zone", "network", "host", "group"}
    BY FileOfLemma DEF ZoneData
  <1>3. old = ZoneName(old)
    <2>1. FileOf(b) \in ZoneFile /\ FileOf(b).name = old
      BY FileOfLemma, FileParts
    <2>2. QED
      BY <2>1 DEF ZoneFile, ZoneName
  <1>4. ASSUME NEW c \in DOMAIN zones, NEW p \in DOMAIN zones, IsAbove(zones, p, c)
        PROVE  IsAbove(zones', p, c)
    <2>1. c \in DOMAIN zones /\ p \in DOMAIN zones /\ IsAbove(zones, p, c)
      BY <1>4
    <2>2. CASE /\ zones[p].type = "network" /\ zones[c].type \in {"host", "group"}
               /\ NetName(zones[c].name) = zones[p].name
      <3>1. zones[p].name.zone = zones[c].name.zone /\ c # b /\ p # b
        BY <2>2, ReplacedParts
      <3>2. CASE zones[c].name.zone = old.zone
        <4>1. /\ zones'[c].name = Replaced("zone", zones[c].name, part)
              /\ zones'[p].name = Replaced("zone", NetName(zones[c].name), part)
          BY <1>1, <2>1, <2>2, <3>1, <3>2
        <4>2. NetName(zones'[c].name) = zones'[p].name
          <5>1. \A n : NetName(Replaced("zone", n, part)) = Replaced("zone", NetName(n), part)
            BY ReplacedParts
          <5>2. QED
            BY <4>1, <5>1
        <4>3. QED
          BY <1>1, <2>1, <2>2, <4>2 DEF IsAbove
      <3>3. CASE zones[c].name.zone # old.zone
        <4>1. zones'[c].name = zones[c].name /\ zones'[p].name = zones[p].name
          BY <1>1, <2>1, <3>1, <3>3
        <4>2. QED
          BY <1>1, <2>1, <2>2, <4>1 DEF IsAbove
      <3>4. QED
        BY <3>2, <3>3
    <2>3. CASE /\ zones[p].type = "zone" /\ zones[c].type # "zone"
               /\ ZoneName(zones[c].name) = zones[p].name
      <3>1. zones[p].name.zone = zones[c].name.zone /\ c # b
        BY <2>3, ReplacedParts
      <3>2. CASE zones[c].name.zone = old.zone
        <4>1. zones[p].name = old
          <5>1. ZoneName(zones[c].name) = ZoneName(old)
            BY <3>2 DEF ZoneName
          <5>2. QED
            BY <1>3, <2>3, <5>1
        <4>2. p = b
          BY <2>1, <2>3, <4>1 DEF ZonesUnique
        <4>3. /\ zones'[c].name = Replaced("zone", zones[c].name, part)
              /\ zones'[p].name = Replaced("zone", ZoneName(zones[c].name), part)
          BY <1>1, <1>2, <2>1, <2>3, <3>2, <4>2
        <4>4. ZoneName(zones'[c].name) = zones'[p].name
          <5>1. \A n : ZoneName(Replaced("zone", n, part)) = Replaced("zone", ZoneName(n), part)
            BY ReplacedParts
          <5>2. QED
            BY <4>3, <5>1
        <4>5. QED
          BY <1>1, <2>1, <2>3, <4>4 DEF IsAbove
      <3>3. CASE zones[c].name.zone # old.zone
        <4>1. p # b
          BY <3>1, <3>3
        <4>2. zones'[c].name = zones[c].name /\ zones'[p].name = zones[p].name
          BY <1>1, <2>1, <2>3, <3>1, <3>3, <4>1
        <4>3. QED
          BY <1>1, <2>1, <2>3, <4>2 DEF IsAbove
      <3>4. QED
        BY <3>2, <3>3
    <2>4. QED
      BY <2>1, <2>2, <2>3 DEF IsAbove
  <1>5. AboveStays
    BY <1>1, <1>4 DEF AboveStays
  <1>6. /\ \A c \in DOMAIN zones : zones[c].type = "zone" /\ c # b => zones'[c].name = zones[c].name
        /\ zones'[b].name = Replaced("zone", old, part)
        /\ \A c \in DOMAIN zones : zones[c].name # Replaced("zone", old, part)
    BY <1>1 DEF Search
  <1>7. ZonesUnique(zones')
    <2>1. DOMAIN zones' = DOMAIN zones /\ \A c \in DOMAIN zones : zones'[c].type = zones[c].type
      BY <1>1
    <2>2. QED
      <3>1. SUFFICES ASSUME NEW x \in DOMAIN zones', NEW y \in DOMAIN zones',
                            zones'[x].type = "zone", zones'[y].type = "zone",
                            zones'[x].name = zones'[y].name
                     PROVE  x = y
        BY DEF ZonesUnique
      <3>2. CASE x # b /\ y # b
        <4>1. zones[x].name = zones[y].name /\ zones[x].type = "zone" /\ zones[y].type = "zone"
              /\ x \in DOMAIN zones /\ y \in DOMAIN zones
          BY <1>6, <2>1, <3>1, <3>2
        <4>2. QED
          BY <4>1 DEF ZonesUnique
      <3>3. CASE x = b \/ y = b
        BY <1>6, <2>1, <3>1, <3>3
      <3>4. QED
        BY <3>2, <3>3
  <1>8. QED
    BY <1>5, <1>7

LEMMA RenameNetworkZoneTree ==
    ASSUME BaseInv, TreeInv, NEW b \in DOMAIN zones, NEW part \in NetParts \cup ZoneParts,
           NEW at \in Stages \ {"groups"}, RenameNetworkZone(b, part, at)
    PROVE  TreeInv'
  <1>1. /\ zones[b].type \in {"network", "zone"}
        /\ part \in (IF zones[b].type = "network" THEN NetParts ELSE ZoneParts)
        /\ \/ hurt' = hurt /\ UNCHANGED <<memory, backend>>
           \/ NetworkZoneRenamed(b, part, at)
    BY RenameNetworkZoneBase
  <1>2. CASE hurt' = hurt /\ UNCHANGED <<memory, backend>>
    BY <1>2, SameTree DEF memory
  <1>3. CASE NetworkZoneRenamed(b, part, at)
    <2>1. SUFFICES ASSUME Whole' PROVE ParentsAbove(zones') /\ ZonesUnique(zones')
      BY DEF TreeInv
    <2>2. /\ hurt \subseteq hurt' /\ at # "blocklist" /\ ~HasTwin(b)
          /\ Search(Replaced(zones[b].type, zones[b].name, part)) = {}
          /\ zones' = Renamed(zones, b, part, at # "blocklist")
      BY <1>3, <2>1 DEF NetworkZoneRenamed, Whole
    <2>3. Whole /\ ParentsAbove(zones) /\ ZonesUnique(zones)
      BY <2>1, <2>2, WholeBefore DEF TreeInv
    <2>4. zones' = Renamed(zones, b, part, TRUE)
      BY <2>2
    <2>5. zones[b].type = "network" => AboveStays /\ ZonesUnique(zones')
      BY <1>1, <2>2, <2>3, <2>4, NetworkTree
    <2>6. zones[b].type = "zone" => AboveStays /\ ZonesUnique(zones')
      BY <1>1, <2>2, <2>3, <2>4, ZoneTree
    <2>7. AboveStays /\ ZonesUnique(zones')
      BY <1>1, <2>5, <2>6
    <2>8. ParentsAbove(zones')
      BY <2>3, <2>7 DEF ParentsAbove, AboveStays
    <2>9. QED
      BY <2>7, <2>8
  <1>4. QED
    BY <1>1, <1>2, <1>3

LEMMA RestartTree ==
    ASSUME BaseInv, Restart
    PROVE  TreeInv'
  <1>1. LoadedWell(disk, blocked', DOMAIN refcnt_network, zones', refcnt_network') /\ DiskOK(disk)
    BY RestartBase DEF BaseInv
  <1>2. ParentsAbove(zones') /\ ZonesUnique(zones')
    BY <1>1, LoadedTree
  <1>3. QED
    BY <1>2 DEF TreeInv

LEMMA NamesStay ==
    ASSUME TreeInv, hurt \subseteq hurt', DOMAIN zones' = DOMAIN zones,
           \A c \in DOMAIN zones :
              /\ zones'[c].type = zones[c].type /\ zones'[c].name = zones[c].name
              /\ zones'[c].parents = zones[c].parents
    PROVE  TreeInv'
  BY SameTree

LEMMA TreeNext == BaseInv /\ TreeInv /\ [Next]_vars => TreeInv'
  <1>1. SUFFICES ASSUME BaseInv, TreeInv, [Next]_vars PROVE TreeInv'
    OBVIOUS
  <1>2. ASSUME NEW f \in File, NEW fault \in BOOLEAN, NewZone(f, fault) PROVE TreeInv'
    BY <1>1, <1>2, NewZoneBase, NewZoneTree
  <1>3. ASSUME NEW b \in DOMAIN zones, NEW fault \in BOOLEAN, DeleteZone(b, fault) PROVE TreeInv'
    BY <1>1, <1>3, DeleteZoneTree
  <1>4. ASSUME NEW b \in DOMAIN zones, NEW fault \in BOOLEAN, SetActive(b, fault) PROVE TreeInv'
    <2>1. hurt \subseteq hurt'
      BY <1>4 DEF SetActive, End
    <2>2. QED
      BY <1>1, <1>4, <2>1, SetActiveBase, NamesStay DEF Alike, Like
  <1>5. ASSUME NEW b \in DOMAIN zones, NEW fault \in BOOLEAN, Block(b, fault) PROVE TreeInv'
    <2>1. hurt \subseteq hurt'
      BY <1>5 DEF Block, End
    <2>2. QED
      BY <1>1, <1>5, <2>1, BlockBase, NamesStay DEF Alike, Like
  <1>6. ASSUME NEW g \in DOMAIN zones, NEW h \in DOMAIN zones, NEW fault \in BOOLEAN,
               AddMember(g, h, fault)
        PROVE  TreeInv'
    BY <1>1, <1>6, AddMemberBase, NamesStay DEF MembersChanged, Unmoved
  <1>7. ASSUME NEW g \in DOMAIN zones, NEW h \in DOMAIN zones, NEW fault \in BOOLEAN,
               RemMember(g, h, fault)
        PROVE  TreeInv'
    BY <1>1, <1>7, RemMemberBase, NamesStay DEF MembersChanged, Unmoved
  <1>8. ASSUME NEW n \in DOMAIN zones, NEW i \in DOMAIN refcnt_network, NEW fault \in BOOLEAN,
               AddIface(n, i, fault)
        PROVE  TreeInv'
    BY <1>1, <1>8, AddIfaceBase, NamesStay DEF IfacesChanged, Unmoved
  <1>9. ASSUME NEW n \in DOMAIN zones, NEW i \in DOMAIN refcnt_network, NEW fault \in BOOLEAN,
               RemIface(n, i, fault)
        PROVE  TreeInv'
    BY <1>1, <1>9, RemIfaceBase, NamesStay DEF IfacesChanged, Unmoved
  <1>10. ASSUME NEW i \in DOMAIN refcnt_network, DeleteIface(i) PROVE TreeInv'
    BY <1>1, <1>10, DeleteIfaceBase, NamesStay
  <1>11. ASSUME NEW n \in ToSet(blocked), NEW fault \in BOOLEAN, Unblock(n, fault) PROVE TreeInv'
    <2>1. hurt \subseteq hurt'
      BY <1>11 DEF Unblock, End
    <2>2. QED
      BY <1>1, <1>11, <2>1, UnblockBase, NamesStay DEF Alike, Like
  <1>12. ASSUME NEW b \in DOMAIN zones, NEW part \in HostParts, NEW at \in Stages,
                RenameHostGroup(b, part, at)
         PROVE  TreeInv'
    BY <1>1, <1>12, RenameHostGroupTree
  <1>13. ASSUME NEW b \in DOMAIN zones, NEW part \in NetParts \cup ZoneParts,
                NEW at \in Stages \ {"groups"}, RenameNetworkZone(b, part, at)
         PROVE  TreeInv'
    BY <1>1, <1>13, RenameNetworkZoneTree
  <1>14. CASE Restart
    BY <1>1, <1>14, RestartTree
  <1>15. CASE UNCHANGED vars
    BY <1>1, <1>15, NamesStay DEF vars, memory
  <1>16. QED
    BY <1>1, <1>2, <1>3, <1>4, <1>5, <1>6, <1>7, <1>8, <1>9, <1>10, <1>11, <1>12, <1>13, <1>14,
       <1>15 DEF Next, Done

(* Whatever the menus do, in whatever order, and whichever calls to the backend
   fail: what members, interface lists and parents point at is there, unless a
   delete failed halfway, or, for parents, a rename stopped halfway, met a name
   that was taken or found another network of the same name. *)
THEOREM PointersTheorem == Spec => []PointersLive
  <1>1. Init => BaseInv /\ CountInv /\ TreeInv
    BY InitBase, InitTree
  <1>2. (BaseInv /\ CountInv /\ TreeInv) /\ [Next]_vars => (BaseInv /\ CountInv /\ TreeInv)'
    BY CountNext, TreeNext
  <1>3. CountInv /\ TreeInv => PointersLive
    BY DEF CountInv, TreeInv, Whole, ParentsAbove, PointersLive
  <1>4. QED
    BY <1>1, <1>2, <1>3, PTL DEF Spec

-----------------------------------------------------------------------------
(* The blocklist. *)

LEMMA BijectionCount ==
    ASSUME NEW S, NEW T, IsFiniteSet(S), NEW f \in [S -> T],
           \A x, y \in S : f[x] = f[y] => x = y, \A t \in T : \E x \in S : f[x] = t
    PROVE  Cardinality(T) = Cardinality(S)
  <1>1. f \in Bijection(S, T)
    BY Fun_IsBij
  <1>2. ExistsBijection(S, T)
    BY <1>1, Fun_ExistsBij
  <1>3. QED
    BY <1>2, FS_Bijection

LEMMA OccurrencesNone ==
    ASSUME NEW s \in Seq(Name), NEW n
    PROVE  Occurrences(n, s) = 0 <=> \A i \in DOMAIN s : s[i] # n
  <1> DEFINE I == {i \in DOMAIN s : s[i] = n}
  <1>1. I \in SUBSET DOMAIN s
    OBVIOUS
  <1>2. IsFiniteSet(I)
    <2> HIDE DEF I
    <2>1. QED
      BY <1>1, OccurrencesFinite
  <1>3. Cardinality(I) = 0 <=> I = {}
    <2> HIDE DEF I
    <2>1. QED
      BY <1>2, FS_EmptySet
  <1>4. QED
    BY <1>3 DEF Occurrences

LEMMA OccurrencesAppend ==
    ASSUME NEW s \in Seq(Name), NEW n \in Name, NEW x
    PROVE  Occurrences(x, Append(s, n)) = Occurrences(x, s) + (IF x = n THEN 1 ELSE 0)
  <1> DEFINE r == Append(s, n)
             I == {i \in DOMAIN s : s[i] = x}
             J == {i \in DOMAIN r : r[i] = x}
             k == Len(s) + 1
  <1>1. /\ Len(s) \in Nat /\ DOMAIN s = 1..Len(s) /\ DOMAIN r = 1..k /\ k \notin DOMAIN s
        /\ \A i \in DOMAIN s : r[i] = s[i] /\ i \in DOMAIN r
        /\ r[k] = n /\ k \in DOMAIN r /\ \A i \in DOMAIN r : i \in DOMAIN s \/ i = k
    OBVIOUS
  <1>2. I \in SUBSET DOMAIN s /\ k \notin I
    BY <1>1
  <1>3. J = IF x = n THEN I \cup {k} ELSE I
    <2> HIDE DEF r, k
    <2>1. QED
      BY <1>1
  <1>4. Cardinality(I) \in Nat /\ IsFiniteSet(I)
    <2> HIDE DEF I
    <2>1. Cardinality(I) \in 0..Len(s) /\ IsFiniteSet(I)
      BY <1>2, OccurrencesFinite
    <2>2. QED
      BY <1>1, <2>1
  <1>5. Cardinality(J) = Cardinality(I) + (IF x = n THEN 1 ELSE 0)
    <2> HIDE DEF I, J, k
    <2>1. CASE x = n
      BY <1>2, <1>3, <1>4, <2>1, FS_AddElement
    <2>2. CASE x # n
      BY <1>3, <1>4, <2>2
    <2>3. QED
      BY <2>1, <2>2
  <1>6. QED
    BY <1>5 DEF Occurrences

LEMMA OccurrencesRemoved ==
    ASSUME NEW s \in Seq(Name), NEW n \in ToSet(s), NEW x
    PROVE  Occurrences(x, RemoveFirst(s, n)) = Occurrences(x, s) - (IF x = n THEN 1 ELSE 0)
  <1> DEFINE r == RemoveFirst(s, n)
  <1>1. /\ r \in Seq(Name) /\ Len(r) = Len(s) - 1
        /\ \E k \in 1..Len(s) : /\ s[k] = n
                                /\ \A j \in 1..(Len(s) - 1) : r[j] = IF j < k THEN s[j] ELSE s[j + 1]
    BY RemoveFirstLemma
  <1> HIDE DEF r
  <1>2. PICK k \in 1..Len(s) : /\ s[k] = n
                               /\ \A j \in 1..(Len(s) - 1) : r[j] = IF j < k THEN s[j] ELSE s[j + 1]
    BY <1>1
  <1> DEFINE I == {i \in DOMAIN s : s[i] = x}
             J == {j \in DOMAIN r : r[j] = x}
             f == [j \in J |-> IF j < k THEN j ELSE j + 1]
             T == I \ {k}
  <1>3. DOMAIN s = 1..Len(s) /\ DOMAIN r = 1..(Len(s) - 1) /\ Len(s) \in Nat
    BY <1>1
  <1>4. f \in [J -> T]
    <2>1. ASSUME NEW j \in J PROVE (IF j < k THEN j ELSE j + 1) \in T
      <3>1. j \in 1..(Len(s) - 1) /\ r[j] = x
        BY <1>3
      <3>2. CASE j < k
        BY <1>2, <1>3, <3>1, <3>2
      <3>3. CASE ~ (j < k)
        BY <1>2, <1>3, <3>1, <3>3
      <3>4. QED
        BY <3>2, <3>3
    <2> HIDE DEF J, T
    <2>2. QED
      BY <2>1
  <1>5. \A i, j \in J : f[i] = f[j] => i = j
    <2>1. \A j \in J : j \in Nat /\ f[j] = IF j < k THEN j ELSE j + 1
      BY <1>3
    <2> HIDE DEF f, J
    <2>2. QED
      BY <2>1
  <1>6. ASSUME NEW t \in T PROVE \E j \in J : f[j] = t
    <2>1. t \in 1..Len(s) /\ s[t] = x /\ t # k
      BY <1>3
    <2>2. CASE t < k
      <3>1. t \in J /\ f[t] = t
        BY <1>2, <1>3, <2>1, <2>2
      <3>2. QED
        BY <3>1
    <2>3. CASE t > k
      <3>1. t - 1 \in 1..(Len(s) - 1) /\ ~ (t - 1 < k) /\ t - 1 + 1 = t
        BY <1>3, <2>1, <2>3
      <3>2. r[t - 1] = s[t]
        BY <1>2, <3>1
      <3>3. t - 1 \in J
        BY <1>3, <2>1, <3>1, <3>2
      <3>4. f[t - 1] = t
        BY <3>1, <3>3
      <3>5. QED
        BY <3>3, <3>4
    <2>4. QED
      BY <1>3, <2>1, <2>2, <2>3
  <1>7. IsFiniteSet(J) /\ IsFiniteSet(I) /\ Cardinality(I) \in Nat
    <2>1. I \in SUBSET DOMAIN s /\ J \in SUBSET DOMAIN r
      OBVIOUS
    <2> HIDE DEF I, J
    <2>2. IsFiniteSet(I) /\ Cardinality(I) \in 0..Len(s) /\ IsFiniteSet(J)
      BY <1>1, <2>1, OccurrencesFinite
    <2>3. QED
      BY <1>3, <2>2
  <1>8. Cardinality(T) = Cardinality(J)
    <2> HIDE DEF f, J, T
    <2>1. QED
      BY <1>4, <1>5, <1>6, <1>7, BijectionCount
  <1>9. Cardinality(T) = Cardinality(I) - (IF x = n THEN 1 ELSE 0)
    <2>1. k \in I <=> x = n
      BY <1>2, <1>3
    <2> HIDE DEF I
    <2>2. Cardinality(I \ {k}) = IF k \in I THEN Cardinality(I) - 1 ELSE Cardinality(I)
      BY <1>7, FS_RemoveElement
    <2>3. QED
      BY <1>7, <2>1, <2>2
  <1>10. QED
    BY <1>8, <1>9 DEF Occurrences, r

(* Names change, and the items of the blocklist along with them. *)
LEMMA FineRenamed ==
    ASSUME NEW z, NEW y, NEW s \in Seq(Name), NEW r \in Seq(Name),
           DOMAIN y = DOMAIN z, DOMAIN r = DOMAIN s, BlocklistFine(z, s), NamesUnique(y),
           \A b \in DOMAIN z : /\ y[b].type = z[b].type
                               /\ y[b].refcnt_blocklist = z[b].refcnt_blocklist,
           \A i \in DOMAIN s : \A b \in DOMAIN z :
              z[b].name = s[i] /\ z[b].type \in {"host", "group"} => y[b].name = r[i]
    PROVE  BlocklistFine(y, r)
  <1>1. ASSUME NEW i \in DOMAIN s
        PROVE  \E b \in DOMAIN z : /\ z[b].name = s[i] /\ z[b].type \in {"host", "group"}
                                   /\ y[b].name = r[i]
    BY DEF BlocklistFine, BlockedHosts
  <1>2. BlockedHosts(y, r)
    BY <1>1 DEF BlockedHosts
  <1>3. ASSUME NEW c \in DOMAIN z PROVE Occurrences(y[c].name, r) = Occurrences(z[c].name, s)
    <2>1. ASSUME NEW i \in DOMAIN s PROVE r[i] = y[c].name <=> s[i] = z[c].name
      <3>1. PICK b \in DOMAIN z : z[b].name = s[i] /\ y[b].name = r[i]
        BY <1>1
      <3>2. QED
        BY <3>1 DEF BlocklistFine, NamesUnique
    <2>2. {i \in DOMAIN r : r[i] = y[c].name} = {i \in DOMAIN s : s[i] = z[c].name}
      BY <2>1
    <2>3. QED
      BY <2>2 DEF Occurrences
  <1>4. BlockedCounted(y, r)
    BY <1>3 DEF BlockedCounted, BlocklistFine
  <1>5. QED
    BY <1>2, <1>4 DEF BlocklistFine

LEMMA FineSame ==
    ASSUME NEW z, NEW y, NEW s \in Seq(Name), DOMAIN y = DOMAIN z, BlocklistFine(z, s),
           \A b \in DOMAIN z : /\ y[b].type = z[b].type /\ y[b].name = z[b].name
                               /\ y[b].refcnt_blocklist = z[b].refcnt_blocklist
    PROVE  BlocklistFine(y, s)
  <1>1. NamesUnique(y)
    BY DEF BlocklistFine, NamesUnique
  <1>2. QED
    BY <1>1, FineRenamed

LEMMA FineNew ==
    ASSUME NEW z, NEW y, NEW s \in Seq(Name), NEW n, n \notin DOMAIN z,
           DOMAIN y = DOMAIN z \cup {n}, BlocklistFine(z, s), y[n].refcnt_blocklist = 0,
           \A b \in DOMAIN z : y[b] = z[b] /\ z[b].name # y[n].name
    PROVE  BlocklistFine(y, s)
  <1>1. NamesUnique(y)
    BY DEF BlocklistFine, NamesUnique
  <1>2. BlockedHosts(y, s)
    BY DEF BlocklistFine, BlockedHosts
  <1>3. Occurrences(y[n].name, s) = 0
    <2>1. \A i \in DOMAIN s : s[i] # y[n].name
      BY DEF BlocklistFine, BlockedHosts
    <2>2. QED
      BY <2>1, OccurrencesNone
  <1>4. BlockedCounted(y, s)
    BY <1>3 DEF BlocklistFine, BlockedCounted
  <1>5. QED
    BY <1>1, <1>2, <1>4 DEF BlocklistFine

LEMMA FineDeleted ==
    ASSUME NEW z, NEW y, NEW s \in Seq(Name), NEW b, DOMAIN y = DOMAIN z \ {b}, BlocklistFine(z, s),
           b \in DOMAIN z /\ z[b].type \in {"host", "group"} => z[b].refcnt_blocklist = 0,
           \A c \in DOMAIN z \ {b} : /\ y[c].type = z[c].type /\ y[c].name = z[c].name
                                     /\ y[c].refcnt_blocklist = z[c].refcnt_blocklist
    PROVE  BlocklistFine(y, s)
  <1>1. NamesUnique(y)
    BY DEF BlocklistFine, NamesUnique
  <1>2. ASSUME NEW i \in DOMAIN s
        PROVE  \E c \in DOMAIN y : y[c].name = s[i] /\ y[c].type \in {"host", "group"}
    <2>1. PICK c \in DOMAIN z : z[c].name = s[i] /\ z[c].type \in {"host", "group"}
      BY DEF BlocklistFine, BlockedHosts
    <2>2. c # b
      <3>1. SUFFICES ASSUME c = b PROVE FALSE
        OBVIOUS
      <3>2. Occurrences(z[b].name, s) = 0
        BY <2>1, <3>1 DEF BlocklistFine, BlockedCounted
      <3>3. QED
        BY <2>1, <3>1, <3>2, OccurrencesNone
    <2>3. QED
      BY <2>1, <2>2
  <1>3. BlockedHosts(y, s)
    BY <1>2 DEF BlockedHosts
  <1>4. BlockedCounted(y, s)
    BY DEF BlocklistFine, BlockedCounted
  <1>5. QED
    BY <1>1, <1>3, <1>4 DEF BlocklistFine

LEMMA FineBlocked ==
    ASSUME NEW z, NEW y, NEW s \in Seq(Name), NEW b \in DOMAIN z, z[b].name \in Name,
           z[b].type \in {"host", "group"}, Len(s) < MaxRef,
           DOMAIN y = DOMAIN z, BlocklistFine(z, s),
           \A c \in DOMAIN z :
              /\ y[c].type = z[c].type /\ y[c].name = z[c].name
              /\ y[c].refcnt_blocklist = IF c = b THEN Up(z[b].refcnt_blocklist)
                                         ELSE z[c].refcnt_blocklist
    PROVE  BlocklistFine(y, Append(s, z[b].name))
  <1> DEFINE r == Append(s, z[b].name)
  <1>1. NamesUnique(y)
    BY DEF BlocklistFine, NamesUnique
  <1>2. ASSUME NEW i \in DOMAIN r
        PROVE  \E c \in DOMAIN y : y[c].name = r[i] /\ y[c].type \in {"host", "group"}
    <2>1. r[i] = z[b].name \/ (i \in DOMAIN s /\ r[i] = s[i])
      OBVIOUS
    <2>2. CASE r[i] = z[b].name
      BY <2>2
    <2>3. CASE i \in DOMAIN s /\ r[i] = s[i]
      BY <2>3 DEF BlocklistFine, BlockedHosts
    <2>4. QED
      BY <2>1, <2>2, <2>3
  <1>3. BlockedHosts(y, r)
    BY <1>2 DEF BlockedHosts
  <1>4. ASSUME NEW c \in DOMAIN z PROVE y[c].refcnt_blocklist = Occurrences(y[c].name, r)
    <2>1. Occurrences(z[c].name, r) = Occurrences(z[c].name, s) + (IF z[c].name = z[b].name THEN 1 ELSE 0)
      BY OccurrencesAppend
    <2>2. z[c].refcnt_blocklist = Occurrences(z[c].name, s) /\ (z[c].name = z[b].name <=> c = b)
      BY DEF BlocklistFine, BlockedCounted, NamesUnique
    <2>3. Occurrences(z[c].name, s) \in 0..Len(s) /\ Len(s) \in Nat /\ MaxRef \in Nat
      BY OccurrencesLemma, EditorAssumption
    <2>4. CASE c = b
      <3> DEFINE k == Occurrences(z[b].name, s)
      <3>0. k \in 0..Len(s) /\ Len(s) \in Nat /\ MaxRef \in Nat
        BY OccurrencesLemma, EditorAssumption
      <3> HIDE DEF k
      <3>1. k \in 0..MaxRef /\ k < MaxRef
        BY <3>0
      <3>2. Up(k) = k + 1
        BY <3>1, UpDown
      <3>3. Up(Occurrences(z[b].name, s)) = Occurrences(z[b].name, s) + 1
        BY <3>2 DEF k
      <3>4. QED
        BY <2>1, <2>2, <2>4, <3>3
    <2>5. CASE c # b
      BY <2>1, <2>2, <2>3, <2>5
    <2>6. QED
      BY <2>4, <2>5
  <1>5. BlockedCounted(y, r)
    BY <1>4 DEF BlockedCounted
  <1>6. QED
    BY <1>1, <1>3, <1>5 DEF BlocklistFine

LEMMA FineUnblocked ==
    ASSUME NEW z, NEW y, NEW s \in Seq(Name), NEW n \in ToSet(s), NEW b \in DOMAIN z,
           z[b].name = n, DOMAIN y = DOMAIN z, BlocklistFine(z, s),
           \A c \in DOMAIN z :
              /\ y[c].type = z[c].type /\ y[c].name = z[c].name
              /\ y[c].refcnt_blocklist = IF c = b /\ z[b].refcnt_blocklist > 0
                                         THEN z[b].refcnt_blocklist - 1 ELSE z[c].refcnt_blocklist
    PROVE  BlocklistFine(y, RemoveFirst(s, n))
  <1> DEFINE r == RemoveFirst(s, n)
  <1>1. NamesUnique(y)
    BY DEF BlocklistFine, NamesUnique
  <1>2. ASSUME NEW i \in DOMAIN r
        PROVE  \E c \in DOMAIN y : y[c].name = r[i] /\ y[c].type \in {"host", "group"}
    <2>1. /\ r \in Seq(Name) /\ Len(r) = Len(s) - 1
          /\ \E k \in 1..Len(s) : \A j \in 1..(Len(s) - 1) : r[j] = IF j < k THEN s[j] ELSE s[j + 1]
      BY RemoveFirstLemma
    <2> HIDE DEF r
    <2>2. PICK j \in DOMAIN s : r[i] = s[j]
      <3>1. i \in 1..(Len(s) - 1) /\ DOMAIN s = 1..Len(s) /\ Len(s) \in Nat
        BY <2>1
      <3>2. i \in DOMAIN s /\ i + 1 \in DOMAIN s
        BY <3>1
      <3>3. r[i] = s[i] \/ r[i] = s[i + 1]
        BY <2>1, <3>1
      <3>4. QED
        BY <3>2, <3>3
    <2>3. QED
      BY <2>2 DEF BlocklistFine, BlockedHosts
  <1>3. BlockedHosts(y, r)
    <2> HIDE DEF r
    <2>1. QED
      BY <1>2 DEF BlockedHosts
  <1>4. ASSUME NEW c \in DOMAIN z PROVE y[c].refcnt_blocklist = Occurrences(y[c].name, r)
    <2>1. Occurrences(z[c].name, r) = Occurrences(z[c].name, s) - (IF z[c].name = n THEN 1 ELSE 0)
      BY OccurrencesRemoved
    <2>2. z[c].refcnt_blocklist = Occurrences(z[c].name, s) /\ (z[c].name = n <=> c = b)
      BY DEF BlocklistFine, BlockedCounted, NamesUnique
    <2>3. Occurrences(z[c].name, s) \in 0..Len(s) /\ Len(s) \in Nat
      BY OccurrencesLemma
    <2>4. c = b => Occurrences(z[b].name, s) # 0
      <3>1. \E i \in DOMAIN s : s[i] = n
        BY DEF ToSet
      <3>2. QED
        BY <3>1, OccurrencesNone
    <2> HIDE DEF r
    <2>5. QED
      BY <2>1, <2>2, <2>3, <2>4
  <1>5. BlockedCounted(y, r)
    <2> HIDE DEF r
    <2>1. QED
      BY <1>4 DEF BlockedCounted
  <1>6. QED
    BY <1>1, <1>3, <1>5 DEF BlocklistFine

(* What was loaded, if nothing is wrong with it: every directory is there, and
   what is blocked are active hosts and groups. *)
LEMMA FineLoaded ==
    ASSUME NEW d, DiskOK(d), NEW s \in Seq(Name), NEW I, NEW z, NEW n,
           LoadedWell(d, s, I, z, n), Len(s) <= MaxRef, BlindIn(s, d) = {}, ClashIn(d) = {}
    PROVE  AllAbove(z) /\ BlocklistFine(z, s)
  <1>1. /\ DOMAIN z = DOMAIN d /\ DOMAIN d \subseteq File
        /\ \A f \in DOMAIN d : /\ z[f].type = f.type /\ z[f].name = f.name
                               /\ Parents(f) \subseteq DOMAIN d
    BY DEF LoadedWell, DiskOK
  <1>2. /\ \A i \in DOMAIN s : Countable(d, s[i])
        /\ \A f, g \in DOMAIN d : f.name = g.name => f = g
    BY DEF BlindIn, ClashIn
  <1>3. AllAbove(z)
    <2>1. ASSUME NEW c \in DOMAIN z, z[c].type # "zone"
          PROVE  \E p \in DOMAIN z : z[p].type = "zone" /\ IsAbove(z, p, c)
      <3> DEFINE p == [type |-> "zone", name |-> ZoneName(c.name)]
      <3>1. p \in DOMAIN d
        BY <1>1, <2>1, ParentsLemma
      <3>2. z[p].type = "zone" /\ z[p].name = ZoneName(z[c].name)
        BY <1>1, <3>1
      <3> HIDE DEF p
      <3>3. QED
        BY <1>1, <2>1, <3>1, <3>2 DEF IsAbove
    <2>2. ASSUME NEW c \in DOMAIN z, z[c].type \in {"host", "group"}
          PROVE  \E p \in DOMAIN z : z[p].type = "network" /\ IsAbove(z, p, c)
      <3> DEFINE p == [type |-> "network", name |-> NetName(c.name)]
      <3>1. p \in DOMAIN d
        BY <1>1, <2>2, ParentsLemma
      <3>2. z[p].type = "network" /\ z[p].name = NetName(z[c].name)
        BY <1>1, <3>1
      <3> HIDE DEF p
      <3>3. QED
        BY <1>1, <2>2, <3>1, <3>2 DEF IsAbove
    <2>3. QED
      BY <2>1, <2>2 DEF AllAbove
  <1>4. NamesUnique(z)
    BY <1>1, <1>2 DEF NamesUnique
  <1>5. BlockedHosts(z, s)
    BY <1>1, <1>2 DEF Countable, BlockedHosts
  <1>6. ASSUME NEW f \in DOMAIN d PROVE z[f].refcnt_blocklist = Occurrences(f.name, s)
    <2> DEFINE k == Occurrences(f.name, s)
    <2>1. k \in 0..Len(s) /\ Len(s) \in Nat /\ MaxRef \in Nat
      BY OccurrencesLemma, EditorAssumption
    <2>2. z[f].refcnt_blocklist = IF f.type \in {"host", "group"} /\ d[f].active
                                  THEN k % (MaxRef + 1) ELSE 0
      BY DEF LoadedWell
    <2>3. ~ (f.type \in {"host", "group"} /\ d[f].active) => k = 0
      <3>1. SUFFICES ASSUME ~ (f.type \in {"host", "group"} /\ d[f].active) PROVE k = 0
        OBVIOUS
      <3>2. ASSUME NEW i \in DOMAIN s PROVE s[i] # f.name
        BY <1>2, <3>1 DEF Countable
      <3>3. QED
        BY <3>2, OccurrencesNone
    <2> HIDE DEF k
    <2>4. k \in 0..MaxRef
      BY <2>1
    <2>5. k % (MaxRef + 1) = k
      BY <2>1, <2>4, ModSmall
    <2>6. z[f].refcnt_blocklist = k
      BY <2>2, <2>3, <2>5
    <2>7. QED
      BY <2>6 DEF k
  <1>7. BlockedCounted(z, s)
    BY <1>1, <1>6 DEF BlockedCounted
  <1>8. QED
    BY <1>3, <1>4, <1>5, <1>7 DEF BlocklistFine

LEMMA InitBlock == Init => BlockInv
  <1>1. SUFFICES ASSUME Init, hurt = {} PROVE AllAbove(zones) /\ BlocklistFine(zones, blocked)
    BY DEF BlockInv
  <1>2. BaseInv /\ disk = Disk /\ blocked = DiskBlocked
        /\ zones = LoadedZones(Disk, DiskBlocked, Ifaces)
        /\ BlindIn(DiskBlocked, Disk) = {} /\ ClashIn(Disk) = {}
    BY <1>1, InitBase DEF Init
  <1>3. DiskOK(Disk) /\ DiskBlocked \in Seq(Name) /\ Ifaces \in SUBSET Ifaces
    BY <1>2 DEF BaseInv, TypeOK
  <1>4. LoadedWell(Disk, DiskBlocked, Ifaces, zones, LoadedCounters(Disk, Ifaces))
    BY <1>2, <1>3, LoadedLemma
  <1>5. Len(DiskBlocked) <= MaxRef
    BY <1>3, CountersFit, EditorAssumption
  <1>6. QED
    BY <1>2, <1>3, <1>4, <1>5, FineLoaded

LEMMA RestartBlock ==
    ASSUME BaseInv, Restart
    PROVE  BlockInv'
  <1>1. SUFFICES ASSUME hurt' = {} PROVE AllAbove(zones') /\ BlocklistFine(zones', blocked')
    BY DEF BlockInv
  <1>2. /\ LoadedWell(disk, blocked', DOMAIN refcnt_network, zones', refcnt_network')
        /\ DiskOK(disk) /\ BaseInv' /\ blocked' \in Seq(Name)
        /\ BlindIn(blocked', disk) = {} /\ ClashIn(disk) = {}
    BY <1>1, RestartBase DEF BaseInv
  <1>3. Len(blocked') <= Len(DiskBlocked) + ops' /\ ops' \in 0..MaxOps
    BY <1>2 DEF BaseInv, ListsFit, TypeOK
  <1>4. Len(blocked') \in Nat /\ Len(DiskBlocked) \in Nat /\ MaxOps \in Nat /\ MaxRef \in Nat
    BY <1>2, EditorAssumption
  <1>5. Len(blocked') <= MaxRef
    BY <1>3, <1>4, CountersFit
  <1>6. QED
    BY <1>2, <1>5, FineLoaded

-----------------------------------------------------------------------------
(* Nothing goes wrong: every operation keeps the names and the counters. *)

LEMMA HurtBefore == ASSUME hurt \subseteq hurt', hurt' = {} PROVE hurt = {}
  OBVIOUS

(* Types, names and the counters of the blocklist stay. *)
LEMMA SameBlock ==
    ASSUME BaseInv, BlockInv, hurt \subseteq hurt', DOMAIN zones' = DOMAIN zones,
           blocked' = blocked,
           \A c \in DOMAIN zones :
              /\ zones'[c].type = zones[c].type /\ zones'[c].name = zones[c].name
              /\ zones'[c].refcnt_blocklist = zones[c].refcnt_blocklist
    PROVE  BlockInv'
  <1>1. SUFFICES ASSUME hurt' = {} PROVE AllAbove(zones') /\ BlocklistFine(zones', blocked')
    BY DEF BlockInv
  <1>2. AllAbove(zones) /\ BlocklistFine(zones, blocked) /\ blocked \in Seq(Name)
    BY <1>1, HurtBefore DEF BlockInv, BaseInv, TypeOK
  <1>3. BlocklistFine(zones', blocked)
    BY <1>2, FineSame
  <1>4. AllAbove(zones')
    BY <1>2 DEF AllAbove, IsAbove
  <1>5. QED
    BY <1>3, <1>4

LEMMA NewZoneBlock ==
    ASSUME BaseInv, BlockInv, NEW f \in File, NewZoneDone(f)
    PROVE  BlockInv'
  <1>1. SUFFICES ASSUME hurt' = {} PROVE AllAbove(zones') /\ BlocklistFine(zones', blocked')
    BY DEF BlockInv
  <1>2. PICK n \in File \ DOMAIN zones :
           zones' = With(zones, n, NewData(f)) /\ hurt \subseteq hurt' /\ blocked' = blocked
    BY DEF NewZoneDone
  <1>3. /\ Search(f.name) = {}
        /\ \A p \in Parents(f) : \E b \in DOMAIN zones : Holds(b, p)
    BY DEF NewZoneDone
  <1>4. AllAbove(zones) /\ BlocklistFine(zones, blocked) /\ blocked \in Seq(Name)
    BY <1>1, <1>2, HurtBefore DEF BlockInv, BaseInv, TypeOK
  <1>5. /\ DOMAIN zones' = DOMAIN zones \cup {n}
        /\ \A b \in DOMAIN zones : zones'[b] = zones[b] /\ zones[b].name # zones'[n].name
        /\ zones'[n].type = f.type /\ zones'[n].name = f.name /\ zones'[n].refcnt_blocklist = 0
    BY <1>2, <1>3 DEF With, NewData, Search
  <1>6. BlocklistFine(zones', blocked)
    BY <1>2, <1>4, <1>5, FineNew
  <1>7. ASSUME NEW p, p \in Parents(f)
        PROVE  \E b \in DOMAIN zones : zones'[b].type = p.type /\ zones'[b].name = p.name
    <2>1. PICK b \in DOMAIN zones : Holds(b, p)
      BY <1>3, <1>7
    <2>2. FileOf(b).type = zones[b].type /\ FileOf(b).name = zones[b].name
      BY <2>1, FileOfLemma
    <2>3. QED
      BY <1>5, <2>1, <2>2 DEF Holds
  <1>8. ASSUME NEW c \in DOMAIN zones', zones'[c].type # "zone"
        PROVE  \E p \in DOMAIN zones' : zones'[p].type = "zone" /\ IsAbove(zones', p, c)
    <2>1. CASE c = n
      <3> DEFINE p == [type |-> "zone", name |-> ZoneName(f.name)]
      <3>1. p \in Parents(f)
        BY <1>5, <1>8, <2>1, ParentsLemma
      <3>2. PICK b \in DOMAIN zones : zones'[b].type = "zone" /\ zones'[b].name = ZoneName(f.name)
        BY <1>7, <3>1
      <3>3. QED
        BY <1>5, <1>8, <2>1, <3>2 DEF IsAbove
    <2>2. CASE c # n
      <3>1. c \in DOMAIN zones /\ zones'[c] = zones[c]
        BY <1>5, <2>2
      <3>2. PICK p \in DOMAIN zones : zones[p].type = "zone" /\ IsAbove(zones, p, c)
        BY <1>4, <1>8, <3>1 DEF AllAbove
      <3>3. QED
        BY <1>5, <3>1, <3>2 DEF IsAbove
    <2>3. QED
      BY <2>1, <2>2
  <1>9. ASSUME NEW c \in DOMAIN zones', zones'[c].type \in {"host", "group"}
        PROVE  \E p \in DOMAIN zones' : zones'[p].type = "network" /\ IsAbove(zones', p, c)
    <2>1. CASE c = n
      <3> DEFINE p == [type |-> "network", name |-> NetName(f.name)]
      <3>1. p \in Parents(f)
        BY <1>5, <1>9, <2>1, ParentsLemma
      <3>2. PICK b \in DOMAIN zones : zones'[b].type = "network" /\ zones'[b].name = NetName(f.name)
        BY <1>7, <3>1
      <3>3. QED
        BY <1>5, <1>9, <2>1, <3>2 DEF IsAbove
    <2>2. CASE c # n
      <3>1. c \in DOMAIN zones /\ zones'[c] = zones[c]
        BY <1>5, <2>2
      <3>2. PICK p \in DOMAIN zones : zones[p].type = "network" /\ IsAbove(zones, p, c)
        BY <1>4, <1>9, <3>1 DEF AllAbove
      <3>3. QED
        BY <1>5, <3>1, <3>2 DEF IsAbove
    <2>3. QED
      BY <2>1, <2>2
  <1>10. QED
    BY <1>2, <1>6, <1>8, <1>9 DEF AllAbove

(* A host or a group that is deleted was not in the blocklist, and nothing was
   below what is deleted. *)
LEMMA DeleteZoneBlock ==
    ASSUME BaseInv, BlockInv, NEW b \in DOMAIN zones, NEW fault \in BOOLEAN, DeleteZone(b, fault)
    PROVE  BlockInv'
  <1> DEFINE R1 == Released(b)[1]
  <1>1. /\ ~Referenced(b) /\ Empty(b) /\ blocked' = blocked /\ hurt \subseteq hurt'
        /\ zones' = Without(R1, b) \/ zones' = R1 \/ zones' = zones
    BY DeleteZoneBase
  <1>2. /\ DOMAIN R1 = DOMAIN zones
        /\ \A c \in DOMAIN zones : /\ R1[c].type = zones[c].type /\ R1[c].name = zones[c].name
                                   /\ R1[c].refcnt_blocklist = zones[c].refcnt_blocklist
    BY ReleasedLemma
  <1> HIDE DEF R1
  <1>3. CASE zones' = R1 \/ zones' = zones
    BY <1>1, <1>2, <1>3, SameBlock
  <1>4. CASE zones' = Without(R1, b)
    <2>1. SUFFICES ASSUME hurt' = {} PROVE AllAbove(zones') /\ BlocklistFine(zones', blocked')
      BY DEF BlockInv
    <2>2. AllAbove(zones) /\ BlocklistFine(zones, blocked) /\ blocked \in Seq(Name)
      BY <1>1, <2>1, HurtBefore DEF BlockInv, BaseInv, TypeOK
    <2>3. /\ DOMAIN zones' = DOMAIN zones \ {b}
          /\ \A c \in DOMAIN zones \ {b} :
               /\ zones'[c].type = zones[c].type /\ zones'[c].name = zones[c].name
               /\ zones'[c].refcnt_blocklist = zones[c].refcnt_blocklist
      BY <1>2, <1>4 DEF Without, Restrict
    <2>4. zones[b].type \in {"host", "group"} => zones[b].refcnt_blocklist = 0
      <3>1. zones[b].refcnt_blocklist \in 0..MaxRef /\ MaxRef \in Nat
        BY FileOfLemma, EditorAssumption DEF ZoneData
      <3>2. zones[b].type \in {"host", "group"} => ~ (zones[b].refcnt_blocklist > 0)
        BY <1>1 DEF Referenced
      <3>3. QED
        BY <3>1, <3>2
    <2>5. BlocklistFine(zones', blocked)
      BY <2>2, <2>3, <2>4, FineDeleted
    <2>6. AllAbove(zones')
      <3>1. ASSUME NEW c \in DOMAIN zones', NEW p \in DOMAIN zones, IsAbove(zones, p, c)
            PROVE  p \in DOMAIN zones' /\ IsAbove(zones', p, c) /\ zones'[p].type = zones[p].type
        <4>1. c \in DOMAIN zones /\ c # b
          BY <2>3
        <4>2. p # b
          BY <1>1, <3>1, <4>1, EmptyLemma
        <4>3. QED
          BY <2>3, <3>1, <4>1, <4>2 DEF IsAbove
      <3>2. QED
        BY <2>2, <2>3, <3>1 DEF AllAbove
    <2>7. QED
      BY <1>1, <2>5, <2>6
  <1>5. QED
    BY <1>1, <1>3, <1>4

LEMMA AboveSame ==
    ASSUME NEW z, NEW y, DOMAIN y = DOMAIN z, AllAbove(z),
           \A c \in DOMAIN z : y[c].type = z[c].type /\ y[c].name = z[c].name
    PROVE  AllAbove(y)
  BY DEF AllAbove, IsAbove

(* An item that is added is an active host or group, and is counted. *)
LEMMA BlockBlock ==
    ASSUME BaseInv, BlockInv, NEW b \in DOMAIN zones, NEW fault \in BOOLEAN, Block(b, fault)
    PROVE  BlockInv'
  <1> DEFINE k == Up(zones[b].refcnt_blocklist)
             r == [zones[b] EXCEPT !.refcnt_blocklist = k]
  <1>1. SUFFICES ASSUME hurt' = {} PROVE AllAbove(zones') /\ BlocklistFine(zones', blocked')
    BY DEF BlockInv
  <1>2. /\ zones' = IF Counted(b) THEN [zones EXCEPT ![b] = r] ELSE zones
        /\ zones[b].type \in {"host", "group"}
        /\ blocked' = Append(blocked, zones[b].name)
        /\ hurt' = hurt \cup (Halfway(~fault) \cup IF zones[b].active THEN {} ELSE {"blind"})
        /\ ops < MaxOps
    BY DEF Block, Begin, End
  <1>3. zones[b].active /\ Counted(b)
    BY <1>1, <1>2 DEF Counted
  <1>4. AllAbove(zones) /\ BlocklistFine(zones, blocked) /\ blocked \in Seq(Name)
        /\ zones \in [DOMAIN zones -> ZoneData]
    BY <1>1, <1>2, HurtBefore DEF BlockInv, BaseInv, TypeOK
  <1>5. zones[b] \in ZoneData /\ zones[b].name \in Name /\ k \in 0..MaxRef
    <2>1. zones[b] \in ZoneData /\ zones[b].name \in Name
      BY FileOfLemma
    <2>2. zones[b].refcnt_blocklist \in 0..MaxRef
      BY <2>1 DEF ZoneData
    <2>3. QED
      BY <2>1, <2>2, UpDown
  <1>6. r.type = zones[b].type /\ r.name = zones[b].name /\ r.refcnt_blocklist = k
    <2> HIDE DEF k
    <2>1. QED
      BY <1>5, LikeLemma DEF Like
  <1>7. zones' = [zones EXCEPT ![b] = r]
    BY <1>2, <1>3
  <1> HIDE DEF r
  <1>8. /\ DOMAIN zones' = DOMAIN zones
        /\ \A c \in DOMAIN zones :
              /\ zones'[c].type = zones[c].type /\ zones'[c].name = zones[c].name
              /\ zones'[c].refcnt_blocklist = IF c = b THEN k ELSE zones[c].refcnt_blocklist
    BY <1>4, <1>6, <1>7
  <1>9. Len(blocked) < MaxRef
    <2>1. Len(blocked) <= Len(DiskBlocked) + ops /\ ops \in 0..MaxOps
      BY DEF BaseInv, ListsFit, TypeOK
    <2>2. Len(blocked) \in Nat /\ Len(DiskBlocked) \in Nat /\ MaxOps \in Nat /\ MaxRef \in Nat
      BY <1>4, EditorAssumption
    <2>3. QED
      BY <1>2, <2>1, <2>2, CountersFit
  <1>10. BlocklistFine(zones', Append(blocked, zones[b].name))
    BY <1>2, <1>4, <1>5, <1>8, <1>9, FineBlocked
  <1>11. QED
    BY <1>2, <1>4, <1>8, <1>10, AboveSame

LEMMA UnblockBlock ==
    ASSUME BaseInv, BlockInv, NEW n \in ToSet(blocked), NEW fault \in BOOLEAN, Unblock(n, fault)
    PROVE  BlockInv'
  <1>1. SUFFICES ASSUME hurt' = {} PROVE AllAbove(zones') /\ BlocklistFine(zones', blocked')
    BY DEF BlockInv
  <1>2. /\ zones' \in IF Search(n) = {} THEN {zones}
                      ELSE {[zones EXCEPT ![b].refcnt_blocklist = IF @ > 0 THEN @ - 1 ELSE 0] :
                               b \in Search(n)}
        /\ blocked' = RemoveFirst(blocked, n) /\ hurt \subseteq hurt'
    BY DEF Unblock, End
  <1>3. AllAbove(zones) /\ BlocklistFine(zones, blocked) /\ blocked \in Seq(Name)
        /\ zones \in [DOMAIN zones -> ZoneData]
    BY <1>1, <1>2, HurtBefore DEF BlockInv, BaseInv, TypeOK
  <1>4. Search(n) # {}
    <2>1. PICK i \in DOMAIN blocked : blocked[i] = n
      BY DEF ToSet
    <2>2. QED
      BY <1>3, <2>1 DEF BlocklistFine, BlockedHosts, Search
  <1>5. PICK b \in Search(n) :
          zones' = [zones EXCEPT ![b].refcnt_blocklist = IF @ > 0 THEN @ - 1 ELSE 0]
    BY <1>2, <1>4
  <1> DEFINE k == zones[b].refcnt_blocklist
             c == IF k > 0 THEN k - 1 ELSE 0
             r == [zones[b] EXCEPT !.refcnt_blocklist = c]
  <1>6. b \in DOMAIN zones /\ zones[b].name = n /\ zones' = [zones EXCEPT ![b] = r]
    BY <1>5 DEF Search
  <1>7. zones[b] \in ZoneData /\ k \in 0..MaxRef /\ c \in 0..MaxRef
    <2>1. zones[b] \in ZoneData
      BY <1>6, FileOfLemma
    <2>2. k \in 0..MaxRef /\ MaxRef \in Nat
      BY <2>1, EditorAssumption DEF ZoneData
    <2>3. c \in 0..MaxRef
      BY <2>2
    <2>4. QED
      BY <2>1, <2>2, <2>3
  <1>8. r.type = zones[b].type /\ r.name = zones[b].name /\ r.refcnt_blocklist = c
    <2> HIDE DEF c
    <2>1. QED
      BY <1>7, LikeLemma DEF Like
  <1>9. c = IF k > 0 THEN k - 1 ELSE k
    BY <1>7, EditorAssumption
  <1> HIDE DEF r, c
  <1>10. /\ DOMAIN zones' = DOMAIN zones
         /\ \A q \in DOMAIN zones :
              /\ zones'[q].type = zones[q].type /\ zones'[q].name = zones[q].name
              /\ zones'[q].refcnt_blocklist = IF q = b THEN c ELSE zones[q].refcnt_blocklist
    BY <1>3, <1>6, <1>8
  <1>11. \A q \in DOMAIN zones :
            zones'[q].refcnt_blocklist = IF q = b /\ zones[b].refcnt_blocklist > 0
                                         THEN zones[b].refcnt_blocklist - 1
                                         ELSE zones[q].refcnt_blocklist
    BY <1>9, <1>10
  <1>12. BlocklistFine(zones', RemoveFirst(blocked, n))
    BY <1>3, <1>6, <1>10, <1>11, FineUnblocked
  <1>13. QED
    BY <1>2, <1>3, <1>10, <1>12, AboveSame

(* A host or group that is renamed is renamed in the blocklist as well. *)
LEMMA RenameHostGroupBlock ==
    ASSUME BaseInv, BlockInv, NEW b \in DOMAIN zones, NEW part \in HostParts, NEW at \in Stages,
           RenameHostGroup(b, part, at)
    PROVE  BlockInv'
  <1>1. /\ zones[b].type \in {"host", "group"} /\ hurt \subseteq hurt' /\ Alike /\ BaseInv'
        /\ \/ hurt' = hurt /\ UNCHANGED <<memory, backend>>
           \/ \E new \in Name : HostRenamed(b, new, at)
    BY RenameHostGroupBase, RenameHostGroupNames
  <1>2. CASE hurt' = hurt /\ UNCHANGED <<memory, backend>>
    BY <1>1, <1>2, SameBlock DEF memory
  <1>3. ASSUME NEW new \in Name, HostRenamed(b, new, at) PROVE BlockInv'
    <2>1. SUFFICES ASSUME hurt' = {} PROVE AllAbove(zones') /\ BlocklistFine(zones', blocked')
      BY DEF BlockInv
    <2>2. AllAbove(zones) /\ BlocklistFine(zones, blocked) /\ blocked \in Seq(Name)
          /\ blocked' \in Seq(Name)
      BY <1>1, <2>1, HurtBefore DEF BlockInv, BaseInv, TypeOK
    <2>3. /\ DOMAIN zones' = DOMAIN zones
          /\ \A c \in DOMAIN zones :
               /\ zones'[c].name = IF c = b THEN new ELSE zones[c].name
               /\ zones'[c].refcnt_blocklist = zones[c].refcnt_blocklist
          /\ NetName(new) = NetName(zones[b].name) /\ ZoneName(new) = ZoneName(zones[b].name)
          /\ blocked' = ReplaceAll(blocked, zones[b].name, new) /\ Search(new) = {}
      BY <1>3, <2>1 DEF HostRenamed
    <2>4. \A c \in DOMAIN zones : zones'[c].type = zones[c].type
      BY <1>1 DEF Alike, Like
    <2>5. /\ DOMAIN blocked' = DOMAIN blocked
          /\ \A i \in DOMAIN blocked :
               blocked'[i] = IF blocked[i] = zones[b].name THEN new ELSE blocked[i]
      BY <2>2, <2>3 DEF ReplaceAll
    <2>6. NamesUnique(zones')
      BY <2>2, <2>3 DEF BlocklistFine, NamesUnique, Search
    <2>7. \A i \in DOMAIN blocked : \A c \in DOMAIN zones :
             zones[c].name = blocked[i] => zones'[c].name = blocked'[i]
      BY <2>2, <2>3, <2>5 DEF BlocklistFine, NamesUnique
    <2>8. BlocklistFine(zones', blocked')
      BY <2>2, <2>3, <2>4, <2>5, <2>6, <2>7, FineRenamed
    <2>9. AllAbove(zones')
      <3>1. ASSUME NEW c \in DOMAIN zones, NEW p \in DOMAIN zones, IsAbove(zones, p, c)
            PROVE  IsAbove(zones', p, c)
        <4>1. p # b /\ zones'[p].name = zones[p].name
          BY <1>1, <2>3, <3>1 DEF IsAbove
        <4>2. NetName(zones'[c].name) = NetName(zones[c].name)
              /\ ZoneName(zones'[c].name) = ZoneName(zones[c].name)
          BY <2>3
        <4>3. QED
          BY <2>4, <3>1, <4>1, <4>2 DEF IsAbove
      <3>2. QED
        BY <2>2, <2>3, <2>4, <3>1 DEF AllAbove
    <2>10. QED
      BY <2>8, <2>9
  <1>4. QED
    BY <1>1, <1>2, <1>3

LEMMA RenamedAll ==
    ASSUME BaseInv, NEW b \in DOMAIN zones, zones[b].type \in {"network", "zone"},
           NEW part \in (IF zones[b].type = "network" THEN NetParts ELSE ZoneParts),
           zones' = Renamed(zones, b, part, TRUE)
    PROVE  /\ DOMAIN zones' = DOMAIN zones
           /\ \A c \in DOMAIN zones :
                /\ zones'[c].type = zones[c].type
                /\ zones'[c].refcnt_blocklist = zones[c].refcnt_blocklist
                /\ zones'[c].name = IF c = b \/ Below(b, c)
                                    THEN Replaced(zones[b].type, zones[c].name, part)
                                    ELSE zones[c].name
  <1>1. TRUE \in BOOLEAN
    OBVIOUS
  <1>2. /\ DOMAIN zones' = DOMAIN zones
        /\ \A c \in DOMAIN zones :
              /\ zones'[c].type = zones[c].type
              /\ zones'[c].refcnt_blocklist = zones[c].refcnt_blocklist
              /\ zones'[c].name = IF c = b \/ (TRUE /\ Below(b, c))
                                  THEN Replaced(zones[b].type, zones[c].name, part)
                                  ELSE zones[c].name
    BY <1>1, RenamedNames
  <1>3. QED
    BY <1>2

(* The names of what is renamed were not in use: an object that has one of them
   would have had a network, or a zone, of the new name. *)
LEMMA NetworkNames ==
    ASSUME BaseInv, AllAbove(zones), NamesUnique(zones), NEW b \in DOMAIN zones,
           zones[b].type = "network", ~HasTwin(b), NEW part \in NetParts,
           Search(Replaced("network", zones[b].name, part)) = {},
           zones' = Renamed(zones, b, part, TRUE)
    PROVE  NamesUnique(zones')
  <1> DEFINE old == zones[b].name
             new == Replaced("network", old, part)
             Changed(c) == c = b \/ Below(b, c)
  <1>1. /\ DOMAIN zones' = DOMAIN zones
        /\ \A c \in DOMAIN zones :
             zones'[c].name = IF Changed(c) THEN Replaced("network", zones[c].name, part)
                              ELSE zones[c].name
    <2>1. /\ DOMAIN zones' = DOMAIN zones
          /\ \A c \in DOMAIN zones :
               /\ zones'[c].type = zones[c].type
               /\ zones'[c].refcnt_blocklist = zones[c].refcnt_blocklist
               /\ zones'[c].name = IF c = b \/ Below(b, c)
                                   THEN Replaced(zones[b].type, zones[c].name, part)
                                   ELSE zones[c].name
      BY RenamedAll
    <2>2. QED
      BY <2>1
  <1>2. ASSUME NEW d \in DOMAIN zones, zones[d].type = "network" PROVE NetName(zones[d].name) = zones[d].name
    <2>1. FileOf(d) \in NetFile /\ FileOf(d).name = zones[d].name
      BY <1>2, FileOfLemma, FileParts
    <2>2. QED
      BY <2>1 DEF NetFile, NetName
  <1>3. ASSUME NEW c \in DOMAIN zones, Changed(c)
        PROVE  NetName(zones[c].name) = old /\ zones[c].name.net = old.net
    <2>1. CASE c = b
      BY <1>2, <2>1
    <2>2. CASE c # b
      <3>1. zones[c].type \in {"host", "group"} /\ zones[c].name.net = old.net
        BY <1>3, <2>2 DEF Below, Touched
      <3>2. PICK p \in DOMAIN zones : zones[p].type = "network" /\ IsAbove(zones, p, c)
        BY <3>1 DEF AllAbove
      <3>3. zones[p].name = NetName(zones[c].name) /\ zones[p].name.net = old.net
        BY <3>1, <3>2 DEF IsAbove, NetName
      <3>4. p = b
        BY <3>2, <3>3 DEF HasTwin
      <3>5. QED
        BY <3>1, <3>3, <3>4
    <2>3. QED
      BY <2>1, <2>2
  <1>4. ASSUME NEW d \in DOMAIN zones PROVE NetName(zones[d].name) # new
    <2>1. SUFFICES ASSUME NetName(zones[d].name) = new PROVE FALSE
      OBVIOUS
    <2>2. \A p \in DOMAIN zones : zones[p].name # new
      BY DEF Search
    <2>3. zones[d].type \in {"zone", "network", "host", "group"}
      BY FileOfLemma DEF ZoneData
    <2>4. zones[d].type # "network"
      BY <1>2, <2>1, <2>2
    <2>5. zones[d].type # "zone"
      <3>1. SUFFICES ASSUME zones[d].type = "zone" PROVE FALSE
        OBVIOUS
      <3>2. FileOf(d) \in ZoneFile /\ FileOf(d).name = zones[d].name
        BY <3>1, FileOfLemma, FileParts
      <3>3. NetName(zones[d].name).net = NoPart /\ new.net = part
        BY <3>2 DEF ZoneFile, NetName, Replaced
      <3>4. QED
        BY <2>1, <3>3, EditorAssumption
    <2>6. PICK p \in DOMAIN zones : zones[p].type = "network" /\ IsAbove(zones, p, d)
      BY <2>3, <2>4, <2>5 DEF AllAbove
    <2>7. zones[p].name = new
      BY <2>1, <2>6 DEF IsAbove
    <2>8. QED
      BY <2>2, <2>7
  <1>5. ASSUME NEW c \in DOMAIN zones, Changed(c), NEW d \in DOMAIN zones
        PROVE  zones[d].name # Replaced("network", zones[c].name, part)
    <2>1. SUFFICES ASSUME zones[d].name = Replaced("network", zones[c].name, part) PROVE FALSE
      OBVIOUS
    <2>2. \A n : NetName(Replaced("network", n, part)) = Replaced("network", NetName(n), part)
      BY ReplacedParts
    <2>3. NetName(zones[d].name) = new
      BY <1>3, <1>5, <2>1, <2>2
    <2>4. QED
      BY <1>4, <2>3
  <1>6. ASSUME NEW c \in DOMAIN zones, NEW d \in DOMAIN zones,
               zones[c].name.net = old.net, zones[d].name.net = old.net,
               Replaced("network", zones[c].name, part) = Replaced("network", zones[d].name, part)
        PROVE  c = d
    <2>1. zones[c].name \in Name /\ zones[d].name \in Name
      BY FileOfLemma
    <2>2. zones[c].name.host = zones[d].name.host /\ zones[c].name.zone = zones[d].name.zone
      BY <1>6 DEF Replaced
    <2>3. zones[c].name = zones[d].name
      BY <1>6, <2>1, <2>2 DEF Name
    <2>4. QED
      BY <2>3 DEF NamesUnique
  <1> HIDE DEF Changed, new
  <1>7. SUFFICES ASSUME NEW c \in DOMAIN zones, NEW d \in DOMAIN zones,
                        zones'[c].name = zones'[d].name
                 PROVE  c = d
    BY <1>1 DEF NamesUnique
  <1>8. CASE Changed(c) /\ Changed(d)
    BY <1>1, <1>3, <1>6, <1>7, <1>8
  <1>9. CASE Changed(c) /\ ~Changed(d)
    BY <1>1, <1>5, <1>7, <1>9
  <1>10. CASE ~Changed(c) /\ Changed(d)
    BY <1>1, <1>5, <1>7, <1>10
  <1>11. CASE ~Changed(c) /\ ~Changed(d)
    BY <1>1, <1>7, <1>11 DEF NamesUnique
  <1>12. QED
    BY <1>8, <1>9, <1>10, <1>11

LEMMA ZoneNames ==
    ASSUME BaseInv, AllAbove(zones), NamesUnique(zones), NEW b \in DOMAIN zones,
           zones[b].type = "zone", NEW part \in ZoneParts,
           Search(Replaced("zone", zones[b].name, part)) = {},
           zones' = Renamed(zones, b, part, TRUE)
    PROVE  NamesUnique(zones')
  <1> DEFINE old == zones[b].name
             new == Replaced("zone", old, part)
             Changed(c) == c = b \/ Below(b, c)
  <1>1. /\ DOMAIN zones' = DOMAIN zones
        /\ \A c \in DOMAIN zones :
             zones'[c].name = IF Changed(c) THEN Replaced("zone", zones[c].name, part)
                              ELSE zones[c].name
    <2>1. /\ DOMAIN zones' = DOMAIN zones
          /\ \A c \in DOMAIN zones :
               /\ zones'[c].type = zones[c].type
               /\ zones'[c].refcnt_blocklist = zones[c].refcnt_blocklist
               /\ zones'[c].name = IF c = b \/ Below(b, c)
                                   THEN Replaced(zones[b].type, zones[c].name, part)
                                   ELSE zones[c].name
      BY RenamedAll
    <2>2. QED
      BY <2>1
  <1>2. ASSUME NEW d \in DOMAIN zones, zones[d].type = "zone" PROVE ZoneName(zones[d].name) = zones[d].name
    <2>1. FileOf(d) \in ZoneFile /\ FileOf(d).name = zones[d].name
      BY <1>2, FileOfLemma, FileParts
    <2>2. QED
      BY <2>1 DEF ZoneFile, ZoneName
  <1>3. ASSUME NEW c \in DOMAIN zones, Changed(c)
        PROVE  ZoneName(zones[c].name) = old /\ zones[c].name.zone = old.zone
    <2>1. zones[c].name.zone = old.zone
      BY <1>3 DEF Below, Touched
    <2>2. ZoneName(zones[c].name) = ZoneName(old)
      BY <2>1 DEF ZoneName
    <2>3. QED
      BY <1>2, <2>1, <2>2
  <1>4. ASSUME NEW d \in DOMAIN zones PROVE ZoneName(zones[d].name) # new
    <2>1. SUFFICES ASSUME ZoneName(zones[d].name) = new PROVE FALSE
      OBVIOUS
    <2>2. \A p \in DOMAIN zones : zones[p].name # new
      BY DEF Search
    <2>3. zones[d].type # "zone"
      BY <1>2, <2>1, <2>2
    <2>4. PICK p \in DOMAIN zones : zones[p].type = "zone" /\ IsAbove(zones, p, d)
      BY <2>3 DEF AllAbove
    <2>5. zones[p].name = new
      BY <2>1, <2>4 DEF IsAbove
    <2>6. QED
      BY <2>2, <2>5
  <1>5. ASSUME NEW c \in DOMAIN zones, Changed(c), NEW d \in DOMAIN zones
        PROVE  zones[d].name # Replaced("zone", zones[c].name, part)
    <2>1. SUFFICES ASSUME zones[d].name = Replaced("zone", zones[c].name, part) PROVE FALSE
      OBVIOUS
    <2>2. \A n : ZoneName(Replaced("zone", n, part)) = Replaced("zone", ZoneName(n), part)
      BY ReplacedParts
    <2>3. ZoneName(zones[d].name) = new
      BY <1>3, <1>5, <2>1, <2>2
    <2>4. QED
      BY <1>4, <2>3
  <1>6. ASSUME NEW c \in DOMAIN zones, NEW d \in DOMAIN zones,
               zones[c].name.zone = old.zone, zones[d].name.zone = old.zone,
               Replaced("zone", zones[c].name, part) = Replaced("zone", zones[d].name, part)
        PROVE  c = d
    <2>1. zones[c].name \in Name /\ zones[d].name \in Name
      BY FileOfLemma
    <2>2. zones[c].name.host = zones[d].name.host /\ zones[c].name.net = zones[d].name.net
      BY <1>6 DEF Replaced
    <2>3. zones[c].name = zones[d].name
      BY <1>6, <2>1, <2>2 DEF Name
    <2>4. QED
      BY <2>3 DEF NamesUnique
  <1> HIDE DEF Changed, new
  <1>7. SUFFICES ASSUME NEW c \in DOMAIN zones, NEW d \in DOMAIN zones,
                        zones'[c].name = zones'[d].name
                 PROVE  c = d
    BY <1>1 DEF NamesUnique
  <1>8. CASE Changed(c) /\ Changed(d)
    BY <1>1, <1>3, <1>6, <1>7, <1>8
  <1>9. CASE Changed(c) /\ ~Changed(d)
    BY <1>1, <1>5, <1>7, <1>9
  <1>10. CASE ~Changed(c) /\ Changed(d)
    BY <1>1, <1>5, <1>7, <1>10
  <1>11. CASE ~Changed(c) /\ ~Changed(d)
    BY <1>1, <1>7, <1>11 DEF NamesUnique
  <1>12. QED
    BY <1>8, <1>9, <1>10, <1>11

(* A network or zone that is renamed takes along the hosts and groups in it, and
   their items in the blocklist. *)
LEMMA RenameNetworkZoneBlock ==
    ASSUME BaseInv, BlockInv, NEW b \in DOMAIN zones, NEW part \in NetParts \cup ZoneParts,
           NEW at \in Stages \ {"groups"}, RenameNetworkZone(b, part, at)
    PROVE  BlockInv'
  <1> DEFINE t == zones[b].type
             old == zones[b].name
  <1>1. /\ t \in {"network", "zone"} /\ BaseInv'
        /\ part \in (IF t = "network" THEN NetParts ELSE ZoneParts)
        /\ \/ hurt' = hurt /\ UNCHANGED <<memory, backend>>
           \/ NetworkZoneRenamed(b, part, at)
    BY RenameNetworkZoneBase
  <1>2. CASE hurt' = hurt /\ UNCHANGED <<memory, backend>>
    BY <1>2, SameBlock DEF memory
  <1>3. CASE NetworkZoneRenamed(b, part, at)
    <2>1. SUFFICES ASSUME hurt' = {} PROVE AllAbove(zones') /\ BlocklistFine(zones', blocked')
      BY DEF BlockInv
    <2>2. /\ hurt \subseteq hurt' /\ at # "blocklist" /\ ~HasTwin(b)
          /\ Search(Replaced(t, old, part)) = {}
          /\ blocked' = [i \in DOMAIN blocked |-> ItemRenamed(t, old, blocked[i], part)]
          /\ zones' = Renamed(zones, b, part, at # "blocklist")
      BY <1>3, <2>1 DEF NetworkZoneRenamed
    <2>3. AllAbove(zones) /\ BlocklistFine(zones, blocked) /\ blocked \in Seq(Name)
          /\ blocked' \in Seq(Name)
      BY <1>1, <2>1, <2>2, HurtBefore DEF BlockInv, BaseInv, TypeOK
    <2>4. zones' = Renamed(zones, b, part, TRUE) /\ TRUE \in BOOLEAN
      BY <2>2
    <2>5. NamesUnique(zones) /\ ZonesUnique(zones)
      BY <2>3 DEF BlocklistFine, NamesUnique, ZonesUnique
    <2>6. ASSUME t = "network" PROVE AboveStays /\ NamesUnique(zones')
      <3>1. /\ zones[b].type = "network" /\ part \in NetParts /\ ~HasTwin(b)
            /\ Search(Replaced("network", zones[b].name, part)) = {}
        BY <1>1, <2>2, <2>6
      <3>2. AboveStays
        BY <2>4, <2>5, <3>1, NetworkTree
      <3>3. NamesUnique(zones')
        BY <2>3, <2>4, <2>5, <3>1, NetworkNames
      <3>4. QED
        BY <3>2, <3>3
    <2>7. ASSUME t = "zone" PROVE AboveStays /\ NamesUnique(zones')
      <3>1. /\ zones[b].type = "zone" /\ part \in ZoneParts /\ ~HasTwin(b)
            /\ Search(Replaced("zone", zones[b].name, part)) = {}
        BY <1>1, <2>2, <2>7
      <3>2. AboveStays
        BY <2>4, <2>5, <3>1, ZoneTree
      <3>3. NamesUnique(zones')
        BY <2>3, <2>4, <2>5, <3>1, ZoneNames
      <3>4. QED
        BY <3>2, <3>3
    <2>8. AboveStays /\ NamesUnique(zones')
      BY <1>1, <2>6, <2>7
    <2>9. AllAbove(zones')
      BY <2>3, <2>8 DEF AboveStays, AllAbove
    <2>10. /\ DOMAIN zones' = DOMAIN zones
           /\ \A c \in DOMAIN zones :
                /\ zones'[c].type = zones[c].type
                /\ zones'[c].refcnt_blocklist = zones[c].refcnt_blocklist
                /\ zones'[c].name = IF c = b \/ Below(b, c)
                                    THEN Replaced(t, zones[c].name, part) ELSE zones[c].name
      BY <1>1, <2>4, RenamedAll
    <2>11. ASSUME NEW i \in DOMAIN blocked, NEW c \in DOMAIN zones,
                  zones[c].name = blocked[i], zones[c].type \in {"host", "group"}
           PROVE  zones'[c].name = blocked'[i]
      <3>1. Search(blocked[i]) # {} /\ c # b
        BY <1>1, <2>11 DEF Search
      <3>2. Below(b, c) <=> Touched(t, old, blocked[i])
        BY <2>11 DEF Below
      <3>3. blocked'[i] = IF Touched(t, old, blocked[i]) THEN Replaced(t, blocked[i], part)
                          ELSE blocked[i]
        BY <2>2, <3>1 DEF ItemRenamed
      <3>4. QED
        BY <2>10, <2>11, <3>1, <3>2, <3>3
    <2>12. DOMAIN blocked' = DOMAIN blocked
      BY <2>2
    <2>13. BlocklistFine(zones', blocked')
      BY <2>3, <2>8, <2>10, <2>11, <2>12, FineRenamed
    <2>14. QED
      BY <2>9, <2>13
  <1>4. QED
    BY <1>1, <1>2, <1>3

LEMMA BlockNext == BaseInv /\ BlockInv /\ [Next]_vars => BlockInv'
  <1>1. SUFFICES ASSUME BaseInv, BlockInv, [Next]_vars PROVE BlockInv'
    OBVIOUS
  <1>2. ASSUME NEW f \in File, NEW fault \in BOOLEAN, NewZone(f, fault) PROVE BlockInv'
    BY <1>1, <1>2, NewZoneBase, NewZoneBlock
  <1>3. ASSUME NEW b \in DOMAIN zones, NEW fault \in BOOLEAN, DeleteZone(b, fault) PROVE BlockInv'
    BY <1>1, <1>3, DeleteZoneBlock
  <1>4. ASSUME NEW b \in DOMAIN zones, NEW fault \in BOOLEAN, SetActive(b, fault) PROVE BlockInv'
    <2>1. hurt \subseteq hurt' /\ blocked' = blocked
      BY <1>4 DEF SetActive, End
    <2>2. QED
      BY <1>1, <1>4, <2>1, SetActiveBase, SameBlock DEF Alike, Like
  <1>5. ASSUME NEW b \in DOMAIN zones, NEW fault \in BOOLEAN, Block(b, fault) PROVE BlockInv'
    BY <1>1, <1>5, BlockBlock
  <1>6. ASSUME NEW g \in DOMAIN zones, NEW h \in DOMAIN zones, NEW fault \in BOOLEAN,
               AddMember(g, h, fault)
        PROVE  BlockInv'
    BY <1>1, <1>6, AddMemberBase, SameBlock DEF MembersChanged, Unmoved
  <1>7. ASSUME NEW g \in DOMAIN zones, NEW h \in DOMAIN zones, NEW fault \in BOOLEAN,
               RemMember(g, h, fault)
        PROVE  BlockInv'
    BY <1>1, <1>7, RemMemberBase, SameBlock DEF MembersChanged, Unmoved
  <1>8. ASSUME NEW n \in DOMAIN zones, NEW i \in DOMAIN refcnt_network, NEW fault \in BOOLEAN,
               AddIface(n, i, fault)
        PROVE  BlockInv'
    BY <1>1, <1>8, AddIfaceBase, SameBlock DEF IfacesChanged, Unmoved
  <1>9. ASSUME NEW n \in DOMAIN zones, NEW i \in DOMAIN refcnt_network, NEW fault \in BOOLEAN,
               RemIface(n, i, fault)
        PROVE  BlockInv'
    BY <1>1, <1>9, RemIfaceBase, SameBlock DEF IfacesChanged, Unmoved
  <1>10. ASSUME NEW i \in DOMAIN refcnt_network, DeleteIface(i) PROVE BlockInv'
    <2>1. blocked' = blocked
      BY <1>10 DEF DeleteIface
    <2>2. QED
      BY <1>1, <1>10, <2>1, DeleteIfaceBase, SameBlock
  <1>11. ASSUME NEW n \in ToSet(blocked), NEW fault \in BOOLEAN, Unblock(n, fault) PROVE BlockInv'
    BY <1>1, <1>11, UnblockBlock
  <1>12. ASSUME NEW b \in DOMAIN zones, NEW part \in HostParts, NEW at \in Stages,
                RenameHostGroup(b, part, at)
         PROVE  BlockInv'
    BY <1>1, <1>12, RenameHostGroupBlock
  <1>13. ASSUME NEW b \in DOMAIN zones, NEW part \in NetParts \cup ZoneParts,
                NEW at \in Stages \ {"groups"}, RenameNetworkZone(b, part, at)
         PROVE  BlockInv'
    BY <1>1, <1>13, RenameNetworkZoneBlock
  <1>14. CASE Restart
    BY <1>1, <1>14, RestartBlock
  <1>15. CASE UNCHANGED vars
    BY <1>1, <1>15, SameBlock DEF vars, memory
  <1>16. QED
    BY <1>1, <1>2, <1>3, <1>4, <1>5, <1>6, <1>7, <1>8, <1>9, <1>10, <1>11, <1>12, <1>13, <1>14,
       <1>15 DEF Next, Done

(* Whatever the menus do, in whatever order, and whichever calls to the backend
   fail: the counters of members and interfaces count unless a delete failed
   halfway, and as long as nothing went wrong the blocklist names hosts and groups
   that are there and are counted as often as it names them. *)
THEOREM ReferencesTheorem == Spec => []ReferencesCounted
  <1>1. Init => BaseInv /\ CountInv /\ BlockInv
    BY InitBase, InitBlock
  <1>2. (BaseInv /\ CountInv /\ BlockInv) /\ [Next]_vars => (BaseInv /\ CountInv /\ BlockInv)'
    BY CountNext, BlockNext
  <1>3. BlockInv => (hurt = {} => BlocklistCounted)
    BY DEF BlockInv, BlocklistFine, BlockedHosts, BlockedCounted, BlocklistCounted, Search
  <1>4. CountInv /\ BlockInv => ReferencesCounted
    BY <1>3 DEF CountInv, ReferencesCounted
  <1>5. QED
    BY <1>1, <1>2, <1>4, PTL DEF Spec

-----------------------------------------------------------------------------
(* Renames and what names the renamed. *)

Follows ==
    Renames /\ hurt' = {} /\ ~ Contains(rules', Broken) =>
        /\ \A i \in DOMAIN rules : \A b \in Search(rules[i]) : rules'[i] = zones'[b].name
        /\ \A i \in DOMAIN blocked : \A b \in Search(blocked[i]) : blocked'[i] = zones'[b].name

(* Only the two renames change a name. *)
LEMMA NothingRenamed ==
    ASSUME DOMAIN zones' # DOMAIN zones \/ \A c \in DOMAIN zones : zones'[c].name = zones[c].name
    PROVE  Follows
  BY DEF Follows, Renames

LEMMA HostFollows ==
    ASSUME BaseInv, BlockInv, NEW b \in DOMAIN zones, NEW part \in HostParts, NEW at \in Stages,
           RenameHostGroup(b, part, at)
    PROVE  Follows
  <1>1. /\ hurt \subseteq hurt'
        /\ \/ hurt' = hurt /\ UNCHANGED <<memory, backend>>
           \/ \E new \in Name : HostRenamed(b, new, at)
    BY RenameHostGroupNames
  <1>2. CASE UNCHANGED <<memory, backend>>
    BY <1>2, NothingRenamed DEF memory
  <1>3. CASE ~ UNCHANGED <<memory, backend>>
    <2> DEFINE old == zones[b].name
               new == [old EXCEPT !.host = part]
    <2>1. SUFFICES ASSUME hurt' = {}
                   PROVE  /\ \A i \in DOMAIN rules : \A c \in Search(rules[i]) :
                                rules'[i] = zones'[c].name
                          /\ \A i \in DOMAIN blocked : \A c \in Search(blocked[i]) :
                                blocked'[i] = zones'[c].name
      BY DEF Follows
    <2>2. NamesUnique(zones) /\ rules \in Seq(Name \cup {Firewall, Broken}) /\ blocked \in Seq(Name)
          /\ zones \in [DOMAIN zones -> ZoneData]
      BY <1>1, <2>1, HurtBefore DEF BlockInv, BlocklistFine, BaseInv, TypeOK
    <2>3. /\ zones' = [zones EXCEPT ![b].name = new]
          /\ rules' = ReplaceAll(rules, old, new)
          /\ blocked' = ReplaceAll(blocked, old, new)
      BY <1>1, <1>3, <2>1 DEF RenameHostGroup, HostRenamed
    <2>4. zones[b] \in ZoneData /\ new \in Name
      BY FileOfLemma DEF Name
    <2> DEFINE r == [zones[b] EXCEPT !.name = new]
    <2>5. r.name = new
      <3> HIDE DEF new
      <3>1. QED
        BY <2>4, LikeLemma
    <2>6. zones' = [zones EXCEPT ![b] = r]
      BY <2>3
    <2> HIDE DEF r, new
    <2>7. \A c \in DOMAIN zones : zones'[c].name = IF c = b THEN new ELSE zones[c].name
      BY <2>2, <2>5, <2>6
    <2>8. /\ \A i \in DOMAIN rules : rules'[i] = IF rules[i] = old THEN new ELSE rules[i]
          /\ \A i \in DOMAIN blocked : blocked'[i] = IF blocked[i] = old THEN new ELSE blocked[i]
      BY <2>2, <2>3 DEF ReplaceAll
    <2>9. \A n : \A c \in Search(n) : zones'[c].name = IF n = old THEN new ELSE n
      BY <2>2, <2>7 DEF Search, NamesUnique
    <2>10. QED
      BY <2>8, <2>9
  <1>4. QED
    BY <1>2, <1>3

(* The names that a rename changes are those of what is in the network or zone. *)
LEMMA TouchedLemma ==
    ASSUME BaseInv, NEW b \in DOMAIN zones, ~HasTwin(b), zones[b].type \in {"network", "zone"},
           NEW c \in DOMAIN zones, zones[b].type = "zone" => zones[c].type # "zone"
    PROVE  Touched(zones[b].type, zones[b].name, zones[c].name) <=> c = b \/ Below(b, c)
  <1>1. zones[c].type \in {"zone", "network", "host", "group"}
    BY FileOfLemma DEF ZoneData
  <1>2. c = b \/ Below(b, c) => Touched(zones[b].type, zones[b].name, zones[c].name)
    BY DEF Below, Touched
  <1>3. ASSUME zones[b].type = "zone", Touched(zones[b].type, zones[b].name, zones[c].name)
        PROVE  Below(b, c)
    BY <1>1, <1>3 DEF Below
  <1>4. ASSUME zones[b].type = "network", Touched(zones[b].type, zones[b].name, zones[c].name)
        PROVE  c = b \/ Below(b, c)
    <2>1. CASE zones[c].type \in {"host", "group"}
      BY <1>4, <2>1 DEF Below
    <2>2. CASE zones[c].type = "network"
      BY <1>4, <2>2 DEF HasTwin, Touched
    <2>3. zones[c].type # "zone"
      <3>1. SUFFICES ASSUME zones[c].type = "zone" PROVE FALSE
        OBVIOUS
      <3>2. /\ FileOf(c) \in ZoneFile /\ FileOf(c).name = zones[c].name
            /\ FileOf(b) \in NetFile /\ FileOf(b).name = zones[b].name
        BY <1>4, <3>1, FileOfLemma, FileParts
      <3>3. zones[c].name.net = NoPart /\ zones[b].name.net \in NetParts
        BY <3>2 DEF ZoneFile, NetFile
      <3>4. QED
        BY <1>4, <3>3, EditorAssumption DEF Touched
    <2>4. QED
      BY <1>1, <2>1, <2>2, <2>3
  <1>5. QED
    BY <1>2, <1>3, <1>4

LEMMA NetworkZoneFollows ==
    ASSUME BaseInv, BlockInv, NEW b \in DOMAIN zones, NEW part \in NetParts \cup ZoneParts,
           NEW at \in Stages \ {"groups"}, RenameNetworkZone(b, part, at)
    PROVE  Follows
  <1> DEFINE t == zones[b].type
             old == zones[b].name
  <1>1. /\ t \in {"network", "zone"} /\ part \in (IF t = "network" THEN NetParts ELSE ZoneParts)
        /\ \/ hurt' = hurt /\ UNCHANGED <<memory, backend>>
           \/ NetworkZoneRenamed(b, part, at)
    BY RenameNetworkZoneBase
  <1>2. CASE UNCHANGED <<memory, backend>>
    BY <1>2, NothingRenamed DEF memory
  <1>3. CASE ~ UNCHANGED <<memory, backend>>
    <2>1. SUFFICES ASSUME outcome' = "ok", hurt' = {}, ~ Contains(rules', Broken)
                   PROVE  /\ \A i \in DOMAIN rules : \A c \in Search(rules[i]) :
                                rules'[i] = zones'[c].name
                          /\ \A i \in DOMAIN blocked : \A c \in Search(blocked[i]) :
                                blocked'[i] = zones'[c].name
      BY DEF Follows, Renames
    <2>2. /\ hurt \subseteq hurt' /\ at # "blocklist" /\ ~HasTwin(b)
          /\ blocked' = [i \in DOMAIN blocked |-> ItemRenamed(t, old, blocked[i], part)]
          /\ zones' = Renamed(zones, b, part, TRUE)
      BY <1>1, <1>3, <2>1 DEF NetworkZoneRenamed
    <2>3. rules' = FieldsRenamed(t, old, part) /\ ~ Contains(rules, Broken)
      BY <1>3, <2>1, <2>2 DEF RenameNetworkZone, End
    <2>4. BlocklistFine(zones, blocked) /\ blocked \in Seq(Name)
          /\ rules \in Seq(Name \cup {Firewall, Broken})
      BY <2>1, <2>2, HurtBefore DEF BlockInv, BaseInv, TypeOK
    <2>5. \A c \in DOMAIN zones :
             zones'[c].name = IF c = b \/ Below(b, c) THEN Replaced(t, zones[c].name, part)
                              ELSE zones[c].name
      BY <1>1, <2>2, RenamedAll
    <2>6. ASSUME NEW i \in DOMAIN rules, NEW c \in Search(rules[i])
          PROVE  rules'[i] = zones'[c].name
      <3>1. c \in DOMAIN zones /\ zones[c].name = rules[i] /\ rules[i] \in Name
        BY <2>6, FileOfLemma DEF Search
      <3>2. \A j \in 1..i : rules[j] # Broken
        BY <2>3, <2>4 DEF Contains
      <3>3. rules'[i] = FieldRenamed(t, old, rules[i], part)
        BY <2>3, <3>2 DEF FieldsRenamed
      <3>4. rules[i] \notin {Firewall, Broken}
        BY <3>1, EditorAssumption
      <3>5. rules'[i] # Broken
        <4>1. DOMAIN rules' = DOMAIN rules /\ DOMAIN rules = 1..Len(rules) /\ Len(rules) \in Nat
          BY <2>3, <2>4 DEF FieldsRenamed
        <4>2. Len(rules') = Len(rules)
          BY <1>1, <2>3, <2>4, <4>1, FieldsLemma, FileOfLemma
        <4>3. QED
          BY <2>1, <4>1, <4>2 DEF Contains
      <3>6. CASE t = "zone" /\ zones[c].type = "zone"
        <4>1. FileOf(c) \in ZoneFile /\ FileOf(c).name = rules[i]
          BY <3>1, <3>6, FileOfLemma, FileParts
        <4>2. rules[i] = ZoneName(rules[i])
          BY <4>1 DEF ZoneFile, ZoneName
        <4>3. ~ Touched(t, old, rules[i])
          BY <3>3, <3>4, <3>5, <3>6, <4>2 DEF FieldRenamed
        <4>4. c # b /\ ~Below(b, c)
          BY <3>1, <4>3 DEF Touched, Below
        <4>5. QED
          BY <2>5, <3>1, <3>3, <3>4, <4>3, <4>4 DEF FieldRenamed
      <3>7. CASE ~ (t = "zone" /\ zones[c].type = "zone")
        <4>1. Touched(t, old, rules[i]) <=> c = b \/ Below(b, c)
          BY <1>1, <2>2, <3>1, <3>7, TouchedLemma
        <4>2. rules'[i] = IF Touched(t, old, rules[i]) THEN Replaced(t, rules[i], part) ELSE rules[i]
          BY <3>3, <3>4, <3>5 DEF FieldRenamed
        <4>3. QED
          BY <2>5, <3>1, <4>1, <4>2
      <3>8. QED
        BY <3>6, <3>7
    <2>7. ASSUME NEW i \in DOMAIN blocked, NEW c \in Search(blocked[i])
          PROVE  blocked'[i] = zones'[c].name
      <3>1. c \in DOMAIN zones /\ zones[c].name = blocked[i]
        BY <2>7 DEF Search
      <3>2. zones[c].type \in {"host", "group"}
        BY <2>4, <3>1 DEF BlocklistFine, BlockedHosts, NamesUnique
      <3>3. Touched(t, old, blocked[i]) <=> c = b \/ Below(b, c)
        BY <1>1, <2>2, <3>1, <3>2, TouchedLemma
      <3>4. blocked'[i] = IF Touched(t, old, blocked[i]) THEN Replaced(t, blocked[i], part)
                          ELSE blocked[i]
        BY <2>2, <2>7 DEF ItemRenamed
      <3>5. QED
        BY <2>5, <3>1, <3>3, <3>4
    <2>8. QED
      BY <2>6, <2>7
  <1>4. QED
    BY <1>2, <1>3

LEMMA FollowsNext == BaseInv /\ BlockInv /\ Next => Follows
  <1>1. SUFFICES ASSUME BaseInv, BlockInv, Next PROVE Follows
    OBVIOUS
  <1>2. ASSUME NEW f \in File, NEW fault \in BOOLEAN, NewZone(f, fault) PROVE Follows
    <2>1. PICK n \in File \ DOMAIN zones : zones' = With(zones, n, NewData(f))
      BY <1>1, <1>2, NewZoneBase DEF NewZoneDone
    <2>2. DOMAIN zones' # DOMAIN zones
      BY <2>1 DEF With
    <2>3. QED
      BY <2>2, NothingRenamed
  <1>3. ASSUME NEW b \in DOMAIN zones, NEW fault \in BOOLEAN, DeleteZone(b, fault) PROVE Follows
    <2> DEFINE R1 == Released(b)[1]
    <2>1. zones' = Without(R1, b) \/ zones' = R1 \/ zones' = zones
      BY <1>1, <1>3, DeleteZoneBase
    <2>2. DOMAIN R1 = DOMAIN zones /\ \A c \in DOMAIN zones : R1[c].name = zones[c].name
      BY <1>1, ReleasedLemma
    <2> HIDE DEF R1
    <2>3. zones' = Without(R1, b) => DOMAIN zones' # DOMAIN zones
      BY <2>2 DEF Without, Restrict
    <2>4. QED
      BY <2>1, <2>2, <2>3, NothingRenamed
  <1>4. ASSUME NEW b \in DOMAIN zones, NEW fault \in BOOLEAN, SetActive(b, fault) PROVE Follows
    BY <1>1, <1>4, SetActiveBase, NothingRenamed
  <1>5. ASSUME NEW b \in DOMAIN zones, NEW fault \in BOOLEAN, Block(b, fault) PROVE Follows
    BY <1>1, <1>5, BlockBase, NothingRenamed
  <1>6. ASSUME NEW g \in DOMAIN zones, NEW h \in DOMAIN zones, NEW fault \in BOOLEAN,
               AddMember(g, h, fault)
        PROVE  Follows
    BY <1>1, <1>6, AddMemberBase, NothingRenamed DEF MembersChanged, Unmoved
  <1>7. ASSUME NEW g \in DOMAIN zones, NEW h \in DOMAIN zones, NEW fault \in BOOLEAN,
               RemMember(g, h, fault)
        PROVE  Follows
    BY <1>1, <1>7, RemMemberBase, NothingRenamed DEF MembersChanged, Unmoved
  <1>8. ASSUME NEW n \in DOMAIN zones, NEW i \in DOMAIN refcnt_network, NEW fault \in BOOLEAN,
               AddIface(n, i, fault)
        PROVE  Follows
    BY <1>1, <1>8, AddIfaceBase, NothingRenamed DEF IfacesChanged, Unmoved
  <1>9. ASSUME NEW n \in DOMAIN zones, NEW i \in DOMAIN refcnt_network, NEW fault \in BOOLEAN,
               RemIface(n, i, fault)
        PROVE  Follows
    BY <1>1, <1>9, RemIfaceBase, NothingRenamed DEF IfacesChanged, Unmoved
  <1>10. ASSUME NEW i \in DOMAIN refcnt_network, DeleteIface(i) PROVE Follows
    <2>1. zones' = zones
      BY <1>10 DEF DeleteIface
    <2>2. QED
      BY <2>1, NothingRenamed
  <1>11. ASSUME NEW n \in ToSet(blocked), NEW fault \in BOOLEAN, Unblock(n, fault) PROVE Follows
    BY <1>1, <1>11, UnblockBase, NothingRenamed
  <1>12. ASSUME NEW b \in DOMAIN zones, NEW part \in HostParts, NEW at \in Stages,
                RenameHostGroup(b, part, at)
         PROVE  Follows
    BY <1>1, <1>12, HostFollows
  <1>13. ASSUME NEW b \in DOMAIN zones, NEW part \in NetParts \cup ZoneParts,
                NEW at \in Stages \ {"groups"}, RenameNetworkZone(b, part, at)
         PROVE  Follows
    BY <1>1, <1>13, NetworkZoneFollows
  <1>14. CASE Restart
    BY <1>14 DEF Restart, Follows, Renames
  <1>15. CASE UNCHANGED vars
    BY <1>15, NothingRenamed DEF vars, memory
  <1>16. QED
    BY <1>1, <1>2, <1>3, <1>4, <1>5, <1>6, <1>7, <1>8, <1>9, <1>10, <1>11, <1>12, <1>13, <1>14,
       <1>15 DEF Next, Done

(* After a rename that was reported as done every rule and every item of the
   blocklist refers to the object it referred to before, if nothing had gone
   wrong and no rule names a zone (the two rename functions). *)
THEOREM FollowTheorem == Spec => ReferencesFollow
  <1>1. Init => BaseInv /\ CountInv /\ BlockInv
    BY InitBase, InitBlock
  <1>2. (BaseInv /\ CountInv /\ BlockInv) /\ [Next]_vars => (BaseInv /\ CountInv /\ BlockInv)'
    BY CountNext, BlockNext
  <1>3. (BaseInv /\ CountInv /\ BlockInv) /\ [Next]_vars => [Follows]_vars
    BY FollowsNext
  <1>4. Spec => [][Follows]_vars
    BY <1>1, <1>2, <1>3, PTL DEF Spec
  <1>5. QED
    BY <1>4 DEF ReferencesFollow, Follows

-----------------------------------------------------------------------------
(* Memory and the backend. *)

(* Nothing went wrong, but for items of the blocklist that are not counted. *)
Gentle == hurt \subseteq {"blind"}

FileIn(z, b) == [type |-> z[b].type, name |-> z[b].name]

(* Every object has its file, every file its object, and they say the same. *)
Mirror(z, d) ==
    /\ NamesUnique(z)
    /\ DOMAIN d = {FileIn(z, b) : b \in DOMAIN z}
    /\ \A b \in DOMAIN z :
         /\ d[FileIn(z, b)].active = z[b].active
         /\ d[FileIn(z, b)].INTERFACE = z[b].InterfaceList
         /\ z[b].type = "group" => d[FileIn(z, b)].MEMBER = HostNames(z, b)
         /\ \A h \in z[b].GroupList : NetName(z[h].name) = NetName(z[b].name)

MirrorInv == Gentle => Mirror(zones, disk)

(* What is blocked has the name of a host or a group, which no network and no
   zone has. *)
HostItem == {n \in Name : n.host \in HostParts}

ItemsHosts(s) == s \in Seq(HostItem)

ListsInv ==
    /\ ItemsHosts(blocked) /\ ItemsHosts(savedBlocked)
    /\ Gentle => /\ blocked = savedBlocked
                 /\ rules = savedRules \/ rules = LoadedRules(savedRules)

LEMMA GentleBefore == ASSUME hurt \subseteq hurt', Gentle' PROVE Gentle
  BY DEF Gentle

LEMMA GentleOK ==
    ASSUME Gentle', NEW ok \in BOOLEAN, Halfway(ok) \subseteq hurt'
    PROVE  ok
  BY DEF Gentle, Halfway

(* What was loaded is what is on disk, if all names are there, and only once. *)
LEMMA LoadedMirror ==
    ASSUME NEW d, DiskOK(d), NEW s \in Seq(Name), NEW I \in SUBSET Ifaces,
           ClashIn(d) = {}, StrayIn(d, I) = {}
    PROVE  Mirror(LoadedZones(d, s, I), d)
  <1> DEFINE z == LoadedZones(d, s, I)
  <1>1. /\ DOMAIN d \subseteq File
        /\ \A f \in DOMAIN d : d[f] \in Row /\ f \in File /\ f = [type |-> f.type, name |-> f.name]
    BY FileLemma DEF DiskOK
  <1>2. /\ \A f, g \in DOMAIN d : f.name = g.name => f = g
        /\ \A f \in DOMAIN d : /\ MemberFiles(f, d[f]) \subseteq DOMAIN d
                               /\ d[f].INTERFACE \subseteq I
    BY DEF ClashIn, StrayIn
  <1>3. /\ DOMAIN z = DOMAIN d
        /\ \A f \in DOMAIN d :
             /\ z[f].type = f.type /\ z[f].name = f.name /\ z[f].active = d[f].active
             /\ z[f].GroupList = LoadedMembers(d, f)
             /\ z[f].InterfaceList = d[f].INTERFACE \cap I
    BY DEF LoadedZones
  <1> HIDE DEF z
  <1>4. \A f \in DOMAIN d : FileIn(z, f) = f
    BY <1>1, <1>3 DEF FileIn
  <1>5. ASSUME NEW f \in DOMAIN d
        PROVE  /\ f.type = "group" => d[f].MEMBER = HostNames(z, f)
               /\ \A h \in z[f].GroupList : NetName(z[h].name) = NetName(z[f].name)
    <2>1. z[f].GroupList = MemberFiles(f, d[f]) /\ z[f].GroupList \subseteq DOMAIN d
      <3> DEFINE M == MemberFiles(f, d[f])
      <3>1. z[f].GroupList = M \cap DOMAIN d
        BY <1>3 DEF LoadedMembers
      <3>2. M \subseteq DOMAIN d
        BY <1>2
      <3> HIDE DEF M
      <3>3. z[f].GroupList = M /\ z[f].GroupList \subseteq DOMAIN d
        BY <3>1, <3>2
      <3>4. QED
        BY <3>3 DEF M
    <2>2. \A h \in z[f].GroupList : /\ h \in HostFile /\ z[h].name = h.name
                                    /\ NetName(h.name) = NetName(f.name)
                                    /\ h.name.host \in d[f].MEMBER
      BY <1>3, <2>1 DEF MemberFiles
    <2>3. ASSUME f.type = "group", NEW x \in d[f].MEMBER
          PROVE  \E h \in z[f].GroupList : z[h].name.host = x
      <3> DEFINE h == [type |-> "host", name |-> [host |-> x, net |-> f.name.net, zone |-> f.name.zone]]
      <3>1. f \in HostFile /\ d[f].MEMBER \subseteq HostParts
        BY <1>1, <2>3, FileParts DEF Row
      <3>2. h \in HostFile /\ h.type = "host" /\ h.name.host = x /\ NetName(h.name) = NetName(f.name)
        BY <3>1, <2>3 DEF HostFile, NetName
      <3> HIDE DEF h
      <3>3. h \in MemberFiles(f, d[f])
        BY <2>3, <3>2 DEF MemberFiles
      <3>4. QED
        BY <2>1, <2>2, <3>2, <3>3
    <2>4. f.type = "group" => d[f].MEMBER = HostNames(z, f)
      BY <2>2, <2>3 DEF HostNames
    <2>5. QED
      BY <1>3, <2>2, <2>4
  <1>6. NamesUnique(z)
    BY <1>2, <1>3 DEF NamesUnique
  <1>7. DOMAIN d = {FileIn(z, b) : b \in DOMAIN z}
    BY <1>3, <1>4
  <1>8. \A b \in DOMAIN z : d[b].INTERFACE \cap I = d[b].INTERFACE
    BY <1>2, <1>3
  <1>9. Mirror(z, d)
    BY <1>3, <1>4, <1>5, <1>6, <1>7, <1>8 DEF Mirror
  <1>10. QED
    BY <1>9 DEF z

(* The files of a disk have their directories, so the objects their parents. *)
LEMMA MirrorAbove ==
    ASSUME NEW z, NEW d, MemOK(z), DiskOK(d), Mirror(z, d)
    PROVE  AllAbove(z)
  <1>1. ASSUME NEW c \in DOMAIN z, NEW p \in Parents(FileIn(z, c))
        PROVE  \E b \in DOMAIN z : p = FileIn(z, b)
    <2>1. FileIn(z, c) \in DOMAIN d
      BY DEF Mirror
    <2>2. p \in DOMAIN d
      BY <2>1 DEF DiskOK
    <2>3. QED
      BY <2>2 DEF Mirror
  <1>2. ASSUME NEW c \in DOMAIN z
        PROVE  FileIn(z, c) \in File /\ FileIn(z, c).type = z[c].type /\ FileIn(z, c).name = z[c].name
    BY DEF MemOK, FileIn
  <1>3. ASSUME NEW c \in DOMAIN z, z[c].type # "zone"
        PROVE  \E p \in DOMAIN z : z[p].type = "zone" /\ IsAbove(z, p, c)
    <2> DEFINE q == [type |-> "zone", name |-> ZoneName(z[c].name)]
    <2>1. q \in Parents(FileIn(z, c))
      BY <1>2, <1>3, ParentsLemma
    <2>2. q.type = "zone" /\ q.name = ZoneName(z[c].name)
      OBVIOUS
    <2> HIDE DEF q
    <2>3. PICK b \in DOMAIN z : q = FileIn(z, b)
      BY <1>1, <2>1
    <2>4. z[b].type = "zone" /\ z[b].name = ZoneName(z[c].name)
      BY <1>2, <2>2, <2>3
    <2>5. QED
      BY <1>3, <2>4 DEF IsAbove
  <1>4. ASSUME NEW c \in DOMAIN z, z[c].type \in {"host", "group"}
        PROVE  \E p \in DOMAIN z : z[p].type = "network" /\ IsAbove(z, p, c)
    <2> DEFINE q == [type |-> "network", name |-> NetName(z[c].name)]
    <2>1. q \in Parents(FileIn(z, c))
      BY <1>2, <1>4, ParentsLemma
    <2>2. q.type = "network" /\ q.name = NetName(z[c].name)
      OBVIOUS
    <2> HIDE DEF q
    <2>3. PICK b \in DOMAIN z : q = FileIn(z, b)
      BY <1>1, <2>1
    <2>4. z[b].type = "network" /\ z[b].name = NetName(z[c].name)
      BY <1>2, <2>2, <2>3
    <2>5. QED
      BY <1>4, <2>4 DEF IsAbove
  <1>5. QED
    BY <1>3, <1>4 DEF AllAbove

LEMMA FilesCount ==
    ASSUME NEW z, DOMAIN z \subseteq File, NamesUnique(z), NEW S \in SUBSET DOMAIN z,
           NEW T, T = {FileIn(z, b) : b \in S}
    PROVE  Cardinality(T) = Cardinality(S) /\ Cardinality(T) % (MaxRef + 1) = Cardinality(S)
  <1> DEFINE f == [b \in S |-> FileIn(z, b)]
  <1>1. f \in [S -> T] /\ \A b \in S : f[b] = FileIn(z, b)
    OBVIOUS
  <1>2. \A b, c \in S : FileIn(z, b) = FileIn(z, c) => b = c
    BY DEF FileIn, NamesUnique
  <1>3. \A t \in T : \E b \in S : f[b] = t
    OBVIOUS
  <1> HIDE DEF f
  <1>4. \A b, c \in S : f[b] = f[c] => b = c
    BY <1>1, <1>2
  <1>5. S \subseteq File /\ IsFiniteSet(S)
    BY FilesFit
  <1>6. Cardinality(T) = Cardinality(S)
    BY <1>1, <1>3, <1>4, <1>5, BijectionCount
  <1>7. Cardinality(S) % (MaxRef + 1) = Cardinality(S)
    BY <1>5, FilesFit
  <1>8. QED
    BY <1>6, <1>7

(* A member of a group is a member of its file, and the other way round. *)
LEMMA MembersMirror ==
    ASSUME NEW z, NEW d, MemOK(z), DiskOK(d), Mirror(z, d), NEW c \in DOMAIN z,
           z[c].GroupList \subseteq DOMAIN z
    PROVE  /\ \A h \in z[c].GroupList : FileIn(z, h) \in LoadedMembers(d, FileIn(z, c))
           /\ \A f \in LoadedMembers(d, FileIn(z, c)) :
                \E h \in z[c].GroupList : f = FileIn(z, h) /\ f.name = z[h].name
  <1> DEFINE g == FileIn(z, c)
  <1>1. \A b \in DOMAIN z : /\ FileIn(z, b) \in File /\ FileIn(z, b) \in DOMAIN d
                            /\ FileIn(z, b).type = z[b].type /\ FileIn(z, b).name = z[b].name
    BY DEF MemOK, FileIn, Mirror
  <1>2. ASSUME NEW h \in z[c].GroupList
        PROVE  FileIn(z, h) \in LoadedMembers(d, g)
    <2>1. /\ h \in DOMAIN z /\ z[c].type = "group" /\ z[h].type = "host"
          /\ NetName(z[h].name) = NetName(z[c].name)
          /\ z[h].name.host \in HostNames(z, c)
          /\ d[g].MEMBER = HostNames(z, c)
      BY DEF MemOK, Mirror, HostNames
    <2>2. FileIn(z, h) \in HostFile
      BY <1>1, <2>1, FileParts
    <2>3. QED
      BY <1>1, <2>1, <2>2 DEF LoadedMembers, MemberFiles
  <1>3. ASSUME NEW f \in LoadedMembers(d, g)
        PROVE  \E h \in z[c].GroupList : f = FileIn(z, h) /\ f.name = z[h].name
    <2>1. /\ f \in DOMAIN d /\ f \in HostFile /\ f.type = "host" /\ g.type = "group"
          /\ NetName(f.name) = NetName(g.name) /\ f.name.host \in d[g].MEMBER
      BY DEF LoadedMembers, MemberFiles
    <2>2. z[c].type = "group" /\ d[g].MEMBER = HostNames(z, c) /\ NetName(f.name) = NetName(z[c].name)
      BY <1>1, <2>1 DEF Mirror
    <2>3. PICK h \in z[c].GroupList : f.name.host = z[h].name.host
      BY <2>1, <2>2 DEF HostNames
    <2>4. /\ h \in DOMAIN z /\ z[h].type = "host" /\ NetName(z[h].name) = NetName(f.name)
      BY <2>2, <2>3 DEF MemOK, Mirror
    <2>5. FileIn(z, h) \in HostFile
      BY <1>1, <2>4, FileParts
    <2>6. f.name = z[h].name
      <3>1. f.name.net = z[h].name.net /\ f.name.zone = z[h].name.zone
        BY <2>4 DEF NetName
      <3>2. /\ f.name = [host |-> f.name.host, net |-> f.name.net, zone |-> f.name.zone]
            /\ z[h].name = [host |-> z[h].name.host, net |-> z[h].name.net, zone |-> z[h].name.zone]
        BY <1>1, <2>1, <2>4, <2>5 DEF HostFile
      <3>3. QED
        BY <2>3, <3>1, <3>2
    <2>7. f = FileIn(z, h)
      <3>1. f \in File
        BY <2>1 DEF File
      <3>2. f = [type |-> f.type, name |-> f.name]
        BY <3>1, FileLemma
      <3>3. QED
        BY <2>1, <2>4, <2>6, <3>2 DEF FileIn
    <2>8. QED
      BY <2>6, <2>7
  <1>4. QED
    BY <1>2, <1>3

(* What a restart would load of an object is the object. *)
ViewOf(m, b) ==
    [type |-> m[b].type, name |-> m[b].name, active |-> m[b].active,
     members |-> {m[h].name : h \in m[b].GroupList}, interfaces |-> m[b].InterfaceList,
     refcnt_group |-> m[b].refcnt_group]

LEMMA ViewMirror ==
    ASSUME NEW z, NEW d, MemOK(z), DiskOK(d), Mirror(z, d), NEW s, NEW I,
           \A c \in DOMAIN z : z[c].GroupList \subseteq DOMAIN z /\ z[c].InterfaceList \subseteq I,
           \A h \in DOMAIN z : z[h].refcnt_group = Cardinality({g \in DOMAIN z : h \in z[g].GroupList})
    PROVE  View(z) = View(LoadedZones(d, s, I))
  <1> DEFINE y == LoadedZones(d, s, I)
  <1>1. /\ DOMAIN y = DOMAIN d
        /\ \A f \in DOMAIN d :
             /\ y[f].type = f.type /\ y[f].name = f.name /\ y[f].active = d[f].active
             /\ y[f].GroupList = LoadedMembers(d, f)
             /\ y[f].InterfaceList = d[f].INTERFACE \cap I
             /\ y[f].refcnt_group = Cardinality({g \in DOMAIN d : f \in LoadedMembers(d, g)}) % (MaxRef + 1)
    BY DEF LoadedZones
  <1>2. \A b \in DOMAIN z : /\ FileIn(z, b) \in DOMAIN d /\ b \in File
                            /\ FileIn(z, b).type = z[b].type /\ FileIn(z, b).name = z[b].name
    BY DEF MemOK, FileIn, Mirror
  <1>3. \A f \in DOMAIN d : \E b \in DOMAIN z : f = FileIn(z, b)
    BY DEF Mirror
  <1>4. \A f \in DOMAIN d : LoadedMembers(d, f) \subseteq DOMAIN d
    BY DEF LoadedMembers
  <1> HIDE DEF y
  <1>5. ASSUME NEW b \in DOMAIN z PROVE ViewOf(y, FileIn(z, b)) = ViewOf(z, b)
    <2> DEFINE f == FileIn(z, b)
    <2>1. f \in DOMAIN d /\ f.type = z[b].type /\ f.name = z[b].name
      BY <1>2
    <2> HIDE DEF f
    <2>2. /\ y[f].type = z[b].type /\ y[f].name = z[b].name /\ y[f].active = z[b].active
      BY <1>1, <2>1 DEF Mirror, f
    <2>3. y[f].InterfaceList = z[b].InterfaceList
      <3>1. d[f].INTERFACE = z[b].InterfaceList /\ z[b].InterfaceList \subseteq I
        BY DEF Mirror, f
      <3>2. y[f].InterfaceList = d[f].INTERFACE \cap I
        BY <1>1, <2>1
      <3>3. QED
        BY <3>1, <3>2
    <2>4. {y[h].name : h \in y[f].GroupList} = {z[h].name : h \in z[b].GroupList}
      <3>1. /\ \A h \in z[b].GroupList : FileIn(z, h) \in y[f].GroupList
            /\ \A e \in y[f].GroupList : \E h \in z[b].GroupList : e.name = z[h].name
        <4>1. y[f].GroupList = LoadedMembers(d, f)
          BY <1>1, <2>1
        <4>2. /\ \A h \in z[b].GroupList : FileIn(z, h) \in LoadedMembers(d, f)
              /\ \A e \in LoadedMembers(d, f) : \E h \in z[b].GroupList : e.name = z[h].name
          BY MembersMirror DEF f
        <4>3. QED
          BY <4>1, <4>2
      <3>2. y[f].GroupList \subseteq DOMAIN d
        BY <1>1, <1>4, <2>1
      <3>3. \A e \in y[f].GroupList : y[e].name = e.name
        BY <1>1, <3>2
      <3>4. \A h \in z[b].GroupList : h \in DOMAIN z /\ FileIn(z, h).name = z[h].name
        BY <1>2
      <3>5. QED
        BY <3>1, <3>3, <3>4
    <2>5. y[f].refcnt_group = z[b].refcnt_group
      <3> DEFINE S == {g \in DOMAIN z : b \in z[g].GroupList}
                 T == {g \in DOMAIN d : f \in LoadedMembers(d, g)}
      <3>1. ASSUME NEW g \in S PROVE FileIn(z, g) \in T
        BY <1>2, MembersMirror DEF f
      <3>2. ASSUME NEW t \in T PROVE \E g \in S : t = FileIn(z, g)
        <4>1. PICK g \in DOMAIN z : t = FileIn(z, g)
          BY <1>3
        <4>2. PICK h \in z[g].GroupList : f = FileIn(z, h)
          BY <4>1, MembersMirror
        <4>3. h \in DOMAIN z /\ z[h].name = z[b].name
          BY <1>2, <2>1, <4>2
        <4>4. h = b
          BY <4>3 DEF Mirror, NamesUnique
        <4>5. QED
          BY <4>1, <4>2, <4>4
      <3>3. T = {FileIn(z, g) : g \in S} /\ S \in SUBSET DOMAIN z
        BY <3>1, <3>2
      <3>4. z[b].refcnt_group = Cardinality(S) /\ y[f].refcnt_group = Cardinality(T) % (MaxRef + 1)
        BY <1>1, <2>1
      <3>5. DOMAIN z \subseteq File /\ NamesUnique(z)
        BY <1>2 DEF Mirror
      <3> HIDE DEF S, T
      <3>6. Cardinality(T) % (MaxRef + 1) = Cardinality(S)
        BY <3>3, <3>5, FilesCount
      <3>7. QED
        BY <3>4, <3>6
    <2>6. QED
      BY <2>2, <2>3, <2>4, <2>5 DEF ViewOf, f
  <1>6. View(z) = {ViewOf(z, b) : b \in DOMAIN z} /\ View(y) = {ViewOf(y, f) : f \in DOMAIN y}
    BY DEF View, ViewOf
  <1>7. \A b \in DOMAIN z : FileIn(z, b) \in DOMAIN y
    BY <1>1, <1>2
  <1>8. \A f \in DOMAIN y : \E b \in DOMAIN z : f = FileIn(z, b)
    BY <1>1, <1>3
  <1>9. View(z) = View(y)
    <2>1. ASSUME NEW b \in DOMAIN z PROVE ViewOf(z, b) \in {ViewOf(y, f) : f \in DOMAIN y}
      BY <1>5, <1>7
    <2>2. ASSUME NEW f \in DOMAIN y PROVE ViewOf(y, f) \in {ViewOf(z, b) : b \in DOMAIN z}
      BY <1>5, <1>8
    <2>3. QED
      BY <1>6, <2>1, <2>2
  <1>10. QED
    BY <1>9 DEF y

(* The interfaces are counted as the files of the networks say. *)
LEMMA CountersMirror ==
    ASSUME NEW z, NEW d, NEW n, DOMAIN z \subseteq File, Mirror(z, d),
           n = [i \in DOMAIN n |-> n[i]],
           \A i \in DOMAIN n : n[i] = Cardinality({b \in DOMAIN z : i \in z[b].InterfaceList})
    PROVE  n = LoadedCounters(d, DOMAIN n)
  <1>1. ASSUME NEW i \in DOMAIN n
        PROVE  n[i] = Cardinality({f \in DOMAIN d : i \in d[f].INTERFACE}) % (MaxRef + 1)
    <2> DEFINE S == {b \in DOMAIN z : i \in z[b].InterfaceList}
               T == {f \in DOMAIN d : i \in d[f].INTERFACE}
    <2>1. T = {FileIn(z, b) : b \in S} /\ S \in SUBSET DOMAIN z /\ NamesUnique(z)
      BY DEF Mirror
    <2>2. n[i] = Cardinality(S)
      OBVIOUS
    <2> HIDE DEF S, T
    <2>3. n[i] = Cardinality(T) % (MaxRef + 1)
      BY <2>1, <2>2, FilesCount
    <2>4. QED
      BY <2>3 DEF T
  <1>2. QED
    BY <1>1 DEF LoadedCounters

(* What is blocked are hosts and groups, so nothing of it is dropped. *)
LEMMA HostsLoaded ==
    ASSUME NEW s, ItemsHosts(s), NEW d, DiskOK(d)
    PROVE  LoadedBlocked(s, d) = s
  <1> DEFINE S == {n \in Name : /\ [type |-> "network", name |-> n] \notin DOMAIN d
                                /\ [type |-> "zone", name |-> n] \notin DOMAIN d}
  <1>1. s \in Seq(HostItem)
    BY DEF ItemsHosts
  <1>2. ASSUME NEW n \in Name, n.host \in HostParts PROVE n \in S
    <2>1. \A f \in DOMAIN d : f \in File
      BY DEF DiskOK
    <2>2. [type |-> "network", name |-> n] \notin File
      <3>1. SUFFICES ASSUME [type |-> "network", name |-> n] \in File PROVE FALSE
        OBVIOUS
      <3>2. [type |-> "network", name |-> n] \in NetFile
        BY <3>1, FileParts
      <3>3. QED
        BY <1>2, <3>2, EditorAssumption DEF NetFile
    <2>3. [type |-> "zone", name |-> n] \notin File
      <3>1. SUFFICES ASSUME [type |-> "zone", name |-> n] \in File PROVE FALSE
        OBVIOUS
      <3>2. [type |-> "zone", name |-> n] \in ZoneFile
        BY <3>1, FileParts
      <3>3. QED
        BY <1>2, <3>2, EditorAssumption DEF ZoneFile
    <2>4. QED
      BY <2>1, <2>2, <2>3
  <1>3. \A i \in 1..Len(s) : s[i] \in Name /\ s[i].host \in HostParts
    BY <1>1 DEF HostItem
  <1>4. \A i \in 1..Len(s) : s[i] \in S
    BY <1>2, <1>3
  <1>5. LoadedBlocked(s, d) = Selected(s, S)
    BY DEF LoadedBlocked
  <1> HIDE DEF S
  <1>6. QED
    BY <1>1, <1>4, <1>5, SelectedLemma

LEMMA RestartLemma ==
    ASSUME BaseInv, CountInv, MirrorInv, ListsInv
    PROVE  RestartChangesNothing
  <1>1. SUFFICES ASSUME hurt \subseteq {"blind"}, ~ Contains(rules, Broken)
                 PROVE  /\ View(zones) = View(LoadedZones(disk, blocked, DOMAIN refcnt_network))
                        /\ refcnt_network = LoadedCounters(disk, DOMAIN refcnt_network)
                        /\ blocked = LoadedBlocked(savedBlocked, disk)
                        /\ rules = LoadedRules(savedRules)
    BY DEF RestartChangesNothing
  <1>2. Mirror(zones, disk) /\ Defined /\ MembersCounted /\ MemOK(zones) /\ DiskOK(disk)
    BY <1>1 DEF Gentle, MirrorInv, CountInv, BaseInv
  <1>3. View(zones) = View(LoadedZones(disk, blocked, DOMAIN refcnt_network))
    BY <1>2, ViewMirror DEF Defined, MembersCounted
  <1>4. refcnt_network = LoadedCounters(disk, DOMAIN refcnt_network)
    <2>1. DOMAIN zones \subseteq File
          /\ refcnt_network = [i \in DOMAIN refcnt_network |-> refcnt_network[i]]
      BY DEF BaseInv, TypeOK
    <2>2. QED
      BY <1>2, <2>1, CountersMirror DEF MembersCounted
  <1>5. blocked = LoadedBlocked(savedBlocked, disk)
    <2>1. blocked = savedBlocked /\ ItemsHosts(savedBlocked)
      BY <1>1 DEF ListsInv, Gentle
    <2>2. QED
      BY <1>2, <2>1, HostsLoaded
  <1>6. rules = LoadedRules(savedRules)
    <2>1. CASE rules = savedRules
      <3> DEFINE S == Name \cup {Firewall}
                 A == Name \cup {Firewall, Broken}
      <3>1. rules \in Seq(A) /\ \A i \in 1..Len(rules) : rules[i] # Broken
        BY <1>1 DEF BaseInv, TypeOK, Contains
      <3>2. \A i \in 1..Len(rules) : rules[i] \in A
        BY <3>1
      <3>3. \A i \in 1..Len(rules) : rules[i] \in S
        BY <3>1, <3>2
      <3> HIDE DEF S, A
      <3>4. Selected(rules, S) = rules
        BY <3>1, <3>3, SelectedLemma
      <3>5. QED
        BY <2>1, <3>4 DEF LoadedRules, S
    <2>2. CASE rules = LoadedRules(savedRules)
      BY <2>2
    <2>3. QED
      BY <1>1, <2>1, <2>2 DEF ListsInv, Gentle
  <1>7. QED
    BY <1>3, <1>4, <1>5, <1>6

LEMMA ListsSame ==
    ASSUME ListsInv, hurt \subseteq hurt',
           rules' = rules, savedRules' = savedRules, blocked' = blocked, savedBlocked' = savedBlocked
    PROVE  ListsInv'
  BY GentleBefore DEF ListsInv

LEMMA MirrorBefore ==
    ASSUME BaseInv, CountInv, MirrorInv, hurt \subseteq hurt', Gentle'
    PROVE  /\ Mirror(zones, disk) /\ Defined /\ MembersCounted /\ Gentle
           /\ MemOK(zones) /\ DiskOK(disk)
  BY GentleBefore DEF MirrorInv, Gentle, CountInv, BaseInv

(* What is said on disk is the same, and what memory says is, too. *)
LEMMA MirrorSame ==
    ASSUME NEW z, NEW d, NEW y, Mirror(z, d), DOMAIN y = DOMAIN z,
           \A b \in DOMAIN z :
              /\ y[b].type = z[b].type /\ y[b].name = z[b].name /\ y[b].active = z[b].active
              /\ y[b].GroupList = z[b].GroupList /\ y[b].InterfaceList = z[b].InterfaceList
              /\ z[b].GroupList \subseteq DOMAIN z
    PROVE  Mirror(y, d)
  <1>1. NamesUnique(y)
    BY DEF Mirror, NamesUnique
  <1>2. \A b \in DOMAIN z : FileIn(y, b) = FileIn(z, b) /\ HostNames(y, b) = HostNames(z, b)
    BY DEF FileIn, HostNames
  <1>3. DOMAIN d = {FileIn(y, b) : b \in DOMAIN y}
    BY <1>2 DEF Mirror
  <1>4. \A b \in DOMAIN z : \A h \in y[b].GroupList : NetName(y[h].name) = NetName(y[b].name)
    BY DEF Mirror
  <1>5. QED
    BY <1>1, <1>2, <1>3, <1>4 DEF Mirror

(* One object is changed, and its file with it. *)
Written1(z, d, y, e, b, row) ==
    /\ e = [d EXCEPT ![FileIn(z, b)] = row]
    /\ DOMAIN y = DOMAIN z
    /\ \A c \in DOMAIN z : y[c].type = z[c].type /\ y[c].name = z[c].name
    /\ \A c \in DOMAIN z \ {b} :
         /\ y[c].active = z[c].active /\ y[c].GroupList = z[c].GroupList
         /\ y[c].InterfaceList = z[c].InterfaceList
    /\ row.active = y[b].active /\ row.INTERFACE = y[b].InterfaceList
    /\ z[b].type = "group" => row.MEMBER = HostNames(y, b)
    /\ \A h \in y[b].GroupList : h \in DOMAIN z /\ NetName(z[h].name) = NetName(z[b].name)

LEMMA MirrorWritten ==
    ASSUME NEW z, NEW d, NEW y, NEW e, Mirror(z, d), NEW b \in DOMAIN z, NEW row,
           \A c \in DOMAIN z : z[c].GroupList \subseteq DOMAIN z,
           Written1(z, d, y, e, b, row)
    PROVE  Mirror(y, e)
  <1>1. /\ e = [d EXCEPT ![FileIn(z, b)] = row] /\ DOMAIN y = DOMAIN z
        /\ \A c \in DOMAIN z : y[c].type = z[c].type /\ y[c].name = z[c].name
    BY DEF Written1
  <1>2. NamesUnique(y) /\ NamesUnique(z)
    BY <1>1 DEF Mirror, NamesUnique
  <1>3. \A c \in DOMAIN z : FileIn(y, c) = FileIn(z, c) /\ FileIn(z, c) \in DOMAIN d
    BY <1>1 DEF FileIn, Mirror
  <1>4. DOMAIN e = DOMAIN d /\ DOMAIN e = {FileIn(y, c) : c \in DOMAIN y}
    BY <1>1, <1>3 DEF Mirror
  <1>5. \A c \in DOMAIN z \ {b} : FileIn(z, c) # FileIn(z, b)
    BY <1>2 DEF FileIn, NamesUnique
  <1>6. e[FileIn(z, b)] = row /\ \A c \in DOMAIN z \ {b} : e[FileIn(z, c)] = d[FileIn(z, c)]
    BY <1>1, <1>3, <1>5
  <1>7. ASSUME NEW c \in DOMAIN z \ {b} PROVE HostNames(y, c) = HostNames(z, c)
    <2>1. y[c].GroupList = z[c].GroupList /\ \A h \in z[c].GroupList : y[h].name = z[h].name
      BY <1>1 DEF Written1
    <2>2. QED
      BY <2>1 DEF HostNames
  <1>8. ASSUME NEW c \in DOMAIN z
        PROVE  /\ e[FileIn(y, c)].active = y[c].active
               /\ e[FileIn(y, c)].INTERFACE = y[c].InterfaceList
               /\ y[c].type = "group" => e[FileIn(y, c)].MEMBER = HostNames(y, c)
               /\ \A h \in y[c].GroupList : NetName(y[h].name) = NetName(y[c].name)
    <2>1. CASE c = b
      BY <1>1, <1>3, <1>6, <2>1 DEF Written1
    <2>2. CASE c # b
      <3>1. e[FileIn(y, c)] = d[FileIn(z, c)]
        BY <1>3, <1>6, <2>2
      <3>2. y[c].active = z[c].active /\ y[c].GroupList = z[c].GroupList
            /\ y[c].InterfaceList = z[c].InterfaceList /\ HostNames(y, c) = HostNames(z, c)
            /\ y[c].type = z[c].type
        BY <1>1, <1>7, <2>2 DEF Written1
      <3>3. \A h \in y[c].GroupList : NetName(y[h].name) = NetName(y[c].name)
        BY <1>1, <3>2 DEF Mirror
      <3>4. QED
        BY <3>1, <3>2, <3>3 DEF Mirror
    <2>3. QED
      BY <2>1, <2>2
  <1>9. QED
    BY <1>1, <1>2, <1>4, <1>8 DEF Mirror

LEMMA RowLemma ==
    ASSUME NEW d, DiskOK(d), NEW f \in DOMAIN d
    PROVE  /\ d = [g \in DOMAIN d |-> d[g]]
           /\ \A a : LET r == [d[f] EXCEPT !.active = a] IN
                r.active = a /\ r.MEMBER = d[f].MEMBER /\ r.INTERFACE = d[f].INTERFACE
           /\ \A S : LET r == [d[f] EXCEPT !.MEMBER = S] IN
                r.active = d[f].active /\ r.MEMBER = S /\ r.INTERFACE = d[f].INTERFACE
           /\ \A S : LET r == [d[f] EXCEPT !.INTERFACE = S] IN
                r.active = d[f].active /\ r.MEMBER = d[f].MEMBER /\ r.INTERFACE = S
  <1>1. d[f] \in Row /\ d \in [DOMAIN d -> Row]
    BY DEF DiskOK
  <1>2. QED
    BY <1>1 DEF Row

LEMMA SetActiveMirror ==
    ASSUME BaseInv, CountInv, MirrorInv, ListsInv, NEW b \in DOMAIN zones, NEW fault \in BOOLEAN,
           SetActive(b, fault)
    PROVE  MirrorInv' /\ ListsInv'
  <1> DEFINE ok == ~fault /\ FileOf(b) \in DOMAIN disk
             row == [disk[FileOf(b)] EXCEPT !.active = zones'[b].active]
  <1>1. /\ zones' = [zones EXCEPT ![b].active = ~@]
        /\ disk' = IF ok THEN [disk EXCEPT ![FileOf(b)].active = zones'[b].active] ELSE disk
        /\ Halfway(ok) \subseteq hurt' /\ hurt \subseteq hurt' /\ ok \in BOOLEAN
        /\ rules' = rules /\ savedRules' = savedRules /\ blocked' = blocked
        /\ savedBlocked' = savedBlocked
    BY DEF SetActive, End
  <1>2. Alike /\ \A c \in DOMAIN zones : zones'[c].name = zones[c].name
    BY SetActiveBase
  <1>3. SUFFICES ASSUME Gentle' PROVE Mirror(zones', disk')
    BY <1>1, ListsSame DEF MirrorInv
  <1>4. Mirror(zones, disk) /\ Defined /\ MemOK(zones) /\ DiskOK(disk)
    BY <1>1, <1>3, MirrorBefore
  <1>5. ok
    <2> HIDE DEF ok
    <2>1. QED
      BY <1>1, <1>3, GentleOK
  <1>6. FileOf(b) = FileIn(zones, b) /\ FileOf(b) \in DOMAIN disk
    BY <1>5 DEF FileOf, FileIn
  <1>7. disk' = [disk EXCEPT ![FileIn(zones, b)] = row]
    BY <1>1, <1>5, <1>6
  <1>8. /\ row.active = zones'[b].active /\ row.MEMBER = disk[FileOf(b)].MEMBER
        /\ row.INTERFACE = disk[FileOf(b)].INTERFACE
    BY <1>4, <1>6, RowLemma
  <1> HIDE DEF row
  <1>9. /\ DOMAIN zones' = DOMAIN zones
        /\ \A c \in DOMAIN zones :
             /\ zones'[c].type = zones[c].type /\ zones'[c].name = zones[c].name
             /\ zones'[c].GroupList = zones[c].GroupList
             /\ zones'[c].InterfaceList = zones[c].InterfaceList
             /\ zones[c].GroupList \subseteq DOMAIN zones
    BY <1>2, <1>4 DEF Alike, Like, Defined
  <1>10. \A c \in DOMAIN zones \ {b} : zones'[c].active = zones[c].active
    <2>1. zones \in [DOMAIN zones -> ZoneData]
      BY DEF BaseInv, TypeOK
    <2>2. \A c \in DOMAIN zones \ {b} : zones'[c] = zones[c]
      BY <1>1, <2>1
    <2>3. QED
      BY <2>2
  <1>11. HostNames(zones', b) = HostNames(zones, b)
    BY <1>9 DEF HostNames
  <1>12. /\ row.INTERFACE = zones'[b].InterfaceList
         /\ zones[b].type = "group" => row.MEMBER = HostNames(zones', b)
         /\ \A h \in zones'[b].GroupList :
              h \in DOMAIN zones /\ NetName(zones[h].name) = NetName(zones[b].name)
    BY <1>4, <1>6, <1>8, <1>9, <1>11 DEF Mirror
  <1>13. Written1(zones, disk, zones', disk', b, row)
    BY <1>7, <1>8, <1>9, <1>10, <1>12 DEF Written1
  <1>14. QED
    BY <1>4, <1>9, <1>13, MirrorWritten

(* One member more or less. *)
LEMMA MembersMirrored ==
    ASSUME BaseInv, CountInv, MirrorInv, NEW g \in DOMAIN zones, NEW h, NEW S, NEW count,
           NEW ok \in BOOLEAN, ok => FileOf(g) \in DOMAIN disk,
           MembersChanged(g, h, S, count), disk' \in MembersSaved(disk, zones', g, ok),
           Halfway(ok) \subseteq hurt',
           Gentle' => \A m \in S : m \in DOMAIN zones /\ NetName(zones[m].name) = NetName(zones[g].name)
    PROVE  MirrorInv'
  <1> DEFINE f == FileOf(g)
             row == [disk[f] EXCEPT !.MEMBER = HostNames(zones', g)]
  <1>1. SUFFICES ASSUME Gentle' PROVE Mirror(zones', disk')
    BY DEF MirrorInv
  <1>2. /\ DOMAIN zones' = DOMAIN zones /\ hurt \subseteq hurt'
        /\ \A c \in DOMAIN zones :
             /\ zones'[c].type = zones[c].type /\ zones'[c].name = zones[c].name
             /\ zones'[c].active = zones[c].active
             /\ zones'[c].InterfaceList = zones[c].InterfaceList
             /\ zones'[c].GroupList = IF c = g THEN S ELSE zones[c].GroupList
    BY DEF MembersChanged, Unmoved
  <1>3. Mirror(zones, disk) /\ Defined /\ MemOK(zones) /\ DiskOK(disk) /\ ok
    BY <1>1, <1>2, MirrorBefore, GentleOK
  <1>4. f = FileIn(zones, g) /\ f \in DOMAIN disk /\ f = [type |-> zones'[g].type, name |-> zones'[g].name]
    BY <1>2, <1>3 DEF FileOf, FileIn
  <1>5. disk' = [disk EXCEPT ![f].MEMBER = HostNames(zones', g)]
    BY <1>3, <1>4 DEF MembersSaved
  <1>6. disk' = [disk EXCEPT ![FileIn(zones, g)] = row]
    BY <1>4, <1>5
  <1>7. /\ row.active = disk[f].active /\ row.MEMBER = HostNames(zones', g)
        /\ row.INTERFACE = disk[f].INTERFACE
    BY <1>3, <1>4, RowLemma
  <1> HIDE DEF row
  <1>8. row.active = zones'[g].active /\ row.INTERFACE = zones'[g].InterfaceList
    BY <1>2, <1>3, <1>4, <1>7 DEF Mirror
  <1>9. Written1(zones, disk, zones', disk', g, row)
    BY <1>1, <1>2, <1>6, <1>7, <1>8 DEF Written1
  <1>10. QED
    BY <1>3, <1>9, MirrorWritten DEF Defined

LEMMA AddMemberMirror ==
    ASSUME BaseInv, CountInv, MirrorInv, ListsInv, NEW g \in DOMAIN zones, NEW h \in DOMAIN zones,
           NEW fault \in BOOLEAN, AddMember(g, h, fault)
    PROVE  MirrorInv' /\ ListsInv'
  <1> DEFINE ok == ~fault /\ FileOf(g) \in DOMAIN disk
             S == zones[g].GroupList \cup {h}
             count == Up(zones[h].refcnt_group)
  <1>1. /\ NetName(zones[g].name) = NetName(zones[h].name)
        /\ disk' \in MembersSaved(disk, zones', g, ok)
        /\ Halfway(ok) \subseteq hurt' /\ hurt \subseteq hurt' /\ ok \in BOOLEAN
        /\ rules' = rules /\ savedRules' = savedRules /\ blocked' = blocked
        /\ savedBlocked' = savedBlocked
    BY DEF AddMember, End
  <1>2. MembersChanged(g, h, S, count)
    BY AddMemberBase
  <1>3. ASSUME Gentle', NEW m \in S
        PROVE  m \in DOMAIN zones /\ NetName(zones[m].name) = NetName(zones[g].name)
    <2>1. Mirror(zones, disk) /\ Defined
      BY <1>1, <1>3, MirrorBefore
    <2>2. QED
      BY <1>1, <1>3, <2>1 DEF Mirror, Defined
  <1>4. ok => FileOf(g) \in DOMAIN disk
    OBVIOUS
  <1> HIDE DEF ok, S, count
  <1>5. MirrorInv'
    BY <1>1, <1>2, <1>3, <1>4, MembersMirrored
  <1>6. QED
    BY <1>1, <1>5, ListsSame

LEMMA RemMemberMirror ==
    ASSUME BaseInv, CountInv, MirrorInv, ListsInv, NEW g \in DOMAIN zones, NEW h \in DOMAIN zones,
           NEW fault \in BOOLEAN, RemMember(g, h, fault)
    PROVE  MirrorInv' /\ ListsInv'
  <1> DEFINE ok == ~fault /\ FileOf(g) \in DOMAIN disk
             S == zones[g].GroupList \ {h}
             count == Down(zones[h].refcnt_group)
  <1>1. /\ disk' \in MembersSaved(disk, zones', g, ok)
        /\ Halfway(ok) \subseteq hurt' /\ hurt \subseteq hurt' /\ ok \in BOOLEAN
        /\ rules' = rules /\ savedRules' = savedRules /\ blocked' = blocked
        /\ savedBlocked' = savedBlocked
    BY DEF RemMember, End
  <1>2. MembersChanged(g, h, S, count)
    BY RemMemberBase
  <1>3. ASSUME Gentle', NEW m \in S
        PROVE  m \in DOMAIN zones /\ NetName(zones[m].name) = NetName(zones[g].name)
    <2>1. Mirror(zones, disk) /\ Defined
      BY <1>1, <1>3, MirrorBefore
    <2>2. QED
      BY <1>3, <2>1 DEF Mirror, Defined
  <1>4. ok => FileOf(g) \in DOMAIN disk
    OBVIOUS
  <1> HIDE DEF ok, S, count
  <1>5. MirrorInv'
    BY <1>1, <1>2, <1>3, <1>4, MembersMirrored
  <1>6. QED
    BY <1>1, <1>5, ListsSame

(* One interface more or less. *)
LEMMA IfacesMirrored ==
    ASSUME BaseInv, CountInv, MirrorInv, NEW n \in DOMAIN zones, NEW i, NEW S, NEW count,
           NEW ok \in BOOLEAN, ok => FileOf(n) \in DOMAIN disk,
           IfacesChanged(n, i, S, count), disk' \in InterfacesSaved(disk, zones', n, ok),
           Halfway(ok) \subseteq hurt'
    PROVE  MirrorInv'
  <1> DEFINE f == FileOf(n)
             row == [disk[f] EXCEPT !.INTERFACE = zones'[n].InterfaceList]
  <1>1. SUFFICES ASSUME Gentle' PROVE Mirror(zones', disk')
    BY DEF MirrorInv
  <1>2. /\ DOMAIN zones' = DOMAIN zones /\ hurt \subseteq hurt'
        /\ \A c \in DOMAIN zones :
             /\ zones'[c].type = zones[c].type /\ zones'[c].name = zones[c].name
             /\ zones'[c].active = zones[c].active
             /\ zones'[c].GroupList = zones[c].GroupList
             /\ c # n => zones'[c].InterfaceList = zones[c].InterfaceList
    BY DEF IfacesChanged, Unmoved
  <1>3. Mirror(zones, disk) /\ Defined /\ MemOK(zones) /\ DiskOK(disk) /\ ok
    BY <1>1, <1>2, MirrorBefore, GentleOK
  <1>4. f = FileIn(zones, n) /\ f \in DOMAIN disk /\ f = [type |-> zones'[n].type, name |-> zones'[n].name]
    BY <1>2, <1>3 DEF FileOf, FileIn
  <1>5. disk' = [disk EXCEPT ![f].INTERFACE = zones'[n].InterfaceList]
    BY <1>3, <1>4 DEF InterfacesSaved
  <1>6. disk' = [disk EXCEPT ![FileIn(zones, n)] = row]
    BY <1>4, <1>5
  <1>7. /\ row.active = disk[f].active /\ row.MEMBER = disk[f].MEMBER
        /\ row.INTERFACE = zones'[n].InterfaceList
    BY <1>3, <1>4, RowLemma
  <1> HIDE DEF row
  <1>8. HostNames(zones', n) = HostNames(zones, n)
    <2>1. \A h \in zones[n].GroupList : zones'[h].name = zones[h].name
      BY <1>2, <1>3 DEF Defined
    <2>2. QED
      BY <1>2, <2>1 DEF HostNames
  <1>9. /\ row.active = zones'[n].active
        /\ zones[n].type = "group" => row.MEMBER = HostNames(zones', n)
        /\ \A h \in zones'[n].GroupList :
             h \in DOMAIN zones /\ NetName(zones[h].name) = NetName(zones[n].name)
    BY <1>2, <1>3, <1>4, <1>7, <1>8 DEF Mirror, Defined
  <1>10. Written1(zones, disk, zones', disk', n, row)
    BY <1>2, <1>6, <1>7, <1>9 DEF Written1
  <1>11. QED
    BY <1>3, <1>10, MirrorWritten DEF Defined

LEMMA AddIfaceMirror ==
    ASSUME BaseInv, CountInv, MirrorInv, ListsInv, NEW n \in DOMAIN zones,
           NEW i \in DOMAIN refcnt_network, NEW fault \in BOOLEAN, AddIface(n, i, fault)
    PROVE  MirrorInv' /\ ListsInv'
  <1> DEFINE ok == ~fault /\ FileOf(n) \in DOMAIN disk
             S == zones[n].InterfaceList \cup {i}
             count == Up(refcnt_network[i])
  <1>1. /\ disk' \in InterfacesSaved(disk, zones', n, ok)
        /\ Halfway(ok) \subseteq hurt' /\ hurt \subseteq hurt' /\ ok \in BOOLEAN
        /\ rules' = rules /\ savedRules' = savedRules /\ blocked' = blocked
        /\ savedBlocked' = savedBlocked
    BY DEF AddIface, End
  <1>2. IfacesChanged(n, i, S, count)
    BY AddIfaceBase
  <1>3. ok => FileOf(n) \in DOMAIN disk
    OBVIOUS
  <1> HIDE DEF ok, S, count
  <1>4. QED
    BY <1>1, <1>2, <1>3, IfacesMirrored, ListsSame

LEMMA RemIfaceMirror ==
    ASSUME BaseInv, CountInv, MirrorInv, ListsInv, NEW n \in DOMAIN zones,
           NEW i \in DOMAIN refcnt_network, NEW fault \in BOOLEAN, RemIface(n, i, fault)
    PROVE  MirrorInv' /\ ListsInv'
  <1> DEFINE ok == ~fault /\ FileOf(n) \in DOMAIN disk
             S == zones[n].InterfaceList \ {i}
             count == Down(refcnt_network[i])
  <1>1. /\ disk' \in InterfacesSaved(disk, zones', n, ok)
        /\ Halfway(ok) \subseteq hurt' /\ hurt \subseteq hurt' /\ ok \in BOOLEAN
        /\ rules' = rules /\ savedRules' = savedRules /\ blocked' = blocked
        /\ savedBlocked' = savedBlocked
    BY DEF RemIface, End
  <1>2. IfacesChanged(n, i, S, count)
    BY RemIfaceBase
  <1>3. ok => FileOf(n) \in DOMAIN disk
    OBVIOUS
  <1> HIDE DEF ok, S, count
  <1>4. QED
    BY <1>1, <1>2, <1>3, IfacesMirrored, ListsSame

LEMMA DeleteIfaceMirror ==
    ASSUME BaseInv, CountInv, MirrorInv, ListsInv, NEW i \in DOMAIN refcnt_network, DeleteIface(i)
    PROVE  MirrorInv' /\ ListsInv'
  <1>1. /\ hurt \subseteq hurt' /\ zones' = zones /\ disk' = disk
        /\ rules' = rules /\ savedRules' = savedRules /\ blocked' = blocked
        /\ savedBlocked' = savedBlocked
    BY DEF DeleteIface, End, backend
  <1>2. QED
    BY <1>1, GentleBefore, ListsSame DEF MirrorInv

LEMMA HostName ==
    ASSUME BaseInv, NEW b \in DOMAIN zones, zones[b].type \in {"host", "group"}
    PROVE  zones[b].name \in HostItem
  <1>1. FileOf(b) \in HostFile /\ FileOf(b).name = zones[b].name /\ zones[b].name \in Name
    BY FileOfLemma, FileParts
  <1>2. QED
    BY <1>1 DEF HostFile, HostItem

LEMMA SavedWhole == ASSUME NEW old, NEW new, NEW s \in ListSaved(old, new, TRUE) PROVE s = new
  BY DEF ListSaved

LEMMA BlockMirror ==
    ASSUME BaseInv, CountInv, MirrorInv, ListsInv, NEW b \in DOMAIN zones, NEW fault \in BOOLEAN,
           Block(b, fault)
    PROVE  MirrorInv' /\ ListsInv'
  <1>1. /\ zones[b].type \in {"host", "group"}
        /\ zones' = IF Counted(b) THEN [zones EXCEPT ![b].refcnt_blocklist = Up(@)] ELSE zones
        /\ blocked' = Append(blocked, zones[b].name)
        /\ savedBlocked' \in ListSaved(savedBlocked, blocked', ~fault)
        /\ Halfway(~fault) \subseteq hurt' /\ hurt \subseteq hurt'
        /\ rules' = rules /\ savedRules' = savedRules /\ disk' = disk
    BY DEF Block, End
  <1>2. /\ DOMAIN zones' = DOMAIN zones
        /\ \A c \in DOMAIN zones :
             /\ zones'[c].type = zones[c].type /\ zones'[c].name = zones[c].name
             /\ zones'[c].active = zones[c].active /\ zones'[c].GroupList = zones[c].GroupList
             /\ zones'[c].InterfaceList = zones[c].InterfaceList
    <2> DEFINE r == [zones[b] EXCEPT !.refcnt_blocklist = Up(zones[b].refcnt_blocklist)]
    <2>1. zones \in [DOMAIN zones -> ZoneData] /\ zones[b] \in ZoneData
      BY DEF BaseInv, TypeOK
    <2>2. /\ r.type = zones[b].type /\ r.name = zones[b].name /\ r.active = zones[b].active
          /\ r.GroupList = zones[b].GroupList /\ r.InterfaceList = zones[b].InterfaceList
      BY <2>1 DEF ZoneData
    <2>3. zones' = zones \/ zones' = [zones EXCEPT ![b] = r]
      BY <1>1
    <2> HIDE DEF r
    <2>4. QED
      BY <2>1, <2>2, <2>3
  <1>3. MirrorInv'
    <2>1. SUFFICES ASSUME Gentle' PROVE Mirror(zones', disk')
      BY DEF MirrorInv
    <2>2. Mirror(zones, disk) /\ Defined
      BY <1>1, <2>1, MirrorBefore
    <2>3. \A c \in DOMAIN zones : zones[c].GroupList \subseteq DOMAIN zones
      BY <2>2 DEF Defined
    <2>4. QED
      BY <1>1, <1>2, <2>2, <2>3, MirrorSame
  <1>4. ItemsHosts(blocked')
    BY <1>1, HostName DEF ListsInv, ItemsHosts
  <1>5. ItemsHosts(savedBlocked')
    BY <1>1, <1>4, ListSavedLemma DEF ListsInv, ItemsHosts
  <1>6. ASSUME Gentle' PROVE blocked' = savedBlocked'
    <2>1. ~fault
      BY <1>1, <1>6, GentleOK
    <2>2. QED
      BY <1>1, <2>1, SavedWhole
  <1>7. QED
    BY <1>1, <1>3, <1>4, <1>5, <1>6, GentleBefore DEF ListsInv

LEMMA UnblockMirror ==
    ASSUME BaseInv, CountInv, MirrorInv, ListsInv, NEW n \in ToSet(blocked), NEW fault \in BOOLEAN,
           Unblock(n, fault)
    PROVE  MirrorInv' /\ ListsInv'
  <1>1. /\ zones' \in IF Search(n) = {} THEN {zones}
                      ELSE {[zones EXCEPT ![b].refcnt_blocklist = IF @ > 0 THEN @ - 1 ELSE 0] :
                              b \in Search(n)}
        /\ blocked' = RemoveFirst(blocked, n)
        /\ savedBlocked' \in ListSaved(savedBlocked, blocked', ~fault)
        /\ Halfway(~fault) \subseteq hurt' /\ hurt \subseteq hurt'
        /\ rules' = rules /\ savedRules' = savedRules /\ disk' = disk
    BY DEF Unblock, End
  <1>2. /\ DOMAIN zones' = DOMAIN zones
        /\ \A c \in DOMAIN zones :
             /\ zones'[c].type = zones[c].type /\ zones'[c].name = zones[c].name
             /\ zones'[c].active = zones[c].active /\ zones'[c].GroupList = zones[c].GroupList
             /\ zones'[c].InterfaceList = zones[c].InterfaceList
    <2>1. CASE zones' = zones
      BY <2>1
    <2>2. CASE zones' # zones
      <3>1. PICK b \in DOMAIN zones :
               zones' = [zones EXCEPT ![b].refcnt_blocklist = IF @ > 0 THEN @ - 1 ELSE 0]
        BY <1>1, <2>2 DEF Search
      <3> DEFINE k == IF zones[b].refcnt_blocklist > 0 THEN zones[b].refcnt_blocklist - 1 ELSE 0
                 r == [zones[b] EXCEPT !.refcnt_blocklist = k]
      <3>2. zones \in [DOMAIN zones -> ZoneData] /\ zones[b] \in ZoneData
        BY DEF BaseInv, TypeOK
      <3>3. zones' = [zones EXCEPT ![b] = r]
        BY <3>1
      <3> HIDE DEF k
      <3>4. /\ r.type = zones[b].type /\ r.name = zones[b].name /\ r.active = zones[b].active
            /\ r.GroupList = zones[b].GroupList /\ r.InterfaceList = zones[b].InterfaceList
        BY <3>2 DEF ZoneData
      <3> HIDE DEF r
      <3>5. QED
        BY <3>2, <3>3, <3>4
    <2>3. QED
      BY <2>1, <2>2
  <1>3. MirrorInv'
    <2>1. SUFFICES ASSUME Gentle' PROVE Mirror(zones', disk')
      BY DEF MirrorInv
    <2>2. Mirror(zones, disk) /\ Defined
      BY <1>1, <2>1, MirrorBefore
    <2>3. \A c \in DOMAIN zones : zones[c].GroupList \subseteq DOMAIN zones
      BY <2>2 DEF Defined
    <2>4. QED
      BY <1>1, <1>2, <2>2, <2>3, MirrorSame
  <1>4. ItemsHosts(blocked')
    BY <1>1, RemoveFirstLemma DEF ListsInv, ItemsHosts
  <1>5. ItemsHosts(savedBlocked')
    BY <1>1, <1>4, ListSavedLemma DEF ListsInv, ItemsHosts
  <1>6. ASSUME Gentle' PROVE blocked' = savedBlocked'
    <2>1. ~fault
      BY <1>1, <1>6, GentleOK
    <2>2. QED
      BY <1>1, <2>1, SavedWhole
  <1>7. QED
    BY <1>1, <1>3, <1>4, <1>5, <1>6, GentleBefore DEF ListsInv

LEMMA NewZoneMirror ==
    ASSUME BaseInv, CountInv, MirrorInv, ListsInv, NEW f \in File, NEW fault \in BOOLEAN,
           NewZone(f, fault)
    PROVE  MirrorInv' /\ ListsInv'
  <1> DEFINE row == [active |-> FALSE, MEMBER |-> {}, INTERFACE |-> {}]
             created == With(disk, f, row)
             fits == f \notin DOMAIN disk /\ Parents(f) \subseteq DOMAIN disk
             done == fits /\ disk' = created
             r == NewData(f)
  <1>1. /\ Halfway(done) \subseteq hurt' /\ hurt \subseteq hurt' /\ done \in BOOLEAN
        /\ Search(f.name) = {}
        /\ rules' = rules /\ savedRules' = savedRules /\ blocked' = blocked
        /\ savedBlocked' = savedBlocked
    BY DEF NewZone, End
  <1>2. NewZoneDone(f)
    BY NewZoneBase
  <1>3. PICK n \in File \ DOMAIN zones : zones' = With(zones, n, r)
    BY <1>2 DEF NewZoneDone
  <1>4. /\ r.type = f.type /\ r.name = f.name /\ r.active = FALSE
        /\ r.GroupList = {} /\ r.InterfaceList = {}
    BY DEF NewData
  <1> HIDE DEF r
  <1>5. /\ DOMAIN zones' = DOMAIN zones \cup {n} /\ zones'[n] = r
        /\ \A b \in DOMAIN zones : zones'[b] = zones[b]
    BY <1>3 DEF With
  <1>6. SUFFICES ASSUME Gentle' PROVE Mirror(zones', disk')
    BY <1>1, ListsSame DEF MirrorInv
  <1>7. Mirror(zones, disk) /\ Defined /\ MemOK(zones) /\ DiskOK(disk)
    BY <1>1, <1>6, MirrorBefore
  <1>8. done
    <2> HIDE DEF done
    <2>1. QED
      BY <1>1, <1>6, GentleOK
  <1>9. /\ DOMAIN disk' = DOMAIN disk \cup {f} /\ f \notin DOMAIN disk
        /\ disk'[f] = row /\ \A g \in DOMAIN disk : disk'[g] = disk[g]
    BY <1>8 DEF With
  <1>row. row.active = FALSE /\ row.MEMBER = {} /\ row.INTERFACE = {}
    OBVIOUS
  <1> HIDE DEF row
  <1>10. /\ FileIn(zones', n) = f
         /\ \A b \in DOMAIN zones : FileIn(zones', b) = FileIn(zones, b) /\ FileIn(zones, b) \in DOMAIN disk
    <2>1. f = [type |-> f.type, name |-> f.name]
      BY FileLemma
    <2>2. QED
      BY <1>4, <1>5, <1>7, <2>1 DEF FileIn, Mirror
  <1>11. NamesUnique(zones')
    BY <1>1, <1>4, <1>5, <1>7 DEF Mirror, NamesUnique, Search
  <1>12. DOMAIN disk' = {FileIn(zones', b) : b \in DOMAIN zones'}
    <2>1. DOMAIN disk = {FileIn(zones, b) : b \in DOMAIN zones}
      BY <1>7 DEF Mirror
    <2>2. ASSUME NEW g \in DOMAIN disk' PROVE \E b \in DOMAIN zones' : g = FileIn(zones', b)
      BY <1>5, <1>9, <1>10, <2>1
    <2>3. \A b \in DOMAIN zones' : FileIn(zones', b) \in DOMAIN disk'
      BY <1>5, <1>9, <1>10
    <2>4. QED
      BY <2>2, <2>3
  <1>13. ASSUME NEW b \in DOMAIN zones'
         PROVE  /\ disk'[FileIn(zones', b)].active = zones'[b].active
                /\ disk'[FileIn(zones', b)].INTERFACE = zones'[b].InterfaceList
                /\ zones'[b].type = "group" => disk'[FileIn(zones', b)].MEMBER = HostNames(zones', b)
                /\ \A h \in zones'[b].GroupList : NetName(zones'[h].name) = NetName(zones'[b].name)
    <2>1. CASE b = n
      <3>1. HostNames(zones', b) = {} /\ zones'[b].GroupList = {}
        BY <1>4, <1>5, <2>1 DEF HostNames
      <3>2. disk'[FileIn(zones', b)] = row /\ zones'[b] = r
        BY <1>5, <1>9, <1>10, <2>1
      <3>3. QED
        BY <1>4, <1>row, <3>1, <3>2
    <2>2. CASE b # n
      <3>1. b \in DOMAIN zones /\ zones'[b] = zones[b] /\ disk'[FileIn(zones', b)] = disk[FileIn(zones, b)]
        BY <1>5, <1>9, <1>10, <2>2
      <3>2. \A h \in zones[b].GroupList : zones'[h] = zones[h]
        BY <1>5, <1>7, <3>1 DEF Defined
      <3>3. HostNames(zones', b) = HostNames(zones, b)
        BY <3>1, <3>2 DEF HostNames
      <3>4. /\ disk[FileIn(zones, b)].active = zones[b].active
            /\ disk[FileIn(zones, b)].INTERFACE = zones[b].InterfaceList
            /\ zones[b].type = "group" => disk[FileIn(zones, b)].MEMBER = HostNames(zones, b)
            /\ \A h \in zones[b].GroupList : NetName(zones[h].name) = NetName(zones[b].name)
        BY <1>7, <3>1 DEF Mirror
      <3>5. QED
        BY <3>1, <3>2, <3>3, <3>4
    <2>3. QED
      BY <2>1, <2>2
  <1>14. QED
    BY <1>11, <1>12, <1>13 DEF Mirror

LEMMA DeleteZoneMirror ==
    ASSUME BaseInv, CountInv, MirrorInv, ListsInv, NEW b \in DOMAIN zones, NEW fault \in BOOLEAN,
           DeleteZone(b, fault)
    PROVE  MirrorInv' /\ ListsInv'
  <1> DEFINE f  == FileOf(b)
             ok == ~fault /\ f \in DOMAIN disk /\ \A g \in DOMAIN disk : f \notin Parents(g)
             R == Released(b)[1]
             same == Released(b) = <<zones, refcnt_network>>
  <1>1. /\ ~ Referenced(b)
        /\ zones' = IF ok THEN Without(R, b) ELSE R
        /\ disk' = IF ok THEN Without(disk, f) ELSE disk
        /\ ~ok /\ ~same => "delete" \in hurt'
        /\ hurt \subseteq hurt'
        /\ rules' = rules /\ savedRules' = savedRules /\ blocked' = blocked
        /\ savedBlocked' = savedBlocked
    BY DEF DeleteZone, End
  <1>2. SUFFICES ASSUME Gentle' PROVE Mirror(zones', disk')
    BY <1>1, ListsSame DEF MirrorInv
  <1>3. Mirror(zones, disk) /\ Defined /\ MembersCounted
    BY <1>1, <1>2, MirrorBefore
  <1>4. CASE ~ok
    <2>1. same
      BY <1>1, <1>2, <1>4 DEF Gentle
    <2>2. R = zones
      BY <2>1
    <2> HIDE DEF R, ok
    <2>3. zones' = zones /\ disk' = disk
      BY <1>1, <1>4, <2>2
    <2>4. QED
      BY <1>3, <2>3
  <1>5. CASE ok
    <2>1. /\ DOMAIN R = DOMAIN zones
          /\ \A c \in DOMAIN zones :
               /\ R[c].type = zones[c].type /\ R[c].name = zones[c].name /\ R[c].active = zones[c].active
               /\ R[c].GroupList = zones[c].GroupList /\ R[c].InterfaceList = zones[c].InterfaceList
      BY ReleasedLemma
    <2>2. zones' = Without(R, b) /\ disk' = Without(disk, f)
      BY <1>1, <1>5
    <2> HIDE DEF R, ok
    <2>3. /\ DOMAIN zones' = DOMAIN zones \ {b} /\ DOMAIN disk' = DOMAIN disk \ {f}
          /\ \A g \in DOMAIN disk' : disk'[g] = disk[g]
          /\ \A c \in DOMAIN zones' :
               /\ zones'[c].type = zones[c].type /\ zones'[c].name = zones[c].name
               /\ zones'[c].active = zones[c].active
               /\ zones'[c].GroupList = zones[c].GroupList
               /\ zones'[c].InterfaceList = zones[c].InterfaceList
      BY <2>1, <2>2 DEF Without, Restrict
    <2>4. f = FileIn(zones, b) /\ \A c \in DOMAIN zones' : FileIn(zones', c) = FileIn(zones, c)
      BY <2>3 DEF FileOf, FileIn
    <2>5. NamesUnique(zones) /\ NamesUnique(zones')
      BY <1>3, <2>3 DEF Mirror, NamesUnique
    <2>6. \A c \in DOMAIN zones' : FileIn(zones, c) # f /\ FileIn(zones, c) \in DOMAIN disk'
      BY <1>3, <2>3, <2>4, <2>5 DEF Mirror, FileIn, NamesUnique
    <2>7. DOMAIN disk' = {FileIn(zones', c) : c \in DOMAIN zones'}
      <3>1. ASSUME NEW g \in DOMAIN disk' PROVE \E c \in DOMAIN zones' : g = FileIn(zones', c)
        BY <1>3, <2>3, <2>4 DEF Mirror
      <3>2. QED
        BY <2>4, <2>6, <3>1
    <2>8. ASSUME NEW c \in DOMAIN zones'
          PROVE  /\ disk'[FileIn(zones', c)].active = zones'[c].active
                 /\ disk'[FileIn(zones', c)].INTERFACE = zones'[c].InterfaceList
                 /\ zones'[c].type = "group" => disk'[FileIn(zones', c)].MEMBER = HostNames(zones', c)
                 /\ \A h \in zones'[c].GroupList : NetName(zones'[h].name) = NetName(zones'[c].name)
      <3>1. disk'[FileIn(zones', c)] = disk[FileIn(zones, c)] /\ c \in DOMAIN zones
        BY <2>3, <2>4, <2>6
      <3>2. b \notin zones[c].GroupList
        BY <1>1, <1>3, <3>1, NotReferenced
      <3>3. \A h \in zones[c].GroupList : h \in DOMAIN zones' /\ zones'[h].name = zones[h].name
        BY <1>3, <2>3, <3>1, <3>2 DEF Defined
      <3>4. zones'[c].GroupList = zones[c].GroupList
        BY <2>3
      <3>5. HostNames(zones', c) = HostNames(zones, c)
        BY <3>3, <3>4 DEF HostNames
      <3>6. QED
        BY <1>3, <2>3, <3>1, <3>3, <3>5 DEF Mirror
    <2>9. QED
      BY <2>5, <2>7, <2>8 DEF Mirror
  <1>6. QED
    BY <1>4, <1>5

LEMMA NothingReplaced ==
    ASSUME NEW A, NEW s \in Seq(A), NEW old, NEW new, ~ Contains(s, old)
    PROVE  ReplaceAll(s, old, new) = s
  <1>1. \A i \in 1..Len(s) : s[i] # old
    BY DEF Contains
  <1>2. s = [i \in 1..Len(s) |-> s[i]] /\ DOMAIN s = 1..Len(s)
    OBVIOUS
  <1>3. QED
    BY <1>1, <1>2 DEF ReplaceAll

(* The file of a host or a group is called by the new name, and the groups it
   is in say so. *)
HostFileRenamed(z, d, y, e, b, new) ==
    LET from == FileIn(z, b)
        to   == [type |-> z[b].type, name |-> new]
        S    == IF z[b].type = "host" THEN GroupsNaming(y, new) ELSE {}
    IN
    /\ DOMAIN y = DOMAIN z
    /\ \A c \in DOMAIN z :
         /\ y[c].name = IF c = b THEN new ELSE z[c].name
         /\ y[c].type = z[c].type /\ y[c].active = z[c].active
         /\ y[c].GroupList = z[c].GroupList /\ y[c].InterfaceList = z[c].InterfaceList
    /\ z[b].type \in {"host", "group"}
    /\ \A c \in DOMAIN z : z[c].name # new
    /\ NetName(new) = NetName(z[b].name)
    /\ e = AllSaved(With(Without(d, from), to, d[from]), y, S)

LEMMA MirrorHostRenamed ==
    ASSUME NEW z, NEW d, NEW y, NEW e, Mirror(z, d), MemOK(z), DiskOK(d), NEW b \in DOMAIN z, NEW new,
           \A c \in DOMAIN z : z[c].GroupList \subseteq DOMAIN z,
           HostFileRenamed(z, d, y, e, b, new)
    PROVE  Mirror(y, e)
  <1> DEFINE from == FileIn(z, b)
             to == [type |-> z[b].type, name |-> new]
             S == IF z[b].type = "host" THEN GroupsNaming(y, new) ELSE {}
             m == With(Without(d, from), to, d[from])
  <1>1. /\ DOMAIN y = DOMAIN z
        /\ \A c \in DOMAIN z :
             /\ y[c].name = IF c = b THEN new ELSE z[c].name
             /\ y[c].type = z[c].type /\ y[c].active = z[c].active
             /\ y[c].GroupList = z[c].GroupList /\ y[c].InterfaceList = z[c].InterfaceList
        /\ z[b].type \in {"host", "group"}
        /\ \A c \in DOMAIN z : z[c].name # new
        /\ NetName(new) = NetName(z[b].name)
        /\ e = AllSaved(m, y, S)
    BY DEF HostFileRenamed
  <1>2. NamesUnique(z) /\ NamesUnique(y)
    BY <1>1 DEF Mirror, NamesUnique
  <1>3. /\ DOMAIN d = {FileIn(z, c) : c \in DOMAIN z}
        /\ \A c \in DOMAIN z : /\ FileIn(z, c) \in DOMAIN d /\ FileIn(z, c).name = z[c].name
                               /\ FileIn(y, c).name = y[c].name /\ FileIn(y, c).type = y[c].type
    BY DEF Mirror, FileIn
  <1>4. FileIn(y, b) = to /\ \A c \in DOMAIN z \ {b} : FileIn(y, c) = FileIn(z, c)
    BY <1>1 DEF FileIn
  <1>5. to \notin DOMAIN d /\ \A c \in DOMAIN z \ {b} : FileIn(z, c) # from
    <2>1. to.name = new
      OBVIOUS
    <2>2. \A c \in DOMAIN z : FileIn(z, c) # to
      BY <1>1, <1>3, <2>1
    <2>3. \A c \in DOMAIN z \ {b} : z[c].name # z[b].name
      BY <1>2 DEF NamesUnique
    <2>4. QED
      BY <1>3, <2>2, <2>3
  <1>6. from \in DOMAIN d
    BY <1>3
  <1> HIDE DEF from, to
  <1>7. /\ DOMAIN m = (DOMAIN d \ {from}) \cup {to} /\ m[to] = d[from]
        /\ \A f \in DOMAIN d \ {from} : m[f] = d[f]
    BY <1>5 DEF With, Without, Restrict
  <1>8. m[FileIn(y, b)] = d[from] /\ \A c \in DOMAIN z : m[FileIn(y, c)] = d[FileIn(z, c)]
    BY <1>3, <1>4, <1>5, <1>7 DEF from
  <1>9. DOMAIN m = {FileIn(y, c) : c \in DOMAIN y}
    <2>1. ASSUME NEW f \in DOMAIN m PROVE \E c \in DOMAIN y : f = FileIn(y, c)
      <3>1. CASE f = to
        BY <1>1, <1>4, <3>1
      <3>2. CASE f # to
        <4>1. f \in DOMAIN d /\ f # from
          BY <1>7, <3>2
        <4>2. PICK c \in DOMAIN z : f = FileIn(z, c)
          BY <1>3, <4>1
        <4>3. QED
          BY <1>1, <1>4, <4>1, <4>2 DEF from
      <3>3. QED
        BY <3>1, <3>2
    <2>2. ASSUME NEW c \in DOMAIN y PROVE FileIn(y, c) \in DOMAIN m
      <3>1. CASE c = b
        BY <1>4, <1>7, <3>1
      <3>2. CASE c # b
        BY <1>1, <1>3, <1>4, <1>5, <1>7, <3>2
      <3>3. QED
        BY <3>1, <3>2
    <2>3. QED
      BY <2>1, <2>2
  <1>10. DOMAIN e = DOMAIN m
    BY <1>1 DEF AllSaved
  <1>11. ASSUME NEW c \in DOMAIN z PROVE y[c].GroupList = z[c].GroupList /\ y[c].GroupList \subseteq DOMAIN z
    BY <1>1
  <1>12. ASSUME NEW c \in DOMAIN z, b \notin z[c].GroupList PROVE HostNames(y, c) = HostNames(z, c)
    <2>1. \A h \in z[c].GroupList : y[h].name = z[h].name
      BY <1>1, <1>11, <1>12
    <2>2. QED
      BY <1>11, <2>1 DEF HostNames
  <1>13. \A g \in S : g \in DOMAIN y /\ y[g].type = "group" /\ b \in y[g].GroupList
    <2>1. SUFFICES ASSUME NEW g \in S PROVE g \in DOMAIN y /\ y[g].type = "group" /\ b \in y[g].GroupList
      OBVIOUS
    <2>2. /\ g \in DOMAIN y /\ y[g].type = "group"
          /\ \E h \in y[g].GroupList : y[h].name = new
      BY <2>1 DEF GroupsNaming, Groups
    <2>3. PICK h \in y[g].GroupList : y[h].name = new
      BY <2>2
    <2>4. h \in DOMAIN z
      BY <1>1, <1>11, <2>2
    <2>5. h = b
      BY <1>1, <2>3, <2>4
    <2>6. QED
      BY <2>2, <2>3, <2>5
  <1>14. ASSUME NEW c \in DOMAIN z, z[c].type = "group", b \in z[c].GroupList PROVE c \in S
    <2>1. z[b].type = "host"
      BY <1>14 DEF MemOK
    <2>2. c \in Groups(y) /\ y[b].name = new /\ b \in y[c].GroupList
      BY <1>1, <1>14 DEF Groups
    <2>3. c \in GroupsNaming(y, new)
      BY <2>2 DEF GroupsNaming
    <2>4. QED
      BY <2>1, <2>3
  <1> HIDE DEF S, m
  <1>15. ASSUME NEW c \in DOMAIN z
         PROVE  e[FileIn(y, c)] = IF c \in S THEN [d[FileIn(z, c)] EXCEPT !.MEMBER = HostNames(y, c)]
                                  ELSE d[FileIn(z, c)]
    <2> DEFINE f == FileIn(y, c)
    <2>1. f \in DOMAIN m /\ f.name = y[c].name /\ f.type = y[c].type /\ m[f] = d[FileIn(z, c)]
      BY <1>1, <1>3, <1>8, <1>9
    <2> HIDE DEF f
    <2>2. e[f] = IF \E g \in S : y[g].name = f.name /\ f.type = "group"
                 THEN [m[f] EXCEPT !.MEMBER = HostNames(y, CHOOSE g \in S : y[g].name = f.name)]
                 ELSE m[f]
      BY <1>1, <2>1 DEF AllSaved
    <2>3. \A g \in S : y[g].name = f.name <=> g = c
      BY <1>1, <1>2, <1>13, <2>1 DEF NamesUnique
    <2>4. CASE c \in S
      <3>1. f.type = "group"
        BY <1>13, <2>1, <2>4
      <3>2. (CHOOSE g \in S : y[g].name = f.name) = c
        BY <2>3, <2>4
      <3>3. QED
        BY <2>1, <2>2, <2>3, <2>4, <3>1, <3>2 DEF f
    <2>5. CASE c \notin S
      BY <2>1, <2>2, <2>3, <2>5 DEF f
    <2>6. QED
      BY <2>4, <2>5
  <1>16. ASSUME NEW c \in DOMAIN z
         PROVE  /\ e[FileIn(y, c)].active = y[c].active
                /\ e[FileIn(y, c)].INTERFACE = y[c].InterfaceList
                /\ y[c].type = "group" => e[FileIn(y, c)].MEMBER = HostNames(y, c)
    <2>1. /\ d[FileIn(z, c)].active = z[c].active
          /\ d[FileIn(z, c)].INTERFACE = z[c].InterfaceList
          /\ z[c].type = "group" => d[FileIn(z, c)].MEMBER = HostNames(z, c)
      BY DEF Mirror
    <2>2. CASE c \in S
      <3> DEFINE r == [d[FileIn(z, c)] EXCEPT !.MEMBER = HostNames(y, c)]
      <3>1. e[FileIn(y, c)] = r
        BY <1>15, <2>2
      <3>2. r.active = d[FileIn(z, c)].active /\ r.INTERFACE = d[FileIn(z, c)].INTERFACE
            /\ r.MEMBER = HostNames(y, c)
        BY <1>3, RowLemma
      <3> HIDE DEF r
      <3>3. QED
        BY <1>1, <2>1, <3>1, <3>2
    <2>3. CASE c \notin S
      <3>1. e[FileIn(y, c)] = d[FileIn(z, c)]
        BY <1>15, <2>3
      <3>2. z[c].type = "group" => HostNames(y, c) = HostNames(z, c)
        BY <1>12, <1>14, <2>3
      <3>3. QED
        BY <1>1, <2>1, <3>1, <3>2
    <2>4. QED
      BY <2>2, <2>3
  <1>17. ASSUME NEW c \in DOMAIN z, NEW h \in y[c].GroupList
         PROVE  NetName(y[h].name) = NetName(y[c].name)
    <2>1. h \in z[c].GroupList /\ h \in DOMAIN z
      BY <1>11, <1>17
    <2>2. NetName(z[h].name) = NetName(z[c].name)
      BY <2>1 DEF Mirror
    <2>3. \A x \in DOMAIN z : NetName(y[x].name) = NetName(z[x].name)
      BY <1>1
    <2>4. QED
      BY <2>1, <2>2, <2>3
  <1>18. QED
    BY <1>1, <1>2, <1>9, <1>10, <1>16, <1>17 DEF Mirror

LEMMA RenameHostGroupMirror ==
    ASSUME BaseInv, CountInv, MirrorInv, ListsInv, NEW b \in DOMAIN zones, NEW part \in HostParts,
           NEW at \in Stages, RenameHostGroup(b, part, at)
    PROVE  MirrorInv' /\ ListsInv'
  <1> DEFINE old     == zones[b].name
             new     == [old EXCEPT !.host = part]
             from    == FileOf(b)
             to      == [from EXCEPT !.name = new]
             renamed == [zones EXCEPT ![b].name = new]
             groups  == IF zones[b].type = "host" THEN GroupsNaming(renamed, new) ELSE {}
             moved   == With(Without(disk, from), to, disk[from])
             ok      == at = "none" /\ Written(moved, renamed, groups)
             taken   == IF Search(new) # {} \/ to \in DOMAIN disk THEN {"clash"} ELSE {}
  <1>1. CASE at = "rename" \/ from \notin DOMAIN disk
    <2>1. End(FALSE, {}) /\ UNCHANGED <<memory, backend>>
      BY <1>1 DEF RenameHostGroup
    <2>2. /\ hurt' = hurt /\ zones' = zones /\ disk' = disk /\ rules' = rules
          /\ savedRules' = savedRules /\ blocked' = blocked /\ savedBlocked' = savedBlocked
      BY <2>1 DEF End, memory, backend
    <2>3. QED
      BY <2>2, GentleBefore, ListsSame DEF MirrorInv
  <1>2. CASE ~ (at = "rename" \/ from \notin DOMAIN disk)
    <2>1. /\ zones' = renamed
          /\ rules' = ReplaceAll(rules, old, new)
          /\ savedRules' \in IF Contains(rules, old)
                             THEN ListSaved(savedRules, rules', at # "rules") ELSE {savedRules}
          /\ blocked' = IF at = "rules" THEN blocked ELSE ReplaceAll(blocked, old, new)
          /\ savedBlocked' \in IF blocked' # blocked
                               THEN ListSaved(savedBlocked, blocked', at # "blocklist")
                               ELSE {savedBlocked}
          /\ disk' \in IF at \in {"rules", "blocklist"} THEN {moved}
                       ELSE GroupsSaved(moved, renamed, groups, ok)
          /\ hurt' = hurt \cup (Halfway(ok) \cup taken)
      BY <1>2 DEF RenameHostGroup, End
    <2>2. /\ zones[b].type \in {"host", "group"} /\ from \in DOMAIN disk
          /\ zones[b] \in ZoneData /\ old \in Name /\ zones \in [DOMAIN zones -> ZoneData]
          /\ from = FileIn(zones, b)
      BY <1>2, FileOfLemma DEF RenameHostGroup, BaseInv, TypeOK, FileOf, FileIn
    <2>3. /\ new \in HostItem /\ NetName(new) = NetName(old)
          /\ to = [type |-> zones[b].type, name |-> new]
      BY <2>2 DEF Name, HostItem, NetName, FileIn
    <2>4. taken \subseteq hurt' /\ Halfway(ok) \subseteq hurt' /\ hurt \subseteq hurt' /\ ok \in BOOLEAN
      BY <2>1
    <2>5. (at \in {"rules", "blocklist"} => ~ok) /\ (ok => at = "none")
      OBVIOUS
    <2>6. Search(new) # {} => "clash" \in taken
      OBVIOUS
    <2>7. ok => GroupsSaved(moved, renamed, groups, ok) = {AllSaved(moved, renamed, groups)}
      <3> HIDE DEF moved, renamed, groups, ok
      <3>1. QED
        BY DEF GroupsSaved
    <2>8. /\ DOMAIN zones' = DOMAIN zones
          /\ \A c \in DOMAIN zones :
               /\ zones'[c].name = IF c = b THEN new ELSE zones[c].name
               /\ zones'[c].type = zones[c].type /\ zones'[c].active = zones[c].active
               /\ zones'[c].GroupList = zones[c].GroupList
               /\ zones'[c].InterfaceList = zones[c].InterfaceList
      <3> DEFINE r == [zones[b] EXCEPT !.name = new]
      <3>1. zones' = [zones EXCEPT ![b] = r]
        BY <2>1
      <3> HIDE DEF new
      <3>2. /\ r.name = new /\ r.type = zones[b].type /\ r.active = zones[b].active
            /\ r.GroupList = zones[b].GroupList /\ r.InterfaceList = zones[b].InterfaceList
        BY <2>2 DEF ZoneData
      <3> HIDE DEF r
      <3>3. QED
        BY <2>2, <3>1, <3>2
    <2>9. MirrorInv'
      <3>1. SUFFICES ASSUME Gentle' PROVE Mirror(zones', disk')
        BY DEF MirrorInv
      <3>2. Mirror(zones, disk) /\ Defined /\ MemOK(zones) /\ DiskOK(disk)
        BY <2>4, <3>1, MirrorBefore
      <3>3. ok
        <4> HIDE DEF ok
        <4>1. QED
          BY <2>4, <3>1, GentleOK
      <3>4. Search(new) = {}
        <4> HIDE DEF taken
        <4>1. QED
          BY <2>4, <2>6, <3>1 DEF Gentle
      <3> DEFINE S == IF zones[b].type = "host" THEN GroupsNaming(zones', new) ELSE {}
      <3>5. groups = S
        BY <2>1
      <3>6. disk' = AllSaved(moved, renamed, groups)
        <4> HIDE DEF ok, moved, renamed, groups
        <4>1. QED
          BY <2>1, <2>5, <2>7, <3>3
      <3>7. disk' = AllSaved(With(Without(disk, FileIn(zones, b)), [type |-> zones[b].type, name |-> new],
                                  disk[FileIn(zones, b)]), zones', S)
        <4> HIDE DEF renamed, groups, S
        <4>1. moved = With(Without(disk, FileIn(zones, b)), [type |-> zones[b].type, name |-> new],
                           disk[FileIn(zones, b)])
          BY <2>2, <2>3
        <4> HIDE DEF moved
        <4>2. QED
          BY <2>1, <3>5, <3>6, <4>1
      <3>8. \A c \in DOMAIN zones : zones[c].name # new
        <4> HIDE DEF new
        <4>1. QED
          BY <3>4 DEF Search
      <3> HIDE DEF new
      <3>9. HostFileRenamed(zones, disk, zones', disk', b, new)
        BY <2>2, <2>3, <2>8, <3>7, <3>8 DEF HostFileRenamed
      <3>10. \A c \in DOMAIN zones : zones[c].GroupList \subseteq DOMAIN zones
        BY <3>2 DEF Defined
      <3>11. QED
        BY <3>2, <3>9, <3>10, MirrorHostRenamed
    <2> HIDE DEF new, ok, taken, groups, renamed, moved
    <2>10. ItemsHosts(blocked')
      <3>1. ReplaceAll(blocked, old, new) \in Seq(HostItem)
        BY <2>3, ReplaceAllLemma DEF ListsInv, ItemsHosts
      <3>2. QED
        BY <2>1, <3>1 DEF ListsInv, ItemsHosts
    <2>11. ItemsHosts(savedBlocked')
      <3>1. \/ savedBlocked' = savedBlocked
            \/ savedBlocked' \in ListSaved(savedBlocked, blocked', at # "blocklist")
        BY <2>1
      <3>2. QED
        BY <2>10, <3>1, ListSavedLemma DEF ListsInv, ItemsHosts
    <2>12. ASSUME Gentle'
           PROVE  /\ blocked' = savedBlocked'
                  /\ rules' = savedRules' \/ rules' = LoadedRules(savedRules')
      <3>1. Gentle /\ at = "none"
        <4>1. ok
          BY <2>4, <2>12, GentleOK
        <4>2. QED
          BY <2>4, <2>5, <2>12, <4>1, GentleBefore
      <3>2. blocked = savedBlocked /\ (rules = savedRules \/ rules = LoadedRules(savedRules))
        BY <3>1 DEF ListsInv
      <3>3. blocked' = savedBlocked'
        BY <2>1, <3>1, <3>2, SavedWhole
      <3>4. ASSUME Contains(rules, old)
            PROVE  rules' = savedRules'
        BY <2>1, <3>1, <3>4, SavedWhole
      <3>5. ASSUME ~ Contains(rules, old)
            PROVE  rules' = savedRules' \/ rules' = LoadedRules(savedRules')
        <4>1. rules' = rules
          BY <2>1, <3>5, SameLists, NothingReplaced
        <4>2. savedRules' = savedRules
          BY <2>1, <3>5
        <4>3. QED
          BY <3>2, <4>1, <4>2
      <3>6. QED
        BY <3>3, <3>4, <3>5
    <2>13. QED
      BY <2>9, <2>10, <2>11, <2>12 DEF ListsInv
  <1>3. QED
    BY <1>1, <1>2

(* The directory of a network or a zone is called by the new name, and so is
   what is in it. *)
DirRenamed(z, d, y, e, b, part) ==
    LET from == FileIn(z, b) IN
    /\ DOMAIN y = DOMAIN z /\ NamesUnique(y)
    /\ \A c \in DOMAIN z :
         /\ y[c].type = z[c].type /\ y[c].active = z[c].active
         /\ y[c].GroupList = z[c].GroupList /\ y[c].InterfaceList = z[c].InterfaceList
         /\ y[c].name.host = z[c].name.host
         /\ FileIn(y, c) = Moved(FileIn(z, c), from, part)
    /\ \A c \in DOMAIN z : \A h \in z[c].GroupList : NetName(y[h].name) = NetName(y[c].name)
    /\ e = DirMoved(d, from, part)

LEMMA MirrorDirRenamed ==
    ASSUME NEW z, NEW d, NEW y, NEW e, Mirror(z, d), NEW b \in DOMAIN z, NEW part,
           \A c \in DOMAIN z : z[c].GroupList \subseteq DOMAIN z,
           DirRenamed(z, d, y, e, b, part)
    PROVE  Mirror(y, e)
  <1> DEFINE from == FileIn(z, b)
  <1>1. /\ DOMAIN y = DOMAIN z /\ NamesUnique(y)
        /\ \A c \in DOMAIN z :
             /\ y[c].type = z[c].type /\ y[c].active = z[c].active
             /\ y[c].GroupList = z[c].GroupList /\ y[c].InterfaceList = z[c].InterfaceList
             /\ y[c].name.host = z[c].name.host
             /\ FileIn(y, c) = Moved(FileIn(z, c), from, part)
        /\ \A c \in DOMAIN z : \A h \in z[c].GroupList : NetName(y[h].name) = NetName(y[c].name)
        /\ e = DirMoved(d, from, part)
    BY DEF DirRenamed
  <1>2. DOMAIN d = {FileIn(z, c) : c \in DOMAIN z}
    BY DEF Mirror
  <1>3. DOMAIN e = {Moved(f, from, part) : f \in DOMAIN d}
    BY <1>1 DEF DirMoved
  <1> HIDE DEF from
  <1>4. DOMAIN e = {FileIn(y, c) : c \in DOMAIN y}
    BY <1>1, <1>2, <1>3
  <1>5. ASSUME NEW c \in DOMAIN z PROVE e[FileIn(y, c)] = d[FileIn(z, c)]
    <2>1. FileIn(z, c) \in DOMAIN d /\ Moved(FileIn(z, c), from, part) = FileIn(y, c)
      BY <1>1, <1>2
    <2>2. ASSUME NEW f \in DOMAIN d, Moved(f, from, part) = FileIn(y, c) PROVE f = FileIn(z, c)
      <3>1. PICK a \in DOMAIN z : f = FileIn(z, a)
        BY <1>2
      <3>2. FileIn(y, a) = FileIn(y, c)
        BY <1>1, <2>2, <3>1
      <3>3. y[a].name = y[c].name
        BY <3>2 DEF FileIn
      <3>4. QED
        BY <1>1, <3>1, <3>3 DEF NamesUnique
    <2>3. (CHOOSE f \in DOMAIN d : Moved(f, from, part) = FileIn(y, c)) = FileIn(z, c)
      BY <2>1, <2>2
    <2>4. e[FileIn(y, c)] = d[CHOOSE f \in DOMAIN d : Moved(f, from, part) = FileIn(y, c)]
      <3>1. FileIn(y, c) \in {Moved(f, from, part) : f \in DOMAIN d}
        BY <2>1
      <3>2. QED
        BY <1>1, <3>1 DEF DirMoved
    <2>5. QED
      BY <2>3, <2>4
  <1>6. ASSUME NEW c \in DOMAIN z PROVE HostNames(y, c) = HostNames(z, c)
    <2>1. y[c].GroupList = z[c].GroupList /\ \A h \in z[c].GroupList : y[h].name.host = z[h].name.host
      BY <1>1
    <2>2. QED
      BY <2>1 DEF HostNames
  <1>7. ASSUME NEW c \in DOMAIN z
        PROVE  /\ e[FileIn(y, c)].active = y[c].active
               /\ e[FileIn(y, c)].INTERFACE = y[c].InterfaceList
               /\ y[c].type = "group" => e[FileIn(y, c)].MEMBER = HostNames(y, c)
               /\ \A h \in y[c].GroupList : NetName(y[h].name) = NetName(y[c].name)
    <2>1. /\ d[FileIn(z, c)].active = z[c].active
          /\ d[FileIn(z, c)].INTERFACE = z[c].InterfaceList
          /\ z[c].type = "group" => d[FileIn(z, c)].MEMBER = HostNames(z, c)
      BY DEF Mirror
    <2>2. QED
      BY <1>1, <1>5, <1>6, <2>1
  <1>8. QED
    BY <1>1, <1>4, <1>7 DEF Mirror

(* In memory the objects are renamed whose files are moved. *)
LEMMA BelowParents ==
    ASSUME BaseInv, AllAbove(zones), NamesUnique(zones), NEW b \in DOMAIN zones, ~HasTwin(b),
           zones[b].type \in {"network", "zone"}, NEW c \in DOMAIN zones
    PROVE  Below(b, c) <=> FileIn(zones, b) \in Parents(FileIn(zones, c))
  <1> DEFINE old == zones[b].name
             f == FileIn(zones, c)
             top == FileIn(zones, b)
  <1>1. /\ f \in File /\ f.type = zones[c].type /\ f.name = zones[c].name
        /\ top \in File /\ top.type = zones[b].type /\ top.name = old
        /\ top = [type |-> zones[b].type, name |-> old]
    BY FileOfLemma DEF FileOf, FileIn
  <1>2. zones[b].type = "zone" => ZoneName(old) = old
    BY <1>1, FileParts DEF ZoneFile, ZoneName
  <1>3. zones[b].type = "network" => NetName(old) = old
    BY <1>1, FileParts DEF NetFile, NetName
  <1> HIDE DEF f, top
  <1>4. top \in Parents(f) <=>
          \/ f.type # "zone" /\ top = [type |-> "zone", name |-> ZoneName(f.name)]
          \/ f.type \in {"host", "group"} /\ top = [type |-> "network", name |-> NetName(f.name)]
    BY <1>1, ParentsLemma
  <1>5. ASSUME zones[b].type = "zone" PROVE Below(b, c) <=> top \in Parents(f)
    <2>1. zones[c].type \in {"zone", "network", "host", "group"}
      BY FileOfLemma DEF ZoneData
    <2>2. top \in Parents(f) <=> zones[c].type # "zone" /\ old = ZoneName(zones[c].name)
      BY <1>1, <1>4, <1>5
    <2>3. old = ZoneName(zones[c].name) <=> zones[c].name.zone = old.zone
      <3>1. ZoneName(zones[c].name).zone = zones[c].name.zone
        BY DEF ZoneName
      <3>2. zones[c].name.zone = old.zone => ZoneName(zones[c].name) = ZoneName(old)
        BY DEF ZoneName
      <3>3. QED
        BY <1>2, <1>5, <3>1, <3>2
    <2>4. QED
      BY <1>5, <2>1, <2>2, <2>3 DEF Below, Touched
  <1>6. ASSUME zones[b].type = "network" PROVE Below(b, c) <=> top \in Parents(f)
    <2>1. top \in Parents(f) <=> zones[c].type \in {"host", "group"} /\ old = NetName(zones[c].name)
      BY <1>1, <1>4, <1>6
    <2>2. ASSUME zones[c].type \in {"host", "group"}
          PROVE  old = NetName(zones[c].name) <=> zones[c].name.net = old.net
      <3>1. NetName(zones[c].name).net = zones[c].name.net
        BY DEF NetName
      <3>2. ASSUME zones[c].name.net = old.net PROVE old = NetName(zones[c].name)
        <4>1. PICK p \in DOMAIN zones : zones[p].type = "network" /\ IsAbove(zones, p, c)
          BY <2>2 DEF AllAbove
        <4>2. zones[p].name = NetName(zones[c].name) /\ zones[p].name.net = old.net
          BY <2>2, <3>1, <3>2, <4>1 DEF IsAbove
        <4>3. p = b
          BY <1>6, <4>1, <4>2 DEF HasTwin
        <4>4. QED
          BY <4>2, <4>3
      <3>3. QED
        BY <3>1, <3>2
    <2>3. QED
      BY <1>6, <2>1, <2>2 DEF Below, Touched
  <1>7. QED
    BY <1>5, <1>6 DEF f, top

LEMMA FilesMoved ==
    ASSUME BaseInv, AllAbove(zones), NamesUnique(zones), NEW b \in DOMAIN zones, ~HasTwin(b),
           zones[b].type \in {"network", "zone"}, NEW c \in DOMAIN zones, NEW part,
           zones'[c].type = zones[c].type,
           zones'[c].name = IF c = b \/ Below(b, c)
                            THEN Replaced(zones[b].type, zones[c].name, part)
                            ELSE zones[c].name
    PROVE  FileIn(zones', c) = Moved(FileIn(zones, c), FileIn(zones, b), part)
  <1> DEFINE f == FileIn(zones, c)
             top == FileIn(zones, b)
  <1>1. /\ f.type = zones[c].type /\ f.name = zones[c].name /\ f = [type |-> zones[c].type, name |-> zones[c].name]
        /\ top.type = zones[b].type /\ top.name = zones[b].name
    BY DEF FileIn
  <1>2. FileIn(zones', c) = [type |-> zones[c].type, name |-> zones'[c].name]
    BY DEF FileIn
  <1> HIDE DEF f, top
  <1>3. f = top <=> c = b
    BY <1>1 DEF NamesUnique, f, top
  <1>4. c = b \/ Below(b, c) <=> f = top \/ top \in Parents(f)
    <2>1. Below(b, c) <=> top \in Parents(f)
      BY BelowParents DEF f, top
    <2>2. QED
      BY <1>3, <2>1
  <1>5. CASE c = b \/ Below(b, c)
    BY <1>1, <1>2, <1>4, <1>5 DEF Moved, f, top
  <1>6. CASE ~ (c = b \/ Below(b, c))
    BY <1>1, <1>2, <1>4, <1>6 DEF Moved, f, top
  <1>7. QED
    BY <1>5, <1>6

(* What a rename leaves of an object, and of what is in the same network. *)
LEMMA RenamedRest ==
    ASSUME BaseInv, NEW b \in DOMAIN zones, zones[b].type \in {"network", "zone"},
           NEW part \in (IF zones[b].type = "network" THEN NetParts ELSE ZoneParts),
           zones' = Renamed(zones, b, part, TRUE)
    PROVE  \A c \in DOMAIN zones :
              /\ zones'[c].active = zones[c].active
              /\ zones'[c].GroupList = zones[c].GroupList
              /\ zones'[c].InterfaceList = zones[c].InterfaceList
              /\ zones'[c].name.host = zones[c].name.host
  <1>1. SUFFICES ASSUME NEW c \in DOMAIN zones
                 PROVE  /\ zones'[c].active = zones[c].active
                        /\ zones'[c].GroupList = zones[c].GroupList
                        /\ zones'[c].InterfaceList = zones[c].InterfaceList
                        /\ zones'[c].name.host = zones[c].name.host
    OBVIOUS
  <1> DEFINE n == Replaced(zones[b].type, zones[c].name, part)
             r == [zones[c] EXCEPT !.name = n]
  <1>2. zones'[c] = r \/ zones'[c] = zones[c]
    BY DEF Renamed
  <1>3. n.host = zones[c].name.host
    BY DEF Replaced
  <1>4. zones[c] \in ZoneData
    BY FileOfLemma
  <1> HIDE DEF n
  <1>5. /\ r.active = zones[c].active /\ r.GroupList = zones[c].GroupList
        /\ r.InterfaceList = zones[c].InterfaceList /\ r.name = n
    BY <1>4 DEF ZoneData
  <1> HIDE DEF r
  <1>6. QED
    BY <1>2, <1>3, <1>5

LEMMA SameNetwork ==
    ASSUME BaseInv, Mirror(zones, disk), NEW b \in DOMAIN zones, zones[b].type \in {"network", "zone"},
           NEW part \in (IF zones[b].type = "network" THEN NetParts ELSE ZoneParts),
           zones' = Renamed(zones, b, part, TRUE), NEW c \in DOMAIN zones,
           NEW h \in zones[c].GroupList, h \in DOMAIN zones
    PROVE  NetName(zones'[h].name) = NetName(zones'[c].name)
  <1>1. \A a \in DOMAIN zones :
           zones'[a].name = IF a = b \/ Below(b, a)
                            THEN Replaced(zones[b].type, zones[a].name, part) ELSE zones[a].name
    BY RenamedAll
  <1>2. NetName(zones[h].name) = NetName(zones[c].name)
    BY DEF Mirror
  <1>3. /\ zones[h].type = "host" /\ zones[c].type = "group"
        /\ zones[h].name.net = zones[c].name.net /\ zones[h].name.zone = zones[c].name.zone
    BY <1>2 DEF BaseInv, MemOK, NetName
  <1>4. h # b /\ c # b /\ (Below(b, h) <=> Below(b, c))
    BY <1>3 DEF Below, Touched
  <1>5. \A n : NetName(Replaced(zones[b].type, n, part)) = Replaced(zones[b].type, NetName(n), part)
    BY ReplacedParts
  <1>6. QED
    BY <1>1, <1>2, <1>4, <1>5

LEMMA ZonesRenamedMirror ==
    ASSUME BaseInv, Mirror(zones, disk), Defined, NEW b \in DOMAIN zones,
           zones[b].type \in {"network", "zone"},
           NEW part \in (IF zones[b].type = "network" THEN NetParts ELSE ZoneParts),
           ~HasTwin(b), Search(Replaced(zones[b].type, zones[b].name, part)) = {},
           zones' = Renamed(zones, b, part, TRUE),
           disk' = DirMoved(disk, FileOf(b), part)
    PROVE  Mirror(zones', disk')
  <1>1. AllAbove(zones) /\ NamesUnique(zones)
    BY MirrorAbove DEF BaseInv, Mirror
  <1>2. NamesUnique(zones')
    <2>1. CASE zones[b].type = "network"
      <3>1. part \in NetParts /\ Search(Replaced("network", zones[b].name, part)) = {}
        BY <2>1
      <3>2. QED
        BY <1>1, <2>1, <3>1, NetworkNames
    <2>2. CASE zones[b].type = "zone"
      <3>1. part \in ZoneParts /\ Search(Replaced("zone", zones[b].name, part)) = {}
        BY <2>2
      <3>2. QED
        BY <1>1, <2>2, <3>1, ZoneNames
    <2>3. QED
      BY <2>1, <2>2
  <1>3. /\ DOMAIN zones' = DOMAIN zones
        /\ \A c \in DOMAIN zones :
             /\ zones'[c].type = zones[c].type
             /\ zones'[c].name = IF c = b \/ Below(b, c)
                                 THEN Replaced(zones[b].type, zones[c].name, part)
                                 ELSE zones[c].name
    BY RenamedAll
  <1>4. \A c \in DOMAIN zones :
           FileIn(zones', c) = Moved(FileIn(zones, c), FileIn(zones, b), part)
    BY <1>1, <1>3, FilesMoved
  <1>5. \A c \in DOMAIN zones : zones[c].GroupList \subseteq DOMAIN zones
    BY DEF Defined
  <1>6. \A c \in DOMAIN zones : \A h \in zones[c].GroupList :
           NetName(zones'[h].name) = NetName(zones'[c].name)
    BY <1>5, SameNetwork
  <1>7. FileOf(b) = FileIn(zones, b)
    BY DEF FileOf, FileIn
  <1>8. \A c \in DOMAIN zones :
           /\ zones'[c].active = zones[c].active
           /\ zones'[c].GroupList = zones[c].GroupList
           /\ zones'[c].InterfaceList = zones[c].InterfaceList
           /\ zones'[c].name.host = zones[c].name.host
    BY RenamedRest
  <1>9. DirRenamed(zones, disk, zones', disk', b, part)
    BY <1>2, <1>3, <1>4, <1>6, <1>7, <1>8 DEF DirRenamed
  <1>10. QED
    BY <1>5, <1>9, MirrorDirRenamed

(* What is in the blocklist keeps its host. *)
LEMMA ItemsHostsLemma ==
    ASSUME BaseInv, ItemsHosts(blocked), NEW t \in {"network", "zone"}, NEW old \in Name,
           NEW part \in (IF t = "network" THEN NetParts ELSE ZoneParts)
    PROVE  ItemsHosts([i \in DOMAIN blocked |-> ItemRenamed(t, old, blocked[i], part)])
  <1> DEFINE items == [i \in DOMAIN blocked |-> ItemRenamed(t, old, blocked[i], part)]
  <1>1. /\ DOMAIN blocked = 1..Len(blocked) /\ Len(blocked) \in Nat
        /\ \A i \in 1..Len(blocked) : blocked[i] \in HostItem
    BY DEF ItemsHosts
  <1>2. \A n \in HostItem : Replaced(t, n, part) \in HostItem
    <2>1. SUFFICES ASSUME NEW n \in HostItem PROVE Replaced(t, n, part) \in HostItem
      OBVIOUS
    <2>2. n \in Name /\ n.host \in HostParts
      BY DEF HostItem
    <2>3. Replaced(t, n, part) \in Name /\ Replaced(t, n, part).host = n.host
      BY <2>2, ReplacedName DEF Replaced
    <2>4. QED
      BY <2>2, <2>3 DEF HostItem
  <1>3. \A i \in DOMAIN blocked : ItemRenamed(t, old, blocked[i], part) \in HostItem
    BY <1>1, <1>2 DEF ItemRenamed
  <1>4. items \in [1..Len(blocked) -> HostItem]
    BY <1>1, <1>3
  <1> HIDE DEF items
  <1>5. items \in Seq(HostItem)
    BY <1>1, <1>4
  <1>6. QED
    BY <1>5 DEF items, ItemsHosts

LEMMA RenameNetworkZoneMirror ==
    ASSUME BaseInv, CountInv, MirrorInv, ListsInv, NEW b \in DOMAIN zones,
           NEW part \in NetParts \cup ZoneParts, NEW at \in Stages \ {"groups"},
           RenameNetworkZone(b, part, at)
    PROVE  MirrorInv' /\ ListsInv'
  <1> DEFINE t      == zones[b].type
             old    == zones[b].name
             new    == Replaced(t, old, part)
             from   == FileOf(b)
             to     == [from EXCEPT !.name = new]
             fields == FieldsRenamed(t, old, part)
             parses == ~ Contains(rules, Broken)
             ok     == at = "none" /\ parses
             harms  == (IF HasTwin(b) THEN {"twin"} ELSE {})
                       \cup (IF Search(new) # {} THEN {"clash"} ELSE {})
             items  == [i \in DOMAIN blocked |-> ItemRenamed(t, old, blocked[i], part)]
             stops  == at = "rename" \/ from \notin DOMAIN disk \/ to \in DOMAIN disk
  <1>1. /\ t \in {"network", "zone"}
        /\ part \in (IF t = "network" THEN NetParts ELSE ZoneParts)
        /\ \/ hurt' = hurt /\ UNCHANGED <<memory, backend>>
           \/ NetworkZoneRenamed(b, part, at)
    BY RenameNetworkZoneBase
  <1>2. CASE stops
    <2>1. End(FALSE, {}) /\ UNCHANGED <<memory, backend>>
      BY <1>2 DEF RenameNetworkZone
    <2>2. /\ hurt' = hurt /\ zones' = zones /\ disk' = disk /\ rules' = rules
          /\ savedRules' = savedRules /\ blocked' = blocked /\ savedBlocked' = savedBlocked
      BY <2>1 DEF End, memory, backend
    <2>3. QED
      BY <2>2, GentleBefore, ListsSame DEF MirrorInv
  <1>3. CASE ~stops
    <2>1. /\ disk' = DirMoved(disk, from, part)
          /\ blocked' = items
          /\ savedBlocked' \in IF items = blocked THEN {savedBlocked}
                               ELSE ListSaved(savedBlocked, items, at # "blocklist")
          /\ zones' = IF at = "blocklist" THEN [zones EXCEPT ![b].name = new]
                      ELSE RenamedBelow(t, old, b, part)
          /\ rules' = IF at = "blocklist" THEN rules ELSE fields
          /\ savedRules' \in IF rules' = rules \/ ~parses THEN {savedRules}
                             ELSE ListSaved(savedRules, fields, at # "rules")
          /\ hurt' = hurt \cup (Halfway(ok) \cup harms \cup IF at = "blocklist" THEN {"torn"} ELSE {})
      BY <1>3 DEF RenameNetworkZone, End
    <2>2. /\ hurt \subseteq hurt' /\ Halfway(ok) \subseteq hurt' /\ ok \in BOOLEAN
          /\ HasTwin(b) => "twin" \in hurt'
          /\ Search(new) # {} => "clash" \in hurt'
      BY <2>1
    <2>3. ok => at = "none"
      OBVIOUS
    <2>4. old \in Name
      BY FileOfLemma
    <2> HIDE DEF ok, harms
    <2>5. Gentle' => /\ ok /\ at = "none" /\ ~HasTwin(b) /\ Search(new) = {} /\ Gentle
      BY <2>2, <2>3, GentleOK, GentleBefore DEF Gentle
    <2>6. MirrorInv'
      <3>1. SUFFICES ASSUME Gentle' PROVE Mirror(zones', disk')
        BY DEF MirrorInv
      <3>2. Mirror(zones, disk) /\ Defined
        BY <2>2, <3>1, MirrorBefore
      <3>3. zones' = Renamed(zones, b, part, TRUE)
        BY <2>1, <2>5, <3>1 DEF Renamed, RenamedBelow
      <3>4. QED
        BY <1>1, <2>1, <2>5, <3>1, <3>2, <3>3, ZonesRenamedMirror
    <2>7. ItemsHosts(items)
      BY <1>1, <2>4, ItemsHostsLemma DEF ListsInv
    <2> HIDE DEF items, fields, new
    <2>8. ItemsHosts(blocked')
      BY <2>1, <2>7
    <2>9. ItemsHosts(savedBlocked')
      <3>1. \/ savedBlocked' = savedBlocked
            \/ savedBlocked' \in ListSaved(savedBlocked, items, at # "blocklist")
        BY <2>1
      <3>2. QED
        BY <2>7, <3>1, ListSavedLemma DEF ListsInv, ItemsHosts
    <2>10. ASSUME Gentle'
           PROVE  /\ blocked' = savedBlocked'
                  /\ rules' = savedRules' \/ rules' = LoadedRules(savedRules')
      <3>1. Gentle /\ at = "none" /\ parses
        BY <2>5, <2>10 DEF ok
      <3>2. blocked = savedBlocked /\ (rules = savedRules \/ rules = LoadedRules(savedRules))
        BY <3>1 DEF ListsInv
      <3>3. blocked' = savedBlocked'
        BY <2>1, <3>1, <3>2, SavedWhole
      <3>4. ASSUME rules' # rules
            PROVE  rules' = savedRules'
        BY <2>1, <3>1, <3>4, SavedWhole
      <3>5. ASSUME rules' = rules
            PROVE  rules' = savedRules' \/ rules' = LoadedRules(savedRules')
        <4>1. savedRules' = savedRules
          BY <2>1, <3>5
        <4>2. QED
          BY <3>2, <3>5, <4>1
      <3>6. QED
        BY <3>3, <3>4, <3>5
    <2>11. QED
      BY <2>6, <2>8, <2>9, <2>10 DEF ListsInv
  <1>4. QED
    BY <1>2, <1>3

LEMMA RestartMirror ==
    ASSUME BaseInv, ListsInv, Restart
    PROVE  MirrorInv' /\ ListsInv'
  <1> DEFINE I == DOMAIN refcnt_network
  <1>1. /\ blocked' = LoadedBlocked(savedBlocked, disk)
        /\ rules' = LoadedRules(savedRules)
        /\ zones' = LoadedZones(disk, blocked', I)
        /\ hurt' = BlindIn(blocked', disk) \cup ClashIn(disk) \cup StrayIn(disk, I)
        /\ disk' = disk /\ savedRules' = savedRules /\ savedBlocked' = savedBlocked
    BY DEF Restart, backend
  <1>2. DiskOK(disk) /\ I \in SUBSET Ifaces /\ blocked' \in Seq(Name)
    BY RestartBase DEF BaseInv, TypeOK
  <1>3. blocked' = savedBlocked /\ ItemsHosts(savedBlocked)
    BY <1>1, <1>2, HostsLoaded DEF ListsInv
  <1>4. ListsInv'
    BY <1>1, <1>3 DEF ListsInv
  <1>5. ASSUME Gentle' PROVE ClashIn(disk) = {} /\ StrayIn(disk, I) = {}
    <2>1. "clash" \notin hurt' /\ "stray" \notin hurt'
      BY <1>5 DEF Gentle
    <2>2. "clash" \notin ClashIn(disk) /\ "stray" \notin StrayIn(disk, I)
      BY <1>1, <2>1
    <2> HIDE DEF I
    <2>3. QED
      BY <2>2 DEF ClashIn, StrayIn
  <1> HIDE DEF I
  <1>6. MirrorInv'
    BY <1>1, <1>2, <1>5, LoadedMirror DEF MirrorInv
  <1>7. QED
    BY <1>4, <1>6

LEMMA InitMirror == Init => MirrorInv /\ ListsInv
  <1>1. SUFFICES ASSUME Init PROVE MirrorInv /\ ListsInv
    OBVIOUS
  <1>2. /\ disk = Disk /\ blocked = DiskBlocked /\ savedBlocked = DiskBlocked
        /\ rules = DiskRules /\ savedRules = DiskRules
        /\ zones = LoadedZones(Disk, DiskBlocked, Ifaces)
        /\ hurt = BlindIn(DiskBlocked, Disk) \cup ClashIn(Disk)
    BY <1>1 DEF Init
  <1>3. DiskOK(Disk) /\ DiskBlocked \in Seq(Name)
    BY <1>1, <1>2, InitBase DEF BaseInv, TypeOK
  <1>4. StrayIn(Disk, Ifaces) = {}
    <2>1. \A f \in DOMAIN Disk : MemberFiles(f, Disk[f]) \subseteq DOMAIN Disk
      BY EditorAssumption
    <2>2. \A f \in DOMAIN Disk : Disk[f].INTERFACE \subseteq Ifaces
      BY EditorAssumption DEF Row
    <2>3. QED
      BY <2>1, <2>2 DEF StrayIn
  <1>5. ItemsHosts(DiskBlocked)
    <2> DEFINE S == {f.name : f \in {g \in DOMAIN Disk : g.type \in {"host", "group"}}}
    <2>1. DiskBlocked \in Seq(S)
      BY EditorAssumption
    <2>2. S \subseteq HostItem
      <3>1. SUFFICES ASSUME NEW f \in DOMAIN Disk, f.type \in {"host", "group"}
                     PROVE  f.name \in HostItem
        OBVIOUS
      <3>2. f \in HostFile
        BY <3>1, FileParts, EditorAssumption
      <3>3. QED
        BY <3>2 DEF HostFile, HostItem, Name
    <2> HIDE DEF S
    <2>3. QED
      BY <2>1, <2>2 DEF ItemsHosts
  <1>6. ListsInv
    BY <1>2, <1>5 DEF ListsInv
  <1>7. Gentle => ClashIn(Disk) = {}
    <2>1. Gentle => "clash" \notin ClashIn(Disk)
      BY <1>2 DEF Gentle
    <2>2. QED
      BY <2>1 DEF ClashIn
  <1>8. MirrorInv
    <2>1. Ifaces \in SUBSET Ifaces
      OBVIOUS
    <2>2. QED
      BY <1>2, <1>3, <1>4, <1>7, <2>1, LoadedMirror DEF MirrorInv
  <1>9. QED
    BY <1>6, <1>8

LEMMA MirrorNext ==
    BaseInv /\ CountInv /\ MirrorInv /\ ListsInv /\ [Next]_vars => MirrorInv' /\ ListsInv'
  <1>1. SUFFICES ASSUME BaseInv, CountInv, MirrorInv, ListsInv, [Next]_vars
                 PROVE  MirrorInv' /\ ListsInv'
    OBVIOUS
  <1>2. ASSUME NEW f \in File, NEW fault \in BOOLEAN, NewZone(f, fault)
        PROVE  MirrorInv' /\ ListsInv'
    BY <1>1, <1>2, NewZoneMirror
  <1>3. ASSUME NEW b \in DOMAIN zones, NEW fault \in BOOLEAN, DeleteZone(b, fault)
        PROVE  MirrorInv' /\ ListsInv'
    BY <1>1, <1>3, DeleteZoneMirror
  <1>4. ASSUME NEW b \in DOMAIN zones, NEW fault \in BOOLEAN, SetActive(b, fault)
        PROVE  MirrorInv' /\ ListsInv'
    BY <1>1, <1>4, SetActiveMirror
  <1>5. ASSUME NEW b \in DOMAIN zones, NEW fault \in BOOLEAN, Block(b, fault)
        PROVE  MirrorInv' /\ ListsInv'
    BY <1>1, <1>5, BlockMirror
  <1>6. ASSUME NEW g \in DOMAIN zones, NEW h \in DOMAIN zones, NEW fault \in BOOLEAN,
               AddMember(g, h, fault)
        PROVE  MirrorInv' /\ ListsInv'
    BY <1>1, <1>6, AddMemberMirror
  <1>7. ASSUME NEW g \in DOMAIN zones, NEW h \in DOMAIN zones, NEW fault \in BOOLEAN,
               RemMember(g, h, fault)
        PROVE  MirrorInv' /\ ListsInv'
    BY <1>1, <1>7, RemMemberMirror
  <1>8. ASSUME NEW n \in DOMAIN zones, NEW i \in DOMAIN refcnt_network, NEW fault \in BOOLEAN,
               AddIface(n, i, fault)
        PROVE  MirrorInv' /\ ListsInv'
    BY <1>1, <1>8, AddIfaceMirror
  <1>9. ASSUME NEW n \in DOMAIN zones, NEW i \in DOMAIN refcnt_network, NEW fault \in BOOLEAN,
               RemIface(n, i, fault)
        PROVE  MirrorInv' /\ ListsInv'
    BY <1>1, <1>9, RemIfaceMirror
  <1>10. ASSUME NEW i \in DOMAIN refcnt_network, DeleteIface(i)
         PROVE  MirrorInv' /\ ListsInv'
    BY <1>1, <1>10, DeleteIfaceMirror
  <1>11. ASSUME NEW n \in ToSet(blocked), NEW fault \in BOOLEAN, Unblock(n, fault)
         PROVE  MirrorInv' /\ ListsInv'
    BY <1>1, <1>11, UnblockMirror
  <1>12. ASSUME NEW b \in DOMAIN zones, NEW part \in HostParts, NEW at \in Stages,
                RenameHostGroup(b, part, at)
         PROVE  MirrorInv' /\ ListsInv'
    BY <1>1, <1>12, RenameHostGroupMirror
  <1>13. ASSUME NEW b \in DOMAIN zones, NEW part \in NetParts \cup ZoneParts,
                NEW at \in Stages \ {"groups"}, RenameNetworkZone(b, part, at)
         PROVE  MirrorInv' /\ ListsInv'
    BY <1>1, <1>13, RenameNetworkZoneMirror
  <1>14. CASE Restart
    BY <1>1, <1>14, RestartMirror
  <1>15. CASE UNCHANGED vars
    <2>1. /\ hurt' = hurt /\ zones' = zones /\ disk' = disk /\ rules' = rules
          /\ savedRules' = savedRules /\ blocked' = blocked /\ savedBlocked' = savedBlocked
      BY <1>15 DEF vars, memory, backend
    <2>2. QED
      BY <1>1, <2>1, GentleBefore, ListsSame DEF MirrorInv
  <1>16. QED
    BY <1>1, <1>2, <1>3, <1>4, <1>5, <1>6, <1>7, <1>8, <1>9, <1>10, <1>11, <1>12, <1>13, <1>14,
       <1>15 DEF Next, Done

(* Whatever the menus do, in whatever order: as long as no call failed halfway, no
   rename met a name in use or a twin, and nothing names what is not there, memory
   is what a restart of vuurmuur_conf would load, so every create, delete, rename
   and change of members has written all the files that it should. *)
THEOREM RestartTheorem == Spec => []RestartChangesNothing
  <1> DEFINE Inv == BaseInv /\ CountInv /\ MirrorInv /\ ListsInv
  <1>1. Init => Inv
    BY InitBase, InitMirror
  <1>2. Inv /\ [Next]_vars => Inv'
    <2>1. SUFFICES ASSUME Inv, [Next]_vars PROVE Inv'
      OBVIOUS
    <2>2. BaseInv' /\ CountInv'
      BY <2>1, CountNext
    <2>3. MirrorInv' /\ ListsInv'
      BY <2>1, MirrorNext
    <2>4. QED
      BY <2>2, <2>3
  <1>3. Inv => RestartChangesNothing
    BY RestartLemma
  <1>4. QED
    BY <1>1, <1>2, <1>3, PTL DEF Spec

=============================================================================

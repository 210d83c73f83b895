------------------------- MODULE ServiceEditor_proofs -------------------------
(***************************************************************************)
(* The services in vuurmuur_conf, for every directory of services, every   *)
(* rule, any number of changes and whatever is entered: what is saved is   *)
(* read again, ranges that were checked never keep the services from       *)
(* loading, rules name services, and a protocol without ports has one      *)
(* range.                                                                  *)
(*                                                                         *)
(* Shape has the types.  SavedInv says of every service in memory that is  *)
(* called saved that its file has its fields and its ranges; it is what a  *)
(* save of any number of ranges keeps (SaveStep).  ReadableInv is about    *)
(* the texts in the files and those that would be written of the ranges in *)
(* memory.  An older file is read by lines that a save leaves alone, and   *)
(* that come to be looked at when the last range is deleted: that they can *)
(* be read is a hypothesis of two theorems (OldRows).                      *)
(***************************************************************************)
EXTENDS ServiceEditor, FiniteSetTheorems, TLAPS

-----------------------------------------------------------------------------
(* Lists.                                                                  *)

(* A set of numbers that is not empty has a smallest one: it is the top of *)
(* the smallest of the intervals from 0 to a number of the set.            *)
LEMMA LeastNumber ==
    ASSUME NEW I, I \subseteq Nat, I # {}
    PROVE  \E x \in I : \A y \in I : x <= y
  <1> DEFINE T == {A \in FiniteSubsetsOf(Nat) : \E n \in I : A = 0..n}
  <1>1. \A n \in Nat : 0..n \in FiniteSubsetsOf(Nat)
    BY FS_Interval DEF FiniteSubsetsOf
  <1>2. T # {}
    BY <1>1
  <1>3. PICK A \in T : \A B \in T : ~ (<<B, A>> \in StrictSubsetOrdering(Nat))
    <2> HIDE DEF T
    <2>1. IsWellFoundedOn(StrictSubsetOrdering(Nat), FiniteSubsetsOf(Nat))
      BY FS_StrictSubsetOrderingWellFounded
    <2>2. T \subseteq FiniteSubsetsOf(Nat)
      BY DEF T
    <2>3. QED
      BY <1>2, <2>1, <2>2, WFMin
  <1>4. PICK x \in I : A = 0..x
    BY <1>3
  <1>5. ASSUME NEW y \in I, ~ (x <= y) PROVE FALSE
    <2>1. 0..y \in T
      BY <1>1
    <2>2. x \in A /\ x \notin 0..y /\ 0..y \subseteq A /\ 0..y # A
      BY <1>4, <1>5
    <2>3. <<0..y, A>> \in StrictSubsetOrdering(Nat)
      BY <1>4, <2>2 DEF StrictSubsetOrdering
    <2>4. QED
      BY <1>3, <2>1, <2>3
  <1>6. QED
    BY <1>5

(* Two lists, one after the other. *)
LEMMA Joined ==
    ASSUME NEW S, NEW a \in Seq(S), NEW b \in Seq(S)
    PROVE  /\ a \o b \in Seq(S) /\ Len(a \o b) = Len(a) + Len(b)
           /\ \A i \in 1 .. Len(a) : (a \o b)[i] = a[i]
           /\ \A i \in Len(a) + 1 .. Len(a) + Len(b) : (a \o b)[i] = b[i - Len(a)]
  OBVIOUS

(* A list with one more: those before the place stay, those from it on are *)
(* one further.                                                            *)
LEMMA Inserted ==
    ASSUME NEW S, NEW s \in Seq(S), NEW k \in 1 .. Len(s) + 1, NEW e \in S
    PROVE  /\ InsertAt(s, k, e) \in Seq(S)
           /\ Len(InsertAt(s, k, e)) = Len(s) + 1
           /\ \A i \in 1 .. Len(s) + 1 :
                InsertAt(s, k, e)[i] = IF i < k THEN s[i] ELSE IF i = k THEN e ELSE s[i - 1]
  <1>1. SubSeq(s, 1, k - 1) \in Seq(S) /\ Len(SubSeq(s, 1, k - 1)) = k - 1
    OBVIOUS
  <1>2. SubSeq(s, k, Len(s)) \in Seq(S) /\ Len(SubSeq(s, k, Len(s))) = Len(s) - k + 1
    OBVIOUS
  <1>3. <<e>> \in Seq(S) /\ Len(<<e>>) = 1 /\ <<e>>[1] = e
    OBVIOUS
  <1> DEFINE a == SubSeq(s, 1, k - 1)  b == SubSeq(s, k, Len(s))  c == <<e>>
  <1>4. \A i \in 1 .. k - 1 : a[i] = s[i]
    OBVIOUS
  <1>5. \A i \in 1 .. Len(s) - k + 1 : b[i] = s[i + k - 1]
    OBVIOUS
  <1>6. a \in Seq(S) /\ b \in Seq(S) /\ c \in Seq(S) /\ Len(a) = k - 1
        /\ Len(b) = Len(s) - k + 1 /\ Len(c) = 1 /\ c[1] = e
    BY <1>1, <1>2, <1>3
  <1>7. InsertAt(s, k, e) = (a \o c) \o b
    BY DEF InsertAt
  <1> HIDE DEF a, b, c
  <1>8. a \o c \in Seq(S) /\ Len(a \o c) = k
        /\ \A i \in 1 .. k : (a \o c)[i] = IF i < k THEN s[i] ELSE e
    <2>2. /\ a \o c \in Seq(S) /\ Len(a \o c) = Len(a) + Len(c)
          /\ \A i \in 1 .. Len(a) : (a \o c)[i] = a[i]
          /\ \A i \in Len(a) + 1 .. Len(a) + Len(c) : (a \o c)[i] = c[i - Len(a)]
      BY <1>6, Joined
    <2>3. (a \o c)[k] = e
      BY <1>6, <2>2
    <2>4. Len(a \o c) = k
      BY <1>6, <2>2
    <2>5. ASSUME NEW i \in 1 .. k, i < k PROVE (a \o c)[i] = s[i]
      <3>1. i \in 1 .. k - 1 /\ i \in 1 .. Len(a)
        BY <1>6, <2>5
      <3>2. QED
        BY <1>4, <2>2, <3>1
    <2>6. \A i \in 1 .. k : i < k \/ i = k
      OBVIOUS
    <2>7. QED
      BY <2>2, <2>3, <2>4, <2>5, <2>6
  <1> DEFINE d == a \o c
  <1> HIDE DEF d
  <1>9. d \in Seq(S) /\ Len(d) = k /\ \A i \in 1 .. k : d[i] = IF i < k THEN s[i] ELSE e
    BY <1>8 DEF d
  <1>10. InsertAt(s, k, e) = d \o b
    BY <1>7 DEF d
  <1>11. d \o b \in Seq(S) /\ Len(d \o b) = Len(s) + 1
    BY <1>6, <1>9
  <1>14. /\ \A i \in 1 .. Len(d) : (d \o b)[i] = d[i]
         /\ \A i \in Len(d) + 1 .. Len(d) + Len(b) : (d \o b)[i] = b[i - Len(d)]
    BY <1>6, <1>9, Joined
  <1>12. ASSUME NEW i \in 1 .. Len(s) + 1
         PROVE  (d \o b)[i] = IF i < k THEN s[i] ELSE IF i = k THEN e ELSE s[i - 1]
    <2>1. CASE i \in 1 .. k
      BY <1>9, <1>14, <2>1
    <2>2. CASE i \in k + 1 .. Len(s) + 1
      <3>1. i - k \in 1 .. Len(s) - k + 1 /\ (d \o b)[i] = b[i - k]
        <4>1. i \in Len(d) + 1 .. Len(d) + Len(b)
          BY <1>6, <1>9, <2>2
        <4>2. (d \o b)[i] = b[i - Len(d)]
          BY <1>14, <4>1
        <4>3. QED
          BY <1>9, <2>2, <4>2
      <3>2. b[i - k] = s[i - 1]
        BY <1>5, <2>2, <3>1
      <3>3. QED
        BY <2>2, <3>1, <3>2
    <2>3. i \in 1 .. k \/ i \in k + 1 .. Len(s) + 1
      OBVIOUS
    <2>4. QED
      BY <2>1, <2>2, <2>3
  <1>13. QED
    BY <1>10, <1>11, <1>12

(* A list with one less. *)
LEMMA Removed ==
    ASSUME NEW S, NEW s \in Seq(S), NEW k \in 1 .. Len(s)
    PROVE  /\ RemoveAt(s, k) \in Seq(S)
           /\ Len(RemoveAt(s, k)) = Len(s) - 1
           /\ \A i \in 1 .. Len(s) - 1 :
                RemoveAt(s, k)[i] = IF i < k THEN s[i] ELSE s[i + 1]
  <1> DEFINE a == SubSeq(s, 1, k - 1)  b == SubSeq(s, k + 1, Len(s))
  <1>1. a \in Seq(S) /\ Len(a) = k - 1 /\ \A i \in 1 .. k - 1 : a[i] = s[i]
    OBVIOUS
  <1>2. b \in Seq(S) /\ Len(b) = Len(s) - k /\ \A i \in 1 .. Len(s) - k : b[i] = s[i + k]
    OBVIOUS
  <1>3. RemoveAt(s, k) = a \o b
    BY DEF RemoveAt
  <1> HIDE DEF a, b
  <1>4. /\ a \o b \in Seq(S) /\ Len(a \o b) = Len(a) + Len(b)
        /\ \A i \in 1 .. Len(a) : (a \o b)[i] = a[i]
        /\ \A i \in Len(a) + 1 .. Len(a) + Len(b) : (a \o b)[i] = b[i - Len(a)]
    BY <1>1, <1>2, Joined
  <1>5. Len(a \o b) = Len(s) - 1
    BY <1>1, <1>2, <1>4
  <1>6. ASSUME NEW i \in 1 .. Len(s) - 1
        PROVE  (a \o b)[i] = IF i < k THEN s[i] ELSE s[i + 1]
    <2>1. CASE i < k
      <3>1. i \in 1 .. Len(a)
        BY <1>1, <2>1
      <3>2. (a \o b)[i] = a[i]
        BY <1>4, <3>1
      <3>3. QED
        BY <1>1, <2>1, <3>2
    <2>2. CASE i >= k
      <3>1. i \in Len(a) + 1 .. Len(a) + Len(b)
        BY <1>1, <1>2, <2>2
      <3>2. (a \o b)[i] = b[i - Len(a)]
        BY <1>4, <3>1
      <3>3. i - Len(a) = i - k + 1 /\ i - k + 1 \in 1 .. Len(s) - k
        BY <1>1, <2>2
      <3>4. b[i - k + 1] = s[i + 1]
        BY <1>2, <3>3
      <3>5. ~(i < k)
        BY <2>2
      <3>6. QED
        BY <3>2, <3>3, <3>4, <3>5
    <2>3. i < k \/ i >= k
      OBVIOUS
    <2>4. QED
      BY <2>1, <2>2, <2>3
  <1>7. QED
    BY <1>3, <1>4, <1>5, <1>6

(* The place of a protocol: one of a greater protocol is there, if it is   *)
(* not the end, and none before it.                                        *)
LEMMA Placed ==
    ASSUME NEW list \in Seq(Portdata), NEW protocol \in Int
    PROVE  /\ Place(list, protocol) \in 1 .. Len(list) + 1
           /\ \A i \in 1 .. Place(list, protocol) - 1 : list[i].protocol <= protocol
           /\ Place(list, protocol) <= Len(list) =>
                protocol < list[Place(list, protocol)].protocol
  <1> DEFINE greater == {i \in DOMAIN list : protocol < list[i].protocol}
  <1>1. \A i \in DOMAIN list : list[i].protocol \in Int
    <2>1. \A i \in DOMAIN list : list[i] \in Portdata
      OBVIOUS
    <2>2. QED
      BY <2>1 DEF Portdata
  <1>2. CASE greater = {}
    <2>1. Place(list, protocol) = Len(list) + 1
      BY <1>2 DEF Place
    <2>2. \A i \in 1 .. Len(list) : i \in DOMAIN list
      OBVIOUS
    <2>3. QED
      BY <1>1, <1>2, <2>1, <2>2
  <1>3. CASE greater # {}
    <2>1. greater \subseteq Nat
      OBVIOUS
    <2>2. \E i \in greater : \A j \in greater : i <= j
      <3> HIDE DEF greater
      <3>1. QED
        BY <1>3, <2>1, LeastNumber
    <2>3. Place(list, protocol) \in greater /\ \A j \in greater : Place(list, protocol) <= j
      BY <1>3, <2>2 DEF Place
    <2>4. QED
      BY <1>1, <2>3
  <1>4. QED
    BY <1>2, <1>3

-----------------------------------------------------------------------------
(* The list of services.                                                   *)

Lists == Seq(ServicesData)

LEMMA Search ==
    ASSUME NEW list \in Lists, NEW name
    PROVE  \/ /\ SearchService(list, name) = 0
              /\ \A s \in DOMAIN list : list[s].name # name
           \/ /\ SearchService(list, name) \in DOMAIN list
              /\ list[SearchService(list, name)].name = name
  <1> DEFINE I == {i \in 1 .. Len(list) : list[i].name = name}
  <1>1. SearchService(list, name) = IF I # {} THEN Min(I) ELSE 0
    BY DEF SearchService, SelectInSeq
  <1>2. CASE I = {}
    BY <1>1, <1>2 DEF Lists
  <1>3. CASE I # {}
    <2>1. I \subseteq Nat
      OBVIOUS
    <2>2. \E i \in I : \A j \in I : i <= j
      <3> HIDE DEF I
      <3>1. QED
        BY <1>3, <2>1, LeastNumber
    <2>3. Min(I) \in I
      BY <2>2 DEF Min
    <2>4. QED
      BY <1>1, <1>3, <2>3 DEF Lists
  <1>4. QED
    BY <1>2, <1>3

LEMMA Record ==
    ASSUME NEW r \in ServicesData
    PROVE  r = [name |-> r.name, active |-> r.active, broadcast |-> r.broadcast,
                PortrangeList |-> r.PortrangeList, saved |-> r.saved]
  BY DEF ServicesData

LEMMA AsList ==
    ASSUME NEW f, NEW n \in Nat, f = [i \in 1 .. n |-> f[i]],
           \A i \in 1 .. n : f[i] \in ServicesData
    PROVE  f \in Lists /\ Len(f) = n
  <1>1. f \in [1 .. n -> ServicesData]
    OBVIOUS
  <1>2. QED
    BY <1>1 DEF Lists

(* The same service, if not as well saved: of these names it is not.       *)
Faded(new, old, names) ==
    /\ new \in ServicesData
    /\ new.name = old.name /\ new.active = old.active /\ new.broadcast = old.broadcast
    /\ new.PortrangeList = old.PortrangeList
    /\ new.saved => old.saved /\ old.name \notin names

LEMMA Unsaving ==
    ASSUME NEW list \in Lists, NEW names
    PROVE  /\ Unsaved(list, names) \in Lists
           /\ DOMAIN Unsaved(list, names) = DOMAIN list
           /\ Len(Unsaved(list, names)) = Len(list)
           /\ \A s \in DOMAIN list : Faded(Unsaved(list, names)[s], list[s], names)
  <1> DEFINE new == Unsaved(list, names)
  <1>1. ASSUME NEW s \in DOMAIN list PROVE Faded(new[s], list[s], names)
    <2>1. list[s] \in ServicesData
      BY DEF Lists
    <2>2. PICK r \in ServicesData : r = list[s]
      BY <2>1
    <2>3. new[s] = [r EXCEPT !.saved = r.saved /\ r.name \notin names]
      BY <2>2 DEF Unsaved
    <2>4. (r.saved /\ r.name \notin names) \in BOOLEAN
      OBVIOUS
    <2>5. PICK b \in BOOLEAN : b <=> (r.saved /\ r.name \notin names)
      BY <2>4
    <2>6. new[s] = [r EXCEPT !.saved = b]
      BY <2>3, <2>5
    <2> HIDE DEF new
    <2>7. new[s] \in ServicesData /\ new[s].saved = b
      BY <2>6 DEF ServicesData
    <2>8. /\ new[s].name = r.name /\ new[s].active = r.active
          /\ new[s].broadcast = r.broadcast /\ new[s].PortrangeList = r.PortrangeList
      BY <2>6 DEF ServicesData
    <2>9. QED
      BY <2>2, <2>5, <2>7, <2>8 DEF Faded
  <1>2. DOMAIN new = DOMAIN list
    BY DEF Unsaved
  <1>3. new = [s \in DOMAIN list |-> new[s]] /\ DOMAIN list = 1 .. Len(list) /\ Len(list) \in Nat
    BY DEF Unsaved, Lists
  <1> HIDE DEF new
  <1>4. \A s \in 1 .. Len(list) : new[s] \in ServicesData
    BY <1>1, <1>3 DEF Faded
  <1>5. new = [s \in 1 .. Len(list) |-> new[s]] /\ Len(list) \in Nat
    BY <1>3
  <1>6. new \in Lists /\ Len(new) = Len(list)
    BY <1>4, <1>5, AsList
  <1>7. QED
    BY <1>1, <1>2, <1>6 DEF new

(* What stays of a list when the service at one place is another one.      *)
Swapped(new, old, place) ==
    /\ new \in Lists
    /\ Len(new) = Len(old) /\ DOMAIN new = DOMAIN old
    /\ \A s \in DOMAIN old : s # place => new[s] = old[s]

LEMMA Marking ==
    ASSUME NEW list \in Lists, NEW k \in DOMAIN list, NEW b \in BOOLEAN
    PROVE  /\ Swapped([list EXCEPT ![k].saved = b], list, k)
           /\ [list EXCEPT ![k].saved = b][k] =
                [name |-> list[k].name, active |-> list[k].active,
                 broadcast |-> list[k].broadcast,
                 PortrangeList |-> list[k].PortrangeList, saved |-> b]
  <1>1. PICK r \in ServicesData : r = list[k]
    BY DEF Lists
  <1>2. [r EXCEPT !.saved = b] \in ServicesData
    BY DEF ServicesData
  <1>3. [list EXCEPT ![k].saved = b] = [list EXCEPT ![k] = [r EXCEPT !.saved = b]]
    BY <1>1
  <1>4. [r EXCEPT !.saved = b] =
                [name |-> r.name, active |-> r.active, broadcast |-> r.broadcast,
                 PortrangeList |-> r.PortrangeList, saved |-> b]
    BY DEF ServicesData
  <1>5. QED
    BY <1>1, <1>2, <1>3, <1>4 DEF Lists, Swapped

FormAnswers(list, k, a, b) == [list EXCEPT ![k].active = a, ![k].broadcast = b]

LEMMA Answering ==
    ASSUME NEW list \in Lists, NEW k \in DOMAIN list, NEW a \in BOOLEAN, NEW b \in BOOLEAN
    PROVE  /\ Swapped(FormAnswers(list, k, a, b), list, k)
           /\ FormAnswers(list, k, a, b)[k] =
                [name |-> list[k].name, active |-> a, broadcast |-> b,
                 PortrangeList |-> list[k].PortrangeList, saved |-> list[k].saved]
  <1>1. PICK r \in ServicesData : r = list[k]
    BY DEF Lists
  <1>2. [r EXCEPT !.active = a, !.broadcast = b] \in ServicesData
    BY DEF ServicesData
  <1>3. FormAnswers(list, k, a, b) = [list EXCEPT ![k] = [r EXCEPT !.active = a, !.broadcast = b]]
    BY <1>1 DEF FormAnswers
  <1> DEFINE x == [r EXCEPT !.active = a, !.broadcast = b]
  <1>6. /\ x.name = r.name /\ x.active = a /\ x.broadcast = b
        /\ x.PortrangeList = r.PortrangeList /\ x.saved = r.saved
    BY DEF ServicesData
  <1>4. x = [name |-> r.name, active |-> a, broadcast |-> b,
             PortrangeList |-> r.PortrangeList, saved |-> r.saved]
    BY <1>2, <1>6, Record
  <1>5. QED
    BY <1>1, <1>2, <1>3, <1>4 DEF Lists, Swapped

LEMMA Ranging ==
    ASSUME NEW list \in Lists, NEW k \in DOMAIN list, NEW ranges \in Seq(Portdata)
    PROVE  /\ Swapped([list EXCEPT ![k].PortrangeList = ranges], list, k)
           /\ [list EXCEPT ![k].PortrangeList = ranges][k] =
                [name |-> list[k].name, active |-> list[k].active,
                 broadcast |-> list[k].broadcast,
                 PortrangeList |-> ranges, saved |-> list[k].saved]
  <1>1. PICK r \in ServicesData : r = list[k]
    BY DEF Lists
  <1>2. [r EXCEPT !.PortrangeList = ranges] \in ServicesData
    BY DEF ServicesData
  <1>3. [list EXCEPT ![k].PortrangeList = ranges] =
        [list EXCEPT ![k] = [r EXCEPT !.PortrangeList = ranges]]
    BY <1>1
  <1>4. [r EXCEPT !.PortrangeList = ranges] =
                [name |-> r.name, active |-> r.active, broadcast |-> r.broadcast,
                 PortrangeList |-> ranges, saved |-> r.saved]
    BY DEF ServicesData
  <1>5. QED
    BY <1>1, <1>2, <1>3, <1>4 DEF Lists, Swapped

Put(list, k, place, p) ==
    [list EXCEPT ![k].PortrangeList[place] = p, ![k].saved = FALSE]

LEMMA Putting ==
    ASSUME NEW list \in Lists, NEW k \in DOMAIN list, NEW place \in DOMAIN list[k].PortrangeList,
           NEW p \in Portdata
    PROVE  /\ Swapped(Put(list, k, place, p), list, k)
           /\ Put(list, k, place, p)[k].name = list[k].name
           /\ Put(list, k, place, p)[k].PortrangeList \in Seq(Portdata)
           /\ Put(list, k, place, p)[k].saved = FALSE
  <1>1. PICK r \in ServicesData : r = list[k]
    BY DEF Lists
  <1>2. PICK ranges \in Seq(Portdata) : ranges = r.PortrangeList
    BY DEF ServicesData
  <1>3. [ranges EXCEPT ![place] = p] \in Seq(Portdata)
    BY <1>1, <1>2
  <1> DEFINE put == [r EXCEPT !.PortrangeList[place] = p, !.saved = FALSE]
  <1>4. put = [r EXCEPT !.PortrangeList = [ranges EXCEPT ![place] = p], !.saved = FALSE]
    BY <1>2 DEF ServicesData
  <1>5. put \in ServicesData /\ put.name = r.name /\ put.saved = FALSE
        /\ put.PortrangeList = [ranges EXCEPT ![place] = p]
    BY <1>2, <1>3, <1>4 DEF ServicesData
  <1>6. Put(list, k, place, p) = [list EXCEPT ![k] = put]
    BY <1>1 DEF Put
  <1> HIDE DEF put
  <1>7. Swapped([list EXCEPT ![k] = put], list, k) /\ [list EXCEPT ![k] = put][k] = put
    BY <1>5 DEF Lists, Swapped
  <1>8. Swapped(Put(list, k, place, p), list, k) /\ Put(list, k, place, p)[k] = put
    BY <1>6, <1>7
  <1>9. QED
    BY <1>1, <1>2, <1>3, <1>5, <1>8

NamedAnew(list, k, name, b) == [list EXCEPT ![k].name = name, ![k].saved = b]

LEMMA Naming ==
    ASSUME NEW list \in Lists, NEW k \in DOMAIN list, NEW name \in Names, NEW b \in BOOLEAN
    PROVE  /\ Swapped(NamedAnew(list, k, name, b), list, k)
           /\ NamedAnew(list, k, name, b)[k] =
                [name |-> name, active |-> list[k].active,
                 broadcast |-> list[k].broadcast,
                 PortrangeList |-> list[k].PortrangeList, saved |-> b]
  <1>1. PICK r \in ServicesData : r = list[k]
    BY DEF Lists
  <1>2. [r EXCEPT !.name = name, !.saved = b] \in ServicesData
    BY DEF ServicesData
  <1>3. NamedAnew(list, k, name, b) = [list EXCEPT ![k] = [r EXCEPT !.name = name, !.saved = b]]
    BY <1>1 DEF NamedAnew
  <1> DEFINE x == [r EXCEPT !.name = name, !.saved = b]
  <1>6. /\ x.name = name /\ x.active = r.active /\ x.broadcast = r.broadcast
        /\ x.PortrangeList = r.PortrangeList /\ x.saved = b
    BY DEF ServicesData
  <1>4. x = [name |-> name, active |-> r.active, broadcast |-> r.broadcast,
             PortrangeList |-> r.PortrangeList, saved |-> b]
    BY <1>2, <1>6, Record
  <1>5. QED
    BY <1>1, <1>2, <1>3, <1>4 DEF Lists, Swapped

-----------------------------------------------------------------------------
(* What is in a file, and what is read and written of it.                  *)

LEMMA WrittenType ==
    ASSUME NEW p \in Portdata
    PROVE  Written(p) \in Portdata
  BY DEF Written, NoPorts, Portdata

LEMMA FittingType ==
    ASSUME NEW ranges \in Seq(Portdata)
    PROVE  Fitting(ranges) \in 0 .. Len(ranges)
  <1> DEFINE bad == {i \in DOMAIN ranges : TextLength(ranges[i]) > MaxText}
  <1>1. CASE bad = {}
    BY <1>1 DEF Fitting
  <1>2. CASE bad # {}
    <2>1. bad \subseteq Nat
      OBVIOUS
    <2>2. \E i \in bad : \A j \in bad : i <= j
      <3> HIDE DEF bad
      <3>1. QED
        BY <1>2, <2>1, LeastNumber
    <2>3. PICK i \in bad : Fitting(ranges) = i - 1
      BY <1>2, <2>2 DEF Fitting
    <2>4. QED
      BY <2>3
  <1>3. QED
    BY <1>1, <1>2

(* The lines of a file are ranges, however many are told. *)
LEMMA SavedRangesType ==
    ASSUME NEW ranges \in Seq(Portdata), NEW lines \in Seq(Portdata),
           NEW n \in 0 .. CanTell(ranges)
    PROVE  SavedRanges(lines, ranges, n) \in Seq(Portdata)
  <1>1. CASE ranges = << >>
    BY <1>1 DEF SavedRanges
  <1>2. CASE ranges # << >>
    <2>1. n \in 0 .. Len(ranges)
      BY <1>2, FittingType DEF CanTell
    <2>2. CASE n = 0
      BY <1>2, <2>2 DEF SavedRanges, ToldRanges
    <2>3. CASE n # 0
      <3> DEFINE told == [i \in 1..n |-> Written(ranges[i])]
      <3>1. SavedRanges(lines, ranges, n) = told
        BY <1>2, <2>3 DEF SavedRanges, ToldRanges
      <3>2. \A i \in 1..n : ranges[i] \in Portdata
        BY <2>1
      <3>3. \A i \in 1..n : Written(ranges[i]) \in Portdata
        BY <3>2, WrittenType
      <3>4. told \in [1..n -> Portdata]
        BY <3>3
      <3>5. QED
        BY <2>1, <3>1, <3>4
    <2>4. QED
      BY <2>2, <2>3
  <1>3. QED
    BY <1>1, <1>2

(* All of them. *)
Texts(ranges) == [i \in DOMAIN ranges |-> Written(ranges[i])]

LEMMA SavedWhole ==
    ASSUME NEW ranges \in Seq(Portdata), NEW lines
    PROVE  SavedRanges(lines, ranges, ToTell(ranges)) = Texts(ranges)
  <1>1. CASE ranges = << >>
    BY <1>1 DEF SavedRanges, ToTell, Texts
  <1>2. CASE ranges # << >>
    <2>1. ToTell(ranges) = Len(ranges) /\ Len(ranges) # 0
      BY <1>2 DEF ToTell
    <2>2. DOMAIN ranges = 1 .. Len(ranges)
      OBVIOUS
    <2>3. QED
      BY <1>2, <2>1, <2>2 DEF SavedRanges, ToldRanges, Texts
  <1>3. QED
    BY <1>1, <1>2

(* What was told of readable ranges can be read, if the lines could. *)
LEMMA SavedReadable ==
    ASSUME NEW ranges \in Seq(Portdata), NEW lines \in Seq(Portdata),
           NEW n \in 0 .. CanTell(ranges),
           AllReadable(lines), AllReadable(Texts(ranges))
    PROVE  AllReadable(SavedRanges(lines, ranges, n))
  <1>1. CASE ranges = << >>
    BY <1>1 DEF SavedRanges, AllReadable
  <1>2. CASE ranges # << >>
    <2>1. n \in 0 .. Len(ranges)
      BY <1>2, FittingType DEF CanTell
    <2>2. CASE n = 0
      BY <1>2, <2>2 DEF SavedRanges, ToldRanges
    <2>3. CASE n # 0
      <3> DEFINE told == [i \in 1..n |-> Written(ranges[i])]
      <3>1. SavedRanges(lines, ranges, n) = told
        BY <1>2, <2>3 DEF SavedRanges, ToldRanges
      <3>2. ASSUME NEW i \in 1..n PROVE Readable(Written(ranges[i]))
        <4>1. i \in DOMAIN ranges
          BY <2>1
        <4>2. QED
          BY <4>1 DEF AllReadable, Texts
      <3>3. QED
        BY <3>1, <3>2 DEF AllReadable
    <2>4. QED
      BY <2>2, <2>3
  <1>3. QED
    BY <1>1, <1>2

LEMMA SplitPortType == \A n \in Int : SplitPort(n) \in Nat /\ (IsPort(n) => SplitPort(n) = n)
  BY DEF SplitPort, Abs, IsPort

LEMMA ProcessPortrangeType ==
    ASSUME NEW p \in Portdata
    PROVE  ProcessPortrange(p) \in Portdata
  BY SplitPortType DEF ProcessPortrange, Portdata

(* A text of ports is read as it was written. *)
LEMMA ProcessWritten ==
    ASSUME NEW p \in Portdata, \A n \in Numbers(p) : IsPort(n)
    PROVE  Readable(Written(p)) /\ ProcessPortrange(Written(p)) = Written(p)
  <1>1. IsPort(0)
    BY DEF IsPort
  <1>2. \A n \in Numbers(Written(p)) : IsPort(n) /\ n \in Int
    BY <1>1 DEF Written, Numbers, NoPorts, Portdata
  <1>3. \A n \in Int : IsPort(n) => n <= 65535
    BY DEF IsPort
  <1>4. Written(p) \in Portdata
    BY WrittenType
  <1> DEFINE w == Written(p)
  <1> HIDE DEF w
  <1>5. w \in Portdata /\ \A n \in Numbers(w) : IsPort(n) /\ n \in Int
    BY <1>2, <1>4 DEF w
  <1>6. Readable(w)
    BY <1>3, <1>5, SplitPortType DEF Readable
  <1>7. /\ SplitPort(w.src_low) = w.src_low /\ SplitPort(w.src_high) = w.src_high
        /\ SplitPort(w.dst_low) = w.dst_low /\ SplitPort(w.dst_high) = w.dst_high
    BY <1>5, SplitPortType DEF Numbers
  <1>8. ProcessPortrange(w) = w
    BY <1>5, <1>7 DEF ProcessPortrange, Portdata
  <1>9. QED
    BY <1>6, <1>8 DEF w

(* A text that could be read can be read again. *)
LEMMA ProcessReadable ==
    ASSUME NEW p \in Portdata, Readable(p)
    PROVE  Readable(Written(ProcessPortrange(p)))
  <1> DEFINE r == ProcessPortrange(p)
  <1>1. p.src_low \in Int /\ p.src_high \in Int /\ p.dst_low \in Int /\ p.dst_high \in Int
    BY DEF Portdata
  <1>2. /\ IsPort(SplitPort(p.src_low)) /\ IsPort(SplitPort(p.src_high))
        /\ IsPort(SplitPort(p.dst_low)) /\ IsPort(SplitPort(p.dst_high))
    <2>1. \A n \in Numbers(p) : IsPort(SplitPort(n))
      BY <1>1, SplitPortType DEF Readable, Numbers, IsPort
    <2>2. p.src_low \in Numbers(p) /\ p.src_high \in Numbers(p)
          /\ p.dst_low \in Numbers(p) /\ p.dst_high \in Numbers(p)
      BY DEF Numbers
    <2>3. QED
      BY <2>1, <2>2
  <1>3. \A n \in Numbers(r) : IsPort(n)
    BY <1>2 DEF ProcessPortrange, Numbers
  <1>4. r \in Portdata
    BY ProcessPortrangeType
  <1>5. QED
    BY <1>3, <1>4, ProcessWritten

(* What is read of a file is a list of ranges. *)
LEMMA ReadRangesType ==
    ASSUME NEW row \in Line
    PROVE  ReadRanges(row) \in Seq(Portdata)
  <1>1. PICK texts \in Seq(Portdata) :
            ReadRanges(row) = [i \in DOMAIN texts |-> ProcessPortrange(texts[i])]
    BY DEF ReadRanges, Line
  <1>2. \A i \in DOMAIN texts : texts[i] \in Portdata
    OBVIOUS
  <1>3. \A i \in DOMAIN texts : ProcessPortrange(texts[i]) \in Portdata
    BY <1>2, ProcessPortrangeType
  <1>4. ReadRanges(row) \in [1 .. Len(texts) -> Portdata]
    BY <1>1, <1>3
  <1>5. QED
    BY <1>4

(* What is read of a file that is not refused can be saved and read again. *)
LEMMA ReadRangesReadable ==
    ASSUME NEW row \in Line, ~ ReadFails(row)
    PROVE  AllReadable(Texts(ReadRanges(row)))
  <1>1. PICK texts \in Seq(Portdata) :
            /\ ReadRanges(row) = [i \in DOMAIN texts |-> ProcessPortrange(texts[i])]
            /\ AllReadable(texts)
    BY DEF ReadRanges, Line, ReadFails
  <1>2. \A i \in DOMAIN texts : texts[i] \in Portdata /\ Readable(texts[i])
    BY <1>1 DEF AllReadable
  <1>3. \A i \in DOMAIN texts : Readable(Written(ProcessPortrange(texts[i])))
    BY <1>2, ProcessReadable
  <1>4. QED
    BY <1>1, <1>3 DEF AllReadable, Texts

-----------------------------------------------------------------------------
(* The invariants.                                                         *)

RowsOK(files) ==
    /\ files \in [DOMAIN files -> Line]
    /\ DOMAIN files \subseteq Names
    /\ IsFiniteSet(DOMAIN files)

(* What the types say. *)
Shape ==
    /\ RowsOK(disk)
    /\ services \in Lists
    /\ savedRules \in Seq(Names) /\ rules \in Seq(Names)
    /\ screen \in {"down", "services", "service", "ports"}
    /\ hidden \subseteq Names /\ gone \subseteq Names
    /\ cur \in 0 .. Len(services) /\ (cur = 0 <=> screen \in {"down", "services"})
    /\ shown \in Seq(Portdata)
    /\ unchecked \in BOOLEAN /\ ops \in 0 .. MaxOps

(* The fields of a service are those of the file. *)
Matches(files, service) ==
    /\ service.name \in DOMAIN files
    /\ files[service.name].ACTIVE = service.active
    /\ files[service.name].BROADCAST = service.broadcast

(* And if it is saved, so are its ranges. *)
Fits(files, service) ==
    service.saved => /\ Matches(files, service)
                     /\ files[service.name].RANGE = Texts(service.PortrangeList)

Sound(files, list) ==
    \A s \in DOMAIN list : ValidName(list[s].name) /\ Fits(files, list[s])

SavedInv == Sound(disk, services)

(* What is in the files of services, and in memory, can be read. *)
OldRows(files) == \A n \in DOMAIN files : ValidName(n) => AllReadable(files[n].OLD)
NewRows(files) == \A n \in DOMAIN files : ValidName(n) => AllReadable(files[n].RANGE)
Tellable(list) == \A s \in DOMAIN list : AllReadable(Texts(list[s].PortrangeList))

ReadableInv == ~ unchecked => NewRows(disk) /\ Tellable(services)

StillReadable == (OldRows(disk) => OldRows(disk')) /\ (ReadableInv => ReadableInv')

(* What every step keeps. *)
Goes == Shape' /\ SavedInv' /\ StillReadable

(* Nothing happens to the files, nor to the services. *)
LEMMA Unmoved ==
    ASSUME SavedInv, UNCHANGED <<disk, services, unchecked>>
    PROVE  SavedInv' /\ StillReadable
  BY DEF SavedInv, Sound, Fits, Matches, StillReadable, ReadableInv, OldRows, NewRows, Tellable

-----------------------------------------------------------------------------
(* Saving the ranges of the service in the form.                           *)

(* The services but for the one in the form are sound, whatever the file   *)
(* of that one has.                                                        *)
Others(files, list, place) ==
    \A s \in DOMAIN list :
        /\ ValidName(list[s].name)
        /\ s # place /\ list[s].name # list[place].name => Fits(files, list[s])

LEMMA SaveStep ==
    ASSUME NEW list \in Lists, NEW files, RowsOK(files), NEW same \in BOOLEAN,
           NEW n \in Told(list, files), cur \in DOMAIN list,
           SavePortranges(list, files, same, n)
    PROVE  /\ RowsOK(disk')
           /\ services' \in Lists /\ Len(services') = Len(list)
           /\ services'[cur].PortrangeList = list[cur].PortrangeList
           /\ Others(files, list, cur) /\ (same => Matches(files, list[cur]))
                => Sound(disk', services')
           /\ OldRows(files) => OldRows(disk')
           /\ NewRows(files) /\ Tellable(list) => NewRows(disk') /\ Tellable(services')
  <1> DEFINE service == list[cur]
             name    == service.name
             ranges  == service.PortrangeList
             bare    == Unsaved(list, {name})
  <1>1. service \in ServicesData
    BY DEF Lists
  <1>2. ranges \in Seq(Portdata) /\ name \in Names
    BY <1>1 DEF ServicesData
  <1>3. bare \in Lists /\ DOMAIN bare = DOMAIN list /\ Len(bare) = Len(list)
        /\ \A s \in DOMAIN list : Faded(bare[s], list[s], {name})
    <2> HIDE DEF name
    <2>1. QED
      BY Unsaving
  <1>4. PICK b \in BOOLEAN : b <=> (same /\ Complete(list, n))
    OBVIOUS
  <1>5. services' = [bare EXCEPT ![cur].saved = b]
    BY <1>4 DEF SavePortranges
  <1>6. /\ Swapped(services', bare, cur)
        /\ services'[cur] = [name |-> bare[cur].name, active |-> bare[cur].active,
                              broadcast |-> bare[cur].broadcast,
                              PortrangeList |-> bare[cur].PortrangeList, saved |-> b]
    <2> HIDE DEF bare
    <2>1. QED
      BY <1>3, <1>5, Marking
  <1>7. services' \in Lists /\ Len(services') = Len(list) /\ DOMAIN services' = DOMAIN list
    BY <1>3, <1>6 DEF Swapped
  <1>8. ASSUME NEW s \in DOMAIN list
        PROVE  /\ services'[s].name = list[s].name /\ services'[s].active = list[s].active
               /\ services'[s].broadcast = list[s].broadcast
               /\ services'[s].PortrangeList = list[s].PortrangeList
               /\ services'[s].saved => \/ s = cur /\ same /\ Complete(list, n)
                                        \/ s # cur /\ list[s].saved /\ list[s].name # name
    <2>1. CASE s = cur
      <3> HIDE DEF bare, ranges, name, service
      <3>1. /\ services'[s].name = bare[s].name /\ services'[s].active = bare[s].active
            /\ services'[s].broadcast = bare[s].broadcast
            /\ services'[s].PortrangeList = bare[s].PortrangeList /\ services'[s].saved = b
        BY <1>6, <2>1
      <3>2. Faded(bare[s], list[s], {name})
        BY <1>3
      <3>3. services'[s].saved => same /\ Complete(list, n)
        BY <1>4, <3>1
      <3>4. QED
        BY <2>1, <3>1, <3>2, <3>3 DEF Faded
    <2>2. CASE s # cur
      <3>1. services'[s] = bare[s]
        BY <1>3, <1>6, <2>2 DEF Swapped
      <3>2. QED
        BY <1>3, <2>2, <3>1 DEF Faded
    <2>3. QED
      BY <2>1, <2>2
  <1>9. CASE name \notin DOMAIN files
    <2>1. disk' = files
      BY <1>9 DEF SavePortranges
    <2>2. n = 0
      BY <1>9 DEF Told
    <2>3. ~ Complete(list, n)
      <3>1. ToTell(ranges) # 0
        BY <1>2 DEF ToTell
      <3>2. QED
        BY <2>2, <3>1 DEF Complete
    <2>4. ASSUME Others(files, list, cur) PROVE Sound(disk', services')
      BY <1>7, <1>8, <2>1, <2>3, <2>4 DEF Others, Sound, Fits, Matches
    <2>5. Tellable(list) => Tellable(services')
      BY <1>7, <1>8 DEF Tellable
    <2>6. QED
      BY <1>7, <1>8, <2>1, <2>4, <2>5
  <1>10. CASE name \in DOMAIN files
    <2> DEFINE row == files[name]
               saved == SavedRanges(row.RANGE, ranges, n)
    <2>1. row \in Line
      BY <1>10 DEF RowsOK
    <2>2. disk' = [files EXCEPT ![name].RANGE = saved]
      BY <1>10 DEF SavePortranges
    <2>3. n \in 0 .. CanTell(ranges)
      BY <1>10 DEF Told
    <2>4. row.RANGE \in Seq(Portdata)
      BY <2>1 DEF Line
    <2>5. saved \in Seq(Portdata)
      BY <1>2, <2>3, <2>4, SavedRangesType
    <2>6. Complete(list, n) => saved = Texts(ranges)
      BY <1>2, SavedWhole DEF Complete
    <2>7. AllReadable(row.RANGE) /\ AllReadable(Texts(ranges)) => AllReadable(saved)
      BY <1>2, <2>3, <2>4, SavedReadable
    <2> HIDE DEF saved, row, ranges, name
    <2>8. DOMAIN disk' = DOMAIN files
      BY <2>2
    <2>9. \A m \in DOMAIN files : m # name => disk'[m] = files[m]
      BY <2>2
    <2>10. /\ disk'[name] \in Line /\ disk'[name].RANGE = saved
           /\ disk'[name].OLD = row.OLD /\ disk'[name].ACTIVE = row.ACTIVE
           /\ disk'[name].BROADCAST = row.BROADCAST
      <3>1. disk'[name] = [row EXCEPT !.RANGE = saved]
        BY <1>10, <2>2 DEF row
      <3>2. QED
        BY <2>1, <2>5, <3>1 DEF Line
    <2>11. RowsOK(disk')
      <3>1. disk' \in [DOMAIN files -> Line]
        <4>1. disk' = [m \in DOMAIN files |-> disk'[m]]
          BY <2>2
        <4>2. \A m \in DOMAIN files : disk'[m] \in Line
          BY <2>9, <2>10 DEF RowsOK
        <4> DEFINE d == disk'
        <4> HIDE DEF d
        <4>3. d = [m \in DOMAIN files |-> d[m]] /\ \A m \in DOMAIN files : d[m] \in Line
          BY <4>1, <4>2 DEF d
        <4>4. d \in [DOMAIN files -> Line]
          BY <4>3
        <4>5. QED
          BY <4>4 DEF d
      <3>2. QED
        BY <2>8, <3>1 DEF RowsOK
    <2>12. ASSUME Others(files, list, cur), same => Matches(files, list[cur])
           PROVE  Sound(disk', services')
      <3>1. SUFFICES ASSUME NEW s \in DOMAIN list
                     PROVE  ValidName(services'[s].name) /\ Fits(disk', services'[s])
        BY <1>7 DEF Sound
      <3>2. ValidName(services'[s].name)
        BY <1>8, <2>12 DEF Others
      <3>3. SUFFICES ASSUME services'[s].saved PROVE Fits(disk', services'[s])
        BY <3>2 DEF Fits
      <3>4. CASE s = cur /\ same /\ Complete(list, n)
        <4>1. Matches(disk', services'[s])
          BY <1>8, <1>10, <2>8, <2>10, <2>12, <3>4 DEF Matches, name, row
        <4>2. disk'[services'[s].name].RANGE = Texts(services'[s].PortrangeList)
          BY <1>8, <2>6, <2>10, <3>4 DEF name, ranges
        <4>3. QED
          BY <4>1, <4>2 DEF Fits
      <3>5. CASE s # cur /\ list[s].saved /\ list[s].name # name
        <4>1. Fits(files, list[s])
          BY <2>12, <3>5 DEF Others, name
        <4>2. QED
          BY <1>8, <2>8, <2>9, <3>5, <4>1 DEF Fits, Matches
      <3>6. QED
        BY <1>8, <3>3, <3>4, <3>5 DEF name
    <2>13. OldRows(files) => OldRows(disk')
      BY <1>10, <2>8, <2>9, <2>10 DEF OldRows, row
    <2>14. ASSUME NewRows(files), Tellable(list)
           PROVE  NewRows(disk') /\ Tellable(services')
      <3>1. Tellable(services')
        BY <1>7, <1>8, <2>14 DEF Tellable
      <3>2. AllReadable(Texts(ranges))
        BY <2>14 DEF Tellable, ranges
      <3>3. ASSUME NEW m \in DOMAIN files, ValidName(m) PROVE AllReadable(disk'[m].RANGE)
        <4>1. AllReadable(files[m].RANGE)
          BY <2>14, <3>3 DEF NewRows
        <4>2. CASE m = name
          BY <2>7, <2>10, <3>2, <4>1, <4>2 DEF row
        <4>3. CASE m # name
          BY <2>9, <4>1, <4>3
        <4>4. QED
          BY <4>2, <4>3
      <3>4. QED
        BY <2>8, <3>1, <3>3 DEF NewRows
    <2>15. QED
      BY <1>7, <1>8, <2>11, <2>12, <2>13, <2>14
  <1>11. QED
    BY <1>9, <1>10

-----------------------------------------------------------------------------
(* The menu of services.                                                   *)

(* A list with one more service, or one less. *)
LEMMA InsertServiceType ==
    ASSUME NEW list \in Lists, NEW service \in ServicesData
    PROVE  /\ InsertService(list, service) \in Lists
           /\ \A i \in DOMAIN InsertService(list, service) :
                \/ InsertService(list, service)[i] = service
                \/ \E j \in DOMAIN list : InsertService(list, service)[i] = list[j]
           /\ \E i \in DOMAIN InsertService(list, service) :
                InsertService(list, service)[i] = service
  <1> DEFINE before == {i \in DOMAIN list : service.name <= list[i].name}
  <1>1. list \in Seq(ServicesData) /\ DOMAIN list = 1 .. Len(list) /\ Len(list) \in Nat
    BY DEF Lists
  <1>2. PICK k \in 1 .. Len(list) + 1 : InsertService(list, service) = InsertAt(list, k, service)
    <2>1. CASE before = {}
      BY <1>1, <2>1 DEF InsertService
    <2>2. CASE before # {}
      <3>1. before \subseteq Nat
        BY <1>1
      <3>2. \E i \in before : \A j \in before : i <= j
        <4> HIDE DEF before
        <4>1. QED
          BY <2>2, <3>1, LeastNumber
      <3>3. PICK k \in before : InsertService(list, service) = InsertAt(list, k, service)
        BY <2>2, <3>2 DEF InsertService
      <3>4. QED
        BY <1>1, <3>3
    <2>3. QED
      BY <2>1, <2>2
  <1> DEFINE new == InsertAt(list, k, service)
  <1>3. /\ new \in Seq(ServicesData) /\ Len(new) = Len(list) + 1
        /\ \A i \in 1 .. Len(list) + 1 :
             new[i] = IF i < k THEN list[i] ELSE IF i = k THEN service ELSE list[i - 1]
    BY <1>1, Inserted
  <1> HIDE DEF new
  <1>4. DOMAIN new = 1 .. Len(list) + 1
    BY <1>3
  <1>5. ASSUME NEW i \in DOMAIN new
        PROVE  new[i] = service \/ \E j \in DOMAIN list : new[i] = list[j]
    <2>1. CASE i < k
      BY <1>1, <1>3, <1>4, <2>1
    <2>2. CASE i = k
      BY <1>3, <1>4, <2>2
    <2>3. CASE i > k
      <3>1. i - 1 \in DOMAIN list /\ new[i] = list[i - 1]
        BY <1>1, <1>3, <1>4, <2>3
      <3>2. QED
        BY <3>1
    <2>4. QED
      BY <1>4, <2>1, <2>2, <2>3
  <1>6. new[k] = service /\ k \in DOMAIN new
    BY <1>1, <1>3, <1>4
  <1>7. QED
    BY <1>2, <1>3, <1>5, <1>6 DEF new, Lists

LEMMA RemoveServiceType ==
    ASSUME NEW list \in Lists, NEW k \in DOMAIN list
    PROVE  /\ RemoveAt(list, k) \in Lists
           /\ \A i \in DOMAIN RemoveAt(list, k) :
                \E j \in DOMAIN list : RemoveAt(list, k)[i] = list[j]
  <1>1. list \in Seq(ServicesData) /\ DOMAIN list = 1 .. Len(list) /\ Len(list) \in Nat
    BY DEF Lists
  <1> DEFINE new == RemoveAt(list, k)
  <1>2. /\ new \in Seq(ServicesData) /\ Len(new) = Len(list) - 1
        /\ \A i \in 1 .. Len(list) - 1 : new[i] = IF i < k THEN list[i] ELSE list[i + 1]
    BY <1>1, Removed
  <1> HIDE DEF new
  <1>3. ASSUME NEW i \in DOMAIN new PROVE \E j \in DOMAIN list : new[i] = list[j]
    <2>1. i \in 1 .. Len(list) - 1
      BY <1>2
    <2>2. i \in DOMAIN list /\ i + 1 \in DOMAIN list
      BY <1>1, <2>1
    <2>3. QED
      BY <1>2, <2>1, <2>2
  <1>4. QED
    BY <1>2, <1>3 DEF new, Lists

LEMMA ReadServiceType ==
    ASSUME NEW name \in Names, NEW row \in Line
    PROVE  ReadService(name, row) \in ServicesData
  BY ReadRangesType DEF ReadService, ServicesData, Line

LEMMA StartStep ==
    ASSUME Shape, SavedInv, Start
    PROVE  Goes
  <1> DEFINE N    == Cardinality(ServiceFiles)
             Read == {ReadService(n, disk[n]) : n \in ServiceFiles}
  <1>1. IsFiniteSet(ServiceFiles) /\ ServiceFiles \subseteq DOMAIN disk
    BY FS_Subset DEF Shape, RowsOK, ServiceFiles
  <1>2. N \in Nat
    BY <1>1, FS_CardinalityType
  <1>3. \A n \in ServiceFiles : disk[n] \in Line /\ n \in Names /\ ValidName(n)
    BY <1>1 DEF Shape, RowsOK, ServiceFiles
  <1>4. Read \subseteq ServicesData
    BY <1>3, ReadServiceType
  <1>5. services' \in [1 .. N -> Read]
    BY DEF Start, InitServices
  <1> HIDE DEF N
  <1>6. services' \in Lists /\ Len(services') = N /\ DOMAIN services' = 1 .. N
    BY <1>2, <1>4, <1>5 DEF Lists
  <1>7. \A s \in DOMAIN services' : \E n \in ServiceFiles : services'[s] = ReadService(n, disk[n])
    BY <1>5
  <1>8. Shape'
    BY <1>6 DEF Start, Shape, RowsOK
  <1>9. SavedInv'
    BY <1>3, <1>7 DEF Start, SavedInv, Sound, Fits, ReadService
  <1>10. Tellable(services')
    <2>1. ASSUME NEW n \in ServiceFiles
          PROVE  AllReadable(Texts(ReadService(n, disk[n]).PortrangeList))
      <3>1. disk[n] \in Line /\ ~ ReadFails(disk[n])
        BY <1>3 DEF Start, Loads
      <3>2. QED
        BY <3>1, ReadRangesReadable DEF ReadService
    <2>2. QED
      BY <1>7, <2>1 DEF Tellable
  <1>11. StillReadable
    BY <1>10 DEF Start, StillReadable, ReadableInv, OldRows, NewRows
  <1>12. QED
    BY <1>8, <1>9, <1>11 DEF Goes

LEMMA QuitStep ==
    ASSUME Shape, SavedInv, Quit
    PROVE  Goes
  <1>1. services' = << >> /\ services' \in Lists
    BY DEF Quit, Lists
  <1>2. Shape'
    BY <1>1 DEF Quit, Shape, RowsOK
  <1>3. SavedInv' /\ StillReadable
    BY <1>1 DEF Quit, SavedInv, Sound, StillReadable, ReadableInv, OldRows, NewRows, Tellable
  <1>4. QED
    BY <1>2, <1>3 DEF Goes

(* The four steps that only change the screen. *)
LEMMA ScreenStep ==
    ASSUME Shape, SavedInv,
           \/ ReopenSection \/ EditPortranges \/ ClosePortranges
           \/ \E i \in DOMAIN services : EditService(i)
    PROVE  Goes
  <1>1. UNCHANGED <<disk, services, savedRules, rules, unchecked, gone, ops>>
    BY DEF ReopenSection, EditPortranges, ClosePortranges, EditService
  <1>2. SavedInv' /\ StillReadable
    BY <1>1, Unmoved
  <1>3. CASE ReopenSection
    BY <1>1, <1>2, <1>3 DEF Goes, ReopenSection, Shape, RowsOK
  <1>4. CASE ClosePortranges
    BY <1>1, <1>2, <1>4 DEF Goes, ClosePortranges, Shape, RowsOK
  <1>5. CASE EditPortranges
    <2>1. cur \in DOMAIN services
      BY <1>5 DEF EditPortranges, Shape, Lists
    <2>2. Current.PortrangeList \in Seq(Portdata)
      <3>1. services[cur] \in ServicesData
        BY <2>1 DEF Shape, Lists
      <3>2. QED
        BY <3>1 DEF Current, ServicesData
    <2>3. QED
      BY <1>1, <1>2, <1>5, <2>2 DEF Goes, EditPortranges, Shape, RowsOK
  <1>6. ASSUME NEW i \in DOMAIN services, EditService(i) PROVE Goes
    <2>1. i \in 1 .. Len(services) /\ Len(services) \in Nat
      BY DEF Shape, Lists
    <2>2. QED
      BY <1>1, <1>2, <1>6, <2>1 DEF Goes, EditService, Form, Shape, RowsOK
  <1>7. QED
    BY <1>3, <1>4, <1>5, <1>6
LEMMA CountedType == ops \in 0 .. MaxOps /\ Counted => ops' \in 0 .. MaxOps
  <1>1. MaxOps \in Nat
    BY ServiceAssumption
  <1>2. QED
    BY <1>1 DEF Counted

LEMMA NewServiceStep ==
    ASSUME Shape, SavedInv, NEW name \in Names, NewService(name)
    PROVE  Goes
  <1> DEFINE service == NewServiceData(name)
             row == [ACTIVE |-> FALSE, BROADCAST |-> FALSE, RANGE |-> << >>, OLD |-> << >>]
             new == [n \in DOMAIN disk \cup {name} |-> IF n = name THEN row ELSE disk[n]]
  <1>1. services \in Lists /\ RowsOK(disk)
    BY DEF Shape
  <1>2. /\ service \in ServicesData /\ service.name = name /\ ~ service.saved
        /\ service.PortrangeList = << >>
    BY DEF NewServiceData, ServicesData
  <1>3. row \in Line /\ row.OLD = << >> /\ row.RANGE = << >>
    BY DEF Line
  <1>4. services' = InsertService(services, service)
    BY DEF NewService
  <1> HIDE DEF service, row
  <1>5. /\ services' \in Lists
        /\ \A i \in DOMAIN services' :
             services'[i] = service \/ \E j \in DOMAIN services : services'[i] = services[j]
        /\ \E i \in DOMAIN services' : services'[i] = service
    BY <1>1, <1>2, <1>4, InsertServiceType
  <1>6. /\ ValidName(name) /\ \A s \in DOMAIN services : services[s].name # name
        /\ screen = "services" /\ cur = 0
    <2>1. SearchService(services, name) = 0
      BY DEF NewService
    <2>2. ~ (0 \in DOMAIN services)
      BY <1>1 DEF Lists
    <2>3. \A s \in DOMAIN services : services[s].name # name
      BY <1>1, <2>1, <2>2, Search
    <2>4. QED
      BY <2>3 DEF NewService, Shape
  <1>7. /\ RowsOK(new) /\ DOMAIN new = DOMAIN disk \cup {name}
        /\ \A n \in DOMAIN disk : n # name => new[n] = disk[n]
        /\ new[name] = row
    <2>1. IsFiniteSet(DOMAIN disk \cup {name})
      BY <1>1, FS_AddElement DEF RowsOK
    <2>2. QED
      BY <1>1, <1>3, <2>1 DEF RowsOK
  <1>8. /\ disk' = disk \/ (disk' = new /\ name \notin DOMAIN disk)
        /\ UNCHANGED <<savedRules, rules, unchecked>>
    BY DEF NewService, row
  <1> HIDE DEF new
  <1>9. RowsOK(disk')
    BY <1>1, <1>7, <1>8
  <1>10. SavedInv'
    <2>1. SUFFICES ASSUME NEW i \in DOMAIN services'
                   PROVE  ValidName(services'[i].name) /\ Fits(disk', services'[i])
      BY DEF SavedInv, Sound
    <2>2. CASE services'[i] = service
      BY <1>2, <1>6, <2>2 DEF Fits
    <2>3. ASSUME NEW j \in DOMAIN services, services'[i] = services[j]
          PROVE  ValidName(services'[i].name) /\ Fits(disk', services'[i])
      <3>1. ValidName(services[j].name) /\ Fits(disk, services[j]) /\ services[j].name # name
        BY <1>6 DEF SavedInv, Sound
      <3>2. QED
        BY <1>7, <1>8, <2>3, <3>1 DEF Fits, Matches
    <2>4. QED
      BY <1>5, <2>2, <2>3
  <1>11. StillReadable
    <2>2. OldRows(disk) => OldRows(disk')
      BY <1>3, <1>7, <1>8 DEF OldRows, AllReadable
    <2>3. ASSUME NewRows(disk), Tellable(services) PROVE NewRows(disk') /\ Tellable(services')
      <3>1. NewRows(disk')
        BY <1>3, <1>7, <1>8, <2>3 DEF NewRows, AllReadable
      <3>2. AllReadable(Texts(service.PortrangeList))
        BY <1>2 DEF AllReadable, Texts
      <3>3. QED
        BY <1>5, <2>3, <3>1, <3>2 DEF Tellable
    <2>4. QED
      BY <1>8, <2>2, <2>3 DEF StillReadable, ReadableInv
  <1>12. Shape'
    <2>1. gone' \subseteq Names /\ hidden' \subseteq Names /\ ops' \in 0 .. MaxOps
      <3>1. gone' = gone \/ gone' \subseteq gone
        BY DEF NewService, Back
      <3>2. hidden' = {} \/ hidden' = hidden \cup {name}
        BY DEF NewService
      <3>3. Counted
        BY DEF NewService
      <3>4. QED
        BY <3>1, <3>2, <3>3, CountedType DEF Shape
    <2>2. Len(services') \in Nat /\ DOMAIN services' = 1 .. Len(services')
      BY <1>5 DEF Lists
    <2>3. CASE Form(SearchService(services', name))
      <3>1. SearchService(services', name) \in DOMAIN services'
        BY <1>2, <1>5, Search
      <3>2. cur' \in 1 .. Len(services') /\ screen' = "service" /\ shown' = << >>
        BY <2>2, <2>3, <3>1 DEF Form
      <3>3. QED
        BY <1>5, <1>8, <1>9, <2>1, <3>2 DEF Shape
    <2>4. CASE UNCHANGED <<screen, cur, shown>>
      BY <1>5, <1>6, <1>8, <1>9, <2>1, <2>2, <2>4 DEF Shape
    <2>5. QED
      BY <2>3, <2>4 DEF NewService
  <1>13. QED
    BY <1>10, <1>11, <1>12 DEF Goes

LEMMA DeleteServiceStep ==
    ASSUME Shape, SavedInv, NEW i \in DOMAIN services, DeleteService(i)
    PROVE  Goes
  <1> DEFINE name == services[i].name
             left == RemoveAt(services, SearchService(services, name))
  <1>1. services \in Lists /\ RowsOK(disk)
    BY DEF Shape
  <1>2. SearchService(services, name) \in DOMAIN services
    BY <1>1, Search
  <1>3. /\ left \in Lists
        /\ \A s \in DOMAIN left : \E j \in DOMAIN services : left[s] = services[j]
    BY <1>1, <1>2, RemoveServiceType
  <1>4. /\ services' = Unsaved(left, {name})
        /\ disk' = [n \in DOMAIN disk \ {name} |-> disk[n]]
        /\ UNCHANGED <<savedRules, rules, screen, cur, shown, unchecked>>
        /\ screen = "services" /\ gone' = gone \cup {name} /\ hidden' = {}
    BY DEF DeleteService
  <1> HIDE DEF left
  <1>5. name \in Names
    <2>1. services[i] \in ServicesData
      BY <1>1 DEF Lists
    <2>2. QED
      BY <2>1 DEF ServicesData
  <1> HIDE DEF name
  <1>6. /\ services' \in Lists /\ DOMAIN services' = DOMAIN left
        /\ \A s \in DOMAIN left : Faded(services'[s], left[s], {name})
    BY <1>3, <1>4, Unsaving
  <1>7. RowsOK(disk')
    <2>1. IsFiniteSet(DOMAIN disk \ {name})
      BY <1>1, FS_RemoveElement DEF RowsOK
    <2>2. QED
      BY <1>1, <1>4, <2>1 DEF RowsOK
  <1>8. ASSUME NEW s \in DOMAIN services'
        PROVE  \E j \in DOMAIN services :
                  /\ services'[s].name = services[j].name
                  /\ services'[s].active = services[j].active
                  /\ services'[s].broadcast = services[j].broadcast
                  /\ services'[s].PortrangeList = services[j].PortrangeList
                  /\ services'[s].saved => services[j].saved /\ services[j].name # name
    <2>1. PICK j \in DOMAIN services : left[s] = services[j]
      BY <1>3, <1>6
    <2>2. Faded(services'[s], services[j], {name})
      BY <1>6, <2>1
    <2>3. QED
      BY <2>2 DEF Faded
  <1>9. SavedInv'
    <2>1. SUFFICES ASSUME NEW s \in DOMAIN services'
                   PROVE  ValidName(services'[s].name) /\ Fits(disk', services'[s])
      BY DEF SavedInv, Sound
    <2>2. PICK j \in DOMAIN services :
                  /\ services'[s].name = services[j].name
                  /\ services'[s].active = services[j].active
                  /\ services'[s].broadcast = services[j].broadcast
                  /\ services'[s].PortrangeList = services[j].PortrangeList
                  /\ services'[s].saved => services[j].saved /\ services[j].name # name
      BY <1>8
    <2>3. ValidName(services[j].name) /\ Fits(disk, services[j])
      BY DEF SavedInv, Sound
    <2>4. \A n \in DOMAIN disk : n # name => n \in DOMAIN disk' /\ disk'[n] = disk[n]
      BY <1>4
    <2>5. QED
      BY <2>2, <2>3, <2>4 DEF Fits, Matches
  <1>10. StillReadable
    <2>1. Tellable(services) => Tellable(services')
      BY <1>8 DEF Tellable
    <2>2. QED
      BY <1>4, <2>1 DEF StillReadable, ReadableInv, OldRows, NewRows
  <1>11. Shape'
    <2>1. cur = 0 /\ ops' \in 0 .. MaxOps
      BY <1>4, CountedType DEF Shape, DeleteService
    <2>2. Len(services') \in Nat
      BY <1>6 DEF Lists
    <2>3. QED
      BY <1>4, <1>5, <1>6, <1>7, <2>1, <2>2 DEF Shape
  <1>12. QED
    BY <1>9, <1>10, <1>11 DEF Goes
(* The rules, in memory and in the backend, after a rename. *)
LEMMA RenamedType ==
    ASSUME NEW list \in Seq(Names), NEW old, NEW name \in Names
    PROVE  /\ Renamed(list, old, name) \in Seq(Names)
           /\ Len(Renamed(list, old, name)) = Len(list)
           /\ \A r \in DOMAIN list :
                Renamed(list, old, name)[r] = IF list[r] = old THEN name ELSE list[r]
  <1>1. Renamed(list, old, name) \in [1 .. Len(list) -> Names]
    BY DEF Renamed
  <1>2. QED
    BY <1>1 DEF Renamed

LEMMA ToldRulesType ==
    ASSUME NEW list \in Seq(Names), NEW n \in 0 .. Len(list), savedRules \in Seq(Names)
    PROVE  /\ ToldRules(list, n) \in Seq(Names)
           /\ \/ ToldRules(list, n) = savedRules
              \/ \A r \in DOMAIN ToldRules(list, n) :
                    r \in DOMAIN list /\ ToldRules(list, n)[r] = list[r]
  <1>1. CASE n = 0
    BY <1>1 DEF ToldRules
  <1>2. CASE n # 0
    <2>1. ToldRules(list, n) = SubSeq(list, 1, n)
      BY <1>2 DEF ToldRules
    <2>2. SubSeq(list, 1, n) \in Seq(Names) /\ Len(SubSeq(list, 1, n)) = n
          /\ \A r \in 1 .. n : SubSeq(list, 1, n)[r] = list[r]
      OBVIOUS
    <2>3. \A r \in DOMAIN SubSeq(list, 1, n) : r \in 1 .. n /\ r \in DOMAIN list
      BY <2>2
    <2>4. QED
      BY <2>1, <2>2, <2>3
  <1>3. QED
    BY <1>1, <1>2

LEMMA RenameServiceStep ==
    ASSUME Shape, SavedInv, NEW i \in DOMAIN services, NEW name \in Names,
           RenameService(i, name)
    PROVE  Goes
  <1> DEFINE old   == services[i].name
             first == SearchService(services, old)
             kept  == services[first].saved
             bare  == Unsaved(services, {old, name})
             new   == Renamed(rules, old, name)
  <1>1. services \in Lists /\ RowsOK(disk) /\ rules \in Seq(Names) /\ savedRules \in Seq(Names)
    BY DEF Shape
  <1>2. first \in DOMAIN services /\ services[first].name = old
    BY <1>1, Search
  <1>3. services[i] \in ServicesData /\ services[first] \in ServicesData
    BY <1>1, <1>2 DEF Lists
  <1>4. kept \in BOOLEAN /\ old \in Names
    BY <1>3 DEF ServicesData
  <1>5. /\ ValidName(name) /\ (name = old \/ old \in DOMAIN disk)
        /\ disk' = IF name = old THEN disk
                   ELSE [n \in (DOMAIN disk \ {old}) \cup {name} |->
                            IF n = name THEN disk[old] ELSE disk[n]]
        /\ services' = [bare EXCEPT ![first].name = name, ![first].saved = kept]
        /\ rules' = new /\ screen = "services" /\ Counted
        /\ UNCHANGED <<screen, cur, shown, unchecked>>
    BY DEF RenameService
  <1>6. /\ \/ savedRules' = new \/ savedRules' = savedRules
           \/ \E n \in 0 .. Len(new) - 1 : savedRules' = ToldRules(new, n)
        /\ gone' \subseteq gone \cup {old} /\ (hidden' = {} \/ hidden' = hidden)
    BY DEF RenameService, Back
  <1> HIDE DEF old, first, kept, new
  <1>7. /\ bare \in Lists /\ DOMAIN bare = DOMAIN services
        /\ \A s \in DOMAIN services : Faded(bare[s], services[s], {old, name})
    <2> DEFINE names == {old, name}
    <2> HIDE DEF names
    <2>1. /\ Unsaved(services, names) \in Lists
          /\ DOMAIN Unsaved(services, names) = DOMAIN services
          /\ \A s \in DOMAIN services : Faded(Unsaved(services, names)[s], services[s], names)
      BY <1>1, Unsaving
    <2>2. QED
      BY <2>1 DEF names
  <1> HIDE DEF bare
  <1>8. /\ Swapped(services', bare, first)
        /\ services'[first] =
                [name |-> name, active |-> bare[first].active,
                 broadcast |-> bare[first].broadcast,
                 PortrangeList |-> bare[first].PortrangeList, saved |-> kept]
    <2>1. bare \in Lists /\ first \in DOMAIN bare
      BY <1>2, <1>7
    <2>2. services' = NamedAnew(bare, first, name, kept)
      BY <1>5 DEF NamedAnew
    <2>3. QED
      BY <1>4, <2>1, <2>2, Naming
  <1>9. services' \in Lists /\ DOMAIN services' = DOMAIN services
    BY <1>7, <1>8 DEF Swapped
  <1>10. /\ services'[first].name = name /\ services'[first].saved = kept
         /\ services'[first].active = services[first].active
         /\ services'[first].broadcast = services[first].broadcast
         /\ services'[first].PortrangeList = services[first].PortrangeList
    <2>1. Faded(bare[first], services[first], {old, name})
      BY <1>2, <1>7
    <2>2. QED
      BY <1>8, <2>1 DEF Faded
  <1>11. \A s \in DOMAIN services : s # first => Faded(services'[s], services[s], {old, name})
    BY <1>7, <1>8 DEF Swapped
  <1>12. /\ name # old => DOMAIN disk' = (DOMAIN disk \ {old}) \cup {name} /\ disk'[name] = disk[old]
         /\ name = old => disk' = disk
         /\ \A n \in DOMAIN disk : n \notin {old, name} => n \in DOMAIN disk' /\ disk'[n] = disk[n]
         /\ \A n \in DOMAIN disk' : n # name => n \in DOMAIN disk /\ disk'[n] = disk[n]
    BY <1>5
  <1>13. RowsOK(disk')
    <2>1. CASE name = old
      BY <1>1, <1>12, <2>1
    <2>2. CASE name # old
      <3>1. IsFiniteSet((DOMAIN disk \ {old}) \cup {name})
        BY <1>1, FS_RemoveElement, FS_AddElement DEF RowsOK
      <3>2. disk' = [n \in (DOMAIN disk \ {old}) \cup {name} |->
                            IF n = name THEN disk[old] ELSE disk[n]]
        BY <1>5, <2>2
      <3>3. QED
        BY <1>1, <1>5, <2>2, <3>1, <3>2 DEF RowsOK
    <2>3. QED
      BY <2>1, <2>2
  <1>14. SavedInv'
    <2>1. SUFFICES ASSUME NEW s \in DOMAIN services
                   PROVE  ValidName(services'[s].name) /\ Fits(disk', services'[s])
      BY <1>9 DEF SavedInv, Sound
    <2>2. ValidName(services[s].name) /\ Fits(disk, services[s])
      BY DEF SavedInv, Sound
    <2>3. CASE s = first
      <3>1. ValidName(services'[s].name)
        BY <1>5, <1>10, <2>3
      <3>2. SUFFICES ASSUME services[s].saved PROVE Fits(disk', services'[s])
        BY <1>10, <2>3, <3>1 DEF Fits, kept
      <3>3. Matches(disk, services[s]) /\ disk[old].RANGE = Texts(services[s].PortrangeList)
            /\ services[s].name = old
        BY <1>2, <2>2, <2>3, <3>2 DEF Fits
      <3>4. name \in DOMAIN disk' /\ disk'[name] = disk[old]
        BY <1>12, <3>3 DEF Matches
      <3>5. QED
        BY <1>10, <2>3, <3>3, <3>4 DEF Fits, Matches
    <2>4. CASE s # first
      <3>1. Faded(services'[s], services[s], {old, name})
        BY <1>11, <2>4
      <3>2. QED
        BY <1>12, <2>2, <3>1 DEF Faded, Fits, Matches
    <2>5. QED
      BY <2>3, <2>4
  <1>15. StillReadable
    <2>1. ValidName(old)
      BY <1>2 DEF SavedInv, Sound
    <2>2. \A n \in DOMAIN disk' : ValidName(n) =>
             \E m \in DOMAIN disk : ValidName(m) /\ disk'[n] = disk[m]
      BY <1>5, <1>12, <2>1
    <2>3. \A s \in DOMAIN services : services'[s].PortrangeList = services[s].PortrangeList
      BY <1>10, <1>11 DEF Faded
    <2>4. QED
      BY <1>5, <1>9, <2>2, <2>3 DEF StillReadable, ReadableInv, OldRows, NewRows, Tellable
  <1>16. Shape'
    <2>1. new \in Seq(Names)
      BY <1>1, RenamedType DEF new
    <2>2. savedRules' \in Seq(Names)
      <3>1. ASSUME NEW n \in 0 .. Len(new) - 1, savedRules' = ToldRules(new, n)
            PROVE  savedRules' \in Seq(Names)
        <4>1. n \in 0 .. Len(new)
          BY <2>1
        <4>2. QED
          BY <1>1, <2>1, <3>1, <4>1, ToldRulesType
      <3>2. QED
        BY <1>1, <1>6, <2>1, <3>1
    <2>3. ops' \in 0 .. MaxOps /\ cur = 0
      BY <1>5, CountedType DEF Shape
    <2>4. hidden' \subseteq Names /\ gone' \subseteq Names
      BY <1>4, <1>6 DEF Shape
    <2>5. Len(services') \in Nat
      BY <1>9 DEF Lists
    <2>6. QED
      BY <1>5, <1>9, <1>13, <2>1, <2>2, <2>3, <2>4, <2>5 DEF Shape
  <1>17. QED
    BY <1>14, <1>15, <1>16 DEF Goes

-----------------------------------------------------------------------------
(* The form of a service, and its portranges.                              *)

(* There is a service in the form. *)
LEMMA InForm ==
    ASSUME Shape, screen \in {"service", "ports"}
    PROVE  /\ cur \in DOMAIN services /\ services \in Lists /\ Current \in ServicesData
           /\ Current.PortrangeList \in Seq(Portdata) /\ Current.name \in Names
  <1>1. cur \in DOMAIN services /\ services \in Lists
    BY DEF Shape, Lists
  <1>2. Current \in ServicesData
    BY <1>1 DEF Current, Lists
  <1>3. QED
    BY <1>1, <1>2 DEF ServicesData

(* Two answers, in memory and in the file. *)
Answered(files, name, a, b) == [files EXCEPT ![name].ACTIVE = a, ![name].BROADCAST = b]

LEMMA AnsweredRows ==
    ASSUME NEW files, RowsOK(files), NEW name \in DOMAIN files, NEW a \in BOOLEAN, NEW b \in BOOLEAN
    PROVE  /\ RowsOK(Answered(files, name, a, b))
           /\ DOMAIN Answered(files, name, a, b) = DOMAIN files
           /\ \A n \in DOMAIN files : n # name => Answered(files, name, a, b)[n] = files[n]
           /\ Answered(files, name, a, b)[name].ACTIVE = a
           /\ Answered(files, name, a, b)[name].BROADCAST = b
           /\ Answered(files, name, a, b)[name].RANGE = files[name].RANGE
           /\ Answered(files, name, a, b)[name].OLD = files[name].OLD
  <1>1. PICK row \in Line : row = files[name]
    BY DEF RowsOK
  <1> DEFINE answered == [row EXCEPT !.ACTIVE = a, !.BROADCAST = b]
  <1>2. answered \in Line /\ answered.ACTIVE = a /\ answered.BROADCAST = b
        /\ answered.RANGE = row.RANGE /\ answered.OLD = row.OLD
    BY DEF Line
  <1>3. Answered(files, name, a, b) = [files EXCEPT ![name] = answered]
    BY <1>1 DEF Answered
  <1> HIDE DEF answered
  <1>4. QED
    BY <1>1, <1>2, <1>3 DEF RowsOK

LEMMA CloseServiceStep ==
    ASSUME Shape, SavedInv, NEW active \in BOOLEAN, NEW broadcast \in BOOLEAN,
           CloseService(active, broadcast)
    PROVE  Goes
  <1> DEFINE list == FormAnswers(services, cur, active, broadcast)
             name == Current.name
  <1>1. /\ screen = "service" /\ Counted /\ screen' = "services" /\ cur' = 0
        /\ UNCHANGED <<savedRules, rules, hidden, shown, unchecked, gone>>
    BY DEF CloseService
  <1>2. /\ cur \in DOMAIN services /\ services \in Lists /\ Current \in ServicesData
        /\ name \in Names
    BY <1>1, InForm
  <1>3. /\ Swapped(list, services, cur)
        /\ list[cur] = [name |-> services[cur].name, active |-> active, broadcast |-> broadcast,
                        PortrangeList |-> services[cur].PortrangeList,
                        saved |-> services[cur].saved]
    BY <1>2, Answering
  <1>4. \/ /\ name \notin DOMAIN disk
           /\ \E n \in Told(list, disk) : SavePortranges(list, disk, FALSE, n)
        \/ /\ name \in DOMAIN disk
           /\ \E a \in {active, disk[name].ACTIVE}, b \in {broadcast, disk[name].BROADCAST} :
                 \E n \in Told(list, Answered(disk, name, a, b)) :
                    SavePortranges(list, Answered(disk, name, a, b), a = active /\ b = broadcast, n)
    BY DEF CloseService, Answered, FormAnswers
  <1> HIDE DEF list, name
  <1>5. RowsOK(disk)
    BY DEF Shape
  <1>6. SUFFICES ASSUME NEW files, NEW same \in BOOLEAN, NEW n \in Told(list, files),
                        SavePortranges(list, files, same, n),
                        RowsOK(files), DOMAIN files = DOMAIN disk,
                        \A m \in DOMAIN disk : m # name => files[m] = disk[m],
                        \A m \in DOMAIN disk :
                            files[m].RANGE = disk[m].RANGE /\ files[m].OLD = disk[m].OLD,
                        same => /\ name \in DOMAIN disk /\ files[name].ACTIVE = active
                                /\ files[name].BROADCAST = broadcast
                 PROVE  Goes
    <2>1. CASE /\ name \notin DOMAIN disk
               /\ \E n \in Told(list, disk) : SavePortranges(list, disk, FALSE, n)
      <3>1. PICK n \in Told(list, disk) : SavePortranges(list, disk, FALSE, n)
        BY <2>1
      <3>2. QED
        BY <1>5, <1>6, <3>1
    <2>2. ASSUME name \in DOMAIN disk,
                 NEW a \in {active, disk[name].ACTIVE}, NEW b \in {broadcast, disk[name].BROADCAST},
                 NEW n \in Told(list, Answered(disk, name, a, b)),
                 SavePortranges(list, Answered(disk, name, a, b), a = active /\ b = broadcast, n)
          PROVE  Goes
      <3>1. disk[name] \in Line
        BY <1>5, <2>2 DEF RowsOK
      <3>2. a \in BOOLEAN /\ b \in BOOLEAN
        BY <2>2, <3>1 DEF Line
      <3> DEFINE files == Answered(disk, name, a, b)
      <3>3. /\ RowsOK(files) /\ DOMAIN files = DOMAIN disk
            /\ \A m \in DOMAIN disk : m # name => files[m] = disk[m]
            /\ files[name].ACTIVE = a /\ files[name].BROADCAST = b
            /\ files[name].RANGE = disk[name].RANGE /\ files[name].OLD = disk[name].OLD
        BY <1>5, <2>2, <3>2, AnsweredRows
      <3>4. PICK same \in BOOLEAN : same = (a = active /\ b = broadcast)
        OBVIOUS
      <3> HIDE DEF files
      <3>5. n \in Told(list, files) /\ SavePortranges(list, files, same, n)
        BY <2>2, <3>4 DEF files
      <3>6. same => name \in DOMAIN disk /\ files[name].ACTIVE = active /\ files[name].BROADCAST = broadcast
        BY <2>2, <3>3, <3>4
      <3>7. \A m \in DOMAIN disk : files[m].RANGE = disk[m].RANGE /\ files[m].OLD = disk[m].OLD
        BY <3>3
      <3>8. QED
        BY <1>6, <3>3, <3>5, <3>6, <3>7
    <2>3. QED
      BY <1>4, <2>1, <2>2
  <1>7. list \in Lists /\ DOMAIN list = DOMAIN services /\ Len(list) = Len(services) /\ cur \in DOMAIN list
    BY <1>2, <1>3 DEF Swapped
  <1>8. /\ RowsOK(disk')
        /\ services' \in Lists /\ Len(services') = Len(list)
        /\ Others(files, list, cur) /\ (same => Matches(files, list[cur])) => Sound(disk', services')
        /\ OldRows(files) => OldRows(disk')
        /\ NewRows(files) /\ Tellable(list) => NewRows(disk') /\ Tellable(services')
    BY <1>6, <1>7, SaveStep
  <1>9. \A s \in DOMAIN list : s # cur => list[s] = services[s]
    BY <1>3 DEF Swapped
  <1>10. list[cur].name = name /\ list[cur].active = active /\ list[cur].broadcast = broadcast
         /\ list[cur].PortrangeList = services[cur].PortrangeList /\ services[cur].name = name
    BY <1>3 DEF Current, name
  <1>11. Others(files, list, cur)
    <2>1. ASSUME NEW s \in DOMAIN list
          PROVE  /\ ValidName(list[s].name)
                 /\ s # cur /\ list[s].name # list[cur].name => Fits(files, list[s])
      <3>1. ValidName(services[s].name) /\ Fits(disk, services[s])
        BY <1>7 DEF SavedInv, Sound
      <3>2. ValidName(list[s].name)
        BY <1>9, <1>10, <3>1
      <3>3. ASSUME s # cur, list[s].name # name PROVE Fits(files, list[s])
        BY <1>6, <1>9, <3>1, <3>3 DEF Fits, Matches
      <3>4. QED
        BY <1>10, <3>2, <3>3
    <2>2. QED
      BY <2>1 DEF Others
  <1>12. same => Matches(files, list[cur])
    BY <1>6, <1>10 DEF Matches
  <1>13. SavedInv'
    BY <1>8, <1>11, <1>12 DEF SavedInv
  <1>14. StillReadable
    <2>1. OldRows(disk) => OldRows(files)
      BY <1>6 DEF OldRows
    <2>2. NewRows(disk) => NewRows(files)
      BY <1>6 DEF NewRows
    <2>3. Tellable(services) => Tellable(list)
      BY <1>7, <1>9, <1>10 DEF Tellable
    <2>4. QED
      BY <1>1, <1>8, <2>1, <2>2, <2>3 DEF StillReadable, ReadableInv
  <1>15. Shape'
    <2>1. ops' \in 0 .. MaxOps
      BY <1>1, CountedType DEF Shape
    <2>2. Len(services') \in Nat
      BY <1>8 DEF Lists
    <2>3. QED
      BY <1>1, <1>8, <2>1, <2>2 DEF Shape
  <1>16. QED
    BY <1>13, <1>14, <1>15 DEF Goes
(* A changed list of portranges is saved. *)
LEMMA SaveChangedStep ==
    ASSUME Shape, SavedInv, screen = "ports", NEW ranges \in Seq(Portdata), SaveChanged(ranges)
    PROVE  /\ RowsOK(disk') /\ services' \in Lists /\ Len(services') = Len(services)
           /\ shown' \in Seq(Portdata) /\ services'[cur].PortrangeList = ranges
           /\ Sound(disk', services')
           /\ OldRows(disk) => OldRows(disk')
           /\ NewRows(disk) /\ Tellable(services) /\ AllReadable(Texts(ranges))
                => NewRows(disk') /\ Tellable(services')
  <1> DEFINE list == [services EXCEPT ![cur].PortrangeList = ranges]
             name == Current.name
  <1>1. /\ cur \in DOMAIN services /\ services \in Lists /\ Current \in ServicesData
    BY InForm
  <1>2. /\ Swapped(list, services, cur)
        /\ list[cur] = [name |-> services[cur].name, active |-> services[cur].active,
                        broadcast |-> services[cur].broadcast,
                        PortrangeList |-> ranges, saved |-> services[cur].saved]
    BY <1>1, Ranging
  <1>3. PICK same \in BOOLEAN, n \in Told(list, disk) :
            /\ SavePortranges(list, disk, same, n)
            /\ same => /\ name \in DOMAIN disk /\ disk[name].ACTIVE = Current.active
                       /\ disk[name].BROADCAST = Current.broadcast
            /\ shown' = ranges \/ shown' = shown
    <2> DEFINE match == /\ name \in DOMAIN disk
                        /\ disk[name].ACTIVE = Current.active
                        /\ disk[name].BROADCAST = Current.broadcast
    <2>1. PICK n \in Told(list, disk) :
             SavePortranges(list, disk, match, n) /\ (shown' = ranges \/ shown' = shown)
      BY DEF SaveChanged
    <2>2. PICK same \in BOOLEAN : same = match
      OBVIOUS
    <2> HIDE DEF list
    <2>3. SavePortranges(list, disk, same, n)
      BY <2>1, <2>2
    <2>4. QED
      BY <2>1, <2>2, <2>3
  <1> HIDE DEF list
  <1>4. list \in Lists /\ DOMAIN list = DOMAIN services /\ Len(list) = Len(services) /\ cur \in DOMAIN list
        /\ \A s \in DOMAIN list : s # cur => list[s] = services[s]
    BY <1>1, <1>2 DEF Swapped
  <1>5. RowsOK(disk) /\ shown \in Seq(Portdata)
    BY DEF Shape
  <1>6. /\ RowsOK(disk')
        /\ services' \in Lists /\ Len(services') = Len(list)
        /\ services'[cur].PortrangeList = list[cur].PortrangeList
        /\ Others(disk, list, cur) /\ (same => Matches(disk, list[cur])) => Sound(disk', services')
        /\ OldRows(disk) => OldRows(disk')
        /\ NewRows(disk) /\ Tellable(list) => NewRows(disk') /\ Tellable(services')
    BY <1>3, <1>4, <1>5, SaveStep
  <1>7. list[cur].name = name /\ list[cur].active = Current.active
        /\ list[cur].broadcast = Current.broadcast /\ list[cur].PortrangeList = ranges
    BY <1>2 DEF Current
  <1>8. Others(disk, list, cur)
    <2>1. \A s \in DOMAIN list : ValidName(services[s].name) /\ Fits(disk, services[s])
      BY <1>4 DEF SavedInv, Sound
    <2>2. ValidName(list[cur].name)
      BY <1>4, <1>7, <2>1 DEF Current
    <2>3. QED
      BY <1>4, <2>1, <2>2 DEF Others
  <1>9. same => Matches(disk, list[cur])
    BY <1>3, <1>7 DEF Matches
  <1>10. Tellable(services) /\ AllReadable(Texts(ranges)) => Tellable(list)
    BY <1>4, <1>7 DEF Tellable
  <1>11. QED
    BY <1>3, <1>4, <1>5, <1>6, <1>7, <1>8, <1>9, <1>10

(* One range more that can be read, or one less. *)
LEMMA InsertReadable ==
    ASSUME NEW list \in Seq(Portdata), NEW k \in 1 .. Len(list) + 1, NEW p \in Portdata,
           AllReadable(Texts(list)), Readable(Written(p))
    PROVE  AllReadable(Texts(InsertAt(list, k, p)))
  <1> DEFINE new == InsertAt(list, k, p)
  <1>1. /\ new \in Seq(Portdata) /\ Len(new) = Len(list) + 1
        /\ \A i \in 1 .. Len(list) + 1 :
             new[i] = IF i < k THEN list[i] ELSE IF i = k THEN p ELSE list[i - 1]
    BY Inserted
  <1> HIDE DEF new
  <1>2. \A j \in 1 .. Len(list) : Readable(Written(list[j]))
    BY DEF AllReadable, Texts
  <1>3. ASSUME NEW i \in 1 .. Len(list) + 1 PROVE Readable(Written(new[i]))
    <2>1. CASE i < k
      BY <1>1, <1>2, <2>1
    <2>2. CASE i = k
      BY <1>1, <2>2
    <2>3. CASE i > k
      <3>1. i - 1 \in 1 .. Len(list) /\ new[i] = list[i - 1]
        BY <1>1, <2>3
      <3>2. QED
        BY <1>2, <3>1
    <2>4. QED
      BY <2>1, <2>2, <2>3
  <1>4. DOMAIN new = 1 .. Len(list) + 1
    BY <1>1
  <1>5. AllReadable(Texts(new))
    BY <1>3, <1>4 DEF AllReadable, Texts
  <1>6. QED
    BY <1>5 DEF new

LEMMA RemoveReadable ==
    ASSUME NEW list \in Seq(Portdata), NEW k \in 1 .. Len(list), AllReadable(Texts(list))
    PROVE  AllReadable(Texts(RemoveAt(list, k)))
  <1> DEFINE new == RemoveAt(list, k)
  <1>1. /\ new \in Seq(Portdata) /\ Len(new) = Len(list) - 1
        /\ \A i \in 1 .. Len(list) - 1 : new[i] = IF i < k THEN list[i] ELSE list[i + 1]
    BY Removed
  <1> HIDE DEF new
  <1>2. \A j \in 1 .. Len(list) : Readable(Written(list[j]))
    BY DEF AllReadable, Texts
  <1>3. ASSUME NEW i \in 1 .. Len(list) - 1 PROVE Readable(Written(new[i]))
    <2>1. i \in 1 .. Len(list) /\ i + 1 \in 1 .. Len(list)
      OBVIOUS
    <2>2. QED
      BY <1>1, <1>2, <2>1
  <1>4. DOMAIN new = 1 .. Len(list) - 1
    BY <1>1
  <1>5. AllReadable(Texts(new))
    BY <1>3, <1>4 DEF AllReadable, Texts
  <1>6. QED
    BY <1>5 DEF new

(* What the forms leave are ranges. *)
LEMMA FormRangesType ==
    ASSUME NEW range \in FormRanges \cup Leftover
    PROVE  range \in Portdata /\ Normalised(range) \in Portdata
  <1>1. /\ \A p \in Entered \cup Leftover : p \in Portdata
        /\ \A e \in EnteredICMP : e[1] \in Nat /\ e[2] \in Nat
        /\ \A e \in EnteredOther : e \in Int
    <2>1. \A p \in Entered \cup Leftover : p \in Portdata
      BY ServiceAssumption, SMT
    <2>2. EnteredICMP \subseteq Nat \X Nat /\ EnteredOther \subseteq 0 .. 255
      BY ServiceAssumption, SMT
    <2>3. QED
      BY <2>1, <2>2
  <1>2. \A protocol \in Int : NoPorts(protocol) \in Portdata
    BY DEF NoPorts, Portdata
  <1>3. range \in Portdata
    <2>1. CASE range \in Leftover
      BY <1>1, <2>1
    <2>2. ASSUME NEW p \in Entered, NEW protocol \in Int, range = [p EXCEPT !.protocol = protocol]
          PROVE  range \in Portdata
      <3>1. p \in Portdata
        BY <1>1
      <3>2. QED
        BY <2>2, <3>1 DEF Portdata
    <2>3. CASE range \in TcpUdpForm(TCP) \cup TcpUdpForm(UDP)
      BY <2>2, <2>3 DEF TcpUdpForm, TCP, UDP
    <2>4. CASE range \in IcmpForm
      <3>1. PICK e \in EnteredICMP : range = [NoPorts(ICMP) EXCEPT !.dst_low = e[1], !.dst_high = e[2]]
        BY <2>4 DEF IcmpForm
      <3>2. PICK p \in Portdata : p = NoPorts(ICMP)
        BY <1>2 DEF ICMP
      <3>3. PICK a \in Int, b \in Int : a = e[1] /\ b = e[2]
        BY <1>1
      <3>4. range = [p EXCEPT !.dst_low = a, !.dst_high = b]
        BY <3>1, <3>2, <3>3
      <3>5. [p EXCEPT !.dst_low = a, !.dst_high = b] \in Portdata
        BY <3>2, <3>3 DEF Portdata
      <3>6. QED
        BY <3>2, <3>3, <3>4, <3>5
    <2>5. CASE range \in {NoPorts(protocol) : protocol \in {GRE, ESP, AH} \cup EnteredOther}
      BY <1>1, <1>2, <2>5 DEF GRE, ESP, AH
    <2>6. QED
      BY <2>1, <2>3, <2>4, <2>5 DEF FormRanges
  <1>4. PICK a \in Int, b \in Int :
            Normalised(range) = [range EXCEPT !.src_high = a, !.dst_high = b]
    <2>1. range.src_high \in Int /\ range.dst_high \in Int
      BY <1>3 DEF Portdata
    <2>2. PICK a \in Int : a = IF range.src_low = range.src_high THEN 0 ELSE range.src_high
      BY <2>1
    <2>3. PICK b \in Int : b = IF range.dst_low = range.dst_high /\ range.protocol # ICMP THEN 0
                              ELSE range.dst_high
      BY <2>1
    <2>4. Normalised(range) = [range EXCEPT !.src_high = a, !.dst_high = b]
      BY <2>2, <2>3 DEF Normalised
    <2>5. QED
      BY <2>4
  <1>5. QED
    BY <1>3, <1>4 DEF Portdata
(* A number of a range that was put in order is 0, or was there before. *)
LEMMA NormalisedNumbers ==
    ASSUME NEW p \in Portdata, NEW n \in Numbers(Normalised(p))
    PROVE  n = 0 \/ n \in Numbers(p)
  <1>1. PICK a, b : /\ Normalised(p) = [p EXCEPT !.src_high = a, !.dst_high = b]
                    /\ a \in {0, p.src_high} /\ b \in {0, p.dst_high}
    BY DEF Normalised
  <1>2. /\ Normalised(p).src_low = p.src_low /\ Normalised(p).src_high = a
        /\ Normalised(p).dst_low = p.dst_low /\ Normalised(p).dst_high = b
    BY <1>1 DEF Portdata
  <1>3. QED
    BY <1>1, <1>2 DEF Numbers

LEMMA NormalisedProtocol ==
    ASSUME NEW p \in Portdata
    PROVE  Normalised(p).protocol = p.protocol
  <1>1. PICK a, b : Normalised(p) = [p EXCEPT !.src_high = a, !.dst_high = b]
    BY DEF Normalised
  <1>2. QED
    BY <1>1 DEF Portdata

(* A range that the form checked can be read.                              *)
LEMMA CheckedReadable ==
    ASSUME NEW range \in FormRanges \cup Leftover, Valid(Normalised(range)),
           range \in FormRanges \/ \A n \in Numbers(range) : IsPort(n)
    PROVE  Readable(Written(Normalised(range)))
  <1> DEFINE p == Normalised(range)
  <1>1. range \in Portdata /\ p \in Portdata
    BY FormRangesType
  <1>2. IsPort(0)
    BY DEF IsPort
  <1>3. CASE \A n \in Numbers(range) : IsPort(n)
    <2>1. \A n \in Numbers(p) : IsPort(n)
      BY <1>1, <1>2, <1>3, NormalisedNumbers
    <2>2. QED
      BY <1>1, <2>1, ProcessWritten
  <1>4. CASE range \in TcpUdpForm(TCP) \cup TcpUdpForm(UDP)
    <2>1. PICK q \in Entered, protocol \in {TCP, UDP} : range = [q EXCEPT !.protocol = protocol]
      BY <1>4 DEF TcpUdpForm
    <2>2. q \in Portdata /\ \A n \in Numbers(q) : -9999 <= n
      BY ServiceAssumption, SMT
    <2>3. range.protocol = protocol /\ Numbers(range) = Numbers(q)
      BY <2>1, <2>2 DEF Portdata, Numbers
    <2>4. HasPorts(p.protocol)
      BY <1>1, <2>3, NormalisedProtocol DEF HasPorts
    <2>5. Written(p) = p
      BY <2>4 DEF Written
    <2>6. \A n \in Numbers(p) : n \in Int /\ n <= 65535
      <3>1. \A n \in Numbers(p) : n <= 65535
        BY <2>4 DEF Valid, PortsInRange
      <3>2. \A n \in Numbers(p) : n \in Int
        BY <1>1 DEF Numbers, Portdata
      <3>3. QED
        BY <3>1, <3>2
    <2>7. \A n \in Numbers(p) : -9999 <= n
      BY <1>1, <2>2, <2>3, NormalisedNumbers
    <2> HIDE DEF p
    <2>8. \A n \in Numbers(p) : SplitPort(n) <= 65535
      BY <2>6, <2>7, SMT DEF SplitPort, Abs
    <2>9. QED
      BY <2>5, <2>8 DEF Readable, p
  <1>5. CASE range \in IcmpForm
    <2>1. PICK e \in EnteredICMP : range = [NoPorts(ICMP) EXCEPT !.dst_low = e[1], !.dst_high = e[2]]
      BY <1>5 DEF IcmpForm
    <2>2. e[1] \in Nat /\ e[2] \in Nat
      BY ServiceAssumption, SMT
    <2>3. range = [protocol |-> ICMP, src_low |-> 0, src_high |-> 0, dst_low |-> e[1], dst_high |-> e[2]]
      BY <2>1 DEF NoPorts
    <2>4. p = range
      BY <2>3 DEF Normalised
    <2>5. e[1] <= 255 /\ e[2] <= 16
      BY <2>3, <2>4 DEF Valid
    <2>6. \A n \in Numbers(p) : IsPort(n)
      BY <2>2, <2>3, <2>4, <2>5 DEF Numbers, IsPort
    <2>7. QED
      BY <1>1, <2>6, ProcessWritten
  <1>6. CASE range \in {NoPorts(protocol) : protocol \in {GRE, ESP, AH} \cup EnteredOther}
    <2>1. \A n \in Numbers(range) : n = 0
      BY <1>6 DEF NoPorts, Numbers
    <2>2. \A n \in Numbers(range) : IsPort(n)
      BY <1>2, <2>1
    <2>3. QED
      BY <1>3, <2>2
  <1>7. QED
    BY <1>3, <1>4, <1>5, <1>6 DEF FormRanges

LEMMA NewPortrangeStep ==
    ASSUME Shape, SavedInv, NEW range \in FormRanges \cup Leftover, NewPortrange(range)
    PROVE  Goes
  <1> DEFINE list == Current.PortrangeList
             p    == Normalised(range)
             k    == Place(list, p.protocol)
             new  == InsertAt(list, k, p)
  <1>1. /\ screen = "ports" /\ Counted /\ Valid(p) /\ SaveChanged(new) /\ Same
        /\ unchecked' = (\/ unchecked
                         \/ range \notin FormRanges /\ \E n \in Numbers(range) : ~IsPort(n))
    BY DEF NewPortrange
  <1>2. cur \in DOMAIN services /\ list \in Seq(Portdata)
    BY <1>1, InForm
  <1>3. range \in Portdata /\ p \in Portdata /\ p.protocol \in Int
    <2>1. range \in Portdata /\ p \in Portdata
      BY FormRangesType
    <2>2. QED
      BY <2>1 DEF Portdata
  <1> HIDE DEF list, p
  <1>4. k \in 1 .. Len(list) + 1
    BY <1>2, <1>3, Placed
  <1> HIDE DEF k
  <1>5. new \in Seq(Portdata)
    BY <1>2, <1>3, <1>4, Inserted
  <1> HIDE DEF new
  <1>6. /\ RowsOK(disk') /\ services' \in Lists /\ Len(services') = Len(services)
        /\ shown' \in Seq(Portdata)
        /\ Sound(disk', services')
        /\ OldRows(disk) => OldRows(disk')
        /\ NewRows(disk) /\ Tellable(services) /\ AllReadable(Texts(new))
             => NewRows(disk') /\ Tellable(services')
    BY <1>1, <1>5, SaveChangedStep
  <1>7. SavedInv'
    BY <1>6 DEF SavedInv
  <1>8. StillReadable
    <2>1. SUFFICES ASSUME ReadableInv, ~ unchecked' PROVE NewRows(disk') /\ Tellable(services')
      BY <1>6 DEF StillReadable, ReadableInv
    <2>2. ~ unchecked /\ (range \in FormRanges \/ \A n \in Numbers(range) : IsPort(n))
      BY <1>1, <2>1
    <2>3. Readable(Written(p))
      BY <1>1, <2>2, CheckedReadable DEF p
    <2>4. NewRows(disk) /\ Tellable(services)
      BY <2>1, <2>2 DEF StillReadable, ReadableInv
    <2>5. AllReadable(Texts(list))
      BY <1>2, <2>4 DEF Tellable, list, Current
    <2>6. AllReadable(Texts(new))
      BY <1>2, <1>3, <1>4, <2>3, <2>5, InsertReadable DEF new
    <2>7. QED
      BY <1>6, <2>4, <2>6
  <1>9. Shape'
    <2>1. ops' \in 0 .. MaxOps
      BY <1>1, CountedType DEF Shape
    <2>2. unchecked' \in BOOLEAN
      BY <1>1
    <2>3. QED
      BY <1>1, <1>6, <2>1, <2>2 DEF Shape, Same
  <1>10. QED
    BY <1>7, <1>8, <1>9 DEF Goes

LEMMA DeletePortrangeStep ==
    ASSUME Shape, SavedInv, NEW place \in DOMAIN shown, DeletePortrange(place)
    PROVE  Goes
  <1> DEFINE list == Current.PortrangeList
             new  == RemoveAt(list, place)
  <1>1. /\ screen = "ports" /\ Counted /\ place \in DOMAIN list /\ SaveChanged(new) /\ Same
        /\ UNCHANGED unchecked
    BY DEF DeletePortrange
  <1>2. cur \in DOMAIN services /\ list \in Seq(Portdata)
    BY <1>1, InForm
  <1> HIDE DEF list
  <1>3. place \in 1 .. Len(list)
    BY <1>1, <1>2
  <1>4. new \in Seq(Portdata)
    BY <1>2, <1>3, Removed
  <1>5. AllReadable(Texts(list)) => AllReadable(Texts(new))
    BY <1>2, <1>3, RemoveReadable
  <1> HIDE DEF new
  <1>6. /\ RowsOK(disk') /\ services' \in Lists /\ Len(services') = Len(services)
        /\ shown' \in Seq(Portdata)
        /\ Sound(disk', services')
        /\ OldRows(disk) => OldRows(disk')
        /\ NewRows(disk) /\ Tellable(services) /\ AllReadable(Texts(new))
             => NewRows(disk') /\ Tellable(services')
    BY <1>1, <1>4, SaveChangedStep
  <1>7. SavedInv'
    BY <1>6 DEF SavedInv
  <1>8. StillReadable
    <2>1. Tellable(services) => AllReadable(Texts(list))
      BY <1>2 DEF Tellable, list, Current
    <2>2. QED
      BY <1>1, <1>5, <1>6, <2>1 DEF StillReadable, ReadableInv
  <1>9. Shape'
    <2>1. ops' \in 0 .. MaxOps
      BY <1>1, CountedType DEF Shape
    <2>2. QED
      BY <1>1, <1>6, <2>1 DEF Shape, Same
  <1>10. QED
    BY <1>7, <1>8, <1>9 DEF Goes

LEMMA EditPortrangeStep ==
    ASSUME Shape, SavedInv, NEW place \in DOMAIN shown, EditPortrange(place)
    PROVE  Goes
  <1> DEFINE list == Current.PortrangeList
  <1>1. /\ screen = "ports" /\ Counted /\ place \in DOMAIN list /\ Same
        /\ unchecked' = TRUE /\ shown' = services'[cur].PortrangeList /\ UNCHANGED disk
    BY DEF EditPortrange
  <1>2. /\ cur \in DOMAIN services /\ services \in Lists /\ list \in Seq(Portdata)
        /\ Current \in ServicesData
    BY <1>1, InForm
  <1>3. PICK p \in Portdata : services' = Put(services, cur, place, p)
    <2>1. \A q \in FormRanges : q \in Portdata
      BY FormRangesType
    <2>2. PICK q \in TcpUdpForm(list[place].protocol) \cup IcmpForm :
             services' = Put(services, cur, place, q)
             /\ (q \in IcmpForm \/ HasPorts(list[place].protocol))
      BY DEF EditPortrange, Put
    <2>3. q \in FormRanges
      BY <2>2 DEF HasPorts, FormRanges
    <2>4. QED
      BY <2>1, <2>2, <2>3
  <1>4. /\ Swapped(services', services, cur)
        /\ services'[cur].name = services[cur].name
        /\ services'[cur].PortrangeList \in Seq(Portdata)
        /\ services'[cur].saved = FALSE
    <2>1. place \in DOMAIN services[cur].PortrangeList
      BY <1>1 DEF Current
    <2> DEFINE new == Put(services, cur, place, p)
    <2>2. /\ Swapped(new, services, cur) /\ new[cur].name = services[cur].name
          /\ new[cur].PortrangeList \in Seq(Portdata) /\ new[cur].saved = FALSE
      BY <1>2, <1>3, <2>1, Putting
    <2> HIDE DEF new
    <2>3. services' = new
      BY <1>3 DEF new
    <2>4. QED
      BY <2>2, <2>3
  <1>5. SavedInv'
    <2>1. SUFFICES ASSUME NEW s \in DOMAIN services
                   PROVE  ValidName(services'[s].name) /\ Fits(disk, services'[s])
      BY <1>1, <1>4 DEF SavedInv, Sound, Swapped, Fits, Matches
    <2>2. ValidName(services[s].name) /\ Fits(disk, services[s])
      BY DEF SavedInv, Sound
    <2>3. CASE s = cur
      BY <1>4, <2>2, <2>3 DEF Fits
    <2>4. CASE s # cur
      BY <1>4, <2>2, <2>4 DEF Swapped
    <2>5. QED
      BY <2>3, <2>4
  <1>6. StillReadable
    BY <1>1 DEF StillReadable, ReadableInv, OldRows
  <1>7. Shape'
    <2>1. ops' \in 0 .. MaxOps
      BY <1>1, CountedType DEF Shape
    <2>2. QED
      BY <1>1, <1>4, <2>1 DEF Shape, Same, Swapped, RowsOK
  <1>8. QED
    BY <1>5, <1>6, <1>7 DEF Goes

-----------------------------------------------------------------------------
(* Every step, and what comes of it.                                       *)

LEMMA NextGoes ==
    ASSUME Shape, SavedInv, Next
    PROVE  Goes
  <1>1. CASE Start
    BY <1>1, StartStep
  <1>2. CASE Quit
    BY <1>2, QuitStep
  <1>3. CASE ServicesKeys
    <2>1. ASSUME NEW i \in DOMAIN services, EditService(i) PROVE Goes
      BY <2>1, ScreenStep
    <2>2. ASSUME NEW i \in DOMAIN services, DeleteService(i) PROVE Goes
      BY <2>2, DeleteServiceStep
    <2>3. ASSUME NEW i \in DOMAIN services, NEW name \in Names, RenameService(i, name) PROVE Goes
      BY <2>3, RenameServiceStep
    <2>4. ASSUME NEW name \in Names, NewService(name) PROVE Goes
      BY <2>4, NewServiceStep
    <2>5. CASE ReopenSection
      BY <2>5, ScreenStep
    <2>6. QED
      BY <1>3, <2>1, <2>2, <2>3, <2>4, <2>5 DEF ServicesKeys
  <1>4. CASE ServiceKeys
    <2>1. CASE EditPortranges
      BY <2>1, ScreenStep
    <2>2. ASSUME NEW a \in BOOLEAN, NEW b \in BOOLEAN, CloseService(a, b) PROVE Goes
      BY <2>2, CloseServiceStep
    <2>3. QED
      BY <1>4, <2>1, <2>2 DEF ServiceKeys
  <1>5. CASE PortrangeKeys
    <2>1. ASSUME NEW range \in FormRanges \cup Leftover, NewPortrange(range) PROVE Goes
      BY <2>1, NewPortrangeStep
    <2>2. ASSUME NEW place \in DOMAIN shown, EditPortrange(place) PROVE Goes
      BY <2>2, EditPortrangeStep
    <2>3. ASSUME NEW place \in DOMAIN shown, DeletePortrange(place) PROVE Goes
      BY <2>3, DeletePortrangeStep
    <2>4. CASE ClosePortranges
      BY <2>4, ScreenStep
    <2>5. QED
      BY <1>5, <2>1, <2>2, <2>3, <2>4 DEF PortrangeKeys
  <1>6. QED
    BY <1>1, <1>2, <1>3, <1>4, <1>5 DEF Next

LEMMA StepGoes ==
    ASSUME Shape, SavedInv, [Next]_vars
    PROVE  Goes
  <1>1. CASE Next
    BY <1>1, NextGoes
  <1>2. CASE UNCHANGED vars
    <2>1. SavedInv' /\ StillReadable
      BY <1>2, Unmoved DEF vars
    <2>2. QED
      BY <1>2, <2>1 DEF Goes, vars, Shape, RowsOK
  <1>3. QED
    BY <1>1, <1>2

LEMMA InitGoes == Init => Shape /\ SavedInv
  <1> SUFFICES ASSUME Init PROVE Shape /\ SavedInv
    OBVIOUS
  <1>1. /\ DOMAIN DiskServices \subseteq Names /\ IsFiniteSet(DOMAIN DiskServices)
        /\ DiskServices \in [DOMAIN DiskServices -> Line]
        /\ DiskRules \in Seq(Names) /\ MaxOps \in Nat
    BY ServiceAssumption, SMT
  <1>2. disk = DiskServices /\ services = << >> /\ services \in Lists /\ Len(services) = 0
    BY DEF Init, Lists
  <1>3. RowsOK(disk)
    BY <1>1, <1>2 DEF RowsOK
  <1>4. << >> \in Seq(Names) /\ << >> \in Seq(Portdata) /\ 0 \in 0 .. MaxOps
    BY <1>1
  <1>8. /\ savedRules = DiskRules /\ rules = << >> /\ screen = "down" /\ hidden = {}
        /\ cur = 0 /\ shown = << >> /\ unchecked = FALSE /\ gone = {} /\ ops = 0
    BY DEF Init
  <1>9. cur \in 0 .. Len(services)
    BY <1>2, <1>8
  <1>10. unchecked \in BOOLEAN
    BY <1>8
  <1>5. Shape
    BY <1>1, <1>2, <1>3, <1>4, <1>8, <1>9, <1>10 DEF Shape
  <1>6. SavedInv
    BY <1>2 DEF SavedInv, Sound
  <1>7. QED
    BY <1>5, <1>6

(* Every variable has the type that it is declared with. *)
THEOREM TypeTheorem == Spec => []TypeOK
  <1>1. Shape => TypeOK
    BY DEF Shape, RowsOK, TypeOK, Lists
  <1>2. Shape /\ SavedInv /\ [Next]_vars => Shape' /\ SavedInv'
    BY StepGoes DEF Goes
  <1>3. QED
    BY <1>1, <1>2, InitGoes, PTL DEF Spec

(* A service that is saved is read again as it is in memory, if the files  *)
(* of the older version at the start can be read.                          *)
THEOREM SavedTheorem ==
    ASSUME OldRows(DiskServices)
    PROVE  Spec => []SavedIsRead
  <1>1. Init => OldRows(disk)
    BY DEF Init
  <1>2. Shape /\ SavedInv /\ OldRows(disk) /\ [Next]_vars => Shape' /\ SavedInv' /\ OldRows(disk)'
    BY StepGoes DEF Goes, StillReadable, OldRows
  <1>3. Shape /\ SavedInv /\ OldRows(disk) => SavedIsRead
    <2> SUFFICES ASSUME Shape, SavedInv, OldRows(disk), NEW s \in DOMAIN services,
                        services[s].saved,
                        \A i \in DOMAIN services[s].PortrangeList :
                           \A n \in Numbers(services[s].PortrangeList[i]) : IsPort(n)
                 PROVE  /\ services[s].name \in DOMAIN disk
                        /\ ~ReadFails(disk[services[s].name])
                        /\ LET read == ReadService(services[s].name, disk[services[s].name])
                               ranges == services[s].PortrangeList
                           IN  /\ read.active = services[s].active
                               /\ read.broadcast = services[s].broadcast
                               /\ \/ read.PortrangeList = [i \in DOMAIN ranges |-> Written(ranges[i])]
                                  \/ ranges = << >> /\ disk[services[s].name].OLD # << >>
      BY DEF SavedIsRead
    <2> DEFINE service == services[s]
               ranges  == service.PortrangeList
               row     == disk[service.name]
    <2>1. service \in ServicesData
      BY DEF Shape, Lists
    <2>2. ranges \in Seq(Portdata)
      BY <2>1 DEF ServicesData
    <2>3. /\ service.name \in DOMAIN disk /\ row.ACTIVE = service.active
          /\ row.BROADCAST = service.broadcast /\ row.RANGE = Texts(ranges)
          /\ ValidName(service.name)
      BY DEF SavedInv, Sound, Fits, Matches
    <2>4. ASSUME NEW i \in DOMAIN ranges
          PROVE  Readable(Written(ranges[i])) /\ ProcessPortrange(Written(ranges[i])) = Written(ranges[i])
      <3>1. ranges[i] \in Portdata /\ \A n \in Numbers(ranges[i]) : IsPort(n)
        BY <2>2
      <3> DEFINE p == ranges[i]
      <3>2. p \in Portdata /\ \A n \in Numbers(p) : IsPort(n)
        BY <3>1
      <3> HIDE DEF p
      <3>3. Readable(Written(p)) /\ ProcessPortrange(Written(p)) = Written(p)
        BY <3>2, ProcessWritten
      <3>4. QED
        BY <3>3 DEF p
    <2>5. AllReadable(row.OLD)
      BY <2>3 DEF OldRows
    <2> HIDE DEF row, ranges
    <2>6. AllReadable(row.RANGE)
      BY <2>3, <2>4 DEF AllReadable, Texts
    <2>7. ~ ReadFails(row)
      BY <2>5, <2>6 DEF ReadFails
    <2>8. ReadRanges(row) = Texts(ranges) \/ (ranges = << >> /\ row.OLD # << >>)
      <3>1. CASE ranges = << >>
        <4>1. row.RANGE = << >>
          BY <2>3, <3>1 DEF Texts
        <4>2. CASE row.OLD = << >>
          BY <3>1, <4>1, <4>2 DEF ReadRanges, Texts
        <4>3. QED
          BY <3>1, <4>2
      <3>2. CASE ranges # << >>
        <4>1. DOMAIN Texts(ranges) = DOMAIN ranges /\ DOMAIN ranges # {}
          <5>1. DOMAIN Texts(ranges) = DOMAIN ranges
            BY DEF Texts
          <5>2. Len(ranges) \in Nat /\ Len(ranges) # 0 /\ DOMAIN ranges = 1 .. Len(ranges)
            BY <2>2, <3>2
          <5>3. 1 \in 1 .. Len(ranges)
            BY <5>2
          <5>4. QED
            BY <5>1, <5>2, <5>3
        <4>2. row.RANGE # << >>
          BY <2>3, <4>1
        <4>3. ReadRanges(row) = [i \in DOMAIN Texts(ranges) |-> ProcessPortrange(Texts(ranges)[i])]
          BY <2>3, <4>2 DEF ReadRanges
        <4>4. QED
          BY <2>4, <4>1, <4>3 DEF Texts
      <3>3. QED
        BY <3>1, <3>2
    <2>9. QED
      BY <2>3, <2>7, <2>8 DEF ReadService, Texts, row, ranges
  <1>4. QED
    BY <1>1, <1>2, <1>3, InitGoes, PTL DEF Spec

(* As long as no range was changed in place, or made of what memory held,  *)
(* all services load, if they do at the start.                             *)
THEOREM LoadsTheorem ==
    ASSUME OldRows(DiskServices), NewRows(DiskServices)
    PROVE  Spec => []CheckedRangesLoad
  <1>1. Init => OldRows(disk) /\ ReadableInv
    BY DEF Init, ReadableInv, Tellable
  <1>2. /\ Shape /\ SavedInv /\ OldRows(disk) /\ ReadableInv /\ [Next]_vars
        => Shape' /\ SavedInv' /\ OldRows(disk)' /\ ReadableInv'
    BY StepGoes DEF Goes, StillReadable, OldRows
  <1>3. OldRows(disk) /\ ReadableInv => CheckedRangesLoad
    BY DEF ReadableInv, OldRows, NewRows, CheckedRangesLoad, Loads, ReadFails, ServiceFiles
  <1>4. QED
    BY <1>1, <1>2, <1>3, InitGoes, PTL DEF Spec

-----------------------------------------------------------------------------
(* The rules.                                                              *)

(* While vuurmuur_conf is up, a name that only the backend's rules have is *)
(* one that is gone: a rename that went well saved the rules of memory.    *)
RulesInv ==
    /\ \A r \in DOMAIN rules : rules[r] \in DOMAIN disk \cup gone
    /\ \A r \in DOMAIN savedRules : savedRules[r] \in DOMAIN disk \cup gone
    /\ screen # "down" => Range(savedRules) \subseteq Range(rules) \cup gone

(* No rule changes, and no file goes. *)
LEMMA RulesUnmoved ==
    ASSUME RulesInv, screen # "down", UNCHANGED <<rules, savedRules, gone>>,
           DOMAIN disk \subseteq DOMAIN disk'
    PROVE  RulesInv'
  BY DEF RulesInv, Range

LEMMA RulesNew ==
    ASSUME RulesInv, NEW name \in Names, NewService(name)
    PROVE  RulesInv'
  <1>1. screen = "services" /\ screen # "down" /\ DOMAIN disk \subseteq DOMAIN disk'
        /\ UNCHANGED <<rules, savedRules>>
        /\ (gone' = gone \/ gone' = Back(disk', savedRules, rules))
    BY DEF NewService
  <1>2. CASE gone' = gone
    BY <1>1, <1>2, RulesUnmoved
  <1>3. CASE gone' = Back(disk', savedRules, rules)
    BY <1>1, <1>3 DEF RulesInv, Back, Range
  <1>4. QED
    BY <1>1, <1>2, <1>3

LEMMA RulesDelete ==
    ASSUME RulesInv, NEW i \in DOMAIN services, DeleteService(i)
    PROVE  RulesInv'
  <1> DEFINE name == services[i].name
  <1>1. /\ screen = "services" /\ DOMAIN disk' = DOMAIN disk \ {name}
        /\ gone' = gone \cup {name} /\ UNCHANGED <<rules, savedRules, screen>>
    BY DEF DeleteService
  <1>2. QED
    BY <1>1 DEF RulesInv, Range

LEMMA RulesRename ==
    ASSUME Shape, RulesInv, NEW i \in DOMAIN services, NEW name \in Names,
           RenameService(i, name)
    PROVE  RulesInv'
  <1> DEFINE old == services[i].name
             new == Renamed(rules, old, name)
  <1>1. rules \in Seq(Names) /\ savedRules \in Seq(Names)
    BY DEF Shape
  <1>2. /\ screen = "services" /\ rules' = new /\ screen' = screen
        /\ (name = old \/ old \in DOMAIN disk)
        /\ DOMAIN disk' = IF name = old THEN DOMAIN disk ELSE (DOMAIN disk \ {old}) \cup {name}
    BY DEF RenameService
  <1>3. \/ /\ savedRules' = IF \E r \in DOMAIN rules : rules[r] = old THEN new ELSE savedRules
           /\ gone' = Back(disk', savedRules', rules')
        \/ /\ \E n \in 0 .. Len(new) - 1 : savedRules' = ToldRules(new, n)
           /\ gone' = gone \cup {old}
    BY DEF RenameService
  <1> HIDE DEF old
  <1>4. /\ new \in Seq(Names) /\ DOMAIN new = DOMAIN rules
        /\ \A r \in DOMAIN rules : new[r] = IF rules[r] = old THEN name ELSE rules[r]
    BY <1>1, RenamedType
  <1> HIDE DEF new
  (* what the rules name in memory *)
  <1>5. \A r \in DOMAIN new : new[r] \in DOMAIN disk' \cup gone
    BY <1>2, <1>4 DEF RulesInv
  <1>6. \A x \in Range(rules) : x = old \/ x \in Range(new)
    BY <1>4 DEF Range
  (* and in the backend, if it is not told *)
  <1>7. /\ \A r \in DOMAIN savedRules : savedRules[r] \in DOMAIN disk' \cup gone \cup {old}
        /\ Range(savedRules) \subseteq Range(new) \cup gone \cup {old}
    BY <1>2, <1>6 DEF RulesInv
  <1>8. CASE /\ \E r \in DOMAIN rules : rules[r] = old
             /\ savedRules' = new /\ gone' = Back(disk', savedRules', rules')
    BY <1>2, <1>5, <1>8 DEF RulesInv, Back, Range
  <1>9. CASE /\ ~ (\E r \in DOMAIN rules : rules[r] = old)
             /\ savedRules' = savedRules /\ gone' = Back(disk', savedRules', rules')
    <2>1. new = rules
      BY <1>1, <1>4, <1>9
    <2>2. \A r \in DOMAIN savedRules : savedRules[r] \in DOMAIN disk' \cup gone
      BY <1>2, <1>9, <2>1 DEF RulesInv, Range
    <2>3. Range(savedRules) \subseteq Range(new) \cup gone
      BY <1>2, <2>1 DEF RulesInv
    <2>4. QED
      BY <1>2, <1>5, <1>9, <2>2, <2>3 DEF RulesInv, Back, Range
  <1>10. CASE /\ \E n \in 0 .. Len(new) - 1 : savedRules' = ToldRules(new, n)
              /\ gone' = gone \cup {old}
    <2>1. PICK n \in 0 .. Len(new) - 1 : savedRules' = ToldRules(new, n)
      BY <1>10
    <2>2. n \in 0 .. Len(new)
      BY <1>4
    <2>3. \/ savedRules' = savedRules
          \/ \A r \in DOMAIN savedRules' : r \in DOMAIN new /\ savedRules'[r] = new[r]
      BY <1>1, <1>4, <2>1, <2>2, ToldRulesType
    <2>4. \A r \in DOMAIN savedRules' : savedRules'[r] \in DOMAIN disk' \cup gone'
      BY <1>5, <1>7, <1>10, <2>3
    <2>5. Range(savedRules') \subseteq Range(new) \cup gone'
      BY <1>7, <1>10, <2>3 DEF Range
    <2>6. QED
      BY <1>2, <1>5, <1>10, <2>4, <2>5 DEF RulesInv
  <1>11. QED
    BY <1>3, <1>8, <1>9, <1>10

LEMMA RulesStep ==
    ASSUME Shape, RulesInv, [Next]_vars
    PROVE  RulesInv'
  <1>1. CASE Start
    BY <1>1 DEF Start, RulesInv, Range
  <1>2. CASE Quit
    BY <1>2 DEF Quit, RulesInv
  <1>3. CASE ServicesKeys
    <2>1. ASSUME NEW i \in DOMAIN services, EditService(i) PROVE RulesInv'
      BY <2>1, RulesUnmoved DEF EditService
    <2>2. ASSUME NEW i \in DOMAIN services, DeleteService(i) PROVE RulesInv'
      BY <2>2, RulesDelete
    <2>3. ASSUME NEW i \in DOMAIN services, NEW name \in Names, RenameService(i, name) PROVE RulesInv'
      BY <2>3, RulesRename
    <2>4. ASSUME NEW name \in Names, NewService(name) PROVE RulesInv'
      BY <2>4, RulesNew
    <2>5. CASE ReopenSection
      BY <2>5, RulesUnmoved DEF ReopenSection
    <2>6. QED
      BY <1>3, <2>1, <2>2, <2>3, <2>4, <2>5 DEF ServicesKeys
  <1>4. CASE ServiceKeys
    <2>1. CASE EditPortranges
      BY <2>1, RulesUnmoved DEF EditPortranges
    <2>2. ASSUME NEW a \in BOOLEAN, NEW b \in BOOLEAN, CloseService(a, b) PROVE RulesInv'
      <3>1. screen = "service" /\ UNCHANGED <<rules, savedRules, gone>>
        BY <2>2 DEF CloseService
      <3>2. DOMAIN disk' = DOMAIN disk
        BY <2>2 DEF CloseService, SavePortranges
      <3>3. QED
        BY <3>1, <3>2, RulesUnmoved
    <2>3. QED
      BY <1>4, <2>1, <2>2 DEF ServiceKeys
  <1>5. CASE PortrangeKeys
    <2>1. ASSUME NEW range \in FormRanges \cup Leftover, NewPortrange(range) PROVE RulesInv'
      BY <2>1, RulesUnmoved DEF NewPortrange, SaveChanged, SavePortranges, Same
    <2>2. ASSUME NEW place \in DOMAIN shown, EditPortrange(place) PROVE RulesInv'
      BY <2>2, RulesUnmoved DEF EditPortrange, Same
    <2>3. ASSUME NEW place \in DOMAIN shown, DeletePortrange(place) PROVE RulesInv'
      BY <2>3, RulesUnmoved DEF DeletePortrange, SaveChanged, SavePortranges, Same
    <2>4. CASE ClosePortranges
      BY <2>4, RulesUnmoved DEF ClosePortranges
    <2>5. QED
      BY <1>5, <2>1, <2>2, <2>3, <2>4 DEF PortrangeKeys
  <1>6. CASE UNCHANGED vars
    BY <1>6 DEF vars, RulesInv
  <1>7. QED
    BY <1>1, <1>2, <1>3, <1>4, <1>5, <1>6 DEF Next

(* What a rule names is a service, or was deleted, or its rename was       *)
(* broken off.                                                             *)
THEOREM RulesTheorem == Spec => []RulesNameServices
  <1>1. Init => RulesInv
    <2>1. \A r \in DOMAIN DiskRules : DiskRules[r] \in DOMAIN DiskServices
      BY ServiceAssumption, SMT
    <2>2. QED
      BY <2>1 DEF Init, RulesInv
  <1>2. Shape /\ SavedInv /\ RulesInv /\ [Next]_vars => Shape' /\ SavedInv' /\ RulesInv'
    BY StepGoes, RulesStep DEF Goes
  <1>3. RulesInv => RulesNameServices
    BY DEF RulesInv, RulesNameServices
  <1>4. QED
    BY <1>1, <1>2, <1>3, InitGoes, PTL DEF Spec

-----------------------------------------------------------------------------
(* One range for a protocol without ports.                                 *)

LEMMA ProtocolType ==
    ASSUME NEW list \in Seq(Portdata), NEW i \in DOMAIN list
    PROVE  list[i].protocol \in Int
  <1>1. list[i] \in Portdata
    OBVIOUS
  <1>2. QED
    BY <1>1 DEF Portdata

(* The list keeps its order, and the new range is not a second one of its  *)
(* protocol: those before the place are of another, and those from it on   *)
(* are of a greater one.                                                   *)
LEMMA InsertKept ==
    ASSUME NEW list \in Seq(Portdata), WellKept(list), NEW p \in Portdata,
           ~ Taken(list, p.protocol)
    PROVE  WellKept(InsertAt(list, Place(list, p.protocol), p))
  <1> DEFINE k   == Place(list, p.protocol)
             new == InsertAt(list, k, p)
             Old(i) == IF i < k THEN i ELSE i - 1
  <1>1. p.protocol \in Int
    BY DEF Portdata
  <1>2. /\ k \in 1 .. Len(list) + 1
        /\ \A i \in 1 .. k - 1 : list[i].protocol <= p.protocol
        /\ k <= Len(list) => p.protocol < list[k].protocol
    BY <1>1, Placed
  <1>3. p.protocol \in {ICMP, TCP, UDP} \/ \A i \in 1 .. k - 1 : list[i].protocol # p.protocol
    BY DEF Taken
  <1> HIDE DEF k
  <1>4. /\ new \in Seq(Portdata) /\ Len(new) = Len(list) + 1
        /\ \A i \in 1 .. Len(list) + 1 :
             new[i] = IF i < k THEN list[i] ELSE IF i = k THEN p ELSE list[i - 1]
    BY <1>2, Inserted
  <1> HIDE DEF new
  <1>5. \A i \in DOMAIN list : list[i].protocol \in Int
    BY ProtocolType
  <1>6. \A i, j \in DOMAIN list : i < j => list[i].protocol <= list[j].protocol
    BY DEF WellKept, InOrder
  <1>7. \A i, j \in DOMAIN list :
           i # j /\ list[i].protocol = list[j].protocol => list[i].protocol \in {ICMP, TCP, UDP}
    BY DEF WellKept, OneOfEach
  (* where a range of the new list was *)
  <1>8. ASSUME NEW i \in DOMAIN new, i # k
        PROVE  Old(i) \in DOMAIN list /\ new[i] = list[Old(i)]
    BY <1>2, <1>4, <1>8
  <1>9. new[k] = p
    BY <1>2, <1>4
  (* those after the place are of greater protocols *)
  <1>10. ASSUME NEW i \in DOMAIN list, k <= i PROVE p.protocol < list[i].protocol
    <2>1. k \in DOMAIN list /\ p.protocol < list[k].protocol
      BY <1>2, <1>10
    <2>2. list[k].protocol <= list[i].protocol
      BY <1>5, <1>6, <1>10, <2>1
    <2>3. QED
      BY <1>1, <1>5, <1>10, <2>1, <2>2
  <1>11. InOrder(new)
    <2>1. SUFFICES ASSUME NEW i \in DOMAIN new, NEW j \in DOMAIN new, i < j
                   PROVE  new[i].protocol <= new[j].protocol
      BY DEF InOrder
    <2>2. CASE i # k /\ j # k
      <3>1. Old(i) \in DOMAIN list /\ Old(j) \in DOMAIN list /\ Old(i) < Old(j)
        BY <1>2, <1>4, <1>8, <2>1, <2>2
      <3>2. list[Old(i)].protocol <= list[Old(j)].protocol
        BY <1>6, <3>1
      <3>3. QED
        BY <1>8, <2>2, <3>2
    <2>3. CASE i = k
      <3>1. Old(j) \in DOMAIN list /\ k <= Old(j) /\ new[j] = list[Old(j)]
        BY <1>2, <1>4, <1>8, <2>1, <2>3
      <3>2. p.protocol < list[Old(j)].protocol
        BY <1>10, <3>1
      <3>3. QED
        BY <1>1, <1>5, <1>9, <2>3, <3>1, <3>2
    <2>4. CASE j = k
      <3>1. i \in 1 .. k - 1 /\ new[i] = list[i]
        BY <1>2, <1>4, <2>1, <2>4
      <3>2. QED
        BY <1>2, <1>9, <2>4, <3>1
    <2>5. QED
      BY <2>2, <2>3, <2>4
  (* no range but the new one itself is of its protocol *)
  <1>12. ASSUME NEW i \in DOMAIN new, i # k, new[i].protocol = p.protocol
         PROVE  p.protocol \in {ICMP, TCP, UDP}
    <2>1. CASE i < k
      <3>1. i \in 1 .. k - 1 /\ new[i] = list[i]
        BY <1>2, <1>4, <2>1
      <3>2. QED
        BY <1>3, <1>12, <3>1
    <2>2. CASE ~ (i < k)
      <3>1. Old(i) \in DOMAIN list /\ k <= Old(i) /\ new[i] = list[Old(i)]
        BY <1>2, <1>4, <1>8, <1>12, <2>2
      <3>2. p.protocol < list[Old(i)].protocol
        BY <1>10, <3>1
      <3>3. QED
        BY <1>1, <1>5, <1>12, <3>1, <3>2
    <2>3. QED
      BY <2>1, <2>2
  <1>13. OneOfEach(new)
    <2>1. SUFFICES ASSUME NEW i \in DOMAIN new, NEW j \in DOMAIN new, i # j,
                          new[i].protocol = new[j].protocol
                   PROVE  new[i].protocol \in {ICMP, TCP, UDP}
      BY DEF OneOfEach
    <2>2. CASE i # k /\ j # k
      <3>1. Old(i) \in DOMAIN list /\ Old(j) \in DOMAIN list /\ Old(i) # Old(j)
        BY <1>2, <1>4, <1>8, <2>1, <2>2
      <3>2. new[i] = list[Old(i)] /\ new[j] = list[Old(j)]
        BY <1>8, <2>2
      <3>3. QED
        BY <1>7, <2>1, <3>1, <3>2
    <2>3. CASE i = k
      BY <1>9, <1>12, <2>1, <2>3
    <2>4. CASE j = k
      BY <1>9, <1>12, <2>1, <2>4
    <2>5. QED
      BY <2>2, <2>3, <2>4
  <1>14. QED
    BY <1>11, <1>13 DEF WellKept, new, k

LEMMA RemoveKept ==
    ASSUME NEW list \in Seq(Portdata), WellKept(list), NEW place \in 1 .. Len(list)
    PROVE  WellKept(RemoveAt(list, place))
  <1> DEFINE new == RemoveAt(list, place)
             Old(i) == IF i < place THEN i ELSE i + 1
  <1>1. /\ new \in Seq(Portdata) /\ Len(new) = Len(list) - 1
        /\ \A i \in 1 .. Len(list) - 1 : new[i] = IF i < place THEN list[i] ELSE list[i + 1]
    BY Removed
  <1> HIDE DEF new
  <1>2. ASSUME NEW i \in DOMAIN new
        PROVE  Old(i) \in DOMAIN list /\ new[i] = list[Old(i)]
    BY <1>1
  <1>3. \A i, j \in DOMAIN new : (i < j => Old(i) < Old(j)) /\ (i # j => Old(i) # Old(j))
    BY <1>1
  <1> HIDE DEF Old
  <1>4. InOrder(new)
    BY <1>2, <1>3 DEF WellKept, InOrder
  <1>5. OneOfEach(new)
    BY <1>2, <1>3 DEF WellKept, OneOfEach
  <1>6. QED
    BY <1>4, <1>5 DEF WellKept, new

(* A range of the same protocol in its place. *)
LEMMA ReplaceKept ==
    ASSUME NEW list \in Seq(Portdata), WellKept(list), NEW place \in DOMAIN list,
           NEW p \in Portdata, p.protocol = list[place].protocol
    PROVE  WellKept([list EXCEPT ![place] = p])
  <1> DEFINE new == [list EXCEPT ![place] = p]
  <1>1. DOMAIN new = DOMAIN list /\ \A i \in DOMAIN list : new[i].protocol = list[i].protocol
    OBVIOUS
  <1> HIDE DEF new
  <1>2. WellKept(new)
    BY <1>1 DEF WellKept, InOrder, OneOfEach
  <1>3. QED
    BY <1>2 DEF new

LEMMA PutRanges ==
    ASSUME NEW list \in Lists, NEW k \in DOMAIN list, NEW place \in DOMAIN list[k].PortrangeList,
           NEW p \in Portdata
    PROVE  Put(list, k, place, p)[k].PortrangeList = [list[k].PortrangeList EXCEPT ![place] = p]
  <1>1. PICK r \in ServicesData : r = list[k]
    BY DEF Lists
  <1>2. PICK ranges \in Seq(Portdata) : ranges = r.PortrangeList
    BY DEF ServicesData
  <1> DEFINE put == [r EXCEPT !.PortrangeList[place] = p, !.saved = FALSE]
  <1>4. put = [r EXCEPT !.PortrangeList = [ranges EXCEPT ![place] = p], !.saved = FALSE]
    BY <1>2 DEF ServicesData
  <1>5. put.PortrangeList = [ranges EXCEPT ![place] = p]
    BY <1>4 DEF ServicesData
  <1>6. Put(list, k, place, p) = [list EXCEPT ![k] = put]
    BY <1>1 DEF Put
  <1> HIDE DEF put
  <1>7. [list EXCEPT ![k] = put][k] = put
    BY DEF Lists
  <1>8. QED
    BY <1>1, <1>2, <1>5, <1>6, <1>7

StaysWellKept ==
    cur # 0 /\ cur' = cur /\ WellKept(Current.PortrangeList)
       => WellKept(services'[cur].PortrangeList)

LEMMA KeptByNew ==
    ASSUME Shape, SavedInv, NEW range \in FormRanges \cup Leftover, NewPortrange(range)
    PROVE  StaysWellKept
  <1> DEFINE list == Current.PortrangeList
             p    == Normalised(range)
             new  == InsertAt(list, Place(list, p.protocol), p)
  <1>1. screen = "ports" /\ ~ Taken(list, p.protocol) /\ SaveChanged(new)
    BY DEF NewPortrange
  <1>2. list \in Seq(Portdata)
    BY <1>1, InForm
  <1>3. p \in Portdata /\ p.protocol \in Int
    <2>1. p \in Portdata
      BY FormRangesType
    <2>2. QED
      BY <2>1 DEF Portdata
  <1> HIDE DEF list, p
  <1>4. Place(list, p.protocol) \in 1 .. Len(list) + 1
    BY <1>2, <1>3, Placed
  <1>5. new \in Seq(Portdata)
    BY <1>2, <1>3, <1>4, Inserted
  <1>6. WellKept(list) => WellKept(new)
    BY <1>1, <1>2, <1>3, InsertKept
  <1> HIDE DEF new
  <1>7. services'[cur].PortrangeList = new
    BY <1>1, <1>5, SaveChangedStep
  <1>8. QED
    BY <1>6, <1>7 DEF StaysWellKept, list

LEMMA KeptByDelete ==
    ASSUME Shape, SavedInv, NEW place \in DOMAIN shown, DeletePortrange(place)
    PROVE  StaysWellKept
  <1> DEFINE list == Current.PortrangeList
             new  == RemoveAt(list, place)
  <1>1. screen = "ports" /\ place \in DOMAIN list /\ SaveChanged(new)
    BY DEF DeletePortrange
  <1>2. list \in Seq(Portdata)
    BY <1>1, InForm
  <1> HIDE DEF list
  <1>3. place \in 1 .. Len(list)
    BY <1>1, <1>2
  <1>4. new \in Seq(Portdata)
    BY <1>2, <1>3, Removed
  <1>5. WellKept(list) => WellKept(new)
    BY <1>2, <1>3, RemoveKept
  <1> HIDE DEF new
  <1>6. services'[cur].PortrangeList = new
    BY <1>1, <1>4, SaveChangedStep
  <1>7. QED
    BY <1>5, <1>6 DEF StaysWellKept, list

LEMMA KeptByEdit ==
    ASSUME Shape, SavedInv, NEW place \in DOMAIN shown, EditPortrange(place)
    PROVE  StaysWellKept
  <1> DEFINE list == Current.PortrangeList
  <1>1. screen = "ports" /\ place \in DOMAIN list
    BY DEF EditPortrange
  <1>2. cur \in DOMAIN services /\ services \in Lists /\ list \in Seq(Portdata)
    BY <1>1, InForm
  <1>3. PICK p \in FormRanges : /\ services' = Put(services, cur, place, p)
                                /\ p.protocol = list[place].protocol
    <2>1. ASSUME HasPorts(list[place].protocol),
                 NEW q \in TcpUdpForm(list[place].protocol), services' = Put(services, cur, place, q)
          PROVE  q \in FormRanges /\ q.protocol = list[place].protocol
      <3>1. q \in FormRanges
        BY <2>1 DEF HasPorts, FormRanges
      <3>2. PICK e \in Entered : q = [e EXCEPT !.protocol = list[place].protocol]
        BY <2>1 DEF TcpUdpForm
      <3>3. e \in Portdata
        BY ServiceAssumption, SMT
      <3>4. q.protocol = list[place].protocol
        BY <3>2, <3>3 DEF Portdata
      <3>5. QED
        BY <3>1, <3>4
    <2>2. ASSUME list[place].protocol = ICMP,
                 NEW q \in IcmpForm, services' = Put(services, cur, place, q)
          PROVE  q \in FormRanges /\ q.protocol = list[place].protocol
      BY <2>2 DEF IcmpForm, FormRanges, NoPorts
    <2>3. \/ /\ HasPorts(list[place].protocol)
             /\ \E q \in TcpUdpForm(list[place].protocol) : services' = Put(services, cur, place, q)
          \/ /\ list[place].protocol = ICMP
             /\ \E q \in IcmpForm : services' = Put(services, cur, place, q)
      BY DEF EditPortrange, Put
    <2>4. QED
      BY <2>1, <2>2, <2>3
  <1>4. p \in Portdata
    BY FormRangesType
  <1> DEFINE new == Put(services, cur, place, p)
  <1>5. new[cur].PortrangeList = [list EXCEPT ![place] = p]
    <2>1. place \in DOMAIN services[cur].PortrangeList
      BY <1>1 DEF Current
    <2>2. new[cur].PortrangeList = [services[cur].PortrangeList EXCEPT ![place] = p]
      BY <1>2, <1>4, <2>1, PutRanges
    <2>3. QED
      BY <2>2 DEF Current
  <1>6. WellKept(list) => WellKept([list EXCEPT ![place] = p])
    <2> HIDE DEF list
    <2>1. QED
      BY <1>1, <1>2, <1>3, <1>4, ReplaceKept
  <1> HIDE DEF new
  <1>7. services' = new
    BY <1>3 DEF new
  <1>8. QED
    BY <1>5, <1>6, <1>7 DEF StaysWellKept, list

LEMMA KeptStep ==
    ASSUME Shape, SavedInv, [Next]_vars
    PROVE  StaysWellKept
  <1>1. CASE Start
    BY <1>1 DEF Start, Shape, StaysWellKept
  <1>2. CASE Quit
    BY <1>2 DEF Quit, StaysWellKept
  <1>3. CASE ServicesKeys
    <2>1. screen = "services"
      BY <1>3 DEF ServicesKeys, EditService, DeleteService, RenameService, NewService,
                  ReopenSection
    <2>2. QED
      BY <2>1 DEF Shape, StaysWellKept
  <1>4. CASE ServiceKeys
    <2>1. CASE EditPortranges
      BY <2>1 DEF EditPortranges, StaysWellKept, Current
    <2>2. ASSUME NEW a \in BOOLEAN, NEW b \in BOOLEAN, CloseService(a, b) PROVE StaysWellKept
      <3>1. cur' = 0
        BY <2>2 DEF CloseService
      <3>2. QED
        BY <3>1 DEF StaysWellKept
    <2>3. QED
      BY <1>4, <2>1, <2>2 DEF ServiceKeys
  <1>5. CASE PortrangeKeys
    <2>1. ASSUME NEW range \in FormRanges \cup Leftover, NewPortrange(range) PROVE StaysWellKept
      BY <2>1, KeptByNew
    <2>2. ASSUME NEW place \in DOMAIN shown, EditPortrange(place) PROVE StaysWellKept
      BY <2>2, KeptByEdit
    <2>3. ASSUME NEW place \in DOMAIN shown, DeletePortrange(place) PROVE StaysWellKept
      BY <2>3, KeptByDelete
    <2>4. CASE ClosePortranges
      BY <2>4 DEF ClosePortranges, StaysWellKept, Current
    <2>5. QED
      BY <1>5, <2>1, <2>2, <2>3, <2>4 DEF PortrangeKeys
  <1>6. CASE UNCHANGED vars
    BY <1>6 DEF vars, StaysWellKept, Current
  <1>7. QED
    BY <1>1, <1>2, <1>3, <1>4, <1>5, <1>6 DEF Next

(* A list of ranges in order, with one range at most of each protocol      *)
(* without ports, stays such a list as long as the form is open.           *)
THEOREM OneRangeTheorem == Spec => OneRangeWithoutPorts
  <1>1. Shape /\ SavedInv /\ [Next]_vars => Shape' /\ SavedInv' /\ StaysWellKept
    BY StepGoes, KeptStep DEF Goes
  <1>2. Spec => [][StaysWellKept]_vars
    BY <1>1, InitGoes, PTL DEF Spec
  <1>3. QED
    BY <1>2 DEF OneRangeWithoutPorts, StaysWellKept
=============================================================================

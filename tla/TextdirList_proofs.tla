------------------------- MODULE TextdirList_proofs -------------------------
(***************************************************************************)
(* What is proved of the textdir backend and of the list a program reads   *)
(* from it, for every tree of objects, every number of programs and        *)
(* commands, and every mixture of calls that fail and programs that die.   *)
(*                                                                         *)
(* The argument.  The calls of a plan name objects and directories, and a  *)
(* rename one that goes to a place of its own kind (PlanInv).  So the      *)
(* files are always objects, and every file and every directory but the    *)
(* four at the top is in a directory (TreeInv): a directory goes only when *)
(* it is empty, and a rename takes what is below along.  The list relies   *)
(* on that: the directories on the way to an object that stays are there   *)
(* when the list comes by, and have its name (ListInv).  A loop over a list *)
(* of an object finds no file open but its own, since a question for one   *)
(* value comes first and closes what was left open (LoopInv).              *)
(***************************************************************************)
EXTENDS TextdirList, SequenceTheorems, TLAPS

(* The names paths are made of. *)
Words ==
    {"zones", "zone.config", "networks", "network.config", "hosts", "groups",
     "interfaces", "services", "rules"}
    \cup Zones \cup Nets \cup Hosts \cup Groups \cup {o[2] : o \in Flat}
Paths == Seq(Words)

(* The calls of the plans. *)
Does == {"absent", "present", "mkdir", "rmdir", "unlink", "rename", "create", "fill",
         "read", "truncate", "write", "ask", "asknext"}
Calls == [do : Does, path : Paths, to : Paths,
          var : Vars \cup {""}, val : Values, overwrite : BOOLEAN]

Moves(c) ==
    \E o, new \in Objects :
        /\ o # new /\ TypeOf(o) = TypeOf(new)
        /\ c.path = Place(o) /\ c.to = Place(new)

Sound == {c \in Calls : /\ c.do \in {"create", "truncate"} => c.path \in Objects
                        /\ c.do = "rename" => Moves(c)}

PlanInv == todo \in [Progs -> Seq(Sound)]

(* Calls that ask nothing. *)
Quiet == {c \in Sound : c.do \notin {"ask", "asknext"}}

IsHeard(h) == h = [of |-> h.of, from |-> h.from, due |-> h.due,
                   gone |-> h.gone, late |-> h.late, over |-> h.over]

(* A loop that has begun goes on in the file its answers came from; one    *)
(* that has not finds no file open, if a question for one value was first. *)
InLoop(o, h, c) ==
    IF h.of = <<>> THEN "ACTIVE" \in VarsOf(o) => c.of = <<>>
                   ELSE h.of = o /\ c.of = h.from

(* What is left of a plan asks nothing, or for one value, or for one value *)
(* before a loop, or is a loop.                                            *)
Asks(s, h, c) ==
    \/ s \in Seq(Quiet)
    \/ \E a \in Sound : a.do = "ask" /\ s = <<a>>
    \/ \E a, b \in Sound : /\ a.do = "ask" /\ b.do = "asknext" /\ b.path # <<>>
                         /\ s = <<a, b>> /\ h = Silence
    \/ \E b \in Sound : /\ b.do = "asknext" /\ b.path # <<>>
                      /\ s = <<b>> /\ InLoop(b.path, h, c)

LoopInv ==
    /\ heard = [p \in Progs |-> heard[p]] /\ cursor = [p \in Progs |-> cursor[p]]
    /\ \A p \in Progs : /\ IsHeard(heard[p]) /\ StaysInItsFile(heard[p])
                        /\ Asks(todo[p], heard[p], cursor[p])

TreeInv ==
    /\ DOMAIN files \subseteq Objects
    /\ dirs \subseteq Paths \ {<<>>}
    /\ \A x \in DOMAIN files \cup (dirs \ Roots) : Front(x) \in dirs

(* The object is in the list, or one of the open directories will still    *)
(* return its name or that of a directory on the way to it.                *)
Coming(o) ==
    \/ o \in listed
    \/ o[2] \in zonesLeft
    \/ Len(o) \in {5, 6} /\ o[2] = curZone /\ o[4] \in netsLeft
    \/ /\ Len(o) = 6 /\ o[2] = curZone /\ o[4] = curNet
       /\ \/ o[5] = "hosts" /\ o[6] \in hostsLeft
          \/ o[5] = "groups" /\ o[6] \in groupsLeft

ListInv ==
    /\ at = "listing" => always \subseteq DOMAIN files /\ \A o \in always \ Flat : Coming(o)
    /\ at = "done" => always \ Flat \subseteq listed

BackendInv == PlanInv /\ LoopInv /\ TreeInv

-----------------------------------------------------------------------------
(* Paths, place by place.                                                  *)

(* What is left of a path without its last name. *)
LEMMA FrontOf ==
    ASSUME NEW s \in Paths, s # <<>>
    PROVE  /\ Front(s) \in Paths /\ Len(Front(s)) = Len(s) - 1
           /\ \A i \in 1 .. Len(s) - 1 : Front(s)[i] = s[i]
<1> DEFINE n == Len(s) - 1
<1>1. n \in Nat /\ \A i \in 1 .. n : s[i] \in Words
  BY EmptySeq, ElementOfSeq DEF Paths
<1>2. Front(s) = SubSeq(s, 1, n)
  BY DEF Front
<1> HIDE DEF n
<1>3. /\ SubSeq(s, 1, n) \in Seq(Words) /\ Len(SubSeq(s, 1, n)) = n
      /\ \A i \in 1 .. n : SubSeq(s, 1, n)[i] = s[i]
  BY <1>1, SubSeqProperties
<1> QED
  BY <1>2, <1>3 DEF n, Paths

(* A path is a prefix of another one if they agree as far as it goes. *)
LEMMA PrefixIs ==
    ASSUME NEW p \in Paths, NEW x \in Paths
    PROVE  IsPrefix(p, x) <=> Len(p) <= Len(x) /\ \A i \in 1 .. Len(p) : p[i] = x[i]
<1>1. Len(p) \in Nat /\ Len(x) \in Nat
  BY LenProperties DEF Paths
<1>2. SubSeq(p, 1, Len(p)) = p
  BY SubSeqFull DEF Paths
<1>3. ASSUME Len(p) <= Len(x)
      PROVE  /\ SubSeq(x, 1, Len(p)) \in Paths /\ Len(SubSeq(x, 1, Len(p))) = Len(p)
             /\ \A i \in 1 .. Len(p) : SubSeq(x, 1, Len(p))[i] = x[i]
  <2>1. \A i \in 1 .. Len(p) : x[i] \in Words
    BY <1>1, <1>3, ElementOfSeq DEF Paths
  <2> QED
    BY <1>1, <2>1, SubSeqProperties DEF Paths
<1>4. ASSUME Len(p) <= Len(x), \A i \in 1 .. Len(p) : p[i] = x[i]
      PROVE  p = SubSeq(x, 1, Len(p))
  BY <1>3, <1>4, SeqEqual DEF Paths
<1> QED
  BY <1>1, <1>2, <1>3, <1>4 DEF IsPrefix

(* A path that moves to a place of the same length only changes there. *)
LEMMA MovedIs ==
    ASSUME NEW p \in Paths, NEW q \in Paths, NEW x \in Paths, Len(p) = Len(q)
    PROVE  /\ MovedPath(p, q, x) \in Paths /\ Len(MovedPath(p, q, x)) = Len(x)
           /\ \A i \in 1 .. Len(x) : MovedPath(p, q, x)[i] =
                IF IsPrefix(p, x) /\ i <= Len(p) THEN q[i] ELSE x[i]
<1>1. CASE ~IsPrefix(p, x)
  BY <1>1 DEF MovedPath
<1>2. CASE IsPrefix(p, x)
  <2> DEFINE rest == SubSeq(x, Len(p) + 1, Len(x))
  <2>1. Len(p) \in Nat /\ Len(x) \in Nat /\ Len(p) <= Len(x)
    BY <1>2, PrefixIs, LenProperties DEF Paths
  <2>2. \A i \in Len(p) + 1 .. Len(x) : x[i] \in Words
    BY <2>1, ElementOfSeq DEF Paths
  <2>3. /\ rest \in Paths /\ Len(rest) = Len(x) - Len(p)
        /\ \A i \in 1 .. Len(x) - Len(p) : rest[i] = x[Len(p) + i]
    BY <2>1, <2>2, SubSeqProperties DEF Paths
  <2>4. MovedPath(p, q, x) = q \o rest
    BY <1>2 DEF MovedPath
  <2> HIDE DEF rest
  <2>5. /\ q \o rest \in Paths /\ Len(q \o rest) = Len(q) + Len(rest)
        /\ \A i \in 1 .. Len(q) + Len(rest) :
                (q \o rest)[i] = IF i <= Len(q) THEN q[i] ELSE rest[i - Len(q)]
    BY <2>3, ConcatProperties DEF Paths
  <2>6. Len(q \o rest) = Len(x)
    BY <2>1, <2>3, <2>5
  <2>7. \A i \in 1 .. Len(x) : (q \o rest)[i] = IF i <= Len(p) THEN q[i] ELSE x[i]
    <3> TAKE i \in 1 .. Len(x)
    <3>1. CASE i <= Len(p)
      BY <2>1, <2>3, <2>5, <3>1
    <3>2. CASE ~(i <= Len(p))
      <4>1. i - Len(p) \in 1 .. Len(x) - Len(p) /\ Len(p) + (i - Len(p)) = i
        BY <2>1, <3>2
      <4> QED
        BY <2>1, <2>3, <2>5, <3>2, <4>1
    <3> QED
      BY <3>1, <3>2
  <2> QED
    BY <1>2, <2>4, <2>5, <2>6, <2>7
<1> QED
  BY <1>1, <1>2
(* No path is below the place another one of its length moved to, if it    *)
(* was not already.                                                        *)
LEMMA FrontOfMoved ==
    ASSUME NEW p \in Paths, NEW q \in Paths, NEW x \in Paths,
           Len(p) = Len(q), p # <<>>, x # <<>>, x # p
    PROVE  /\ IsPrefix(p, Front(x)) <=> IsPrefix(p, x)
           /\ Front(MovedPath(p, q, x)) = MovedPath(p, q, Front(x))
<1>1. /\ Front(x) \in Paths /\ Len(Front(x)) = Len(x) - 1
      /\ \A i \in 1 .. Len(x) - 1 : Front(x)[i] = x[i]
  BY FrontOf
<1>2. Len(p) \in Nat \ {0} /\ Len(x) \in Nat \ {0}
  BY EmptySeq DEF Paths
<1>3. IsPrefix(p, Front(x)) <=> IsPrefix(p, x)
  <2>1. ASSUME IsPrefix(p, x) PROVE Len(p) <= Len(x) - 1
    <3>1. Len(p) <= Len(x) /\ \A i \in 1 .. Len(p) : p[i] = x[i]
      BY <2>1, PrefixIs
    <3>2. Len(p) # Len(x)
      BY <3>1, SeqEqual DEF Paths
    <3> QED
      BY <1>2, <3>1, <3>2
  <2>2. ASSUME IsPrefix(p, x) PROVE IsPrefix(p, Front(x))
    <3>1. Len(p) <= Len(x) /\ \A i \in 1 .. Len(p) : p[i] = x[i]
      BY <2>2, PrefixIs
    <3>2. Len(p) <= Len(Front(x)) /\ \A i \in 1 .. Len(p) : p[i] = Front(x)[i]
      BY <1>1, <1>2, <2>1, <2>2, <3>1
    <3> QED
      BY <1>1, <3>2, PrefixIs
  <2>3. ASSUME IsPrefix(p, Front(x)) PROVE IsPrefix(p, x)
    <3>1. Len(p) <= Len(Front(x)) /\ \A i \in 1 .. Len(p) : p[i] = Front(x)[i]
      BY <1>1, <2>3, PrefixIs
    <3>2. Len(p) <= Len(x) /\ \A i \in 1 .. Len(p) : p[i] = x[i]
      BY <1>1, <1>2, <3>1
    <3> QED
      BY <3>2, PrefixIs
  <2> QED
    BY <2>2, <2>3
<1> DEFINE m == MovedPath(p, q, x)
<1> DEFINE k == MovedPath(p, q, Front(x))
<1>4. /\ m \in Paths /\ Len(m) = Len(x)
      /\ \A i \in 1 .. Len(x) : m[i] = IF IsPrefix(p, x) /\ i <= Len(p) THEN q[i] ELSE x[i]
  BY MovedIs
<1>5. /\ k \in Paths /\ Len(k) = Len(Front(x))
      /\ \A i \in 1 .. Len(Front(x)) :
            k[i] = IF IsPrefix(p, Front(x)) /\ i <= Len(p) THEN q[i] ELSE Front(x)[i]
  BY <1>1, MovedIs
<1> HIDE DEF m, k
<1>6. m # <<>>
  BY <1>2, <1>4, EmptySeq
<1>7. /\ Front(m) \in Paths /\ Len(Front(m)) = Len(m) - 1
      /\ \A i \in 1 .. Len(m) - 1 : Front(m)[i] = m[i]
  BY <1>4, <1>6, FrontOf
<1>8. ASSUME NEW i \in 1 .. Len(Front(m)) PROVE Front(m)[i] = k[i]
  <2>1. i \in 1 .. Len(x) - 1 /\ i \in 1 .. Len(x) /\ i \in 1 .. Len(Front(x))
    BY <1>1, <1>2, <1>4, <1>7
  <2>2. Front(m)[i] = IF IsPrefix(p, x) /\ i <= Len(p) THEN q[i] ELSE x[i]
    BY <1>4, <1>7, <2>1
  <2>3. k[i] = IF IsPrefix(p, x) /\ i <= Len(p) THEN q[i] ELSE x[i]
    BY <1>1, <1>3, <1>5, <2>1
  <2> QED
    BY <2>2, <2>3
<1>9. Len(Front(m)) = Len(k)
  BY <1>1, <1>4, <1>5, <1>7
<1>10. Front(m) = k
  BY <1>5, <1>7, <1>8, <1>9, SeqEqual DEF Paths
<1> QED
  BY <1>3, <1>10 DEF m, k

(* What moves comes to its new place, and what that place is in stays.     *)
LEMMA MovedHome ==
    ASSUME NEW p \in Paths, NEW q \in Paths, Len(p) = Len(q), p # <<>>
    PROVE  /\ MovedPath(p, q, p) = q
           /\ MovedPath(p, q, Front(q)) = Front(q)
           /\ Front(q) # q
<1>1. Len(p) \in Nat \ {0} /\ q # <<>>
  BY EmptySeq DEF Paths
<1>2. Front(q) \in Paths /\ Len(Front(q)) = Len(q) - 1
  BY <1>1, FrontOf
<1>3. ~IsPrefix(p, Front(q)) /\ IsPrefix(p, p)
  BY <1>1, <1>2, PrefixIs
<1>4. MovedPath(p, q, Front(q)) = Front(q)
  BY <1>3 DEF MovedPath
<1>5. MovedPath(p, q, p) = q
  <2>1. /\ MovedPath(p, q, p) \in Paths /\ Len(MovedPath(p, q, p)) = Len(p)
        /\ \A i \in 1 .. Len(p) : MovedPath(p, q, p)[i] = q[i]
    BY <1>3, MovedIs
  <2> QED
    BY <2>1, SeqEqual DEF Paths
<1> QED
  BY <1>1, <1>2, <1>4, <1>5

-----------------------------------------------------------------------------
(* Objects and their places.                                               *)

LEMMA AWord ==
    /\ "zones" \in Words /\ "zone.config" \in Words /\ "networks" \in Words
    /\ "network.config" \in Words /\ "hosts" \in Words /\ "groups" \in Words
    /\ "interfaces" \in Words /\ "services" \in Words /\ "rules" \in Words
    /\ \A z \in Zones : z \in Words
    /\ \A n \in Nets : n \in Words
    /\ \A h \in Hosts : h \in Words
    /\ \A g \in Groups : g \in Words
    /\ \A o \in Flat : o[2] \in Words
  BY DEF Words

(* Tuples of names are paths. *)
LEMMA Tuples ==
    ASSUME NEW a \in Words, NEW b \in Words
    PROVE  /\ <<a>> \in Paths /\ <<a, b>> \in Paths
           /\ \A c \in Words : <<a, b, c>> \in Paths
           /\ \A c, d \in Words : <<a, b, c, d>> \in Paths
           /\ \A c, d, e \in Words : <<a, b, c, d, e>> \in Paths
           /\ \A c, d, e, f \in Words : <<a, b, c, d, e, f>> \in Paths
<1> HIDE DEF Words
<1> USE DEF Paths
<1>1. <<a>> \in Paths /\ <<a, b>> \in Paths /\ \A c \in Words : <<a, b, c>> \in Paths
  OBVIOUS
<1>2. \A c, d \in Words : <<a, b, c, d>> \in Paths
  OBVIOUS
<1>3. \A c, d, e \in Words : <<a, b, c, d, e>> \in Paths
  OBVIOUS
<1>4. \A c, d, e, f \in Words : <<a, b, c, d, e, f>> \in Paths
  OBVIOUS
<1> QED
  BY <1>1, <1>2, <1>3, <1>4

(* Each kind of object has its own paths. *)
LEMMA ZoneShape ==
    ASSUME NEW z \in Words
    PROVE  /\ ZoneFile(z) \in Paths /\ Len(ZoneFile(z)) = 3
           /\ TypeOf(ZoneFile(z)) = "zone" /\ Place(ZoneFile(z)) = <<"zones", z>>
<1>1. /\ ZoneFile(z) \in Paths /\ Len(ZoneFile(z)) = 3
      /\ ZoneFile(z)[1] = "zones" /\ ZoneFile(z)[2] = z
  BY AWord, Tuples DEF ZoneFile
<1>2. TypeOf(ZoneFile(z)) = "zone"
  BY <1>1 DEF TypeOf
<1>3. Place(ZoneFile(z)) = Front(ZoneFile(z))
  BY <1>2 DEF Place, IsTree
<1>4. /\ Front(ZoneFile(z)) \in Paths /\ Len(Front(ZoneFile(z))) = 2
      /\ Front(ZoneFile(z))[1] = "zones" /\ Front(ZoneFile(z))[2] = z
  <2>1. ZoneFile(z) # <<>>
    BY DEF ZoneFile
  <2>2. /\ Front(ZoneFile(z)) \in Paths /\ Len(Front(ZoneFile(z))) = 3 - 1
        /\ \A i \in 1 .. 3 - 1 : Front(ZoneFile(z))[i] = ZoneFile(z)[i]
    BY <1>1, <2>1, FrontOf
  <2>3. 1 \in 1 .. 3 - 1 /\ 2 \in 1 .. 3 - 1 /\ 3 - 1 = 2
    OBVIOUS
  <2> QED
    BY <1>1, <2>2, <2>3
<1>5. <<"zones", z>> \in Paths
  BY AWord, Tuples
<1>6. Front(ZoneFile(z)) = <<"zones", z>>
  BY <1>4, <1>5, SeqEqual DEF Paths
<1> QED
  BY <1>1, <1>2, <1>3, <1>6

LEMMA NetShape ==
    ASSUME NEW z \in Words, NEW n \in Words
    PROVE  /\ NetFile(z, n) \in Paths /\ Len(NetFile(z, n)) = 5
           /\ TypeOf(NetFile(z, n)) = "network"
           /\ Place(NetFile(z, n)) = <<"zones", z, "networks", n>>
<1>1. /\ NetFile(z, n) \in Paths /\ Len(NetFile(z, n)) = 5
      /\ NetFile(z, n)[1] = "zones" /\ NetFile(z, n)[2] = z
      /\ NetFile(z, n)[3] = "networks" /\ NetFile(z, n)[4] = n
  BY AWord, Tuples DEF NetFile
<1>2. TypeOf(NetFile(z, n)) = "network"
  BY <1>1 DEF TypeOf
<1>3. Place(NetFile(z, n)) = Front(NetFile(z, n))
  BY <1>2 DEF Place, IsTree
<1>4. /\ Front(NetFile(z, n)) \in Paths /\ Len(Front(NetFile(z, n))) = 4
      /\ Front(NetFile(z, n))[1] = "zones" /\ Front(NetFile(z, n))[2] = z
      /\ Front(NetFile(z, n))[3] = "networks" /\ Front(NetFile(z, n))[4] = n
  <2>1. NetFile(z, n) # <<>>
    BY DEF NetFile
  <2>2. /\ Front(NetFile(z, n)) \in Paths /\ Len(Front(NetFile(z, n))) = 5 - 1
        /\ \A i \in 1 .. 5 - 1 : Front(NetFile(z, n))[i] = NetFile(z, n)[i]
    BY <1>1, <2>1, FrontOf
  <2>3. /\ 1 \in 1 .. 5 - 1 /\ 2 \in 1 .. 5 - 1 /\ 3 \in 1 .. 5 - 1 /\ 4 \in 1 .. 5 - 1
        /\ 5 - 1 = 4
    OBVIOUS
  <2> QED
    BY <1>1, <2>2, <2>3
<1>5. <<"zones", z, "networks", n>> \in Paths
  BY AWord, Tuples
<1>6. Front(NetFile(z, n)) = <<"zones", z, "networks", n>>
  BY <1>4, <1>5, SeqEqual DEF Paths
<1> QED
  BY <1>1, <1>2, <1>3, <1>6

LEMMA HostShape ==
    ASSUME NEW z \in Words, NEW n \in Words, NEW h \in Words
    PROVE  /\ HostFile(z, n, h) \in Paths /\ Len(HostFile(z, n, h)) = 6
           /\ TypeOf(HostFile(z, n, h)) = "hosts"
           /\ Place(HostFile(z, n, h)) = HostFile(z, n, h)
<1>1. /\ HostFile(z, n, h) \in Paths /\ Len(HostFile(z, n, h)) = 6
      /\ HostFile(z, n, h)[5] = "hosts"
  BY AWord, Tuples DEF HostFile
<1>2. TypeOf(HostFile(z, n, h)) = "hosts"
  BY <1>1 DEF TypeOf
<1> QED
  BY <1>1, <1>2 DEF Place, IsTree

LEMMA GroupShape ==
    ASSUME NEW z \in Words, NEW n \in Words, NEW g \in Words
    PROVE  /\ GroupFile(z, n, g) \in Paths /\ Len(GroupFile(z, n, g)) = 6
           /\ TypeOf(GroupFile(z, n, g)) = "groups"
           /\ Place(GroupFile(z, n, g)) = GroupFile(z, n, g)
<1>1. /\ GroupFile(z, n, g) \in Paths /\ Len(GroupFile(z, n, g)) = 6
      /\ GroupFile(z, n, g)[5] = "groups"
  BY AWord, Tuples DEF GroupFile
<1>2. TypeOf(GroupFile(z, n, g)) = "groups"
  BY <1>1 DEF TypeOf
<1> QED
  BY <1>1, <1>2 DEF Place, IsTree

LEMMA FlatShape ==
    ASSUME NEW o \in Flat
    PROVE  /\ o \in Paths /\ Len(o) = 2 /\ TypeOf(o) = o[1] /\ Place(o) = o
           /\ o[1] \in {"interfaces", "services", "rules"}
<1>1. o \in Paths /\ Len(o) = 2 /\ o[1] \in {"interfaces", "services", "rules"}
  <2>1. o = <<o[1], o[2]>> /\ o[1] \in {"interfaces", "services", "rules"} /\ o[2] \in Words
    BY PathsAssumption, AWord
  <2>2. o[1] \in Words
    BY <2>1, AWord
  <2>3. <<o[1], o[2]>> \in Paths
    BY <2>1, <2>2, Tuples
  <2>4. Len(<<o[1], o[2]>>) = 2
    OBVIOUS
  <2> QED
    BY <2>1, <2>3, <2>4
<1>2. TypeOf(o) = o[1]
  BY <1>1 DEF TypeOf
<1> QED
  BY <1>1, <1>2 DEF Place, IsTree

(* An object is one of five kinds. *)
LEMMA Kind ==
    ASSUME NEW o \in Objects
    PROVE  \/ \E z \in Zones : o = ZoneFile(z)
           \/ \E z \in Zones, n \in Nets : o = NetFile(z, n)
           \/ \E z \in Zones, n \in Nets, h \in Hosts : o = HostFile(z, n, h)
           \/ \E z \in Zones, n \in Nets, g \in Groups : o = GroupFile(z, n, g)
           \/ o \in Flat
  BY DEF Objects

LEMMA ObjectIs ==
    ASSUME NEW o \in Objects
    PROVE  o \in Paths /\ o # <<>> /\ Len(o) \in {2, 3, 5, 6} /\ (o \notin Flat => o[1] = "zones")
<1>1. CASE \E z \in Zones : o = ZoneFile(z)
  <2>1. PICK z \in Zones : o = ZoneFile(z)
    BY <1>1
  <2> QED
    BY <2>1, AWord, ZoneShape DEF ZoneFile
<1>2. CASE \E z \in Zones, n \in Nets : o = NetFile(z, n)
  <2>1. PICK z \in Zones, n \in Nets : o = NetFile(z, n)
    BY <1>2
  <2> QED
    BY <2>1, AWord, NetShape DEF NetFile
<1>3. CASE \E z \in Zones, n \in Nets, h \in Hosts : o = HostFile(z, n, h)
  <2>1. PICK z \in Zones, n \in Nets, h \in Hosts : o = HostFile(z, n, h)
    BY <1>3
  <2> QED
    BY <2>1, AWord, HostShape DEF HostFile
<1>4. CASE \E z \in Zones, n \in Nets, g \in Groups : o = GroupFile(z, n, g)
  <2>1. PICK z \in Zones, n \in Nets, g \in Groups : o = GroupFile(z, n, g)
    BY <1>4
  <2> QED
    BY <2>1, AWord, GroupShape DEF GroupFile
<1>5. CASE o \in Flat
  <2>1. o \in Paths /\ Len(o) = 2
    BY <1>5, FlatShape
  <2> QED
    BY <1>5, <2>1, EmptySeq DEF Paths
<1> QED
  BY <1>1, <1>2, <1>3, <1>4, <1>5, Kind

(* The type of an object is its kind. *)
LEMMA KindOfType ==
    ASSUME NEW o \in Objects
    PROVE  /\ TypeOf(o) = "zone" => \E z \in Zones : o = ZoneFile(z)
           /\ TypeOf(o) = "network" => \E z \in Zones, n \in Nets : o = NetFile(z, n)
           /\ TypeOf(o) = "hosts" => \E z \in Zones, n \in Nets, h \in Hosts : o = HostFile(z, n, h)
           /\ TypeOf(o) = "groups" =>
                \E z \in Zones, n \in Nets, g \in Groups : o = GroupFile(z, n, g)
           /\ TypeOf(o) \in {"interfaces", "services", "rules"} => o \in Flat
           /\ TypeOf(o) \in {"zone", "network", "hosts", "groups", "interfaces", "services", "rules"}
<1>1. CASE \E z \in Zones : o = ZoneFile(z)
  <2>1. PICK z \in Zones : o = ZoneFile(z)
    BY <1>1
  <2>2. TypeOf(o) = "zone"
    BY <2>1, AWord, ZoneShape
  <2> QED
    BY <1>1, <2>2
<1>2. CASE \E z \in Zones, n \in Nets : o = NetFile(z, n)
  <2>1. PICK z \in Zones, n \in Nets : o = NetFile(z, n)
    BY <1>2
  <2>2. TypeOf(o) = "network"
    BY <2>1, AWord, NetShape
  <2> QED
    BY <1>2, <2>2
<1>3. CASE \E z \in Zones, n \in Nets, h \in Hosts : o = HostFile(z, n, h)
  <2>1. PICK z \in Zones, n \in Nets, h \in Hosts : o = HostFile(z, n, h)
    BY <1>3
  <2>2. TypeOf(o) = "hosts"
    BY <2>1, AWord, HostShape
  <2> QED
    BY <1>3, <2>2
<1>4. CASE \E z \in Zones, n \in Nets, g \in Groups : o = GroupFile(z, n, g)
  <2>1. PICK z \in Zones, n \in Nets, g \in Groups : o = GroupFile(z, n, g)
    BY <1>4
  <2>2. TypeOf(o) = "groups"
    BY <2>1, AWord, GroupShape
  <2> QED
    BY <1>4, <2>2
<1>5. CASE o \in Flat
  BY <1>5, FlatShape
<1> QED
  BY <1>1, <1>2, <1>3, <1>4, <1>5, Kind

(* Two objects of a type have places of the same length, and different     *)
(* objects different places.                                               *)
LEMMA PlaceIs ==
    ASSUME NEW o \in Objects, NEW new \in Objects, o # new, TypeOf(o) = TypeOf(new)
    PROVE  /\ Place(o) \in Paths /\ Place(new) \in Paths
           /\ Len(Place(o)) = Len(Place(new)) /\ Len(Place(o)) >= 2
           /\ Place(o) # Place(new)
<1>1. CASE TypeOf(o) = "zone"
  <2>1. PICK z \in Zones : o = ZoneFile(z)
    BY <1>1, KindOfType
  <2>2. PICK w \in Zones : new = ZoneFile(w)
    BY <1>1, KindOfType
  <2>3. Place(o) = <<"zones", z>> /\ Place(new) = <<"zones", w>>
    BY <2>1, <2>2, AWord, ZoneShape
  <2>4. z # w
    BY <2>1, <2>2
  <2>5. <<"zones", z>> \in Paths /\ <<"zones", w>> \in Paths
    BY AWord, Tuples
  <2>6. Len(<<"zones", z>>) = 2 /\ Len(<<"zones", w>>) = 2
    OBVIOUS
  <2>7. <<"zones", z>> # <<"zones", w>>
    BY <2>4
  <2> QED
    BY <2>3, <2>5, <2>6, <2>7
<1>2. CASE TypeOf(o) = "network"
  <2>1. PICK z \in Zones, n \in Nets : o = NetFile(z, n)
    BY <1>2, KindOfType
  <2>2. PICK w \in Zones, m \in Nets : new = NetFile(w, m)
    BY <1>2, KindOfType
  <2>3. Place(o) = <<"zones", z, "networks", n>> /\ Place(new) = <<"zones", w, "networks", m>>
    BY <2>1, <2>2, AWord, NetShape
  <2>4. z # w \/ n # m
    BY <2>1, <2>2
  <2>5. <<"zones", z, "networks", n>> \in Paths /\ <<"zones", w, "networks", m>> \in Paths
    BY AWord, Tuples
  <2>6. Len(<<"zones", z, "networks", n>>) = 4 /\ Len(<<"zones", w, "networks", m>>) = 4
    OBVIOUS
  <2>7. <<"zones", z, "networks", n>> # <<"zones", w, "networks", m>>
    BY <2>4
  <2> QED
    BY <2>3, <2>5, <2>6, <2>7
<1>3. CASE TypeOf(o) = "hosts"
  <2>1. PICK z \in Zones, n \in Nets, h \in Hosts : o = HostFile(z, n, h)
    BY <1>3, KindOfType
  <2>2. PICK w \in Zones, m \in Nets, i \in Hosts : new = HostFile(w, m, i)
    BY <1>3, KindOfType
  <2>3. /\ o \in Paths /\ Len(o) = 6 /\ Place(o) = o
        /\ new \in Paths /\ Len(new) = 6 /\ Place(new) = new
    <3>1. /\ z \in Words /\ n \in Words /\ h \in Words
          /\ w \in Words /\ m \in Words /\ i \in Words
      BY AWord
    <3>2. o \in Paths /\ Len(o) = 6 /\ Place(o) = o
      BY <2>1, <3>1, HostShape
    <3>3. new \in Paths /\ Len(new) = 6 /\ Place(new) = new
      BY <2>2, <3>1, HostShape
    <3> QED
      BY <3>2, <3>3
  <2>4. Len(Place(o)) = 6 /\ Len(Place(new)) = 6
    BY <2>3
  <2>5. Len(Place(o)) = Len(Place(new)) /\ Len(Place(o)) >= 2
    BY <2>4
  <2> QED
    BY <2>3, <2>5
<1>4. CASE TypeOf(o) = "groups"
  <2>1. PICK z \in Zones, n \in Nets, g \in Groups : o = GroupFile(z, n, g)
    BY <1>4, KindOfType
  <2>2. PICK w \in Zones, m \in Nets, j \in Groups : new = GroupFile(w, m, j)
    BY <1>4, KindOfType
  <2>3. /\ o \in Paths /\ Len(o) = 6 /\ Place(o) = o
        /\ new \in Paths /\ Len(new) = 6 /\ Place(new) = new
    <3>1. /\ z \in Words /\ n \in Words /\ g \in Words
          /\ w \in Words /\ m \in Words /\ j \in Words
      BY AWord
    <3>2. o \in Paths /\ Len(o) = 6 /\ Place(o) = o
      BY <2>1, <3>1, GroupShape
    <3>3. new \in Paths /\ Len(new) = 6 /\ Place(new) = new
      BY <2>2, <3>1, GroupShape
    <3> QED
      BY <3>2, <3>3
  <2>4. Len(Place(o)) = 6 /\ Len(Place(new)) = 6
    BY <2>3
  <2>5. Len(Place(o)) = Len(Place(new)) /\ Len(Place(o)) >= 2
    BY <2>4
  <2> QED
    BY <2>3, <2>5
<1>5. CASE TypeOf(o) \in {"interfaces", "services", "rules"}
  <2>1. o \in Flat /\ new \in Flat
    BY <1>5, KindOfType
  <2> QED
    BY <2>1, FlatShape
<1> QED
  BY <1>1, <1>2, <1>3, <1>4, <1>5, KindOfType

(* How the path of an object of the tree is spelled. *)
Spelled(x) ==
    /\ Len(x) \in {3, 5, 6} /\ x[1] = "zones" /\ x[2] \in Zones
    /\ Len(x) = 3 => x[3] = "zone.config"
    /\ Len(x) \in {5, 6} => x[3] = "networks" /\ x[4] \in Nets
    /\ Len(x) = 5 => x[5] = "network.config"
    /\ Len(x) = 6 => \/ x[5] = "hosts" /\ x[6] \in Hosts
                     \/ x[5] = "groups" /\ x[6] \in Groups

LEMMA Spelling ==
    ASSUME NEW o \in Objects, o \notin Flat
    PROVE  Spelled(o)
<1>1. CASE \E z \in Zones : o = ZoneFile(z)
  <2>1. PICK z \in Zones : o = ZoneFile(z)
    BY <1>1
  <2>2. Len(o) = 3 /\ o[1] = "zones" /\ o[2] = z /\ o[3] = "zone.config"
    BY <2>1 DEF ZoneFile
  <2> QED
    BY <2>2 DEF Spelled
<1>2. CASE \E z \in Zones, n \in Nets : o = NetFile(z, n)
  <2>1. PICK z \in Zones, n \in Nets : o = NetFile(z, n)
    BY <1>2
  <2>2. Len(o) = 5 /\ o[1] = "zones" /\ o[2] = z /\ o[3] = "networks" /\ o[4] = n /\ o[5] = "network.config"
    BY <2>1 DEF NetFile
  <2> QED
    BY <2>2 DEF Spelled
<1>3. CASE \E z \in Zones, n \in Nets, h \in Hosts : o = HostFile(z, n, h)
  <2>1. PICK z \in Zones, n \in Nets, h \in Hosts : o = HostFile(z, n, h)
    BY <1>3
  <2>2. Len(o) = 6 /\ o[1] = "zones" /\ o[2] = z /\ o[3] = "networks" /\ o[4] = n /\ o[5] = "hosts" /\ o[6] = h
    BY <2>1 DEF HostFile
  <2> QED
    BY <2>2 DEF Spelled
<1>4. CASE \E z \in Zones, n \in Nets, g \in Groups : o = GroupFile(z, n, g)
  <2>1. PICK z \in Zones, n \in Nets, g \in Groups : o = GroupFile(z, n, g)
    BY <1>4
  <2>2. Len(o) = 6 /\ o[1] = "zones" /\ o[2] = z /\ o[3] = "networks" /\ o[4] = n /\ o[5] = "groups" /\ o[6] = g
    BY <2>1 DEF GroupFile
  <2> QED
    BY <2>2 DEF Spelled
<1> QED
  BY <1>1, <1>2, <1>3, <1>4, Kind

LEMMA SpelledIs ==
    ASSUME NEW x \in Paths, Spelled(x)
    PROVE  /\ x \in Objects
           /\ Len(x) = 3 => x = ZoneFile(x[2])
           /\ Len(x) = 5 => x = NetFile(x[2], x[4])
           /\ Len(x) = 6 => \/ x[5] = "hosts" /\ x = HostFile(x[2], x[4], x[6])
                            \/ x[5] = "groups" /\ x = GroupFile(x[2], x[4], x[6])
<1>1. ASSUME Len(x) = 3 PROVE x = ZoneFile(x[2]) /\ x \in Objects
  <2>1. x[2] \in Zones
    BY <1>1 DEF Spelled
  <2>2. x[1] = "zones" /\ x[3] = "zone.config"
    BY <1>1 DEF Spelled
  <2>3. x[2] \in Words
    BY <2>1, AWord
  <2> DEFINE y == ZoneFile(x[2])
  <2>4. y \in Paths /\ Len(y) = 3
    BY <2>3, ZoneShape
  <2>5. y[1] = "zones" /\ y[2] = x[2] /\ y[3] = "zone.config"
    BY DEF ZoneFile
  <2> HIDE DEF y
  <2>6. \A i \in 1 .. 3 : x[i] = y[i]
    BY <2>2, <2>5
  <2>7. x = y
    BY <1>1, <2>4, <2>6, SeqEqual DEF Paths
  <2>8. ZoneFile(x[2]) \in Objects
    BY <2>1 DEF Objects
  <2> QED
    BY <2>7, <2>8 DEF y
<1>2. ASSUME Len(x) = 5 PROVE x = NetFile(x[2], x[4]) /\ x \in Objects
  <2>1. x[2] \in Zones /\ x[4] \in Nets
    BY <1>2 DEF Spelled
  <2>2. x[1] = "zones" /\ x[3] = "networks" /\ x[5] = "network.config"
    BY <1>2 DEF Spelled
  <2>3. x[2] \in Words /\ x[4] \in Words
    BY <2>1, AWord
  <2> DEFINE y == NetFile(x[2], x[4])
  <2>4. y \in Paths /\ Len(y) = 5
    BY <2>3, NetShape
  <2>5. y[1] = "zones" /\ y[2] = x[2] /\ y[3] = "networks" /\ y[4] = x[4] /\ y[5] = "network.config"
    BY DEF NetFile
  <2> HIDE DEF y
  <2>6. \A i \in 1 .. 5 : x[i] = y[i]
    BY <2>2, <2>5
  <2>7. x = y
    BY <1>2, <2>4, <2>6, SeqEqual DEF Paths
  <2>8. NetFile(x[2], x[4]) \in Objects
    BY <2>1 DEF Objects
  <2> QED
    BY <2>7, <2>8 DEF y
<1>3. ASSUME Len(x) = 6, x[5] = "hosts", x[6] \in Hosts PROVE x = HostFile(x[2], x[4], x[6]) /\ x \in Objects
  <2>1. x[2] \in Zones /\ x[4] \in Nets /\ x[6] \in Hosts
    BY <1>3 DEF Spelled
  <2>2. x[1] = "zones" /\ x[3] = "networks" /\ x[5] = "hosts"
    BY <1>3 DEF Spelled
  <2>3. x[2] \in Words /\ x[4] \in Words /\ x[6] \in Words
    BY <2>1, AWord
  <2> DEFINE y == HostFile(x[2], x[4], x[6])
  <2>4. y \in Paths /\ Len(y) = 6
    BY <2>3, HostShape
  <2>5. y[1] = "zones" /\ y[2] = x[2] /\ y[3] = "networks" /\ y[4] = x[4] /\ y[5] = "hosts" /\ y[6] = x[6]
    BY DEF HostFile
  <2> HIDE DEF y
  <2>6. \A i \in 1 .. 6 : x[i] = y[i]
    BY <2>2, <2>5
  <2>7. x = y
    BY <1>3, <2>4, <2>6, SeqEqual DEF Paths
  <2>8. HostFile(x[2], x[4], x[6]) \in Objects
    BY <2>1 DEF Objects
  <2> QED
    BY <2>7, <2>8 DEF y
<1>4. ASSUME Len(x) = 6, x[5] = "groups", x[6] \in Groups PROVE x = GroupFile(x[2], x[4], x[6]) /\ x \in Objects
  <2>1. x[2] \in Zones /\ x[4] \in Nets /\ x[6] \in Groups
    BY <1>4 DEF Spelled
  <2>2. x[1] = "zones" /\ x[3] = "networks" /\ x[5] = "groups"
    BY <1>4 DEF Spelled
  <2>3. x[2] \in Words /\ x[4] \in Words /\ x[6] \in Words
    BY <2>1, AWord
  <2> DEFINE y == GroupFile(x[2], x[4], x[6])
  <2>4. y \in Paths /\ Len(y) = 6
    BY <2>3, GroupShape
  <2>5. y[1] = "zones" /\ y[2] = x[2] /\ y[3] = "networks" /\ y[4] = x[4] /\ y[5] = "groups" /\ y[6] = x[6]
    BY DEF GroupFile
  <2> HIDE DEF y
  <2>6. \A i \in 1 .. 6 : x[i] = y[i]
    BY <2>2, <2>5
  <2>7. x = y
    BY <1>4, <2>4, <2>6, SeqEqual DEF Paths
  <2>8. GroupFile(x[2], x[4], x[6]) \in Objects
    BY <2>1 DEF Objects
  <2> QED
    BY <2>7, <2>8 DEF y
<1>5. \/ Len(x) = 3
      \/ Len(x) = 5
      \/ Len(x) = 6 /\ x[5] = "hosts" /\ x[6] \in Hosts
      \/ Len(x) = 6 /\ x[5] = "groups" /\ x[6] \in Groups
  BY DEF Spelled
<1> QED
  BY <1>1, <1>2, <1>3, <1>4, <1>5

(* A rename takes objects to objects. *)
LEMMA ObjectMoved ==
    ASSUME NEW o \in Objects, NEW new \in Objects, o # new, TypeOf(o) = TypeOf(new),
           NEW y \in Objects
    PROVE  MovedPath(Place(o), Place(new), y) \in Objects
<1> DEFINE p == Place(o)
<1> DEFINE q == Place(new)
<1> DEFINE m == MovedPath(p, q, y)
<1>1. p \in Paths /\ q \in Paths /\ Len(p) = Len(q)
  BY PlaceIs
<1>2. y \in Paths
  BY ObjectIs
<1>3. /\ m \in Paths /\ Len(m) = Len(y)
      /\ \A i \in 1 .. Len(y) : m[i] = IF IsPrefix(p, y) /\ i <= Len(p) THEN q[i] ELSE y[i]
  BY <1>1, <1>2, MovedIs
<1>4. CASE ~IsPrefix(p, y)
  BY <1>4 DEF MovedPath
<1>5. IsPrefix(p, y) => Len(p) <= Len(y) /\ \A i \in 1 .. Len(p) : p[i] = y[i]
  BY <1>1, <1>2, PrefixIs
<1>6. ASSUME Len(p) = Len(y), IsPrefix(p, y) PROVE m = q
  <2>1. \A i \in 1 .. Len(m) : m[i] = q[i]
    BY <1>3, <1>6
  <2> QED
    BY <1>1, <1>3, <1>6, <2>1, SeqEqual DEF Paths
<1>7. CASE IsPrefix(p, y) /\ TypeOf(o) = "zone"
  <2>1. PICK z \in Zones : o = ZoneFile(z)
    BY <1>7, KindOfType
  <2>2. PICK w \in Zones : new = ZoneFile(w)
    BY <1>7, KindOfType
  <2>3. p = <<"zones", z>> /\ q = <<"zones", w>>
    BY <2>1, <2>2, AWord, ZoneShape
  <2>4. Len(p) = 2 /\ p[1] = "zones" /\ q[1] = "zones" /\ q[2] = w
    BY <2>3
  <2> HIDE DEF p, q, m
  <2>5. y \notin Flat
    <3>1. y[1] = "zones"
      BY <1>5, <1>7, <2>4
    <3> QED
      BY <3>1, FlatShape
  <2>6. Spelled(y)
    BY <2>5, Spelling
  <2>7. /\ m[1] = "zones" /\ m[2] = w /\ Len(y) \in {3, 5, 6}
        /\ \A i \in 3 .. Len(y) : m[i] = y[i]
    BY <1>3, <1>7, <2>4, <2>6 DEF Spelled
  <2>8. Spelled(m)
    BY <1>3, <2>6, <2>7 DEF Spelled
  <2> QED
    BY <1>3, <2>8, SpelledIs DEF p, q, m
<1>8. CASE IsPrefix(p, y) /\ TypeOf(o) = "network"
  <2>1. PICK z \in Zones, n \in Nets : o = NetFile(z, n)
    BY <1>8, KindOfType
  <2>2. PICK w \in Zones, k \in Nets : new = NetFile(w, k)
    BY <1>8, KindOfType
  <2>3. p = <<"zones", z, "networks", n>> /\ q = <<"zones", w, "networks", k>>
    BY <2>1, <2>2, AWord, NetShape
  <2>4. /\ Len(p) = 4 /\ p[1] = "zones" /\ p[3] = "networks"
        /\ q[1] = "zones" /\ q[2] = w /\ q[3] = "networks" /\ q[4] = k
    BY <2>3
  <2> HIDE DEF p, q, m
  <2>5. y \notin Flat /\ Len(y) >= 4
    <3>1. y[1] = "zones" /\ Len(y) >= 4
      BY <1>5, <1>8, <2>4
    <3> QED
      BY <3>1, FlatShape
  <2>6. Spelled(y) /\ Len(y) \in {5, 6}
    <3>1. Spelled(y)
      BY <2>5, Spelling
    <3>2. Len(y) \in {3, 5, 6} /\ Len(y) >= 4
      BY <2>5, <3>1 DEF Spelled
    <3> QED
      BY <3>1, <3>2
  <2>7. /\ m[1] = "zones" /\ m[2] = w /\ m[3] = "networks" /\ m[4] = k
        /\ \A i \in 5 .. Len(y) : m[i] = y[i]
    BY <1>3, <1>8, <2>4, <2>6
  <2>8. Spelled(m)
    BY <1>3, <2>6, <2>7 DEF Spelled
  <2> QED
    BY <1>3, <2>8, SpelledIs DEF p, q, m
<1>9. CASE IsPrefix(p, y) /\ TypeOf(o) \in {"hosts", "groups"}
  <2>1. p = o /\ q = new /\ Len(o) = 6
    <3>1. Place(o) = o /\ Place(new) = new
      BY <1>9 DEF Place, IsTree
    <3>2. CASE TypeOf(o) = "hosts"
      BY <3>1, <3>2, KindOfType, AWord, HostShape
    <3>3. CASE TypeOf(o) = "groups"
      BY <3>1, <3>3, KindOfType, AWord, GroupShape
    <3> QED
      BY <1>9, <3>2, <3>3
  <2>2. Len(y) \in {2, 3, 5, 6}
    BY ObjectIs
  <2>3. Len(p) = Len(y)
    BY <1>5, <1>9, <2>1, <2>2
  <2> QED
    BY <1>6, <1>9, <2>1, <2>3
<1>10. CASE IsPrefix(p, y) /\ TypeOf(o) \in {"interfaces", "services", "rules"}
  <2>1. o \in Flat /\ new \in Flat
    BY <1>10, KindOfType
  <2>2. p = o /\ q = new /\ Len(p) = 2 /\ p[1] # "zones"
    BY <2>1, FlatShape
  <2>3. y[1] = p[1]
    BY <1>5, <1>10, <2>2
  <2>4. y \in Flat
    BY <2>2, <2>3, ObjectIs
  <2>5. Len(y) = 2
    BY <2>4, FlatShape
  <2> QED
    BY <1>6, <1>10, <2>2, <2>5
<1> QED
  BY <1>4, <1>7, <1>8, <1>9, <1>10, KindOfType

-----------------------------------------------------------------------------
(* Commands and their plans.                                               *)

LEMMA PlaceIsPath ==
    ASSUME NEW o \in Objects
    PROVE  /\ Place(o) \in Paths
           /\ \A w \in Words : Place(o) \o <<w>> \in Paths
<1>1. Place(o) \in Paths
  <2>1. o \in Paths /\ o # <<>>
    BY ObjectIs
  <2> QED
    BY <2>1, FrontOf DEF Place
<1>2. ASSUME NEW w \in Words PROVE Place(o) \o <<w>> \in Paths
  <2>1. <<w>> \in Paths
    BY <1>2, Tuples
  <2> QED
    BY <1>1, <2>1, ConcatProperties DEF Paths
<1> QED
  BY <1>1, <1>2

LEMMA CallIs ==
    ASSUME NEW what \in Does \ {"rename", "ask", "asknext"}, NEW path \in Paths,
           what \in {"create", "truncate"} => path \in Objects
    PROVE  Call(what, path) \in Quiet
<1>1. <<>> \in Paths
  BY EmptySeq DEF Paths
<1>2. Call(what, path) \in Calls
  BY <1>1, TextdirAssumption DEF Call, CallTo, Calls
<1> QED
  BY <1>2 DEF Call, CallTo, Sound, Quiet, Does

LEMMA CallForIs ==
    ASSUME NEW what \in {"read", "ask", "asknext"}, NEW path \in Paths,
           NEW v \in Vars, NEW x \in Values, NEW w \in BOOLEAN
    PROVE  CallFor(what, path, v, x, w) \in Sound /\ CallFor(what, path, v, x, w).do = what
<1>1. <<>> \in Paths
  BY EmptySeq DEF Paths
<1>2. CallFor(what, path, v, x, w) \in Calls
  BY <1>1 DEF CallFor, Calls, Does
<1> QED
  BY <1>2 DEF CallFor, Sound

LEMMA MoveIs ==
    ASSUME NEW o \in Objects, NEW new \in Objects, o # new, TypeOf(o) = TypeOf(new)
    PROVE  CallTo("rename", Place(o), Place(new)) \in Quiet
<1> DEFINE c == CallTo("rename", Place(o), Place(new))
<1>1. Place(o) \in Paths /\ Place(new) \in Paths
  BY PlaceIsPath
<1>2. c \in Calls /\ c.do = "rename" /\ c.path = Place(o) /\ c.to = Place(new)
  BY <1>1, TextdirAssumption DEF CallTo, Calls, Does
<1> HIDE DEF c
<1>3. Moves(c)
  BY <1>2 DEF Moves
<1>4. c \in Quiet
  BY <1>2, <1>3 DEF Sound, Quiet
<1> QED
  BY <1>4 DEF c

LEMMA RmdirIs ==
    ASSUME NEW path \in Paths, NEW to \in Paths
    PROVE  CallTo("rmdir", path, to) \in Quiet
<1>1. CallTo("rmdir", path, to) \in Calls
  BY TextdirAssumption DEF CallTo, Calls, Does
<1> QED
  BY <1>1 DEF CallTo, Sound, Quiet

(* A plan of one or two calls. *)
LEMMA OneThenOne ==
    ASSUME NEW a, NEW b
    PROVE  <<a>> \o <<b>> = <<a, b>> /\ <<>> \o <<b>> = <<b>>
<1>1. <<a>> \in Seq({a, b}) /\ <<b>> \in Seq({a, b}) /\ <<a, b>> \in Seq({a,b})
  OBVIOUS
<1>2. <<a>> \o <<b>> \in Seq({a,b}) /\ Len(<<a>> \o <<b>>) = 2 /\ (<<a>> \o <<b>>)[1] = a /\ (<<a>> \o <<b>>)[2] = b
  BY <1>1
<1>3. Len(<<a,b>>) = 2 /\ <<a,b>>[1] = a /\ <<a,b>>[2] = b
  OBVIOUS
<1> DEFINE s == <<a>> \o <<b>>
<1> DEFINE t == <<a,b>>
<1>4. s \in Seq({a,b}) /\ t \in Seq({a,b}) /\ Len(s) = Len(t) /\ s[1] = t[1] /\ s[2] = t[2] /\ Len(s) = 2
  BY <1>1, <1>2, <1>3
<1> HIDE DEF s, t
<1>5. \A i \in 1 .. Len(s) : s[i] = t[i]
  BY <1>4
<1>6. s = t
  BY <1>4, <1>5, SeqEqual
<1>7. <<>> \o <<b>> = <<b>>
  BY <1>1, ConcatEmptySeq
<1> QED
  BY <1>6, <1>7 DEF s, t

(* What a command names. *)
LEMMA CommandIs ==
    ASSUME NEW p, NEW c \in Commands(p)
    PROVE  /\ c.obj \in Objects /\ c.new \in Objects
           /\ c.do \in {"add", "del", "load", "rename", "tell", "save", "ask"}
           /\ c.do = "rename" => c.obj # c.new /\ TypeOf(c.obj) = TypeOf(c.new)
           /\ c.do = "tell" => c.vals[1] \in Values
           /\ c.do = "save" => c.vals = <<>> \/ (Len(c.vals) = 2 /\ c.vals \in [1 .. 2 -> Values])
           /\ c.do \in {"ask", "load"} => p \notin Scripts
           /\ c.var \in Vars /\ c.overwrite \in BOOLEAN
<1>1. c \in SomeCommand /\ Gives(p, c)
  BY DEF Commands
<1>2. /\ c.do = "rename" => c.obj # c.new /\ TypeOf(c.obj) = TypeOf(c.new)
      /\ c.do \in {"ask", "load"} => p \notin Scripts
  BY <1>1 DEF Gives
<1>3. CASE \E k \in {"add", "del", "load"}, o \in Objects : c = Command(k, o)
  <2>1. PICK k \in {"add", "del", "load"}, o \in Objects : c = Command(k, o)
    BY <1>3
  <2>2. /\ c.obj = o /\ c.new = o /\ c.do = k /\ c.vals = <<>>
        /\ c.var = "LIST" /\ c.overwrite = TRUE
    BY <2>1 DEF Command, Setting
  <2> QED
    BY <1>2, <2>2 DEF Vars
<1>4. CASE \E o, n \in Objects : c = Renaming(o, n)
  BY <1>2, <1>4 DEF Renaming, Vars
<1>5. CASE \E o \in Objects, v \in Vars, x \in Values, w \in BOOLEAN :
            c = Setting("tell", o, v, <<x>>, w)
  BY <1>5 DEF Setting
<1>6. CASE \E o \in Objects, s \in {<<>>} \cup [1 .. 2 -> Vals] : c = Saving(o, s)
  <2>1. PICK o \in Objects, s \in {<<>>} \cup [1 .. 2 -> Vals] : c = Saving(o, s)
    BY <1>6
  <2>2. /\ c.obj = o /\ c.new = o /\ c.do = "save" /\ c.vals = s
        /\ c.var = "LIST" /\ c.overwrite = TRUE
    BY <2>1 DEF Saving, Setting
  <2>3. s = <<>> \/ (Len(s) = 2 /\ s \in [1 .. 2 -> Values])
    <3>1. ASSUME s # <<>> PROVE s \in [1 .. 2 -> Values]
      BY <3>1 DEF Vals
    <3> QED
      BY <3>1
  <2> QED
    BY <2>2, <2>3 DEF Vars
<1>7. CASE \E o \in Objects, v \in Vars : c = Asking(o, v)
  BY <1>2, <1>7 DEF Asking, Setting
<1> QED
  <2>1. \/ \E k \in {"add", "del", "load"}, o \in Objects : c = Command(k, o)
        \/ \E o, n \in Objects : c = Renaming(o, n)
        \/ \E o \in Objects, v \in Vars, x \in Values, w \in BOOLEAN :
                c = Setting("tell", o, v, <<x>>, w)
        \/ \E o \in Objects, s \in {<<>>} \cup [1 .. 2 -> Vals] :
                c = Saving(o, s)
        \/ \E o \in Objects, v \in Vars : c = Asking(o, v)
    BY <1>1 DEF SomeCommand
  <2> QED
    BY <2>1, <1>3, <1>4, <1>5, <1>6, <1>7

(* Short plans. *)
LEMMA Short ==
    ASSUME NEW S
    PROVE  /\ <<>> \in Seq(S)
           /\ \A a \in S : <<a>> \in Seq(S)
           /\ \A a, b \in S : <<a, b>> \in Seq(S)
           /\ \A a, b, c \in S : <<a, b, c>> \in Seq(S)
           /\ \A a, b, c, d \in S : <<a, b, c, d>> \in Seq(S)
<1>1. <<>> \in Seq(S) /\ \A a \in S : <<a>> \in Seq(S)
  OBVIOUS
<1>2. \A a, b \in S : <<a, b>> \in Seq(S)
  OBVIOUS
<1>3. \A a, b, c \in S : <<a, b, c>> \in Seq(S)
  OBVIOUS
<1>4. \A a, b, c, d \in S : <<a, b, c, d>> \in Seq(S)
  OBVIOUS
<1> QED
  BY <1>1, <1>2, <1>3, <1>4

LEMMA AddPlanIs ==
    ASSUME NEW o \in Objects
    PROVE  AddPlan(o) \in Seq(Quiet)
<1> DEFINE made == CASE TypeOf(o) = "zone" -> <<Place(o), Place(o) \o <<"networks">>>>
                     [] TypeOf(o) = "network" ->
                            <<Place(o), Place(o) \o <<"hosts">>, Place(o) \o <<"groups">>>>
                     [] OTHER -> <<>>
<1>1. made \in Seq(Paths)
  <2>1. /\ Place(o) \in Paths /\ Place(o) \o <<"networks">> \in Paths
        /\ Place(o) \o <<"hosts">> \in Paths /\ Place(o) \o <<"groups">> \in Paths
    BY PlaceIsPath, AWord
  <2> HIDE DEF Paths
  <2>2. CASE TypeOf(o) = "zone"
    BY <2>1, <2>2, Short
  <2>3. CASE TypeOf(o) = "network"
    BY <2>1, <2>3, Short
  <2>4. CASE TypeOf(o) \notin {"zone", "network"}
    BY <2>4, Short
  <2> QED
    BY <2>2, <2>3, <2>4
<1>2. AddPlan(o) = (<<Call("absent", o)>> \o [i \in 1 .. Len(made) |-> Call("mkdir", made[i])])
                   \o <<Call("create", o), Call("fill", o)>>
  BY DEF AddPlan
<1> HIDE DEF made
<1>3. o \in Paths
  BY ObjectIs
<1>4. /\ Call("absent", o) \in Quiet /\ Call("create", o) \in Quiet /\ Call("fill", o) \in Quiet
      /\ \A x \in Paths : Call("mkdir", x) \in Quiet
  BY <1>3, CallIs DEF Does
<1>5. [i \in 1 .. Len(made) |-> Call("mkdir", made[i])] \in Seq(Quiet)
  <2>1. Len(made) \in Nat /\ \A i \in 1 .. Len(made) : made[i] \in Paths
    BY <1>1, LenProperties, ElementOfSeq
  <2>2. [i \in 1 .. Len(made) |-> Call("mkdir", made[i])] \in [1 .. Len(made) -> Quiet]
    BY <1>4, <2>1
  <2> QED
    BY <2>1, <2>2, SeqDef
<1>6. <<Call("absent", o)>> \in Seq(Quiet) /\ <<Call("create", o), Call("fill", o)>> \in Seq(Quiet)
  BY <1>4, Short
<1> QED
  BY <1>2, <1>5, <1>6, ConcatProperties

LEMMA DelPlanIs ==
    ASSUME NEW o \in Objects
    PROVE  DelPlan(o) \in Seq(Quiet)
<1> DEFINE hosts  == Place(o) \o <<"hosts">>
<1> DEFINE groups == Place(o) \o <<"groups">>
<1> DEFINE nets   == Place(o) \o <<"networks">>
<1> DEFINE rest ==
        CASE TypeOf(o) = "network" -> << Call("rmdir", hosts), CallTo("rmdir", groups, hosts),
                                         Call("unlink", o), Call("rmdir", Place(o)) >>
          [] TypeOf(o) = "zone" -> <<Call("rmdir", nets), Call("unlink", o), Call("rmdir", Place(o))>>
          [] TypeOf(o) = "rules" -> <<>>
          [] OTHER -> <<Call("unlink", o)>>
<1>1. DelPlan(o) = <<Call("present", o)>> \o rest
  BY DEF DelPlan
<1>2. o \in Paths /\ Place(o) \in Paths /\ hosts \in Paths /\ groups \in Paths /\ nets \in Paths
  BY ObjectIs, PlaceIsPath, AWord
<1>3. /\ Call("present", o) \in Quiet /\ Call("rmdir", hosts) \in Quiet
      /\ CallTo("rmdir", groups, hosts) \in Quiet /\ Call("rmdir", nets) \in Quiet
      /\ Call("unlink", o) \in Quiet /\ Call("rmdir", Place(o)) \in Quiet
  <2> HIDE DEF hosts, groups, nets
  <2> QED
    BY <1>2, CallIs, RmdirIs DEF Does
<1> HIDE DEF hosts, groups, nets
<1>4. rest \in Seq(Quiet)
  <2>1. CASE TypeOf(o) = "network"
    BY <1>3, <2>1, Short
  <2>2. CASE TypeOf(o) = "zone"
    BY <1>3, <2>2, Short
  <2>3. CASE TypeOf(o) = "rules"
    BY <2>3, Short
  <2>4. CASE TypeOf(o) \notin {"network", "zone", "rules"}
    BY <1>3, <2>4, Short
  <2> QED
    BY <2>1, <2>2, <2>3, <2>4
<1>5. <<Call("present", o)>> \in Seq(Quiet)
  BY <1>3, Short
<1> HIDE DEF rest
<1> QED
  BY <1>1, <1>4, <1>5, ConcatProperties

LEMMA TellPlanIs ==
    ASSUME NEW o \in Objects, NEW v \in Vars, NEW x \in Values, NEW w \in BOOLEAN
    PROVE  TellPlan(o, v, x, w) \in Seq(Quiet) /\ Len(TellPlan(o, v, x, w)) = 3
<1>1. o \in Paths
  BY ObjectIs
<1>2. CallFor("read", o, v, x, w) \in Quiet
  BY <1>1, CallForIs DEF Quiet
<1>3. Call("truncate", o) \in Quiet /\ Call("write", o) \in Quiet
  BY <1>1, CallIs DEF Does
<1> QED
  BY <1>2, <1>3, Short DEF TellPlan

LEMMA SavePlanIs ==
    ASSUME NEW o \in Objects, NEW vals,
           vals = <<>> \/ (Len(vals) = 2 /\ vals \in [1 .. 2 -> Values])
    PROVE  SavePlan(o, vals) \in Seq(Quiet)
<1>1. CASE vals = <<>>
  <2>1. "LIST" \in Vars /\ "" \in Values /\ TRUE \in BOOLEAN
    BY TextdirAssumption DEF Vars
  <2>2. TellPlan(o, "LIST", "", TRUE) \in Seq(Quiet)
    BY <2>1, TellPlanIs
  <2> QED
    BY <1>1, <2>2 DEF SavePlan
<1>2. CASE vals # <<>>
  <2> DEFINE N(i) == 1 + (i - 1) \div 3
  <2> DEFINE part(i) == TellPlan(o, "LIST", vals[N(i)], N(i) = 1)[i - 3 * (N(i) - 1)]
  <2>1. SavePlan(o, vals) = [i \in 1 .. 6 |-> part(i)]
    <3>1. 3 * Len(vals) = 6
      <4>1. Len(vals) = 2
        BY <1>2
      <4> QED
        BY <4>1
    <3>2. SavePlan(o, vals) = [i \in 1 .. 3 * Len(vals) |-> part(i)]
      BY <1>2, Zenon DEF SavePlan
    <3> QED
      BY <3>1, <3>2, Zenon
  <2>2. ASSUME NEW i \in 1 .. 6 PROVE part(i) \in Quiet
    <3>1. N(i) \in 1 .. 2 /\ i - 3 * (N(i) - 1) \in 1 .. 3
      OBVIOUS
    <3>2. vals[N(i)] \in Values /\ "LIST" \in Vars /\ (N(i) = 1) \in BOOLEAN
      BY <1>2, <3>1 DEF Vars
    <3> HIDE DEF N
    <3>3. /\ TellPlan(o, "LIST", vals[N(i)], N(i) = 1) \in Seq(Quiet)
          /\ Len(TellPlan(o, "LIST", vals[N(i)], N(i) = 1)) = 3
      BY <3>2, TellPlanIs
    <3> QED
      BY <3>1, <3>3, ElementOfSeq
  <2> HIDE DEF part
  <2>3. [i \in 1 .. 6 |-> part(i)] \in [1 .. 6 -> Quiet]
    BY <2>2
  <2> QED
    BY <2>1, <2>3, SeqDef
<1> QED
  BY <1>1, <1>2

(* A plan asks for one value and does nothing else, or reads a list, which *)
(* begins with a question for one value if the object has such a setting.  *)
LEMMA PlanIs ==
    ASSUME NEW p, NEW c \in Commands(p)
    PROVE  /\ c.do \notin {"ask", "load"} => Plan(c) \in Seq(Quiet)
           /\ c.do = "ask" => \E a \in Sound : a.do = "ask" /\ Plan(c) = <<a>>
           /\ c.do = "load" =>
                \E a, b \in Sound :
                    /\ a.do = "ask" /\ b.do = "asknext" /\ b.path = c.obj /\ c.obj # <<>>
                    /\ Plan(c) = IF "ACTIVE" \in VarsOf(c.obj) THEN <<a, b>> ELSE <<b>>
           /\ c.do \in {"ask", "load"} => p \notin Scripts
           /\ Looks(c) \in Seq(Quiet)
<1>1. /\ c.obj \in Objects /\ c.new \in Objects /\ c.obj \in Paths /\ c.new \in Paths
      /\ c.do \in {"add", "del", "load", "rename", "tell", "save", "ask"}
      /\ c.var \in Vars /\ "LIST" \in Vars /\ "" \in Values /\ TRUE \in BOOLEAN
  BY CommandIs, ObjectIs, TextdirAssumption DEF Vars
<1>2. ASSUME c.do = "add" PROVE Plan(c) \in Seq(Quiet)
  BY <1>1, <1>2, AddPlanIs DEF Plan
<1>3. ASSUME c.do = "del" PROVE Plan(c) \in Seq(Quiet)
  BY <1>1, <1>3, DelPlanIs DEF Plan
<1>4. ASSUME c.do = "rename" PROVE Plan(c) \in Seq(Quiet)
  <2>1. c.obj # c.new /\ TypeOf(c.obj) = TypeOf(c.new)
    BY <1>4, CommandIs
  <2>2. CallTo("rename", Place(c.obj), Place(c.new)) \in Quiet
    BY <1>1, <2>1, MoveIs
  <2>3. RenamePlan(c.obj, c.new) \in Seq(Quiet)
    BY <2>2, Short DEF RenamePlan
  <2> QED
    BY <1>4, <2>3 DEF Plan
<1>5. ASSUME c.do = "tell" PROVE Plan(c) \in Seq(Quiet)
  <2>1. c.vals[1] \in Values /\ c.overwrite \in BOOLEAN
    BY <1>5, CommandIs
  <2>2. TellPlan(c.obj, c.var, c.vals[1], c.overwrite) \in Seq(Quiet)
    BY <1>1, <2>1, TellPlanIs
  <2>3. Plan(c) = TellPlan(c.obj, c.var, c.vals[1], c.overwrite)
    BY <1>5, Zenon DEF Plan
  <2> QED
    BY <2>2, <2>3
<1>6. ASSUME c.do = "save" PROVE Plan(c) \in Seq(Quiet)
  <2>1. c.vals = <<>> \/ (Len(c.vals) = 2 /\ c.vals \in [1 .. 2 -> Values])
    BY <1>6, CommandIs
  <2>2. SavePlan(c.obj, c.vals) \in Seq(Quiet)
    BY <1>1, <2>1, SavePlanIs
  <2> QED
    BY <1>6, <2>2 DEF Plan
<1>7. ASSUME c.do = "ask" PROVE \E a \in Sound : a.do = "ask" /\ Plan(c) = <<a>>
  <2> DEFINE one == CallFor("ask", c.obj, c.var, "", TRUE)
  <2>1. one \in Sound /\ one.do = "ask"
    BY <1>1, CallForIs
  <2>2. Plan(c) = <<one>>
    BY <1>7 DEF Plan
  <2> HIDE DEF one
  <2> QED
    BY <2>1, <2>2
<1>8. ASSUME c.do = "load"
      PROVE  \E a, b \in Sound :
                /\ a.do = "ask" /\ b.do = "asknext" /\ b.path = c.obj /\ c.obj # <<>>
                /\ Plan(c) = IF "ACTIVE" \in VarsOf(c.obj) THEN <<a, b>> ELSE <<b>>
  <2> DEFINE a == CallFor("ask", c.obj, "ACTIVE", "", TRUE)
  <2> DEFINE b == CallFor("asknext", c.obj, "LIST", "", TRUE)
  <2>1. a \in Sound /\ a.do = "ask" /\ b \in Sound /\ b.do = "asknext"
    BY <1>1, CallForIs DEF Vars
  <2>2. b.path = c.obj /\ c.obj # <<>>
    BY <1>1, ObjectIs DEF CallFor
  <2>3. Plan(c) = (IF "ACTIVE" \in VarsOf(c.obj) THEN <<a>> ELSE <<>>) \o <<b>>
    BY <1>8 DEF Plan, LoadPlan
  <2>4. <<a>> \o <<b>> = <<a, b>> /\ <<>> \o <<b>> = <<b>>
    BY OneThenOne
  <2> HIDE DEF a, b
  <2> QED
    BY <2>1, <2>2, <2>3, <2>4
<1>9. Looks(c) \in Seq(Quiet)
  <2>1. /\ Call("absent", c.obj) \in Quiet /\ Call("present", c.obj) \in Quiet
        /\ Call("absent", c.new) \in Quiet
    BY <1>1, CallIs DEF Does
  <2>2. CASE c.do = "add"
    BY <2>1, <2>2, Short DEF Looks
  <2>3. CASE c.do = "rename"
    BY <2>1, <2>3, Short DEF Looks
  <2>4. CASE c.do \notin {"add", "rename"}
    BY <2>1, <2>4, Short DEF Looks
  <2> QED
    BY <2>2, <2>3, <2>4
<1>10. c.do \in {"ask", "load"} => p \notin Scripts
  BY CommandIs
<1> QED
  BY <1>1, <1>2, <1>3, <1>4, <1>5, <1>6, <1>7, <1>8, <1>9, <1>10

-----------------------------------------------------------------------------
(* What is left of a plan, and what a loop hears.                          *)

LEMMA NextPlan ==
    ASSUME PlanInv, LoopInv, NEW p \in Progs, NEW rest \in Seq(Sound), NEW h, NEW c,
           todo' = [todo EXCEPT ![p] = rest], heard' = [heard EXCEPT ![p] = h],
           cursor' = [cursor EXCEPT ![p] = c],
           IsHeard(h), StaysInItsFile(h), Asks(rest, h, c)
    PROVE  PlanInv' /\ LoopInv'
<1>1. PlanInv'
  BY DEF PlanInv
<1>2. heard' = [q \in Progs |-> heard'[q]] /\ cursor' = [q \in Progs |-> cursor'[q]]
  BY DEF LoopInv
<1>3. ASSUME NEW q \in Progs
      PROVE  IsHeard(heard'[q]) /\ StaysInItsFile(heard'[q]) /\ Asks(todo'[q], heard'[q], cursor'[q])
  <2>1. CASE q = p
    <3>1. todo'[q] = rest /\ heard'[q] = h /\ cursor'[q] = c
      BY <2>1 DEF PlanInv, LoopInv
    <3> QED
      BY <3>1
  <2>2. CASE q # p
    <3>1. todo'[q] = todo[q] /\ heard'[q] = heard[q] /\ cursor'[q] = cursor[q]
      BY <2>2 DEF PlanInv, LoopInv
    <3> QED
      BY <3>1 DEF LoopInv
  <2> QED
    BY <2>1, <2>2
<1> QED
  BY <1>1, <1>2, <1>3 DEF LoopInv

(* A command that is over, but for the call that makes a directory again.  *)
LEMMA OverKeeps ==
    ASSUME PlanInv, LoopInv, NEW p \in Progs, ~Idle(p), Fails(p) \/ Leaves(p, <<>>),
           heard' = heard, cursor' = cursor \/ cursor' = [cursor EXCEPT ![p] = Closed]
    PROVE  PlanInv' /\ LoopInv'
<1> DEFINE again == <<Call("mkdir", Head(todo[p]).to)>>
<1>1. again \in Seq(Quiet) /\ <<>> \in Seq(Quiet)
  <2>1. Head(todo[p]).to \in Paths
    <3>1. Head(todo[p]) \in Sound
      BY HeadTailProperties DEF PlanInv, Idle
    <3> QED
      BY <3>1 DEF Sound, Calls
  <2>2. Call("mkdir", Head(todo[p]).to) \in Quiet
    BY <2>1, CallIs DEF Does
  <2> QED
    BY <2>2, Short
<1>2. \/ todo' = [todo EXCEPT ![p] = <<>>] \/ todo' = [todo EXCEPT ![p] = again]
  BY DEF Fails, Leaves
<1> HIDE DEF again
<1>3. Seq(Quiet) \subseteq Seq(Sound)
  BY SeqMonotonic DEF Quiet
<1>4. PICK rest \in Seq(Quiet) : todo' = [todo EXCEPT ![p] = rest]
  BY <1>1, <1>2
<1>5. PICK c : cursor' = [cursor EXCEPT ![p] = c]
  <2>1. CASE cursor' = cursor
    <3>1. cursor' = [cursor EXCEPT ![p] = cursor[p]]
      BY <2>1 DEF LoopInv
    <3> QED
      BY <3>1
  <2> QED
    BY <2>1
<1>6. heard' = [heard EXCEPT ![p] = heard[p]] /\ IsHeard(heard[p]) /\ StaysInItsFile(heard[p])
  BY DEF LoopInv
<1>7. Asks(rest, heard[p], c)
  BY <1>4 DEF Asks
<1> QED
  BY <1>3, <1>4, <1>5, <1>6, <1>7, NextPlan

(* A call that asks nothing. *)
LEMMA QuietKeeps ==
    ASSUME PlanInv, LoopInv, NEW p \in Progs, ~Idle(p), Goes(p) \/ Fails(p),
           ~At(p, "ask"), ~At(p, "asknext"), heard' = heard, cursor' = cursor
    PROVE  PlanInv' /\ LoopInv'
<1>1. CASE Fails(p)
  BY <1>1, OverKeeps
<1>2. CASE Goes(p)
  <2>1. todo[p] \in Seq(Quiet) /\ todo[p] # <<>>
    <3>1. Head(todo[p]).do \notin {"ask", "asknext"}
      BY DEF At
    <3>2. \A a, b : Head(<<a>>) = a /\ Head(<<a, b>>) = a
      OBVIOUS
    <3>3. Asks(todo[p], heard[p], cursor[p]) /\ todo[p] # <<>>
      BY DEF LoopInv, Idle
    <3> QED
      BY <3>1, <3>2, <3>3 DEF Asks
  <2>2. Tail(todo[p]) \in Seq(Quiet)
    BY <2>1, HeadTailProperties
  <2>3. Tail(todo[p]) \in Seq(Sound)
    BY <2>2, SeqMonotonic DEF Quiet
  <2>4. todo' = [todo EXCEPT ![p] = Tail(todo[p])]
    BY <1>2 DEF Goes, Leaves
  <2>5. /\ heard' = [heard EXCEPT ![p] = heard[p]] /\ IsHeard(heard[p]) /\ StaysInItsFile(heard[p])
        /\ cursor' = [cursor EXCEPT ![p] = cursor[p]]
    BY DEF LoopInv
  <2>6. Asks(Tail(todo[p]), heard[p], cursor[p])
    BY <2>2 DEF Asks
  <2> QED
    BY <2>3, <2>4, <2>5, <2>6, NextPlan
<1> QED
  BY <1>1, <1>2

(* A question for one value leaves no file open. *)
LEMMA AskOneKeeps ==
    ASSUME PlanInv, LoopInv, NEW p \in Progs, AskOne(p)
    PROVE  PlanInv' /\ LoopInv'
<1>1. ~Idle(p) /\ Head(todo[p]).do = "ask" /\ heard' = heard
      /\ cursor' = [cursor EXCEPT ![p] = Closed]
  BY DEF AskOne, At
<1>2. CASE Fails(p)
  BY <1>1, <1>2, OverKeeps
<1>3. CASE Goes(p)
  <2>1. todo' = [todo EXCEPT ![p] = Tail(todo[p])]
    BY <1>3 DEF Goes, Leaves
  <2>2. /\ heard' = [heard EXCEPT ![p] = heard[p]] /\ IsHeard(heard[p]) /\ StaysInItsFile(heard[p])
        /\ Asks(todo[p], heard[p], cursor[p]) /\ todo[p] # <<>>
    BY <1>1 DEF LoopInv, Idle
  <2>3. \A a, b : /\ Head(<<a>>) = a /\ Head(<<a, b>>) = a
                  /\ Tail(<<a>>) = <<>> /\ Tail(<<a, b>>) = <<b>>
    OBVIOUS
  <2>4. todo[p] \notin Seq(Quiet)
    <3>1. ASSUME todo[p] \in Seq(Quiet) PROVE Head(todo[p]) \in Quiet
      BY <2>2, <3>1, HeadTailProperties
    <3> QED
      BY <1>1, <3>1 DEF Quiet
  <2>5. CASE \E a \in Sound : a.do = "ask" /\ todo[p] = <<a>>
    <3>1. Tail(todo[p]) = <<>> /\ <<>> \in Seq(Quiet) /\ <<>> \in Seq(Sound)
      BY <2>3, <2>5, Short
    <3>2. Asks(<<>>, heard[p], Closed)
      BY <3>1 DEF Asks
    <3> QED
      BY <1>1, <2>1, <2>2, <3>1, <3>2, NextPlan
  <2>6. CASE \E a, b \in Sound : /\ a.do = "ask" /\ b.do = "asknext" /\ b.path # <<>>
                                 /\ todo[p] = <<a, b>> /\ heard[p] = Silence
    <3>1. PICK a \in Sound, b \in Sound : /\ b.do = "asknext" /\ b.path # <<>>
                                          /\ todo[p] = <<a, b>> /\ heard[p] = Silence
      BY <2>6
    <3>2. Tail(todo[p]) = <<b>> /\ <<b>> \in Seq(Sound)
      BY <2>3, <3>1, Short
    <3>3. InLoop(b.path, heard[p], Closed)
      BY <3>1 DEF InLoop, Silence, Closed
    <3>4. Asks(<<b>>, heard[p], Closed)
      BY <3>1, <3>3 DEF Asks
    <3> QED
      BY <1>1, <2>1, <2>2, <3>2, <3>4, NextPlan
  <2>7. ASSUME NEW b \in Sound, b.do = "asknext", todo[p] = <<b>> PROVE FALSE
    BY <1>1, <2>3, <2>7
  <2> QED
    BY <2>2, <2>4, <2>5, <2>6, <2>7 DEF Asks
<1> QED
  BY <1>2, <1>3 DEF AskOne

(* What hearing one more answer leaves alone. *)
More(x, f, g, v) == [x EXCEPT !.from = f, !.gone = g, !.over = v]

LEMMA HearsMore ==
    ASSUME NEW x, IsHeard(x), NEW f, NEW g, NEW v
    PROVE  /\ IsHeard(More(x, f, g, v))
           /\ More(x, f, g, v).of = x.of /\ More(x, f, g, v).from = f
           /\ More(x, f, g, v).late = x.late
<1>1. [x EXCEPT !.from = f]
      = [of |-> x.of, from |-> f, due |-> x.due, gone |-> x.gone, late |-> x.late, over |-> x.over]
  BY DEF IsHeard
<1> DEFINE y == [of |-> x.of, from |-> f, due |-> x.due, gone |-> x.gone, late |-> x.late, over |-> x.over]
<1>2. [y EXCEPT !.gone = g]
      = [of |-> x.of, from |-> f, due |-> x.due, gone |-> g, late |-> x.late, over |-> x.over]
  OBVIOUS
<1> DEFINE z == [of |-> x.of, from |-> f, due |-> x.due, gone |-> g, late |-> x.late, over |-> x.over]
<1>3. [z EXCEPT !.over = v]
      = [of |-> x.of, from |-> f, due |-> x.due, gone |-> g, late |-> x.late, over |-> v]
  OBVIOUS
<1>4. [x EXCEPT !.from = f] = y /\ [y EXCEPT !.gone = g] = z
  BY <1>1, <1>2
<1> HIDE DEF y, z
<1>5. [[[x EXCEPT !.from = f] EXCEPT !.gone = g] EXCEPT !.over = v] = [z EXCEPT !.over = v]
  BY <1>4, Zenon
<1>6. [x EXCEPT !.from = f, !.gone = g, !.over = v]
      = [of |-> x.of, from |-> f, due |-> x.due, gone |-> g, late |-> x.late, over |-> v]
  BY <1>3, <1>5, Zenon
<1> DEFINE w == [of |-> x.of, from |-> f, due |-> x.due, gone |-> g, late |-> x.late, over |-> v]
<1>7. IsHeard(w) /\ w.of = x.of /\ w.from = f /\ w.late = x.late
  BY DEF IsHeard
<1> HIDE DEF w
<1>8. More(x, f, g, v) = w
  BY <1>6, Zenon DEF More, w
<1> QED
  BY <1>7, <1>8, Zenon

(* One question of a loop. *)
LEMMA AskNextKeeps ==
    ASSUME PlanInv, LoopInv, NEW p \in Progs, AskNext(p)
    PROVE  PlanInv' /\ LoopInv'
<1>1. ~Idle(p) /\ Head(todo[p]).do = "asknext"
  BY DEF AskNext, At
<1>2. CASE cursor[p].of = <<>> /\ Path(p) \notin DOMAIN files
  BY <1>1, <1>2, OverKeeps DEF AskNext
<1>3. CASE ~(cursor[p].of = <<>> /\ Path(p) \notin DOMAIN files)
  <2> DEFINE from == IF cursor[p].of = <<>> THEN Opened(Path(p)) ELSE cursor[p]
             next == Answer(from, Head(todo[p]).var)
             old  == Begun(p)
             h    == [old EXCEPT !.from = from.of, !.gone = @ \o next.by, !.over = next.val = ""]
  <2>1. PICK c : /\ cursor' = [cursor EXCEPT ![p] = c]
                 /\ \/ Goes(p)
                    \/ UNCHANGED <<cmd, todo>> /\ c.of = from.of
    BY <1>3 DEF AskNext
  <2>2. heard' = [heard EXCEPT ![p] = h]
    BY <1>3 DEF AskNext, Hears
  <2>3. PICK b \in Sound : /\ b.do = "asknext" /\ b.path # <<>> /\ todo[p] = <<b>>
                           /\ InLoop(b.path, heard[p], cursor[p])
    <3>1. Asks(todo[p], heard[p], cursor[p]) /\ todo[p] # <<>>
      BY <1>1 DEF LoopInv, Idle
    <3>2. \A a, b : Head(<<a>>) = a /\ Head(<<a, b>>) = a
      OBVIOUS
    <3>3. todo[p] \notin Seq(Quiet)
      <4>1. ASSUME todo[p] \in Seq(Quiet) PROVE Head(todo[p]) \in Quiet
        BY <3>1, <4>1, HeadTailProperties
      <4> QED
        BY <1>1, <4>1 DEF Quiet
    <3> QED
      BY <1>1, <3>1, <3>2, <3>3 DEF Asks
  <2>4. Path(p) = b.path /\ Tail(todo[p]) = <<>>
    <3>1. Head(<<b>>) = b /\ Tail(<<b>>) = <<>>
      OBVIOUS
    <3> QED
      BY <2>3, <3>1 DEF Path
  <2>5. IsHeard(heard[p]) /\ StaysInItsFile(heard[p])
    BY DEF LoopInv
  <2>6. IsHeard(old) /\ old.of = Path(p)
    <3>1. CASE heard[p].of # <<>>
      BY <2>3, <2>4, <2>5, <3>1 DEF Begun, InLoop
    <3>2. CASE heard[p].of = <<>>
      BY <3>2 DEF Begun, Silence, IsHeard
    <3> QED
      BY <3>1, <3>2
  <2>7. ~Spoiled(old) => from.of = Path(p)
    <3>1. CASE heard[p].of # <<>>
      <4>1. old = heard[p] /\ cursor[p].of = heard[p].from /\ heard[p].of = Path(p)
        BY <2>3, <2>4, <3>1 DEF Begun, InLoop
      <4>2. from.of = IF cursor[p].of = <<>> THEN Path(p) ELSE cursor[p].of
        BY DEF Opened
      <4> QED
        BY <2>5, <3>1, <4>1, <4>2 DEF StaysInItsFile
    <3>2. CASE heard[p].of = <<>>
      <4>1. old.of = Path(p) /\ old.late = (cursor[p].of # <<>>)
        BY <3>2 DEF Begun, Silence
      <4>2. "ACTIVE" \in VarsOf(Path(p)) => cursor[p].of = <<>>
        BY <2>3, <2>4, <3>2 DEF InLoop
      <4>3. from.of = IF cursor[p].of = <<>> THEN Path(p) ELSE cursor[p].of
        BY DEF Opened
      <4> QED
        BY <4>1, <4>2, <4>3 DEF Spoiled
    <3> QED
      BY <3>1, <3>2
  <2> HIDE DEF old
  <2>8. /\ IsHeard(h) /\ h.of = Path(p) /\ h.from = from.of /\ h.late = old.late
    <3> DEFINE f == from.of
               g == old.gone \o next.by
               v == next.val = ""
    <3>1. h = More(old, f, g, v)
      BY Zenon DEF More
    <3> HIDE DEF h, f, g, v
    <3>2. /\ IsHeard(More(old, f, g, v)) /\ More(old, f, g, v).of = old.of
          /\ More(old, f, g, v).from = f /\ More(old, f, g, v).late = old.late
      BY <2>6, HearsMore
    <3> QED
      BY <2>6, <3>1, <3>2, Zenon DEF f
  <2>9. StaysInItsFile(h)
    BY <2>6, <2>7, <2>8 DEF StaysInItsFile, Spoiled
  <2> HIDE DEF h, from
  <2>10. CASE Goes(p)
    <3>1. todo' = [todo EXCEPT ![p] = <<>>] /\ <<>> \in Seq(Quiet) /\ <<>> \in Seq(Sound)
      BY <2>4, <2>10, Short DEF Goes, Leaves
    <3>2. Asks(<<>>, h, c)
      BY <3>1 DEF Asks
    <3> QED
      BY <2>1, <2>2, <2>8, <2>9, <3>1, <3>2, NextPlan
  <2>11. CASE UNCHANGED <<cmd, todo>> /\ c.of = from.of
    <3>1. todo' = [todo EXCEPT ![p] = todo[p]] /\ todo[p] \in Seq(Sound)
      BY <2>11 DEF PlanInv
    <3>2. InLoop(b.path, h, c)
      BY <2>3, <2>4, <2>8, <2>11 DEF InLoop
    <3>3. Asks(todo[p], h, c)
      BY <2>3, <3>2 DEF Asks
    <3> QED
      BY <2>1, <2>2, <2>8, <2>9, <3>1, <3>3, NextPlan
  <2> QED
    BY <2>1, <2>10, <2>11
<1> QED
  BY <1>2, <1>3

LEMMA BeginKeeps ==
    ASSUME PlanInv, LoopInv, NEW p \in Progs, Begin(p)
    PROVE  PlanInv' /\ LoopInv'
<1>1. PICK c \in Commands(p) :
            todo' = [todo EXCEPT ![p] = (IF p \in Scripts THEN Looks(c) ELSE <<>>) \o Plan(c)]
  BY DEF Begin
<1> DEFINE first == IF p \in Scripts THEN Looks(c) ELSE <<>>
<1> DEFINE rest == first \o Plan(c)
<1>2. /\ heard' = [heard EXCEPT ![p] = Silence] /\ cursor' = [cursor EXCEPT ![p] = cursor[p]]
      /\ IsHeard(Silence) /\ StaysInItsFile(Silence)
  BY DEF Begin, LoopInv, IsHeard, Silence, StaysInItsFile
<1>3. todo' = [todo EXCEPT ![p] = rest]
  BY <1>1
<1>4. rest \in Seq(Sound) /\ Asks(rest, Silence, cursor[p])
  <2>1. CASE c.do \notin {"ask", "load"}
    <3>1. first \in Seq(Quiet) /\ Plan(c) \in Seq(Quiet)
      BY <2>1, PlanIs, Short
    <3> HIDE DEF first
    <3>2. rest \in Seq(Quiet)
      BY <3>1, ConcatProperties
    <3> HIDE DEF rest
    <3>3. rest \in Seq(Sound)
      BY <3>2, SeqMonotonic DEF Quiet
    <3> QED
      BY <3>2, <3>3 DEF Asks
  <2>2. CASE c.do = "ask"
    <3>1. PICK a \in Sound : a.do = "ask" /\ Plan(c) = <<a>>
      BY <2>2, PlanIs
    <3>2. rest = <<a>>
      <4>1. first = <<>>
        BY <2>2, PlanIs
      <4>2. <<>> \o <<a>> = <<a>>
        OBVIOUS
      <4> QED
        BY <3>1, <4>1, <4>2
    <3> HIDE DEF rest
    <3> QED
      BY <3>1, <3>2, Short DEF Asks
  <2>3. CASE c.do = "load"
    <3>1. PICK a \in Sound, b \in Sound :
                /\ a.do = "ask" /\ b.do = "asknext" /\ b.path = c.obj /\ c.obj # <<>>
                /\ Plan(c) = IF "ACTIVE" \in VarsOf(c.obj) THEN <<a, b>> ELSE <<b>>
      BY <2>3, PlanIs
    <3>2. rest = IF "ACTIVE" \in VarsOf(c.obj) THEN <<a, b>> ELSE <<b>>
      <4>1. first = <<>>
        BY <2>3, PlanIs
      <4>2. <<>> \o <<a, b>> = <<a, b>> /\ <<>> \o <<b>> = <<b>>
        OBVIOUS
      <4> QED
        BY <3>1, <4>1, <4>2
    <3> HIDE DEF rest
    <3>3. CASE "ACTIVE" \in VarsOf(c.obj)
      <4>1. rest = <<a, b>>
        BY <3>2, <3>3
      <4> QED
        BY <3>1, <4>1, Short DEF Asks
    <3>4. CASE "ACTIVE" \notin VarsOf(c.obj)
      <4>1. rest = <<b>>
        BY <3>2, <3>4
      <4>2. InLoop(b.path, Silence, cursor[p])
        BY <3>1, <3>4 DEF InLoop, Silence
      <4> QED
        BY <3>1, <4>1, <4>2, Short DEF Asks
    <3> QED
      BY <3>3, <3>4
  <2> QED
    BY <2>1, <2>2, <2>3
<1> HIDE DEF rest
<1> QED
  BY <1>2, <1>3, <1>4, NextPlan

LEMMA StepPlan ==
    ASSUME PlanInv, LoopInv, [Next]_vars
    PROVE  PlanInv' /\ LoopInv'
<1>1. CASE UNCHANGED vars
  BY <1>1 DEF vars, prog, PlanInv, LoopInv
<1>2. ASSUME NEW p \in Progs, Works(p)
      PROVE  PlanInv' /\ LoopInv'
  <2>1. CASE Begin(p)
    BY <2>1, BeginKeeps
  <2>2. CASE AskOne(p)
    BY <2>2, AskOneKeeps
  <2>3. CASE AskNext(p)
    BY <2>3, AskNextKeeps
  <2>4. CASE Look(p) \/ Mkdir(p) \/ Rmdir(p) \/ Unlink(p) \/ Rename(p)
    <3>1. /\ ~Idle(p) /\ (Goes(p) \/ Fails(p)) /\ heard' = heard /\ cursor' = cursor
          /\ ~At(p, "ask") /\ ~At(p, "asknext")
      BY <2>4 DEF Look, Mkdir, Rmdir, Unlink, Rename, Tries, At
    <3> QED
      BY <3>1, QuietKeeps
  <2>5. CASE Create(p) \/ Fill(p) \/ Read(p) \/ Truncate(p) \/ Write(p)
    <3>1. /\ ~Idle(p) /\ (Goes(p) \/ Fails(p)) /\ heard' = heard /\ cursor' = cursor
          /\ ~At(p, "ask") /\ ~At(p, "asknext")
      BY <2>5 DEF Create, Fill, Read, Truncate, Write, Writes, At
    <3> QED
      BY <3>1, QuietKeeps
  <2>6. CASE CallFails(p) \/ Die(p)
    <3>1. /\ ~Idle(p) /\ (Fails(p) \/ Leaves(p, <<>>)) /\ heard' = heard
          /\ (cursor' = cursor \/ cursor' = [cursor EXCEPT ![p] = Closed])
      BY <2>6 DEF CallFails, Die
    <3> QED
      BY <3>1, OverKeeps
  <2> QED
    BY <1>2, <2>1, <2>2, <2>3, <2>4, <2>5, <2>6 DEF Works
<1> QED
  BY <1>1, <1>2 DEF Next

-----------------------------------------------------------------------------
(* Files and directories.                                                  *)

(* What the first call of a plan may name. *)
LEMMA HeadIs ==
    ASSUME PlanInv, NEW p \in Progs, ~Idle(p)
    PROVE  /\ Path(p) \in Paths /\ Head(todo[p]).to \in Paths
           /\ Head(todo[p]).do \in {"create", "truncate"} => Path(p) \in Objects
           /\ Head(todo[p]).do = "rename" => Moves(Head(todo[p]))
<1>1. todo[p] \in Seq(Sound) /\ todo[p] # <<>>
  BY DEF PlanInv, Idle
<1>2. Head(todo[p]) \in Sound
  BY <1>1, HeadTailProperties
<1> QED
  BY <1>2 DEF Sound, Calls, Path

LEMMA NoRoot ==
    ASSUME TreeInv
    PROVE  /\ <<>> \notin dirs /\ <<>> \notin DOMAIN files
           /\ \A x \in dirs \cup DOMAIN files : x \in Paths /\ x # <<>>
           /\ Front(<<>>) = <<>>
<1>1. \A x \in DOMAIN files : x \in Paths /\ x # <<>>
  BY ObjectIs DEF TreeInv
<1>2. Front(<<>>) = <<>>
  <2>1. Len(<<>>) - 1 \in Int /\ 1 \in Int /\ Len(<<>>) - 1 < 1
    OBVIOUS
  <2> QED
    BY <2>1, SubSeqEmpty DEF Front
<1> QED
  BY <1>1, <1>2 DEF TreeInv

(* A file or a directory that is made is in a directory. *)
LEMMA MakeKeepsTree ==
    ASSUME TreeInv, NEW x \in Paths, CanMake(x),
           \/ dirs' = dirs \cup {x} /\ DOMAIN files' = DOMAIN files
           \/ dirs' = dirs /\ DOMAIN files' = DOMAIN files \cup {x} /\ x \in Objects
    PROVE  TreeInv'
<1>1. Front(x) \in dirs
  BY DEF CanMake
<1>2. x # <<>>
  BY <1>1, NoRoot
<1>3. DOMAIN files' \subseteq Objects /\ dirs' \subseteq Paths \ {<<>>}
  BY <1>2 DEF TreeInv
<1>4. \A y \in DOMAIN files' \cup (dirs' \ Roots) : Front(y) \in dirs'
  BY <1>1 DEF TreeInv
<1> QED
  BY <1>3, <1>4 DEF TreeInv

(* What goes is a file or an empty directory. *)
LEMMA GoneKeepsTree ==
    ASSUME TreeInv, NEW x,
           \/ dirs' = dirs \ {x} /\ DOMAIN files' = DOMAIN files /\ Below(x) = {}
           \/ dirs' = dirs /\ DOMAIN files' = DOMAIN files \ {x}
    PROVE  TreeInv'
<1>1. DOMAIN files' \subseteq Objects /\ dirs' \subseteq Paths \ {<<>>}
  BY DEF TreeInv
<1>2. ASSUME NEW y \in DOMAIN files' \cup (dirs' \ Roots) PROVE Front(y) \in dirs'
  <2>1. Front(y) \in dirs /\ y \in dirs \cup DOMAIN files /\ y # <<>>
    BY NoRoot DEF TreeInv
  <2>2. CASE dirs' = dirs
    BY <2>1, <2>2
  <2>3. CASE dirs' = dirs \ {x} /\ Below(x) = {}
    <3>1. Front(y) # x
      BY <2>1, <2>3 DEF Below
    <3> QED
      BY <2>1, <2>3, <3>1
  <2> QED
    BY <2>2, <2>3
<1> QED
  BY <1>1, <1>2 DEF TreeInv

(* A rename takes what is below along, and goes where nothing is in the    *)
(* way.                                                                    *)
LEMMA RenameKeepsTree ==
    ASSUME TreeInv, NEW o \in Objects, NEW new \in Objects, o # new, TypeOf(o) = TypeOf(new),
           CanRename(Place(o), Place(new)), Renamed(Place(o), Place(new))
    PROVE  TreeInv'
<1> DEFINE p == Place(o)
<1> DEFINE q == Place(new)
<1> DEFINE To(x) == MovedPath(p, q, x)
<1>1. p \in Paths /\ q \in Paths /\ Len(p) = Len(q) /\ Len(p) >= 2 /\ p # q /\ p # <<>> /\ q # <<>>
  BY PlaceIs
<1>2. /\ dirs' = {To(d) : d \in dirs \ {q}}
      /\ DOMAIN files' = {To(y) : y \in DOMAIN files \ {q}}
  BY DEF Renamed
<1>3. /\ p \in dirs \/ p \in DOMAIN files
      /\ Front(q) \in dirs
      /\ p \in DOMAIN files => q \notin dirs
      /\ p \in dirs => q \notin DOMAIN files /\ Below(q) = {}
  BY DEF CanRename, Exists
<1>4. DOMAIN files' \subseteq Objects
  BY <1>2, ObjectMoved DEF TreeInv
<1>5. \A x \in dirs \cup DOMAIN files : x \in Paths /\ x # <<>>
  BY NoRoot
<1> HIDE DEF p, q
<1>6. /\ To(p) = q /\ To(Front(q)) = Front(q) /\ Front(q) # q
      /\ \A x \in Paths : To(x) \in Paths /\ Len(To(x)) = Len(x)
  BY <1>1, MovedHome, MovedIs
<1>7. dirs' \subseteq Paths \ {<<>>}
  <2>1. ASSUME NEW x \in dirs PROVE To(x) \in Paths /\ To(x) # <<>>
    <3>1. x \in Paths /\ x # <<>>
      BY <1>5
    <3>2. To(x) \in Paths /\ Len(To(x)) = Len(x) /\ Len(x) # 0
      BY <1>6, <3>1, EmptySeq DEF Paths
    <3> QED
      BY <3>2
  <2> QED
    BY <1>2, <2>1
<1>8. ASSUME NEW x \in (DOMAIN files \cup dirs) \ {q}, To(x) \notin Roots \/ x \in DOMAIN files
      PROVE  Front(To(x)) \in dirs'
  <2>1. x \in Paths /\ x # <<>>
    BY <1>5
  <2>2. CASE x = p
    BY <1>2, <1>3, <1>6, <2>2
  <2>3. CASE x # p
    <3>1. /\ IsPrefix(p, Front(x)) <=> IsPrefix(p, x)
          /\ Front(To(x)) = To(Front(x))
      BY <1>1, <2>1, <2>3, FrontOfMoved
    <3>2. x \in DOMAIN files \/ x \notin Roots
      <4>1. ASSUME x \in Roots PROVE To(x) = x
        <5>1. Len(x) = 1
          BY <4>1 DEF Roots
        <5>2. ~IsPrefix(p, x)
          BY <1>1, <2>1, <5>1, PrefixIs
        <5> QED
          BY <5>2 DEF MovedPath
      <4> QED
        BY <1>8, <4>1
    <3>3. Front(x) \in dirs
      BY <3>2 DEF TreeInv
    <3>4. Front(x) # q
      <4>1. CASE IsPrefix(p, x)
        <5>1. IsPrefix(p, Front(x))
          BY <3>1, <4>1
        <5>2. Front(x) = q => p = q
          <6>1. ASSUME Front(x) = q PROVE \A i \in 1 .. Len(p) : p[i] = q[i]
            BY <1>1, <5>1, <6>1, PrefixIs
          <6> QED
            BY <1>1, <6>1, SeqEqual DEF Paths
        <5> QED
          BY <1>1, <5>2
      <4>2. CASE ~IsPrefix(p, x)
        <5>1. ASSUME Front(x) = q PROVE FALSE
          <6>1. x \in Below(q) /\ q \in dirs
            BY <2>1, <3>3, <5>1 DEF Below
          <6> QED
            BY <1>3, <6>1
        <5> QED
          BY <5>1
      <4> QED
        BY <4>1, <4>2
    <3> QED
      BY <1>2, <3>1, <3>3, <3>4
  <2> QED
    BY <2>2, <2>3
<1>9. ASSUME NEW y \in DOMAIN files' \cup (dirs' \ Roots) PROVE Front(y) \in dirs'
  <2> HIDE DEF To
  <2>1. CASE y \in DOMAIN files'
    BY <1>2, <1>8, <2>1
  <2>2. CASE y \in dirs' /\ y \notin Roots
    BY <1>2, <1>8, <2>2
  <2> QED
    BY <2>1, <2>2
<1> QED
  BY <1>4, <1>7, <1>9 DEF TreeInv

LEMMA StepTree ==
    ASSUME PlanInv, TreeInv, [Next]_vars
    PROVE  TreeInv'
<1>1. CASE UNCHANGED disk
  BY <1>1 DEF disk, TreeInv
<1>2. CASE UNCHANGED vars
  BY <1>1, <1>2 DEF vars
<1>3. ASSUME NEW p \in Progs, Works(p)
      PROVE  TreeInv'
  <2>1. ~Idle(p) => /\ Path(p) \in Paths /\ Head(todo[p]).to \in Paths
                    /\ Head(todo[p]).do \in {"create", "truncate"} => Path(p) \in Objects
                    /\ Head(todo[p]).do = "rename" => Moves(Head(todo[p]))
    BY HeadIs
  <2>2. CASE Begin(p) \/ Look(p) \/ Read(p) \/ AskOne(p) \/ AskNext(p) \/ CallFails(p) \/ Die(p)
    <3>1. UNCHANGED disk
      BY <2>2 DEF Begin, Look, Tries, Read, AskOne, AskNext, CallFails, Die
    <3> QED
      BY <1>1, <3>1
  <2>3. CASE Fill(p) \/ Write(p)
    <3>1. dirs' = dirs /\ files' = files
      BY <2>3 DEF Fill, Write, Writes
    <3> QED
      BY <3>1 DEF TreeInv
  <2>4. CASE Mkdir(p)
    <3>1. CASE CanMake(Path(p))
      <4>1. ~Idle(p) /\ dirs' = dirs \cup {Path(p)} /\ files' = files
        BY <2>4, <3>1 DEF Mkdir, Tries, At
      <4> QED
        BY <2>1, <3>1, <4>1, MakeKeepsTree
    <3>2. CASE ~CanMake(Path(p))
      <4>1. UNCHANGED disk
        BY <2>4, <3>2 DEF Mkdir, Tries
      <4> QED
        BY <1>1, <4>1
    <3> QED
      BY <3>1, <3>2
  <2>5. CASE Rmdir(p)
    <3>1. UNCHANGED disk \/ (dirs' = dirs \ {Path(p)} /\ files' = files /\ Below(Path(p)) = {})
      BY <2>5 DEF Rmdir, Tries
    <3> QED
      BY <1>1, <3>1, GoneKeepsTree
  <2>6. CASE Unlink(p)
    <3>1. UNCHANGED disk \/ (dirs' = dirs /\ files' = Without(Path(p)))
      BY <2>6 DEF Unlink, Tries
    <3>2. DOMAIN Without(Path(p)) = DOMAIN files \ {Path(p)}
      BY DEF Without
    <3> QED
      BY <1>1, <3>1, <3>2, GoneKeepsTree
  <2>7. CASE Rename(p)
    <3> DEFINE to == Head(todo[p]).to
    <3>1. UNCHANGED disk \/ (CanRename(Path(p), to) /\ Renamed(Path(p), to))
      BY <2>7 DEF Rename, Tries
    <3>2. Moves(Head(todo[p]))
      BY <2>1, <2>7 DEF Rename, At
    <3>3. PICK o \in Objects, new \in Objects :
                /\ o # new /\ TypeOf(o) = TypeOf(new)
                /\ Path(p) = Place(o) /\ to = Place(new)
      BY <3>2 DEF Moves, Path
    <3> HIDE DEF to
    <3> QED
      BY <1>1, <3>1, <3>3, RenameKeepsTree
  <2>8. CASE Create(p) \/ Truncate(p)
    <3>1. ~Idle(p) /\ Path(p) \in Objects /\ Path(p) \in Paths
      BY <2>1, <2>8 DEF Create, Truncate, At
    <3>2. \/ dirs' = dirs /\ files' = files
          \/ CanMake(Path(p)) /\ dirs' = dirs /\ files' = With(Path(p), FreeInode)
      BY <2>8 DEF Create, Truncate, disk
    <3>3. DOMAIN With(Path(p), FreeInode) = DOMAIN files \cup {Path(p)}
      BY DEF With
    <3>4. CASE dirs' = dirs /\ files' = files
      BY <3>4 DEF TreeInv
    <3> QED
      BY <3>1, <3>2, <3>3, <3>4, MakeKeepsTree
  <2> QED
    BY <1>3, <2>2, <2>3, <2>4, <2>5, <2>6, <2>7, <2>8 DEF Works
<1> QED
  BY <1>2, <1>3 DEF Next

(* The directory of a path that is spelled out. *)
LEMMA Front2 ==
    ASSUME NEW a \in Words, NEW b \in Words
    PROVE  Front(<<a, b>>) = <<a>> /\ <<a, b>> \in Paths
<1>1. <<a, b>> \in Paths /\ <<a>> \in Paths
  BY Tuples
<1> DEFINE s == <<a, b>>
<1>2. s # <<>> /\ Len(s) = 2 /\ s[1] = a
  OBVIOUS
<1> HIDE DEF s
<1>3. Front(s) \in Paths /\ Len(Front(s)) = 2 - 1 /\ \A i \in 1 .. 2 - 1 : Front(s)[i] = s[i]
  BY <1>1, <1>2, FrontOf DEF s
<1> DEFINE r == <<a>>
<1>4. Len(r) = 1 /\ r[1] = a
  OBVIOUS
<1> HIDE DEF r
<1>5. \A i \in 1 .. 1 : Front(s)[i] = r[i]
  BY <1>2, <1>3, <1>4
<1>6. Front(s) = r
  BY <1>1, <1>3, <1>4, <1>5, SeqEqual DEF r, Paths
<1> QED
  BY <1>1, <1>6 DEF r, s

LEMMA Front3 ==
    ASSUME NEW a \in Words, NEW b \in Words, NEW c \in Words
    PROVE  Front(<<a, b, c>>) = <<a, b>> /\ <<a, b, c>> \in Paths
<1>1. <<a, b, c>> \in Paths /\ <<a, b>> \in Paths
  BY Tuples
<1> DEFINE s == <<a, b, c>>
<1>2. s # <<>> /\ Len(s) = 3 /\ s[1] = a /\ s[2] = b
  OBVIOUS
<1> HIDE DEF s
<1>3. Front(s) \in Paths /\ Len(Front(s)) = 3 - 1 /\ \A i \in 1 .. 3 - 1 : Front(s)[i] = s[i]
  BY <1>1, <1>2, FrontOf DEF s
<1> DEFINE r == <<a, b>>
<1>4. Len(r) = 2 /\ r[1] = a /\ r[2] = b
  OBVIOUS
<1> HIDE DEF r
<1>5. \A i \in 1 .. 2 : Front(s)[i] = r[i]
  BY <1>2, <1>3, <1>4
<1>6. Front(s) = r
  BY <1>1, <1>3, <1>4, <1>5, SeqEqual DEF r, Paths
<1> QED
  BY <1>1, <1>6 DEF r, s

LEMMA Front4 ==
    ASSUME NEW a \in Words, NEW b \in Words, NEW c \in Words, NEW d \in Words
    PROVE  Front(<<a, b, c, d>>) = <<a, b, c>> /\ <<a, b, c, d>> \in Paths
<1>1. <<a, b, c, d>> \in Paths /\ <<a, b, c>> \in Paths
  BY Tuples
<1> DEFINE s == <<a, b, c, d>>
<1>2. s # <<>> /\ Len(s) = 4 /\ s[1] = a /\ s[2] = b /\ s[3] = c
  OBVIOUS
<1> HIDE DEF s
<1>3. Front(s) \in Paths /\ Len(Front(s)) = 4 - 1 /\ \A i \in 1 .. 4 - 1 : Front(s)[i] = s[i]
  BY <1>1, <1>2, FrontOf DEF s
<1> DEFINE r == <<a, b, c>>
<1>4. Len(r) = 3 /\ r[1] = a /\ r[2] = b /\ r[3] = c
  OBVIOUS
<1> HIDE DEF r
<1>5. \A i \in 1 .. 3 : Front(s)[i] = r[i]
  BY <1>2, <1>3, <1>4
<1>6. Front(s) = r
  BY <1>1, <1>3, <1>4, <1>5, SeqEqual DEF r, Paths
<1> QED
  BY <1>1, <1>6 DEF r, s

LEMMA Front5 ==
    ASSUME NEW a \in Words, NEW b \in Words, NEW c \in Words, NEW d \in Words, NEW e \in Words
    PROVE  Front(<<a, b, c, d, e>>) = <<a, b, c, d>> /\ <<a, b, c, d, e>> \in Paths
<1>1. <<a, b, c, d, e>> \in Paths /\ <<a, b, c, d>> \in Paths
  BY Tuples
<1> DEFINE s == <<a, b, c, d, e>>
<1>2. s # <<>> /\ Len(s) = 5 /\ s[1] = a /\ s[2] = b /\ s[3] = c /\ s[4] = d
  OBVIOUS
<1> HIDE DEF s
<1>3. Front(s) \in Paths /\ Len(Front(s)) = 5 - 1 /\ \A i \in 1 .. 5 - 1 : Front(s)[i] = s[i]
  BY <1>1, <1>2, FrontOf DEF s
<1> DEFINE r == <<a, b, c, d>>
<1>4. Len(r) = 4 /\ r[1] = a /\ r[2] = b /\ r[3] = c /\ r[4] = d
  OBVIOUS
<1> HIDE DEF r
<1>5. \A i \in 1 .. 4 : Front(s)[i] = r[i]
  BY <1>2, <1>3, <1>4
<1>6. Front(s) = r
  BY <1>1, <1>3, <1>4, <1>5, SeqEqual DEF r, Paths
<1> QED
  BY <1>1, <1>6 DEF r, s

LEMMA Front6 ==
    ASSUME NEW a \in Words, NEW b \in Words, NEW c \in Words, NEW d \in Words, NEW e \in Words, NEW f \in Words
    PROVE  Front(<<a, b, c, d, e, f>>) = <<a, b, c, d, e>> /\ <<a, b, c, d, e, f>> \in Paths
<1>1. <<a, b, c, d, e, f>> \in Paths /\ <<a, b, c, d, e>> \in Paths
  BY Tuples
<1> DEFINE s == <<a, b, c, d, e, f>>
<1>2. s # <<>> /\ Len(s) = 6 /\ s[1] = a /\ s[2] = b /\ s[3] = c /\ s[4] = d /\ s[5] = e
  OBVIOUS
<1> HIDE DEF s
<1>3. Front(s) \in Paths /\ Len(Front(s)) = 6 - 1 /\ \A i \in 1 .. 6 - 1 : Front(s)[i] = s[i]
  BY <1>1, <1>2, FrontOf DEF s
<1> DEFINE r == <<a, b, c, d, e>>
<1>4. Len(r) = 5 /\ r[1] = a /\ r[2] = b /\ r[3] = c /\ r[4] = d /\ r[5] = e
  OBVIOUS
<1> HIDE DEF r
<1>5. \A i \in 1 .. 5 : Front(s)[i] = r[i]
  BY <1>2, <1>3, <1>4
<1>6. Front(s) = r
  BY <1>1, <1>3, <1>4, <1>5, SeqEqual DEF r, Paths
<1> QED
  BY <1>1, <1>6 DEF r, s

(* A name at the end of a path that is spelled out. *)
LEMMA Append2 ==
    ASSUME NEW a \in Words, NEW b \in Words, NEW c \in Words
    PROVE  <<a, b>> \o <<c>> = <<a, b, c>>
<1> DEFINE s == <<a, b>>
<1> DEFINE t == <<c>>
<1> DEFINE u == <<a, b, c>>
<1>1. s \in Paths /\ t \in Paths /\ u \in Paths
  BY Tuples
<1>2. /\ Len(s) = 2 /\ Len(t) = 1 /\ Len(u) = 3 /\ t[1] = c
      /\ s[1] = a /\ s[2] = b
      /\ u[1] = a /\ u[2] = b /\ u[3] = c
  OBVIOUS
<1> HIDE DEF s, t, u
<1>3. /\ s \o t \in Paths /\ Len(s \o t) = Len(s) + Len(t)
      /\ \A i \in 1 .. Len(s) + Len(t) : (s \o t)[i] = IF i <= Len(s) THEN s[i] ELSE t[i - Len(s)]
  BY <1>1, ConcatProperties DEF Paths
<1>4. Len(s \o t) = Len(u) /\ \A i \in 1 .. Len(u) : (s \o t)[i] = u[i]
  BY <1>2, <1>3
<1>5. s \o t = u
  BY <1>1, <1>3, <1>4, SeqEqual DEF Paths
<1> QED
  BY <1>5 DEF s, t, u

LEMMA Append4 ==
    ASSUME NEW a \in Words, NEW b \in Words, NEW c \in Words, NEW d \in Words, NEW e \in Words
    PROVE  <<a, b, c, d>> \o <<e>> = <<a, b, c, d, e>>
<1> DEFINE s == <<a, b, c, d>>
<1> DEFINE t == <<e>>
<1> DEFINE u == <<a, b, c, d, e>>
<1>1. s \in Paths /\ t \in Paths /\ u \in Paths
  BY Tuples
<1>2. /\ Len(s) = 4 /\ Len(t) = 1 /\ Len(u) = 5 /\ t[1] = e
      /\ s[1] = a /\ s[2] = b /\ s[3] = c /\ s[4] = d
      /\ u[1] = a /\ u[2] = b /\ u[3] = c /\ u[4] = d /\ u[5] = e
  OBVIOUS
<1> HIDE DEF s, t, u
<1>3. /\ s \o t \in Paths /\ Len(s \o t) = Len(s) + Len(t)
      /\ \A i \in 1 .. Len(s) + Len(t) : (s \o t)[i] = IF i <= Len(s) THEN s[i] ELSE t[i - Len(s)]
  BY <1>1, ConcatProperties DEF Paths
<1>4. Len(s \o t) = Len(u) /\ \A i \in 1 .. Len(u) : (s \o t)[i] = u[i]
  BY <1>2, <1>3
<1>5. s \o t = u
  BY <1>1, <1>3, <1>4, SeqEqual DEF Paths
<1> QED
  BY <1>5 DEF s, t, u

(* Where the files and the directories of the tree are. *)
LEMMA FrontIs ==
    ASSUME NEW z \in Words
    PROVE  /\ Front(<<"zones", z>>) = <<"zones">>
           /\ Front(<<"zones", z, "networks">>) = <<"zones", z>>
           /\ Front(ZoneFile(z)) = <<"zones", z>>
           /\ <<"zones", z>> \in Paths \ {<<>>} /\ <<"zones", z, "networks">> \in Paths \ {<<>>}
<1>1. "zones" \in Words /\ "networks" \in Words /\ "zone.config" \in Words
  BY AWord
<1>2. <<"zones", z>> # <<>> /\ <<"zones", z, "networks">> # <<>>
  OBVIOUS
<1> QED
  BY <1>1, <1>2, Front2, Front3 DEF ZoneFile

LEMMA FrontBelow ==
    ASSUME NEW z \in Words, NEW n \in Words
    PROVE  /\ Front(<<"zones", z, "networks", n>>) = <<"zones", z, "networks">>
           /\ Front(NetFile(z, n)) = <<"zones", z, "networks", n>>
           /\ Front(<<"zones", z, "networks", n, "hosts">>) = <<"zones", z, "networks", n>>
           /\ Front(<<"zones", z, "networks", n, "groups">>) = <<"zones", z, "networks", n>>
           /\ \A h \in Words : Front(HostFile(z, n, h)) = <<"zones", z, "networks", n, "hosts">>
           /\ \A g \in Words : Front(GroupFile(z, n, g)) = <<"zones", z, "networks", n, "groups">>
           /\ <<"zones", z, "networks", n>> \in Paths \ {<<>>}
           /\ <<"zones", z, "networks", n, "hosts">> \in Paths \ {<<>>}
           /\ <<"zones", z, "networks", n, "groups">> \in Paths \ {<<>>}
<1> DEFINE a == "zones"
<1> DEFINE c == "networks"
<1>1. /\ a \in Words /\ c \in Words /\ "network.config" \in Words
      /\ "hosts" \in Words /\ "groups" \in Words
  BY AWord
<1> HIDE DEF a, c
<1>2. Front(<<a, z, c, n>>) = <<a, z, c>> /\ <<a, z, c, n>> \in Paths
  BY <1>1, Front4
<1>3. \A w \in Words : Front(<<a, z, c, n, w>>) = <<a, z, c, n>> /\ <<a, z, c, n, w>> \in Paths
  BY <1>1, Front5
<1>4. ASSUME NEW w \in Words, NEW h \in Words PROVE Front(<<a, z, c, n, w, h>>) = <<a, z, c, n, w>>
  <2>1. a \in Words /\ c \in Words
    BY <1>1
  <2> QED
    BY <2>1, Front6
<1>5. <<a, z, c, n>> # <<>> /\ \A w : <<a, z, c, n, w>> # <<>>
  OBVIOUS
<1>6. /\ Front(<<a, z, c, n>>) = <<a, z, c>>
      /\ Front(<<a, z, c, n, "network.config">>) = <<a, z, c, n>>
      /\ Front(<<a, z, c, n, "hosts">>) = <<a, z, c, n>>
      /\ Front(<<a, z, c, n, "groups">>) = <<a, z, c, n>>
      /\ \A h \in Words : Front(<<a, z, c, n, "hosts", h>>) = <<a, z, c, n, "hosts">>
      /\ \A h \in Words : Front(<<a, z, c, n, "groups", h>>) = <<a, z, c, n, "groups">>
      /\ <<a, z, c, n>> \in Paths \ {<<>>}
      /\ <<a, z, c, n, "hosts">> \in Paths \ {<<>>}
      /\ <<a, z, c, n, "groups">> \in Paths \ {<<>>}
  BY <1>1, <1>2, <1>3, <1>4, <1>5
<1> QED
  BY <1>6, Zenon DEF a, c, NetFile, HostFile, GroupFile

(* The directories of a zone and of a network, spelled out. *)
LEMMA OwnDirsAre ==
    /\ \A z \in Zones : OwnDirs(ZoneFile(z)) = {<<"zones", z>>, <<"zones", z, "networks">>}
    /\ \A z \in Zones, n \in Nets : OwnDirs(NetFile(z, n)) =
            {<<"zones", z, "networks", n>>, <<"zones", z, "networks", n, "hosts">>,
             <<"zones", z, "networks", n, "groups">>}
<1>1. ASSUME NEW z \in Zones
      PROVE  OwnDirs(ZoneFile(z)) = {<<"zones", z>>, <<"zones", z, "networks">>}
  <2>1. TypeOf(ZoneFile(z)) = "zone" /\ Place(ZoneFile(z)) = <<"zones", z>>
    BY AWord, ZoneShape
  <2>2. <<"zones", z>> \o <<"networks">> = <<"zones", z, "networks">>
    <3>1. "zones" \in Words /\ z \in Words /\ "networks" \in Words
      BY AWord
    <3> QED
      BY <3>1, Append2
  <2> QED
    BY <2>1, <2>2 DEF OwnDirs
<1>2. ASSUME NEW z \in Zones, NEW n \in Nets
      PROVE  OwnDirs(NetFile(z, n)) =
                {<<"zones", z, "networks", n>>, <<"zones", z, "networks", n, "hosts">>,
                 <<"zones", z, "networks", n, "groups">>}
  <2>1. /\ TypeOf(NetFile(z, n)) = "network"
        /\ Place(NetFile(z, n)) = <<"zones", z, "networks", n>>
    BY AWord, NetShape
  <2>2. /\ <<"zones", z, "networks", n>> \o <<"hosts">> = <<"zones", z, "networks", n, "hosts">>
        /\ <<"zones", z, "networks", n>> \o <<"groups">> = <<"zones", z, "networks", n, "groups">>
    <3>1. /\ "zones" \in Words /\ z \in Words /\ "networks" \in Words /\ n \in Words
          /\ "hosts" \in Words /\ "groups" \in Words
      BY AWord
    <3> QED
      BY <3>1, Append4
  <2> QED
    BY <2>1, <2>2 DEF OwnDirs
<1> QED
  BY <1>1, <1>2

(* A zone is above its networks, and a network above its members. *)
LEMMA AboveIs ==
    ASSUME NEW z \in Zones, NEW n \in Nets
    PROVE  /\ Above(ZoneFile(z), NetFile(z, n))
           /\ \A h \in Hosts : Above(NetFile(z, n), HostFile(z, n, h))
           /\ \A g \in Groups : Above(NetFile(z, n), GroupFile(z, n, g))
           /\ ZoneFile(z) \in Objects /\ NetFile(z, n) \in Objects
<1>1. z \in Words /\ n \in Words
  BY AWord
<1>2. /\ TypeOf(ZoneFile(z)) = "zone" /\ Place(ZoneFile(z)) = <<"zones", z>>
      /\ TypeOf(NetFile(z, n)) = "network" /\ Place(NetFile(z, n)) = <<"zones", z, "networks", n>>
      /\ Len(ZoneFile(z)) = 3 /\ Len(NetFile(z, n)) = 5 /\ NetFile(z, n) \in Paths
  BY <1>1, ZoneShape, NetShape
<1> DEFINE p == <<"zones", z>>
<1> DEFINE q == <<"zones", z, "networks", n>>
<1>3. p \in Paths /\ q \in Paths
  BY <1>1, AWord, Tuples
<1>4. /\ Len(p) = 2 /\ p[1] = "zones" /\ p[2] = z
      /\ Len(q) = 4 /\ q[1] = "zones" /\ q[2] = z /\ q[3] = "networks" /\ q[4] = n
  OBVIOUS
<1> HIDE DEF p, q
<1>5. ASSUME NEW x \in Paths, Len(x) >= 4,
             x[1] = "zones", x[2] = z, x[3] = "networks", x[4] = n
      PROVE  IsPrefix(p, x) /\ IsPrefix(q, x)
  <2>1. /\ Len(p) <= Len(x) /\ \A i \in 1 .. Len(p) : p[i] = x[i]
        /\ Len(q) <= Len(x) /\ \A i \in 1 .. Len(q) : q[i] = x[i]
    BY <1>4, <1>5
  <2> QED
    BY <1>3, <2>1, PrefixIs
<1>6. Above(ZoneFile(z), NetFile(z, n))
  <2>1. /\ NetFile(z, n)[1] = "zones" /\ NetFile(z, n)[2] = z
        /\ NetFile(z, n)[3] = "networks" /\ NetFile(z, n)[4] = n
    BY DEF NetFile
  <2>2. IsPrefix(p, NetFile(z, n))
    BY <1>2, <1>5, <2>1
  <2>3. ZoneFile(z) # NetFile(z, n)
    BY <1>2
  <2> QED
    BY <1>2, <2>2, <2>3 DEF Above, IsTree, p
<1>7. ASSUME NEW h \in Hosts PROVE Above(NetFile(z, n), HostFile(z, n, h))
  <2>1. /\ HostFile(z, n, h)[1] = "zones" /\ HostFile(z, n, h)[2] = z
        /\ HostFile(z, n, h)[3] = "networks" /\ HostFile(z, n, h)[4] = n
    BY DEF HostFile
  <2>2. HostFile(z, n, h) \in Paths /\ Len(HostFile(z, n, h)) = 6
    BY <1>1, AWord, HostShape
  <2>3. IsPrefix(q, HostFile(z, n, h))
    BY <1>5, <2>1, <2>2
  <2>4. NetFile(z, n) # HostFile(z, n, h)
    BY <1>2, <2>2
  <2> QED
    BY <1>2, <2>3, <2>4 DEF Above, IsTree, q
<1>8. ASSUME NEW g \in Groups PROVE Above(NetFile(z, n), GroupFile(z, n, g))
  <2>1. /\ GroupFile(z, n, g)[1] = "zones" /\ GroupFile(z, n, g)[2] = z
        /\ GroupFile(z, n, g)[3] = "networks" /\ GroupFile(z, n, g)[4] = n
    BY DEF GroupFile
  <2>2. GroupFile(z, n, g) \in Paths /\ Len(GroupFile(z, n, g)) = 6
    BY <1>1, AWord, GroupShape
  <2>3. IsPrefix(q, GroupFile(z, n, g))
    BY <1>5, <2>1, <2>2
  <2>4. NetFile(z, n) # GroupFile(z, n, g)
    BY <1>2, <2>2
  <2> QED
    BY <1>2, <2>3, <2>4 DEF Above, IsTree, q
<1>9. ZoneFile(z) \in Objects /\ NetFile(z, n) \in Objects
  BY DEF Objects
<1> QED
  BY <1>6, <1>7, <1>8, <1>9

LEMMA InitTree ==
    ASSUME Init
    PROVE  PlanInv /\ LoopInv /\ TreeInv
<1>1. PlanInv /\ LoopInv
  <2>1. /\ todo = [p \in Progs |-> <<>>] /\ heard = [p \in Progs |-> Silence]
        /\ cursor = [p \in Progs |-> Closed]
        /\ <<>> \in Seq(Sound) /\ <<>> \in Seq(Quiet)
    BY Short DEF Init
  <2>2. IsHeard(Silence) /\ StaysInItsFile(Silence)
    BY DEF IsHeard, Silence, StaysInItsFile
  <2>3. Asks(<<>>, Silence, Closed)
    BY <2>1 DEF Asks
  <2> QED
    BY <2>1, <2>2, <2>3 DEF PlanInv, LoopInv
<1>2. /\ DOMAIN files = There /\ There \subseteq Objects
      /\ dirs = Roots \cup UNION {OwnDirs(o) : o \in There}
      /\ \A o \in There, a \in Objects : Above(a, o) => a \in There
  BY TextdirAssumption DEF Init
<1>3. \A o \in There : OwnDirs(o) \subseteq dirs
  BY <1>2
<1>4. ASSUME NEW z \in Zones, ZoneFile(z) \in There
      PROVE  <<"zones", z>> \in dirs /\ <<"zones", z, "networks">> \in dirs
  BY <1>3, <1>4, OwnDirsAre
<1>5. ASSUME NEW z \in Zones, NEW n \in Nets, NetFile(z, n) \in There
      PROVE  /\ <<"zones", z, "networks", n>> \in dirs
             /\ <<"zones", z, "networks", n, "hosts">> \in dirs
             /\ <<"zones", z, "networks", n, "groups">> \in dirs
             /\ ZoneFile(z) \in There
  <2>1. ZoneFile(z) \in There
    BY <1>2, <1>5, AboveIs
  <2> QED
    BY <1>3, <1>5, <2>1, OwnDirsAre
<1>6. ASSUME NEW o \in There PROVE Front(o) \in dirs
  <2>1. CASE \E z \in Zones : o = ZoneFile(z)
    <3>1. PICK z \in Zones : o = ZoneFile(z)
      BY <2>1
    <3>2. Front(o) = <<"zones", z>>
      BY <3>1, AWord, FrontIs
    <3> QED
      BY <1>4, <1>6, <3>1, <3>2
  <2>2. CASE \E z \in Zones, n \in Nets : o = NetFile(z, n)
    <3>1. PICK z \in Zones, n \in Nets : o = NetFile(z, n)
      BY <2>2
    <3>2. Front(o) = <<"zones", z, "networks", n>>
      <4>1. z \in Words /\ n \in Words
        BY AWord
      <4> QED
        BY <3>1, <4>1, FrontBelow
    <3> QED
      BY <1>5, <1>6, <3>1, <3>2
  <2>3. CASE \E z \in Zones, n \in Nets, h \in Hosts : o = HostFile(z, n, h)
    <3>1. PICK z \in Zones, n \in Nets, h \in Hosts : o = HostFile(z, n, h)
      BY <2>3
    <3>2. Front(o) = <<"zones", z, "networks", n, "hosts">>
      <4>1. z \in Words /\ n \in Words /\ h \in Words
        BY AWord
      <4> QED
        BY <3>1, <4>1, FrontBelow
    <3>3. NetFile(z, n) \in There
      BY <1>2, <1>6, <3>1, AboveIs
    <3> QED
      BY <1>5, <3>2, <3>3
  <2>4. CASE \E z \in Zones, n \in Nets, g \in Groups : o = GroupFile(z, n, g)
    <3>1. PICK z \in Zones, n \in Nets, g \in Groups : o = GroupFile(z, n, g)
      BY <2>4
    <3>2. Front(o) = <<"zones", z, "networks", n, "groups">>
      <4>1. z \in Words /\ n \in Words /\ g \in Words
        BY AWord
      <4> QED
        BY <3>1, <4>1, FrontBelow
    <3>3. NetFile(z, n) \in There
      BY <1>2, <1>6, <3>1, AboveIs
    <3> QED
      BY <1>5, <3>2, <3>3
  <2>5. CASE o \in Flat
    <3>1. o = <<o[1], o[2]>> /\ o[1] \in {"interfaces", "services", "rules"} /\ o[2] \in Words
      BY <2>5, PathsAssumption, AWord
    <3>2. Front(o) = <<o[1]>>
      BY <3>1, AWord, Front2
    <3> QED
      BY <1>2, <3>1, <3>2 DEF Roots
  <2> QED
    BY <1>2, <2>1, <2>2, <2>3, <2>4, <2>5, Kind
<1>7. ASSUME NEW x \in dirs, x \notin Roots PROVE x \in Paths /\ x # <<>> /\ Front(x) \in dirs
  <2>1. PICK o \in There : x \in OwnDirs(o)
    BY <1>2, <1>7
  <2>2. CASE TypeOf(o) = "zone"
    <3>1. PICK z \in Zones : o = ZoneFile(z)
      BY <1>2, <2>2, KindOfType
    <3>2. x \in {<<"zones", z>>, <<"zones", z, "networks">>}
      BY <2>1, <3>1, OwnDirsAre
    <3>3. z \in Words
      BY AWord
    <3>4. <<"zones">> \in dirs /\ <<"zones", z>> \in dirs
      BY <1>2, <1>4, <2>1, <3>1 DEF Roots
    <3> QED
      BY <3>2, <3>3, <3>4, FrontIs
  <2>3. CASE TypeOf(o) = "network"
    <3>1. PICK z \in Zones, n \in Nets : o = NetFile(z, n)
      BY <1>2, <2>3, KindOfType
    <3>2. x \in {<<"zones", z, "networks", n>>, <<"zones", z, "networks", n, "hosts">>,
                 <<"zones", z, "networks", n, "groups">>}
      BY <2>1, <3>1, OwnDirsAre
    <3>3. z \in Words /\ n \in Words
      BY AWord
    <3>4. <<"zones", z, "networks">> \in dirs /\ <<"zones", z, "networks", n>> \in dirs
      BY <1>4, <1>5, <2>1, <3>1
    <3> DEFINE k == <<"zones", z, "networks", n>>
    <3> DEFINE h == <<"zones", z, "networks", n, "hosts">>
    <3> DEFINE g == <<"zones", z, "networks", n, "groups">>
    <3>5. /\ Front(k) \in dirs /\ Front(h) \in dirs /\ Front(g) \in dirs
          /\ k \in Paths \ {<<>>} /\ h \in Paths \ {<<>>} /\ g \in Paths \ {<<>>}
      BY <3>3, <3>4, FrontBelow
    <3>6. x \in {k, h, g}
      BY <3>2
    <3> HIDE DEF k, h, g
    <3> QED
      BY <3>5, <3>6
  <2> QED
    BY <2>1, <2>2, <2>3 DEF OwnDirs
<1>8. \A x \in Roots : x \in Paths /\ x # <<>>
  <2>1. ASSUME NEW w \in Words PROVE <<w>> \in Paths /\ <<w>> # <<>>
    BY Tuples
  <2> QED
    BY <2>1, AWord DEF Roots
<1>9. TreeInv
  BY <1>2, <1>6, <1>7, <1>8 DEF TreeInv
<1> QED
  BY <1>1, <1>9

-----------------------------------------------------------------------------
(* The list.                                                               *)

(* A directory is found under its name in the one it is in. *)
LEMMA DirUp ==
    ASSUME TreeInv, NEW d \in dirs, Len(d) >= 2
    PROVE  Front(d) \in dirs /\ Last(d) \in Entries(Front(d))
<1>1. d \notin Roots /\ d # <<>>
  <2>1. ASSUME NEW w, d = <<w>> PROVE FALSE
    <3>1. Len(<<w>>) = 1
      OBVIOUS
    <3> QED
      BY <2>1, <3>1
  <2> QED
    BY <2>1, NoRoot DEF Roots
<1>2. Front(d) \in dirs
  BY <1>1 DEF TreeInv
<1> QED
  BY <1>1, <1>2 DEF Entries, Names, Below

LEMMA FileUp ==
    ASSUME TreeInv, NEW o \in DOMAIN files
    PROVE  Front(o) \in dirs /\ Last(o) \in Entries(Front(o))
<1>1. o # <<>> /\ Front(o) \in dirs
  BY NoRoot DEF TreeInv
<1> QED
  BY <1>1 DEF Entries, Names, Below

(* The directories on the way to a zone, a network and a member. *)
LEMMA ZoneWay ==
    ASSUME TreeInv, NEW z \in Words, <<"zones", z>> \in dirs
    PROVE  z \in Entries(<<"zones">>)
<1> DEFINE d == <<"zones", z>>
<1>1. Len(d) = 2 /\ Last(d) = z
  BY DEF Last
<1>2. Front(d) = <<"zones">>
  BY FrontIs
<1>3. d \in dirs
  OBVIOUS
<1> HIDE DEF d
<1> QED
  BY <1>1, <1>2, <1>3, DirUp

LEMMA NetWay ==
    ASSUME TreeInv, NEW z \in Words, NEW n \in Words, <<"zones", z, "networks", n>> \in dirs
    PROVE  /\ z \in Entries(<<"zones">>)
           /\ n \in Entries(<<"zones", z, "networks">>)
<1> DEFINE d == <<"zones", z, "networks", n>>
<1> DEFINE e == <<"zones", z, "networks">>
<1>1. Len(d) = 4 /\ Last(d) = n /\ Len(e) = 3
  BY DEF Last
<1>2. Front(d) = e /\ Front(e) = <<"zones", z>>
  BY FrontIs, FrontBelow
<1>3. d \in dirs
  OBVIOUS
<1> HIDE DEF d, e
<1>4. e \in dirs /\ n \in Entries(e)
  BY <1>1, <1>2, <1>3, DirUp
<1>5. <<"zones", z>> \in dirs
  BY <1>1, <1>2, <1>4, DirUp
<1> QED
  BY <1>4, <1>5, ZoneWay DEF e

LEMMA MemberWay ==
    ASSUME TreeInv, NEW z \in Words, NEW n \in Words, NEW w \in {"hosts", "groups"},
           <<"zones", z, "networks", n, w>> \in dirs
    PROVE  /\ z \in Entries(<<"zones">>)
           /\ n \in Entries(<<"zones", z, "networks">>)
<1> DEFINE d == <<"zones", z, "networks", n, w>>
<1>1. Len(d) = 5
  OBVIOUS
<1>2. Front(d) = <<"zones", z, "networks", n>>
  <2>1. CASE w = "hosts"
    BY <2>1, FrontBelow
  <2>2. CASE w = "groups"
    BY <2>2, FrontBelow
  <2> QED
    BY <2>1, <2>2
<1>3. d \in dirs
  OBVIOUS
<1> HIDE DEF d
<1>4. <<"zones", z, "networks", n>> \in dirs
  BY <1>1, <1>2, <1>3, DirUp
<1> QED
  BY <1>4, NetWay

(* The directories the list opens. *)
NetsOf(z)      == Place(ZoneFile(z)) \o <<"networks">>
HostsOf(z, n)  == Place(NetFile(z, n)) \o <<"hosts">>
GroupsOf(z, n) == Place(NetFile(z, n)) \o <<"groups">>

LEMMA OpenedAre ==
    ASSUME NEW z \in Words, NEW n \in Words
    PROVE  /\ NetsOf(z) = <<"zones", z, "networks">>
           /\ HostsOf(z, n) = <<"zones", z, "networks", n, "hosts">>
           /\ GroupsOf(z, n) = <<"zones", z, "networks", n, "groups">>
<1>1. /\ Place(ZoneFile(z)) = <<"zones", z>>
      /\ Place(NetFile(z, n)) = <<"zones", z, "networks", n>>
  BY ZoneShape, NetShape
<1>2. /\ "zones" \in Words /\ "networks" \in Words /\ "hosts" \in Words /\ "groups" \in Words
  BY AWord
<1>3. <<"zones", z>> \o <<"networks">> = <<"zones", z, "networks">>
  BY <1>2, Append2
<1>4. /\ <<"zones", z, "networks", n>> \o <<"hosts">> = <<"zones", z, "networks", n, "hosts">>
      /\ <<"zones", z, "networks", n>> \o <<"groups">> = <<"zones", z, "networks", n, "groups">>
  BY <1>2, Append4
<1> QED
  BY <1>1, <1>3, <1>4 DEF NetsOf, HostsOf, GroupsOf

(* Every directory the list opens has the names on the way to an object    *)
(* that is there.                                                          *)
LEMMA OnTheWay ==
    ASSUME TreeInv, NEW o \in DOMAIN files, o \notin Flat
    PROVE  /\ o \in Paths /\ Spelled(o)
           /\ o[2] \in Entries(<<"zones">>)
           /\ Len(o) \in {5, 6} => o[4] \in Entries(NetsOf(o[2]))
           /\ Len(o) = 6 /\ o[5] = "hosts" => o[6] \in Entries(HostsOf(o[2], o[4]))
           /\ Len(o) = 6 /\ o[5] = "groups" => o[6] \in Entries(GroupsOf(o[2], o[4]))
<1>1. o \in Objects
  BY DEF TreeInv
<1>2. o \in Paths /\ Spelled(o)
  BY <1>1, ObjectIs, Spelling
<1>3. Front(o) \in dirs /\ Last(o) \in Entries(Front(o))
  BY FileUp
<1> DEFINE z == o[2]
<1> DEFINE n == o[4]
<1>4. z \in Words /\ Len(o) \in {3, 5, 6}
  BY <1>2, AWord DEF Spelled
<1>5. ASSUME Len(o) = 3 PROVE z \in Entries(<<"zones">>)
  <2>1. Front(o) = <<"zones", z>>
    BY <1>2, <1>4, <1>5, SpelledIs, FrontIs
  <2> QED
    BY <1>3, <1>4, <2>1, ZoneWay
<1>6. ASSUME Len(o) \in {5, 6} PROVE n \in Words /\ NetsOf(z) = <<"zones", z, "networks">>
  <2>1. n \in Words
    BY <1>2, <1>6, AWord DEF Spelled
  <2> HIDE DEF z, n
  <2> QED
    BY <1>4, <2>1, OpenedAre
<1>7. ASSUME Len(o) = 5 PROVE z \in Entries(<<"zones">>) /\ n \in Entries(NetsOf(z))
  <2>1. o = NetFile(z, n)
    BY <1>2, <1>7, SpelledIs
  <2>2. n \in Words /\ NetsOf(z) = <<"zones", z, "networks">>
    BY <1>6, <1>7
  <2> HIDE DEF z, n
  <2>3. Front(o) = <<"zones", z, "networks", n>>
    BY <1>4, <2>1, <2>2, FrontBelow
  <2> QED
    BY <1>3, <1>4, <2>2, <2>3, NetWay
<1>8. ASSUME Len(o) = 6, o[5] = "hosts"
      PROVE  /\ z \in Entries(<<"zones">>) /\ n \in Entries(NetsOf(z))
             /\ o[6] \in Entries(HostsOf(z, n))
  <2> DEFINE h == o[6]
  <2>1. o = HostFile(z, n, h) /\ h \in Words
    BY <1>2, <1>8, SpelledIs, AWord DEF Spelled
  <2>2. n \in Words /\ NetsOf(z) = <<"zones", z, "networks">>
    BY <1>6, <1>8
  <2>3. Last(o) = h
    BY <1>8 DEF Last
  <2> HIDE DEF z, n, h
  <2>4. Front(o) = <<"zones", z, "networks", n, "hosts">>
    BY <1>4, <2>1, <2>2, FrontBelow
  <2>5. HostsOf(z, n) = <<"zones", z, "networks", n, "hosts">>
    BY <1>4, <2>2, OpenedAre
  <2>6. z \in Entries(<<"zones">>) /\ n \in Entries(<<"zones", z, "networks">>)
    BY <1>3, <1>4, <2>2, <2>4, MemberWay
  <2> QED
    BY <1>3, <2>2, <2>3, <2>4, <2>5, <2>6 DEF h
<1>9. ASSUME Len(o) = 6, o[5] = "groups"
      PROVE  /\ z \in Entries(<<"zones">>) /\ n \in Entries(NetsOf(z))
             /\ o[6] \in Entries(GroupsOf(z, n))
  <2> DEFINE h == o[6]
  <2>1. o = GroupFile(z, n, h) /\ h \in Words
    BY <1>2, <1>9, SpelledIs, AWord DEF Spelled
  <2>2. n \in Words /\ NetsOf(z) = <<"zones", z, "networks">>
    BY <1>6, <1>9
  <2>3. Last(o) = h
    BY <1>9 DEF Last
  <2> HIDE DEF z, n, h
  <2>4. Front(o) = <<"zones", z, "networks", n, "groups">>
    BY <1>4, <2>1, <2>2, FrontBelow
  <2>5. GroupsOf(z, n) = <<"zones", z, "networks", n, "groups">>
    BY <1>4, <2>2, OpenedAre
  <2>6. z \in Entries(<<"zones">>) /\ n \in Entries(<<"zones", z, "networks">>)
    BY <1>3, <1>4, <2>2, <2>4, MemberWay
  <2> QED
    BY <1>3, <2>2, <2>3, <2>4, <2>5, <2>6 DEF h
<1>10. Len(o) = 6 => o[5] \in {"hosts", "groups"}
  BY <1>2 DEF Spelled
<1> QED
  BY <1>2, <1>4, <1>5, <1>7, <1>8, <1>9, <1>10

(* The objects the list still has to return are there, with their names.   *)
LEMMA StillThere ==
    ASSUME TreeInv, ListInv, at = "listing", NEW o \in always, o \notin Flat
    PROVE  /\ o \in DOMAIN files /\ Coming(o)
           /\ Len(o) = 3 => o = ZoneFile(o[2])
           /\ Len(o) = 5 => o = NetFile(o[2], o[4])
           /\ Len(o) = 6 => \/ o[5] = "hosts" /\ o = HostFile(o[2], o[4], o[6])
                            \/ o[5] = "groups" /\ o = GroupFile(o[2], o[4], o[6])
           /\ Len(o) \in {3, 5, 6}
           /\ Len(o) \in {5, 6} => o[4] \in Entries(NetsOf(o[2]))
           /\ Len(o) = 6 /\ o[5] = "hosts" => o[6] \in Entries(HostsOf(o[2], o[4]))
           /\ Len(o) = 6 /\ o[5] = "groups" => o[6] \in Entries(GroupsOf(o[2], o[4]))
<1>1. o \in DOMAIN files /\ Coming(o)
  BY DEF ListInv
<1>2. o \in Paths /\ Spelled(o)
  BY <1>1, OnTheWay
<1>3. /\ Len(o) \in {5, 6} => o[4] \in Entries(NetsOf(o[2]))
      /\ Len(o) = 6 /\ o[5] = "hosts" => o[6] \in Entries(HostsOf(o[2], o[4]))
      /\ Len(o) = 6 /\ o[5] = "groups" => o[6] \in Entries(GroupsOf(o[2], o[4]))
  BY <1>1, OnTheWay
<1>4. /\ Len(o) = 3 => o = ZoneFile(o[2])
      /\ Len(o) = 5 => o = NetFile(o[2], o[4])
      /\ Len(o) = 6 => \/ o[5] = "hosts" /\ o = HostFile(o[2], o[4], o[6])
                       \/ o[5] = "groups" /\ o = GroupFile(o[2], o[4], o[6])
  BY <1>2, SpelledIs
<1> QED
  BY <1>1, <1>2, <1>3, <1>4 DEF Spelled

(* A step of the list changes nothing on the disk and returns an object or *)
(* leaves its name, or that of a directory on the way, for later.          *)
LEMMA HostReturned ==
    ASSUME TreeInv, ListInv, NextHost, UNCHANGED always,
           NEW o \in always, o \notin Flat
    PROVE  Coming(o)'
<1>1. at = "listing"
  BY DEF NextHost
<1>2. /\ o \in DOMAIN files /\ Coming(o)
      /\ Len(o) = 6 => \/ o[5] = "hosts" /\ o = HostFile(o[2], o[4], o[6])
                       \/ o[5] = "groups" /\ o = GroupFile(o[2], o[4], o[6])
  BY <1>1, StillThere
<1>3. PICK h \in hostsLeft : /\ hostsLeft' = hostsLeft \ {h}
                            /\ listed' = listed \cup ({HostFile(curZone, curNet, h)} \cap DOMAIN files)
  BY DEF NextHost, Returned
<1>4. UNCHANGED <<zonesLeft, netsLeft, groupsLeft, curZone, curNet>>
  BY DEF NextHost
<1>5. CASE Len(o) = 6 /\ o[2] = curZone /\ o[4] = curNet /\ o[5] = "hosts" /\ o[6] = h
  <2>1. o = HostFile(curZone, curNet, h)
    BY <1>2, <1>5
  <2> QED
    BY <1>2, <1>3, <2>1 DEF Coming
<1>6. CASE ~(Len(o) = 6 /\ o[2] = curZone /\ o[4] = curNet /\ o[5] = "hosts" /\ o[6] = h)
  BY <1>2, <1>3, <1>4, <1>6 DEF Coming
<1> QED
  BY <1>5, <1>6

LEMMA GroupReturned ==
    ASSUME TreeInv, ListInv, NextGroup, UNCHANGED always,
           NEW o \in always, o \notin Flat
    PROVE  Coming(o)'
<1>1. at = "listing"
  BY DEF NextGroup
<1>2. /\ o \in DOMAIN files /\ Coming(o)
      /\ Len(o) = 6 => \/ o[5] = "hosts" /\ o = HostFile(o[2], o[4], o[6])
                       \/ o[5] = "groups" /\ o = GroupFile(o[2], o[4], o[6])
  BY <1>1, StillThere
<1>3. PICK g \in groupsLeft : /\ groupsLeft' = groupsLeft \ {g}
                             /\ listed' = listed \cup ({GroupFile(curZone, curNet, g)} \cap DOMAIN files)
  BY DEF NextGroup, Returned
<1>4. UNCHANGED <<zonesLeft, netsLeft, hostsLeft, curZone, curNet>>
  BY DEF NextGroup
<1>5. CASE Len(o) = 6 /\ o[2] = curZone /\ o[4] = curNet /\ o[5] = "groups" /\ o[6] = g
  <2>1. o = GroupFile(curZone, curNet, g)
    BY <1>2, <1>5
  <2> QED
    BY <1>2, <1>3, <2>1 DEF Coming
<1>6. CASE ~(Len(o) = 6 /\ o[2] = curZone /\ o[4] = curNet /\ o[5] = "groups" /\ o[6] = g)
  BY <1>2, <1>3, <1>4, <1>6 DEF Coming
<1> QED
  BY <1>5, <1>6

(* The directories below a network are opened before it is looked at.      *)
LEMMA NetworkReturned ==
    ASSUME TreeInv, ListInv, NextNetwork, UNCHANGED always,
           NEW o \in always, o \notin Flat
    PROVE  Coming(o)'
<1>1. at = "listing" /\ hostsLeft = {} /\ groupsLeft = {}
  BY DEF NextNetwork
<1>2. /\ o \in DOMAIN files /\ Coming(o)
      /\ Len(o) = 5 => o = NetFile(o[2], o[4])
      /\ Len(o) = 6 => o[5] \in {"hosts", "groups"}
      /\ Len(o) = 6 /\ o[5] = "hosts" => o[6] \in Entries(HostsOf(o[2], o[4]))
      /\ Len(o) = 6 /\ o[5] = "groups" => o[6] \in Entries(GroupsOf(o[2], o[4]))
  BY <1>1, StillThere
<1>3. PICK n \in netsLeft :
         /\ netsLeft' = netsLeft \ {n} /\ curNet' = n
         /\ hostsLeft' = Entries(HostsOf(curZone, n))
         /\ groupsLeft' = Entries(GroupsOf(curZone, n))
         /\ listed' = listed \cup ({NetFile(curZone, n)} \cap DOMAIN files)
  BY DEF NextNetwork, Returned, HostsOf, GroupsOf
<1>4. UNCHANGED <<zonesLeft, curZone>>
  BY DEF NextNetwork
<1>5. \/ o \in listed \/ o[2] \in zonesLeft
      \/ Len(o) \in {5, 6} /\ o[2] = curZone /\ o[4] \in netsLeft
  BY <1>1, <1>2 DEF Coming
<1>6. CASE Len(o) = 5 /\ o[2] = curZone /\ o[4] = n
  <2>1. o = NetFile(curZone, n)
    BY <1>2, <1>6
  <2> QED
    BY <1>2, <1>3, <2>1 DEF Coming
<1>7. CASE Len(o) = 6 /\ o[2] = curZone /\ o[4] = n
  BY <1>2, <1>3, <1>4, <1>7 DEF Coming
<1>8. CASE ~(Len(o) \in {5, 6} /\ o[2] = curZone /\ o[4] = n)
  BY <1>3, <1>4, <1>5, <1>8 DEF Coming
<1> QED
  BY <1>6, <1>7, <1>8

LEMMA ZoneReturned ==
    ASSUME TreeInv, ListInv, NextZone, UNCHANGED always,
           NEW o \in always, o \notin Flat
    PROVE  Coming(o)'
<1>1. at = "listing" /\ hostsLeft = {} /\ groupsLeft = {} /\ netsLeft = {}
  BY DEF NextZone
<1>2. /\ o \in DOMAIN files /\ Coming(o)
      /\ Len(o) \in {3, 5, 6}
      /\ Len(o) = 3 => o = ZoneFile(o[2])
      /\ Len(o) \in {5, 6} => o[4] \in Entries(NetsOf(o[2]))
  BY <1>1, StillThere
<1>3. PICK z \in zonesLeft :
         /\ zonesLeft' = zonesLeft \ {z} /\ curZone' = z
         /\ netsLeft' = Entries(NetsOf(z))
         /\ listed' = listed \cup ({ZoneFile(z)} \cap DOMAIN files)
  BY DEF NextZone, Returned, NetsOf
<1>4. o \in listed \/ o[2] \in zonesLeft
  BY <1>1, <1>2 DEF Coming
<1>5. CASE o[2] = z /\ Len(o) = 3
  <2>1. o = ZoneFile(z)
    BY <1>2, <1>5
  <2> QED
    BY <1>2, <1>3, <2>1 DEF Coming
<1>6. CASE o[2] = z /\ Len(o) \in {5, 6}
  BY <1>2, <1>3, <1>6 DEF Coming
<1>7. CASE o[2] # z
  BY <1>3, <1>4, <1>7 DEF Coming
<1> QED
  BY <1>2, <1>5, <1>6, <1>7

LEMMA StepList ==
    ASSUME TreeInv, ListInv, [ListNext]_allvars
    PROVE  ListInv'
<1>1. CASE UNCHANGED allvars
  BY <1>1 DEF allvars, lvars, vars, disk, ListInv, Coming
<1>2. CASE Next /\ always' = always \cap DOMAIN files' /\ UNCHANGED lvars
  BY <1>2 DEF lvars, ListInv, Coming
<1>3. CASE BeginList /\ UNCHANGED vars
  <2>1. at' = "listing" /\ zonesLeft' = Entries(<<"zones">>) /\ always' = DOMAIN files
        /\ files' = files
    BY <1>3 DEF BeginList, vars, disk
  <2>2. \A o \in DOMAIN files \ Flat : o[2] \in Entries(<<"zones">>)
    BY OnTheWay
  <2> QED
    BY <2>1, <2>2 DEF ListInv, Coming
<1>4. CASE (NextHost \/ NextGroup \/ NextNetwork \/ NextZone) /\ UNCHANGED always /\ UNCHANGED vars
  <2>1. at = "listing" /\ at' = at /\ files' = files /\ always' = always
    BY <1>4 DEF NextHost, NextGroup, NextNetwork, NextZone, vars, disk
  <2>2. ASSUME NEW o \in always, o \notin Flat PROVE Coming(o)'
    BY <1>4, <2>2, HostReturned, GroupReturned, NetworkReturned, ZoneReturned
  <2>3. always \subseteq DOMAIN files
    BY <2>1 DEF ListInv
  <2> QED
    BY <2>1, <2>2, <2>3 DEF ListInv
<1>5. CASE EndList /\ UNCHANGED always
  <2>1. /\ at = "listing" /\ at' = "done" /\ listed' = listed /\ always' = always
        /\ hostsLeft = {} /\ groupsLeft = {} /\ netsLeft = {} /\ zonesLeft = {}
    BY <1>5 DEF EndList
  <2>2. \A o \in always \ Flat : o \in listed
    BY <2>1 DEF ListInv, Coming
  <2> QED
    BY <2>1, <2>2 DEF ListInv
<1> QED
  BY <1>1, <1>2, <1>3, <1>4, <1>5 DEF ListNext, Lists

-----------------------------------------------------------------------------
(* The theorems.                                                           *)

(* The list changes nothing in the backend. *)
LEMMA StepBackend ==
    ASSUME BackendInv, [ListNext]_allvars
    PROVE  BackendInv' /\ [Next]_vars
<1>1. [Next]_vars
  BY DEF ListNext, allvars
<1> QED
  BY <1>1, StepPlan, StepTree DEF BackendInv

(* Whatever programs do to the textdir, and wherever a call fails or a     *)
(* program dies, the files stay objects, and every file and every          *)
(* directory but the four at the top stays in a directory that is there:   *)
(* nothing is ever cut off from the tree the programs walk.                *)
THEOREM TreeTheorem == Spec => []BackendInv
<1>1. Init => BackendInv
  BY InitTree DEF BackendInv
<1>2. BackendInv /\ [Next]_vars => BackendInv'
  BY StepPlan, StepTree DEF BackendInv
<1> QED
  BY <1>1, <1>2, PTL DEF Spec

(* A list is complete: a zone, network, host or group that was there all   *)
(* the time while it was read is in it, whatever other programs added,     *)
(* deleted and renamed around it, in whatever order the names came.        *)
THEOREM CompleteTheorem == ListSpec => []ListComplete
<1>1. ListInit => BackendInv /\ ListInv
  BY InitTree DEF ListInit, BackendInv, ListInv
<1>2. BackendInv /\ ListInv /\ [ListNext]_allvars => (BackendInv /\ ListInv)'
  BY StepBackend, StepList DEF BackendInv
<1>3. ListInv => ListComplete
  BY DEF ListInv, ListComplete
<1> QED
  BY <1>1, <1>2, <1>3, PTL DEF ListSpec

(* All answers of a loop come from the file of the object it asks about,   *)
(* even if the same program left a loop over another object half-way and   *)
(* the backend has that file open: before the loop there was a question    *)
(* for one value.  Rules and blocklist, for which there is none, are left  *)
(* out after such a loop.                                                  *)
THEOREM LoopsTheorem == ListSpec => []LoopsStayInTheirFile
<1>1. ListInit => BackendInv
  BY InitTree DEF ListInit, BackendInv
<1>2. BackendInv /\ [ListNext]_allvars => BackendInv'
  BY StepBackend
<1>3. BackendInv => LoopsStayInTheirFile
  BY DEF BackendInv, LoopInv, LoopsStayInTheirFile
<1> QED
  BY <1>1, <1>2, <1>3, PTL DEF ListSpec
=============================================================================

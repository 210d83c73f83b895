-------------------------- MODULE ReloadObjects_proofs --------------------------
(* Proofs about ReloadObjects: its types, that dependents notice, and that an
   undisturbed reload leaves the daemon in agreement with the backend. *)
EXTENDS ReloadObjects, TLAPS

(* Categories are sets of objects, and only networks and groups refer to any. *)
LEMMA CategoryLemma ==
    /\ \A p : Category(p) \subseteq Objects
    /\ Category("services") = Services
    /\ Category("interfaces") = Ifaces
    /\ Category("zones") = ZoneData
    /\ \A p : p \notin {"services", "interfaces", "zones"} => Category(p) = {}
  BY DEF Category, Objects

LEMMA RefsLemma ==
    /\ \A o : RefsOf(o) \subseteq Objects
    /\ \A o \in Services \cup Ifaces \cup Zones \cup Hosts : RefsOf(o) = {}
    /\ \A o \in Groups : RefsOf(o) \subseteq ZoneData
  BY ObjectsAssumption DEF RefsOf, Objects, ZoneData, Children, Members

(* What is read from disk is data that refers to known objects only. *)
LEMMA ReadIsData ==
    ASSUME NEW o \in Objects, backend[o] \in Row,
           device \in [Ifaces -> Keys \cup {NoKey}]
    PROVE  Read(o) \in Data
  <1>1. (IF o \in Dynamic THEN device[o] ELSE backend[o].key) \in Keys \cup {NoKey}
    BY ObjectsAssumption DEF Row
  <1>2. backend[o].refs \cap known \in SUBSET Objects
    BY DEF Row
  <1>3. /\ backend[o].active \in BOOLEAN
        /\ backend[o].extra \in Extras
        /\ (o \in Ifaces /\ device[o] # NoKey) \in BOOLEAN
    BY DEF Row
  <1>4. QED
    BY <1>1, <1>2, <1>3 DEF Read, Data

LEMMA ReadLemma ==
    ASSUME TypeOK, NEW o \in Objects
    PROVE  Read(o) \in Data /\ Read(o).refs \subseteq RefsOf(o) \cap known
  <1>1. backend[o] \in Row /\ backend[o].refs \subseteq RefsOf(o)
    BY DEF TypeOK
  <1>2. Read(o) \in Data
    BY <1>1, ReadIsData DEF TypeOK
  <1>3. Read(o).refs = backend[o].refs \cap known
    BY DEF Read
  <1>4. QED
    BY <1>1, <1>2, <1>3

LEMMA ActiveIfLemma ==
    ASSUME NEW d \in Data, NEW ok \in BOOLEAN
    PROVE  ActiveIf(d, ok) \in Data /\ ActiveIf(d, ok).refs = d.refs
  BY DEF ActiveIf, Data

(* Checking changes nothing but active. *)
LEMMA CheckedLemma ==
    ASSUME NEW m \in [Objects -> Data], NEW s
    PROVE  /\ Checked(m, s) \in [Objects -> Data]
           /\ \A o \in Objects : Checked(m, s)[o].refs = m[o].refs
  <1>1. ASSUME NEW o \in Objects
        PROVE  /\ ActiveIf(m[o], CheckOk(o, m[o], m)) \in Data
               /\ ActiveIf(m[o], CheckOk(o, m[o], m)).refs = m[o].refs
    <2>1. m[o] \in Data /\ CheckOk(o, m[o], m) \in BOOLEAN
      BY DEF CheckOk
    <2>2. QED
      BY <2>1, ActiveIfLemma
  <1>2. QED
    BY <1>1 DEF Checked

(* At the start everything that is on disk has been read. *)
THEOREM InitType == Init => TypeOK
  <1> SUFFICES ASSUME Init PROVE TypeOK
    OBVIOUS
  <1>1. backend \in [Objects -> Row] /\ \A o \in Objects : backend[o].refs \subseteq RefsOf(o)
    BY ObjectsAssumption DEF Init
  <1>2. device \in [Ifaces -> Keys \cup {NoKey}] /\ known \subseteq Objects
    BY ObjectsAssumption DEF Init
  <1>3. [o \in Objects |-> Read(o)] \in [Objects -> Data]
    <2>1. ASSUME NEW o \in Objects PROVE Read(o) \in Data
      BY <1>1, <1>2, ReadIsData
    <2>2. QED
      BY <2>1
  <1>4. mem \in [Objects -> Data]
    BY <1>3, CheckedLemma DEF Init, Loaded
  <1>5. status \in [Objects -> Statuses] /\ phase \in Phases /\ watch \in BOOLEAN
    BY DEF Init, Statuses, Phases
  <1>6. pending \subseteq Objects /\ visited \subseteq Objects
    BY DEF Init
  <1>7. edits \in 0..MaxEdits /\ quiet \in BOOLEAN /\ calm \in 0..2
    BY ObjectsAssumption DEF Init
  <1>8. QED
    BY <1>1, <1>2, <1>4, <1>5, <1>6, <1>7 DEF TypeOK

(* At the start nothing has been touched. *)
THEOREM InitDependents == Init => DependentsInv
  <1> SUFFICES ASSUME Init PROVE DependentsInv
    OBVIOUS
  <1>1. TypeOK
    BY InitType
  <1>2. \A o \in Objects : mem[o].refs = Read(o).refs
    <2>1. [o \in Objects |-> Read(o)] \in [Objects -> Data]
      BY <1>1, ReadLemma
    <2>2. QED
      BY <2>1, CheckedLemma DEF Init, Loaded
  <1>3. RefsAreKnown
    BY <1>1, <1>2, ReadLemma DEF RefsAreKnown, TypeOK
  <1>4. VisitedIsKnown /\ UnvisitedIsUntouched /\ KeptHasKeptRefs
    BY DEF Init, VisitedIsKnown, UnvisitedIsUntouched, KeptHasKeptRefs
  <1>5. QED
    BY <1>1, <1>3, <1>4 DEF DependentsInv

(***************************************************************************)
(* Every step keeps the types.                                             *)
(***************************************************************************)
LEMMA EnterType ==
    ASSUME TypeOK, NEW p \in Phases, NEW st \in [Objects -> Statuses], EnterCategory(p, st)
    PROVE  /\ phase' \in Phases /\ status' \in [Objects -> Statuses]
           /\ pending' \subseteq Objects /\ visited' \subseteq Objects /\ watch' \in BOOLEAN
  <1>1. phase' \in Phases /\ visited' \subseteq Objects /\ watch' \in BOOLEAN
    BY DEF EnterCategory, TypeOK
  <1>2. pending' \subseteq Objects
    BY CategoryLemma DEF EnterCategory
  <1>3. status' \in [Objects -> Statuses]
    BY DEF EnterCategory, Statuses
  <1>4. QED
    BY <1>1, <1>2, <1>3

LEMMA SettledType == TypeOK => [o \in Objects |-> Settled(o)] \in [Objects -> Statuses]
  BY DEF TypeOK, Settled, Statuses

LEMMA NextPhaseType == Reloading => NextPhase \in {"interfaces", "zones", "done"}
  BY DEF Reloading, NextPhase

LEMMA ListedType ==
    ASSUME TypeOK, NEW o \in Objects, Listed(o)
    PROVE  pending' \subseteq Objects /\ visited' \subseteq Objects /\ watch' \in BOOLEAN
  BY DEF TypeOK, Listed

LEMMA NewStatusType ==
    ASSUME NEW o, NEW d
    PROVE  NewStatus(o, d) \in {"activated", "deactivated", "changed", "keep"}
  BY DEF NewStatus

LEMMA ReloadStepType ==
    ASSUME TypeOK,
           Start \/ Leave \/ \E o \in Objects : AddFails(o) \/ CompareFails(o) \/ Skip(o)
    PROVE  TypeOK'
  <1>1. CASE Start
    <2>1. "services" \in Phases /\ status \in [Objects -> Statuses]
      BY DEF Phases, TypeOK
    <2>2. /\ phase' \in Phases /\ status' \in [Objects -> Statuses]
          /\ pending' \subseteq Objects /\ visited' \subseteq Objects /\ watch' \in BOOLEAN
      BY <1>1, <2>1, EnterType DEF Start
    <2>3. QED
      BY <1>1, <2>2 DEF Start, TypeOK, world
  <1>2. CASE Leave
    <2>1. NextPhase \in Phases
      BY <1>2, NextPhaseType DEF Leave, Phases
    <2>2. /\ phase' \in Phases /\ status' \in [Objects -> Statuses]
          /\ pending' \subseteq Objects /\ visited' \subseteq Objects /\ watch' \in BOOLEAN
      BY <1>2, <2>1, EnterType, SettledType DEF Leave
    <2>3. calm' \in 0..2
      BY <1>2 DEF Leave, TypeOK
    <2>4. QED
      BY <1>2, <2>2, <2>3 DEF Leave, TypeOK, world
  <1>3. ASSUME NEW o \in Objects, AddFails(o) PROVE TypeOK'
    BY <1>3 DEF AddFails, TypeOK, Phases, world
  <1>4. ASSUME NEW o \in Objects, CompareFails(o) PROVE TypeOK'
    <2>1. status' \in [Objects -> Statuses]
      BY <1>4 DEF CompareFails, TypeOK, Statuses
    <2>2. pending' \subseteq Objects /\ visited' \subseteq Objects /\ watch' \in BOOLEAN
      BY <1>4, ListedType DEF CompareFails
    <2>3. QED
      BY <1>4, <2>1, <2>2 DEF CompareFails, TypeOK, world, history
  <1>5. ASSUME NEW o \in Objects, Skip(o) PROVE TypeOK'
    BY <1>5 DEF Skip, TypeOK, world, history
  <1>6. QED
    BY <1>1, <1>2, <1>3, <1>4, <1>5

LEMMA AddType == ASSUME TypeOK, NEW o \in Objects, Add(o) PROVE TypeOK'
  <1>1. ActiveIf(Read(o), o \in Groups \/ CheckOk(o, Read(o), mem)) \in Data
    <2>1. (o \in Groups \/ CheckOk(o, Read(o), mem)) \in BOOLEAN
      OBVIOUS
    <2>2. QED
      BY <2>1, ReadLemma, ActiveIfLemma
  <1>2. mem' \in [Objects -> Data]
    BY <1>1 DEF Add, TypeOK
  <1>3. status' \in [Objects -> Statuses]
    BY DEF Add, TypeOK, Statuses
  <1>4. pending' \subseteq Objects /\ visited' \subseteq Objects /\ watch' \in BOOLEAN
    BY ListedType DEF Add
  <1>5. known' \subseteq Objects
    BY DEF Add, TypeOK
  <1>6. QED
    BY <1>2, <1>3, <1>4, <1>5 DEF Add, TypeOK, world, history

(* What Compare copies: the data that were read, but for active. *)
LEMMA CompareCopies ==
    ASSUME TypeOK, NEW o \in Objects, Compare(o)
    PROVE  \/ mem' = mem /\ NewStatus(o, Read(o)) = "keep"
           \/ /\ NewStatus(o, Read(o)) # "keep"
              /\ \E d \in Data : d.refs = Read(o).refs /\ mem' = [mem EXCEPT ![o] = d]
  <1> DEFINE d == ActiveIf(Read(o), o \in Zones \/ CheckOk(o, Read(o), mem))
  <1>1. d \in Data /\ d.refs = Read(o).refs
    <2>1. (o \in Zones \/ CheckOk(o, Read(o), mem)) \in BOOLEAN
      OBVIOUS
    <2>2. QED
      BY <2>1, ReadLemma, ActiveIfLemma
  <1>2. IF NewStatus(o, Read(o)) \in Copied THEN mem' = [mem EXCEPT ![o] = d] ELSE mem' = mem
    BY DEF Compare
  <1>3. NewStatus(o, Read(o)) \in Copied <=> NewStatus(o, Read(o)) # "keep"
    BY NewStatusType DEF Copied
  <1> HIDE DEF d
  <1>4. QED
    BY <1>1, <1>2, <1>3

LEMMA CompareType == ASSUME TypeOK, NEW o \in Objects, Compare(o) PROVE TypeOK'
  <1>1. mem' \in [Objects -> Data]
    BY CompareCopies DEF TypeOK
  <1>2. status' \in [Objects -> Statuses]
    <2>1. NewStatus(o, Read(o)) \in Statuses
      BY NewStatusType DEF Statuses
    <2>2. status' = [status EXCEPT ![o] = NewStatus(o, Read(o))]
      BY DEF Compare
    <2>3. QED
      BY <2>1, <2>2 DEF TypeOK
  <1>3. pending' \subseteq Objects /\ visited' \subseteq Objects /\ watch' \in BOOLEAN
    BY ListedType DEF Compare
  <1>4. QED
    BY <1>1, <1>2, <1>3 DEF Compare, TypeOK, world, history

(* The files that an edit may leave. *)
LEMMA RewrittenType ==
    ASSUME TypeOK, NEW o \in Objects, NEW b \in Rewritten(o)
    PROVE  b \in Row /\ b.refs \subseteq RefsOf(o)
  <1>1. backend[o] \in Row /\ backend[o].refs \subseteq RefsOf(o)
    BY DEF TypeOK
  <1>2. CASE b = [backend[o] EXCEPT !.active = ~@] \/ b = [backend[o] EXCEPT !.readable = ~@]
    BY <1>1, <1>2 DEF Row
  <1>3. CASE \E k \in Keys \cup {NoKey} : b = [backend[o] EXCEPT !.key = k]
    BY <1>1, <1>3 DEF Row
  <1>4. CASE \E e \in Extras : b = [backend[o] EXCEPT !.extra = e]
    BY <1>1, <1>4 DEF Row
  <1>5. CASE \E r \in SUBSET RefsOf(o) : b = [backend[o] EXCEPT !.refs = r]
    <2>1. PICK r \in SUBSET RefsOf(o) : b = [backend[o] EXCEPT !.refs = r]
      BY <1>5
    <2>2. r \in SUBSET Objects
      BY RefsLemma
    <2>3. QED
      BY <1>1, <2>1, <2>2 DEF Row
  <1>6. QED
    BY <1>2, <1>3, <1>4, <1>5 DEF Rewritten

LEMMA WorldType ==
    ASSUME TypeOK,
           \/ \E o \in Objects : Edit(o) \/ Create(o) \/ Delete(o)
           \/ \E i \in Ifaces : Replug(i)
    PROVE  TypeOK' /\ UNCHANGED daemon
  <1>1. ASSUME Edited PROVE edits' \in 0..MaxEdits /\ quiet' \in BOOLEAN /\ calm' \in 0..2
    <2>1. edits \in 0..MaxEdits /\ MaxEdits \in Nat
      BY ObjectsAssumption DEF TypeOK
    <2>2. edits < MaxEdits /\ edits' = edits + 1 /\ quiet' = FALSE /\ calm' = 0
      BY <1>1 DEF Edited
    <2>3. edits' \in 0..MaxEdits
      BY <2>1, <2>2
    <2>4. calm' \in 0..2
      BY <2>2
    <2>5. quiet' \in BOOLEAN
      BY <2>2
    <2>6. QED
      BY <2>3, <2>4, <2>5
  <1>2. ASSUME NEW o \in Objects, Edit(o) PROVE TypeOK' /\ UNCHANGED daemon
    <2>1. PICK b \in Rewritten(o) : backend' = [backend EXCEPT ![o] = b]
      BY <1>2 DEF Edit
    <2>2. b \in Row /\ b.refs \subseteq RefsOf(o)
      BY RewrittenType
    <2>3. QED
      BY <1>1, <1>2, <2>1, <2>2 DEF Edit, TypeOK, daemon
  <1>3. ASSUME NEW o \in Objects, NEW t \in BOOLEAN,
               backend' = [backend EXCEPT ![o].there = t]
        PROVE  /\ backend' \in [Objects -> Row]
               /\ \A q \in Objects : backend'[q].refs \subseteq RefsOf(q)
    <2>1. [backend[o] EXCEPT !.there = t] \in Row
      BY DEF TypeOK, Row
    <2>2. [backend[o] EXCEPT !.there = t].refs = backend[o].refs
      BY DEF TypeOK, Row
    <2>3. backend' = [backend EXCEPT ![o] = [backend[o] EXCEPT !.there = t]]
      BY <1>3
    <2>4. QED
      BY <2>1, <2>2, <2>3 DEF TypeOK
  <1>4. ASSUME NEW o \in Objects, Create(o) PROVE TypeOK' /\ UNCHANGED daemon
    BY <1>1, <1>3, <1>4 DEF Create, TypeOK, daemon
  <1>5. ASSUME NEW o \in Objects, Delete(o) PROVE TypeOK' /\ UNCHANGED daemon
    BY <1>1, <1>3, <1>5 DEF Delete, TypeOK, daemon
  <1>6. ASSUME NEW i \in Ifaces, Replug(i) PROVE TypeOK' /\ UNCHANGED daemon
    BY <1>1, <1>6 DEF Replug, TypeOK, daemon
  <1>7. QED
    BY <1>2, <1>4, <1>5, <1>6

LEMMA NextType == TypeOK /\ [Next]_vars => TypeOK'
  <1> SUFFICES ASSUME TypeOK, [Next]_vars PROVE TypeOK'
    OBVIOUS
  <1>1. CASE UNCHANGED vars
    BY <1>1 DEF TypeOK, vars, world, daemon, history
  <1>2. CASE Next
    BY <1>2, ReloadStepType, AddType, CompareType, WorldType DEF Next
  <1>3. QED
    BY <1>1, <1>2

(* The variables of the reload keep their types, whatever objects there are and
   however often the backend is edited. *)
THEOREM TypeTheorem == Spec => []TypeOK
  <1>1. Init => TypeOK
    BY InitType
  <1>2. QED
    BY <1>1, NextType, PTL DEF Spec

(***************************************************************************)
(* Dependents notice.  While zones are compared, what has not been visited *)
(* is untouched: so a group that was kept looked at members that had been  *)
(* visited, whose status will not change any more.                         *)
(***************************************************************************)
LEMMA DependentsHold == DependentsInv => DependentsNotice
  <1> SUFFICES ASSUME DependentsInv, phase = "done", NEW o \in known, status[o] = "keep",
                      NEW r \in mem[o].refs
               PROVE  status[r] = "keep"
    BY DEF DependentsNotice
  <1>1. o \in Objects /\ mem[o].refs \subseteq RefsOf(o)
    BY DEF DependentsInv, TypeOK, RefsAreKnown
  <1>2. o \in ZoneData
    BY <1>1, RefsLemma DEF Objects
  <1>3. QED
    BY <1>2 DEF DependentsInv, KeptHasKeptRefs

(* A world that changes leaves the daemon as it is. *)
LEMMA WorldKeeps ==
    ASSUME DependentsInv, TypeOK', UNCHANGED daemon
    PROVE  DependentsInv'
  <1>1. RefsAreKnown' /\ VisitedIsKnown'
    BY DEF DependentsInv, RefsAreKnown, VisitedIsKnown, daemon
  <1>2. UnvisitedIsUntouched' /\ KeptHasKeptRefs'
    BY DEF DependentsInv, UnvisitedIsUntouched, KeptHasKeptRefs, daemon
  <1>3. QED
    BY <1>1, <1>2 DEF DependentsInv

LEMMA StartKeeps == ASSUME DependentsInv, TypeOK', Start PROVE DependentsInv'
  <1>1. phase' = "services" /\ visited' = {} /\ UNCHANGED <<known, mem>>
    BY DEF Start, EnterCategory
  <1>2. RefsAreKnown' /\ VisitedIsKnown' /\ UnvisitedIsUntouched' /\ KeptHasKeptRefs'
    BY <1>1 DEF DependentsInv, RefsAreKnown, VisitedIsKnown, UnvisitedIsUntouched,
                KeptHasKeptRefs
  <1>3. QED
    BY <1>2 DEF DependentsInv

LEMMA LeaveKeeps == ASSUME DependentsInv, TypeOK', Leave PROVE DependentsInv'
  <1>1. /\ phase' = NextPhase /\ visited' = {} /\ UNCHANGED <<known, mem>>
        /\ known \subseteq Objects
        /\ status' = [o \in Objects |->
                        IF o \in Category(NextPhase) \cap known THEN "untouched"
                        ELSE [q \in Objects |-> Settled(q)][o]]
    BY DEF Leave, EnterCategory, DependentsInv, TypeOK
  <1>2. RefsAreKnown' /\ VisitedIsKnown'
    BY <1>1 DEF DependentsInv, RefsAreKnown, VisitedIsKnown
  <1>3. CASE phase = "services"
    <2>1. phase' = "interfaces"
      BY <1>1, <1>3 DEF NextPhase
    <2>2. QED
      BY <1>2, <2>1 DEF DependentsInv, UnvisitedIsUntouched, KeptHasKeptRefs
  <1>4. CASE phase = "interfaces"
    <2>1. phase' = "zones"
      BY <1>1, <1>4 DEF NextPhase
    <2>2. \A o \in known \cap ZoneData : status'[o] = "untouched"
      BY <1>1, <2>1, CategoryLemma
    <2>3. QED
      BY <1>1, <1>2, <2>1, <2>2 DEF DependentsInv, UnvisitedIsUntouched, KeptHasKeptRefs
  <1>5. CASE phase = "zones"
    <2>1. phase' = "done"
      BY <1>1, <1>5 DEF NextPhase
    <2>2. \A o \in Objects : status'[o] = "keep" <=> status[o] = "keep"
      BY <1>1, <2>1, CategoryLemma DEF Settled
    <2>3. \A o \in known : mem[o].refs \subseteq Objects
      BY <1>1 DEF DependentsInv, RefsAreKnown
    <2>4. KeptHasKeptRefs'
      BY <1>1, <1>5, <2>2, <2>3 DEF DependentsInv, KeptHasKeptRefs
    <2>5. QED
      BY <1>2, <2>1, <2>4 DEF DependentsInv, UnvisitedIsUntouched
  <1>6. QED
    BY <1>3, <1>4, <1>5 DEF Leave, Reloading

LEMMA AddFailsKeeps ==
    ASSUME DependentsInv, TypeOK', NEW o \in Objects, AddFails(o) PROVE DependentsInv'
  <1>1. phase' = "failed" /\ visited' = {} /\ UNCHANGED <<known, mem>>
    BY DEF AddFails
  <1>2. RefsAreKnown' /\ VisitedIsKnown' /\ UnvisitedIsUntouched' /\ KeptHasKeptRefs'
    BY <1>1 DEF DependentsInv, RefsAreKnown, VisitedIsKnown, UnvisitedIsUntouched,
                KeptHasKeptRefs
  <1>3. QED
    BY <1>2 DEF DependentsInv

LEMMA SkipKeeps ==
    ASSUME DependentsInv, TypeOK', NEW o \in Objects, Skip(o) PROVE DependentsInv'
  <1>1. UNCHANGED <<known, mem, status, phase, visited>>
    BY DEF Skip
  <1>2. RefsAreKnown' /\ VisitedIsKnown' /\ UnvisitedIsUntouched' /\ KeptHasKeptRefs'
    BY <1>1 DEF DependentsInv, RefsAreKnown, VisitedIsKnown, UnvisitedIsUntouched,
                KeptHasKeptRefs
  <1>3. QED
    BY <1>2 DEF DependentsInv

(* A name that was listed: it was not visited before, and is now. *)
LEMMA VisitKeeps ==
    ASSUME DependentsInv, NEW o \in Objects, MayList(o), Listed(o), UNCHANGED phase,
           known' = known \cup {o}, NEW s, status' = [status EXCEPT ![o] = s]
    PROVE  VisitedIsKnown' /\ UnvisitedIsUntouched'
  <1>1. visited' = visited \cup {o} /\ o \in Category(phase)
    BY DEF Listed, MayList
  <1>2. status \in [Objects -> Statuses] /\ known \subseteq Objects
    BY DEF DependentsInv, TypeOK
  <1>3. VisitedIsKnown'
    BY <1>1 DEF DependentsInv, VisitedIsKnown
  <1>4. UnvisitedIsUntouched'
    BY <1>1, <1>2 DEF DependentsInv, UnvisitedIsUntouched
  <1>5. QED
    BY <1>3, <1>4

(* What was kept in the zones does not refer to what is still to be listed. *)
LEMMA KeptRefsAreVisited ==
    ASSUME DependentsInv, NEW o \in Objects, MayList(o), phase = "zones",
           NEW q \in known \cap ZoneData, status[q] = "keep"
    PROVE  o \notin mem[q].refs /\ \A r \in mem[q].refs : status[r] = "keep"
  <1>1. \A r \in mem[q].refs : status[r] = "keep"
    BY DEF DependentsInv, KeptHasKeptRefs
  <1>2. mem[q].refs \subseteq known
    BY DEF DependentsInv, RefsAreKnown
  <1>3. o \in ZoneData /\ o \notin visited
    BY CategoryLemma DEF MayList
  <1>4. o \in known => status[o] = "untouched"
    BY <1>3 DEF DependentsInv, UnvisitedIsUntouched
  <1>5. QED
    BY <1>1, <1>2, <1>4

LEMMA AddKeeps ==
    ASSUME DependentsInv, TypeOK', NEW o \in Objects, Add(o) PROVE DependentsInv'
  <1> DEFINE d == ActiveIf(Read(o), o \in Groups \/ CheckOk(o, Read(o), mem))
  <1>1. TypeOK /\ mem \in [Objects -> Data] /\ known \subseteq Objects
    BY DEF DependentsInv, TypeOK
  <1>2. /\ o \notin known /\ MayList(o) /\ Listed(o) /\ UNCHANGED phase
        /\ known' = known \cup {o}
        /\ mem' = [mem EXCEPT ![o] = d]
        /\ status' = [status EXCEPT ![o] = IF o \in Services THEN "keep" ELSE "added"]
    BY DEF Add
  <1>3. d.refs \subseteq RefsOf(o) \cap known
    <2>1. (o \in Groups \/ CheckOk(o, Read(o), mem)) \in BOOLEAN
      OBVIOUS
    <2>2. QED
      BY <1>1, <2>1, ReadLemma, ActiveIfLemma
  <1> HIDE DEF d
  <1>4. RefsAreKnown'
    BY <1>1, <1>2, <1>3 DEF DependentsInv, RefsAreKnown
  <1>5. VisitedIsKnown' /\ UnvisitedIsUntouched'
    BY <1>2, VisitKeeps
  <1>6. KeptHasKeptRefs'
    <2>1. phase' # "done" /\ (phase' = "zones" => o \in ZoneData)
      BY <1>2, CategoryLemma DEF MayList, Reloading
    <2>2. ASSUME phase' = "zones", NEW q \in known' \cap ZoneData, status'[q] = "keep"
          PROVE  \A r \in mem'[q].refs : status'[r] = "keep"
      <3>1. status'[o] = "added"
        BY <1>2, <2>1, <2>2, ObjectsAssumption DEF DependentsInv, TypeOK
      <3>2. q # o /\ q \in known /\ status[q] = "keep" /\ mem'[q] = mem[q]
        BY <1>1, <1>2, <2>2, <3>1 DEF DependentsInv, TypeOK
      <3>3. o \notin mem[q].refs /\ \A r \in mem[q].refs : status[r] = "keep"
        BY <1>2, <2>2, <3>2, KeptRefsAreVisited
      <3>4. mem[q].refs \subseteq Objects
        BY <1>1, <3>2 DEF DependentsInv, RefsAreKnown
      <3>5. QED
        BY <1>2, <3>2, <3>3, <3>4 DEF DependentsInv, TypeOK
    <2>3. QED
      BY <2>1, <2>2 DEF KeptHasKeptRefs
  <1>7. QED
    BY <1>4, <1>5, <1>6 DEF DependentsInv

LEMMA CompareFailsKeeps ==
    ASSUME DependentsInv, TypeOK', NEW o \in Objects, CompareFails(o) PROVE DependentsInv'
  <1>1. /\ o \in known /\ MayList(o) /\ Listed(o) /\ UNCHANGED <<known, mem, phase>>
        /\ status' = [status EXCEPT ![o] = "removed"]
    BY DEF CompareFails
  <1>2. RefsAreKnown'
    BY <1>1 DEF DependentsInv, RefsAreKnown
  <1>3. known' = known \cup {o}
    BY <1>1
  <1>4. VisitedIsKnown' /\ UnvisitedIsUntouched'
    BY <1>1, <1>3, VisitKeeps
  <1>5. KeptHasKeptRefs'
    <2>1. phase' # "done"
      BY <1>1 DEF MayList, Reloading
    <2>2. ASSUME phase' = "zones", NEW q \in known' \cap ZoneData, status'[q] = "keep"
          PROVE  \A r \in mem'[q].refs : status'[r] = "keep"
      <3>1. q \in known \cap ZoneData /\ q \in Objects /\ mem' = mem
        BY <1>1, <2>2 DEF DependentsInv, TypeOK
      <3>2. q # o /\ status[q] = "keep"
        BY <1>1, <2>2, <3>1 DEF DependentsInv, TypeOK
      <3>3. o \notin mem[q].refs /\ \A r \in mem[q].refs : status[r] = "keep"
        BY <1>1, <2>2, <3>1, <3>2, KeptRefsAreVisited
      <3>4. mem[q].refs \subseteq Objects
        BY <3>1 DEF DependentsInv, RefsAreKnown, TypeOK
      <3>5. QED
        BY <1>1, <3>1, <3>3, <3>4 DEF DependentsInv, TypeOK
    <2>3. QED
      BY <2>1, <2>2 DEF KeptHasKeptRefs
  <1>6. QED
    BY <1>2, <1>4, <1>5 DEF DependentsInv

(* An object that is kept looked at the status of everything it refers to. *)
LEMMA KeepLooksAtRefs ==
    ASSUME NEW o, o \notin Zones, NEW d, NewStatus(o, d) = "keep"
    PROVE  mem[o].refs = d.refs /\ \A r \in d.refs : status[r] = "keep"
  BY DEF NewStatus, Differs, Touched

LEMMA CompareKeeps ==
    ASSUME DependentsInv, TypeOK', NEW o \in Objects, Compare(o) PROVE DependentsInv'
  <1> DEFINE s == NewStatus(o, Read(o))
  <1>1. TypeOK /\ mem \in [Objects -> Data] /\ known \subseteq Objects
        /\ status \in [Objects -> Statuses]
    BY DEF DependentsInv, TypeOK
  <1>2. /\ o \in known /\ MayList(o) /\ Listed(o) /\ UNCHANGED <<known, phase>>
        /\ status' = [status EXCEPT ![o] = s]
    BY DEF Compare
  <1>3. \/ mem' = mem /\ s = "keep"
        \/ s # "keep" /\ \E d \in Data : d.refs = Read(o).refs /\ mem' = [mem EXCEPT ![o] = d]
    BY <1>1, CompareCopies
  <1>4. \A q \in Objects : q # o => mem'[q] = mem[q]
    BY <1>1, <1>3
  <1>5. \/ mem'[o] = mem[o] /\ s = "keep"
        \/ mem'[o].refs = Read(o).refs /\ s # "keep"
    BY <1>1, <1>3
  <1>6. RefsAreKnown'
    <2>1. mem'[o].refs \subseteq RefsOf(o) \cap known
      BY <1>1, <1>2, <1>5, ReadLemma DEF DependentsInv, RefsAreKnown
    <2>2. QED
      BY <1>1, <1>2, <1>4, <2>1 DEF DependentsInv, RefsAreKnown
  <1>7. VisitedIsKnown' /\ UnvisitedIsUntouched'
    <2>1. known' = known \cup {o} /\ UNCHANGED phase
      BY <1>2
    <2>2. QED
      BY <1>2, <2>1, VisitKeeps
  <1>8. KeptHasKeptRefs'
    <2>1. phase' # "done"
      BY <1>2 DEF MayList, Reloading
    <2>2. ASSUME phase' = "zones", NEW q \in known' \cap ZoneData, status'[q] = "keep"
          PROVE  \A r \in mem'[q].refs : status'[r] = "keep"
      <3>1. q \in known \cap ZoneData /\ q \in Objects /\ mem[q].refs \subseteq Objects
        BY <1>1, <1>2, <2>2 DEF DependentsInv, RefsAreKnown
      <3>2. CASE q = o
        <4>1. s = "keep" /\ mem'[o] = mem[o]
          BY <1>1, <1>2, <1>5, <2>2, <3>2
        <4>2. CASE o \in Zones
          <5>1. mem[o].refs = {}
            BY <4>2, RefsLemma DEF DependentsInv, RefsAreKnown
          <5>2. QED
            BY <3>2, <4>1, <5>1
        <4>3. CASE o \notin Zones
          <5>1. \A r \in mem[o].refs : status[r] = "keep"
            BY <4>1, <4>3, KeepLooksAtRefs
          <5>2. QED
            BY <1>1, <1>2, <3>1, <3>2, <4>1, <5>1
        <4>4. QED
          BY <4>2, <4>3
      <3>3. CASE q # o
        <4>1. status[q] = "keep" /\ mem'[q] = mem[q]
          BY <1>1, <1>2, <1>4, <2>2, <3>1, <3>3
        <4>2. o \notin mem[q].refs /\ \A r \in mem[q].refs : status[r] = "keep"
          BY <1>2, <2>2, <3>1, <4>1, KeptRefsAreVisited
        <4>3. QED
          BY <1>1, <1>2, <3>1, <4>1, <4>2
      <3>4. QED
        BY <3>2, <3>3
    <2>3. QED
      BY <2>1, <2>2 DEF KeptHasKeptRefs
  <1>9. QED
    BY <1>6, <1>7, <1>8 DEF DependentsInv

LEMMA NextDependents == DependentsInv /\ [Next]_vars => DependentsInv'
  <1> SUFFICES ASSUME DependentsInv, [Next]_vars PROVE DependentsInv'
    OBVIOUS
  <1>1. TypeOK /\ TypeOK'
    BY NextType DEF DependentsInv
  <1>2. CASE UNCHANGED vars
    BY <1>1, <1>2, WorldKeeps DEF vars
  <1>3. CASE Start \/ Leave
    BY <1>1, <1>3, StartKeeps, LeaveKeeps
  <1>4. ASSUME NEW o \in Objects,
               Add(o) \/ AddFails(o) \/ Compare(o) \/ CompareFails(o) \/ Skip(o)
        PROVE  DependentsInv'
    BY <1>1, <1>4, AddKeeps, AddFailsKeeps, CompareKeeps, CompareFailsKeeps, SkipKeeps
  <1>5. CASE \/ \E o \in Objects : Edit(o) \/ Create(o) \/ Delete(o)
             \/ \E i \in Ifaces : Replug(i)
    BY <1>1, <1>5, WorldType, WorldKeeps
  <1>6. QED
    BY <1>2, <1>3, <1>4, <1>5 DEF Next

(* Once a reload is done no network is kept whose interface was touched, and no
   group whose member was, whatever was edited while it ran. *)
THEOREM DependentsTheorem == Spec => []DependentsNotice
  <1>1. Init => DependentsInv
    BY InitDependents
  <1>2. QED
    BY <1>1, NextDependents, DependentsHold, PTL DEF Spec

(***************************************************************************)
(* The daemon agrees with the backend.  A name that was listed is not      *)
(* above, and is not referred to by, anything that was listed before: so   *)
(* what an object was compared with stays as it was for the rest of the    *)
(* reload, and a reload without edits ends with memory and disk the same.  *)
(***************************************************************************)

(* What the reload is through with: the categories before this one, and what
   this one has listed. *)
Finished ==
    CASE phase = "interfaces" -> Services
      [] phase = "zones"      -> Services \cup Ifaces
      [] phase = "done"       -> Objects
      [] OTHER                -> {}

Covered == Finished \cup visited

Undisturbed == quiet /\ (Reloading \/ phase = "done")

(* The statuses of the listing: untouched is what it has not come to. *)
ListingInv ==
    /\ Reloading => \A o \in (known \cap Category(phase)) \ visited : status[o] = "untouched"
    /\ \A o \in visited : status[o] # "untouched"
    /\ quiet /\ Reloading =>
         \A o \in Category(phase) : backend[o].there => o \in visited \cup pending

StatusInv ==
    Undisturbed => \A o \in known \cap Covered : status[o] = "removed" <=> ~Readable(o)

(* The memory of o is what is on disk: LoadsWhatIsThere, of one object. *)
Agrees(o) ==
    Readable(o) =>
        /\ o \in known
        /\ o \notin Zones => /\ mem[o].key = Read(o).key
                             /\ mem[o].up = Read(o).up
                             /\ mem[o].refs = Read(o).refs
        /\ o \in Zones \/ CheckOk(o, Read(o), mem) => mem[o].active = backend[o].active

MemInv == Undisturbed => \A o \in Covered : Agrees(o)

(* After one undisturbed reload everything agrees, and the next one only finds
   who refers to what is gone, or is not listed any more. *)
Kept(o) ==
    \/ status[o] \in {"keep", "removed"}
    \/ \E r \in mem[o].refs :
         status[r] = "removed" \/ (r \in ZoneData /\ status[r] = "untouched")

CalmInv ==
    calm >= 1 =>
        /\ Undisturbed
        /\ \A o \in Objects : Agrees(o)
        /\ Reloading => \A o \in known \cap Covered : Kept(o)

AgreesInv ==
    DependentsInv /\ ListingInv /\ StatusInv /\ MemInv /\ CalmInv /\ SecondReloadKeeps

(* What is listed next is new to everything that was listed before. *)
LEMMA ListingIsolates ==
    ASSUME DependentsInv, NEW o \in Objects, MayList(o)
    PROVE  /\ o \in Category(phase) /\ o \notin Covered
           /\ o \notin Above(o) /\ o \notin RefsOf(o)
           /\ \A q \in Covered : q \in Objects /\ o \notin Above(q) /\ o \notin RefsOf(q)
  <1>1. o \in Category(phase) /\ o \notin visited /\ Reloading
        /\ \A q \in visited : o \notin Above(q)
    BY DEF MayList
  <1>2. visited \subseteq Category(phase) /\ visited \subseteq Objects
    BY DEF DependentsInv, TypeOK, VisitedIsKnown
  <1>3. Finished \subseteq Services \cup Ifaces /\ o \notin Finished
    BY <1>1, CategoryLemma, ObjectsAssumption DEF Finished, Reloading
  <1>4. o \notin Above(o) /\ o \notin RefsOf(o)
    BY ObjectsAssumption DEF Above, RefsOf, Objects, ZoneData, Children, Members
  <1>5. \A q \in Services \cup Ifaces : q \in Objects /\ Above(q) = {} /\ RefsOf(q) = {}
    BY ObjectsAssumption, RefsLemma DEF Above, Objects, ZoneData, Children, Members
  <1>6. ASSUME NEW q \in visited PROVE o \notin RefsOf(q)
    <2>1. CASE q \in Networks
      <3>1. q \notin Services \cup Ifaces
        BY <2>1, ObjectsAssumption DEF ZoneData
      <3>2. Category(phase) = ZoneData
        BY <1>1, <1>2, <1>6, <3>1, CategoryLemma DEF Reloading
      <3>3. QED
        BY <1>1, <2>1, <3>2, ObjectsAssumption DEF RefsOf
    <2>2. CASE q \in Groups
      BY <1>1, <1>6, <2>2, ObjectsAssumption DEF RefsOf, Above, Members
    <2>3. QED
      BY <2>1, <2>2 DEF RefsOf
  <1>7. QED
    BY <1>1, <1>2, <1>3, <1>4, <1>5, <1>6 DEF Covered

(* A new name in memory is no news to what cannot refer to it. *)
LEMMA ReadingStays ==
    ASSUME TypeOK, NEW o, NEW q \in Objects, o \notin RefsOf(q), UNCHANGED world,
           known \subseteq known', known' \subseteq known \cup {o}
    PROVE  Read(q)' = Read(q) /\ Readable(q)' = Readable(q) /\ backend'[q] = backend[q]
  <1>1. backend' = backend /\ device' = device /\ backend[q].refs \subseteq RefsOf(q)
    BY DEF world, TypeOK
  <1>2. backend'[q].refs \cap known' = backend[q].refs \cap known
    BY <1>1
  <1>3. QED
    BY <1>1, <1>2 DEF Read, Readable

(* A check looks at the object and at what is above it. *)
LEMMA CheckStays ==
    ASSUME NEW o, NEW q \in Objects, o \notin Above(q), device' = device,
           \A p \in Objects \ {o} : mem'[p] = mem[p], Read(q)' = Read(q)
    PROVE  CheckOk(q, Read(q), mem)' = CheckOk(q, Read(q), mem)
  <1>1. q \in Children => mem'[ZoneOf[q]] = mem[ZoneOf[q]]
    BY ObjectsAssumption DEF Above, Objects, ZoneData
  <1>2. q \in Members => mem'[NetOf[q]] = mem[NetOf[q]]
    BY ObjectsAssumption DEF Above, Objects, ZoneData
  <1>3. HostOk(q, Read(q), mem)' = HostOk(q, Read(q), mem) \/ q \notin Hosts
    BY <1>2 DEF HostOk, Members
  <1>4. ParentsActive(q, mem)' = ParentsActive(q, mem)
    BY <1>1, <1>2 DEF ParentsActive
  <1>5. IfaceOk(q, Read(q))' = IfaceOk(q, Read(q))
    BY DEF IfaceOk
  <1>6. QED
    BY <1>3, <1>4, <1>5 DEF CheckOk, ServiceOk, NetworkOk, GroupOk

LEMMA AgreesStays ==
    ASSUME NEW q \in Objects, Agrees(q), q \in known => q \in known', mem'[q] = mem[q],
           Read(q)' = Read(q), Readable(q)' = Readable(q), backend'[q] = backend[q],
           CheckOk(q, Read(q), mem)' => CheckOk(q, Read(q), mem)
    PROVE  Agrees(q)'
  BY DEF Agrees

(* A step of the listing, whatever it found out about o. *)
LEMMA VisitAgrees ==
    ASSUME AgreesInv, TypeOK', NEW o \in Objects, MayList(o), Listed(o),
           UNCHANGED <<world, phase, edits, history>>,
           known' = known \cup {o},
           \A p \in Objects \ {o} : mem'[p] = mem[p] /\ status'[p] = status[p],
           status'[o] # "untouched",
           status'[o] = "removed" <=> ~Readable(o),
           Agrees(o)'
    PROVE  ListingInv' /\ StatusInv' /\ MemInv'
  <1>1. TypeOK /\ DependentsInv /\ Reloading
    BY DEF AgreesInv, DependentsInv, MayList
  <1>2. /\ o \in Category(phase) /\ o \notin Covered
        /\ o \notin Above(o) /\ o \notin RefsOf(o)
        /\ \A q \in Covered : q \in Objects /\ o \notin Above(q) /\ o \notin RefsOf(q)
    BY <1>1, ListingIsolates
  <1>3. /\ phase' = phase /\ quiet' = quiet /\ device' = device /\ backend' = backend
        /\ visited' = visited \cup {o} /\ pending' = pending \ {o}
        /\ known \subseteq known' /\ known' \subseteq known \cup {o}
    BY DEF history, world, Listed
  <1>4. Covered' = Covered \cup {o} /\ Category(phase)' = Category(phase)
        /\ (Undisturbed' <=> Undisturbed) /\ (Reloading' <=> Reloading)
    BY <1>3 DEF Covered, Finished, Category, Undisturbed, Reloading
  <1>5. \A q \in Covered : /\ Read(q)' = Read(q) /\ Readable(q)' = Readable(q)
                           /\ backend'[q] = backend[q]
    BY <1>1, <1>2, <1>3, ReadingStays DEF world
  <1>6. Readable(o)' = Readable(o)
    BY <1>3 DEF Readable
  <1>7. ListingInv'
    <2>1. known \subseteq Objects /\ visited \subseteq Objects
      BY <1>1 DEF TypeOK
    <2>2. QED
      BY <1>3, <1>4, <2>1 DEF AgreesInv, ListingInv
  <1>8. StatusInv'
    BY <1>2, <1>3, <1>4, <1>5, <1>6 DEF AgreesInv, StatusInv
  <1>9. MemInv'
    <2>1. ASSUME Undisturbed, NEW q \in Covered PROVE Agrees(q)'
      <3>1. Agrees(q) /\ q # o /\ q \in Objects
        BY <1>2, <2>1 DEF AgreesInv, MemInv
      <3>2. CheckOk(q, Read(q), mem)' = CheckOk(q, Read(q), mem)
        BY <1>2, <1>3, <1>5, <2>1, <3>1, CheckStays
      <3>3. QED
        BY <1>3, <1>5, <2>1, <3>1, <3>2, AgreesStays
    <2>2. QED
      BY <1>4, <2>1 DEF MemInv
  <1>10. QED
    BY <1>7, <1>8, <1>9

(* In a second reload the step must not disturb what agrees already. *)
LEMMA VisitCalm ==
    ASSUME AgreesInv, NEW o \in Objects, MayList(o), Listed(o),
           UNCHANGED <<world, phase, edits, history>>, known' = known \cup {o},
           \A p \in Objects \ {o} : mem'[p] = mem[p] /\ status'[p] = status[p],
           calm >= 1 => \A q \in Objects : Agrees(q)',
           calm >= 1 => Kept(o)'
    PROVE  CalmInv' /\ SecondReloadKeeps'
  <1>1. DependentsInv /\ Reloading /\ phase # "done"
    BY DEF AgreesInv, MayList, Reloading
  <1>2. \A q \in Covered : q \in Objects /\ q # o /\ o \notin RefsOf(q)
    BY <1>1, ListingIsolates
  <1>3. phase' = phase /\ quiet' = quiet /\ calm' = calm /\ visited' = visited \cup {o}
    BY DEF history, Listed
  <1>4. Covered' = Covered \cup {o} /\ (Undisturbed' <=> Undisturbed)
    BY <1>3 DEF Covered, Finished, Undisturbed, Reloading
  <1>5. ASSUME calm >= 1, NEW q \in known \cap Covered PROVE Kept(q)'
    <2>1. Kept(q) /\ q \in Objects /\ q # o
      BY <1>1, <1>2, <1>5 DEF AgreesInv, CalmInv
    <2>2. mem[q].refs \subseteq RefsOf(q) /\ RefsOf(q) \subseteq Objects /\ o \notin RefsOf(q)
      BY <1>1, <1>2, <1>5, RefsLemma DEF DependentsInv, RefsAreKnown, TypeOK
    <2>3. mem'[q] = mem[q] /\ status'[q] = status[q]
      BY <2>1
    <2>4. \A r \in mem[q].refs : status'[r] = status[r]
      BY <2>2
    <2>5. QED
      BY <2>1, <2>3, <2>4 DEF Kept
  <1>6. CalmInv'
    BY <1>3, <1>4, <1>5 DEF AgreesInv, CalmInv
  <1>7. SecondReloadKeeps'
    BY <1>1, <1>3 DEF SecondReloadKeeps
  <1>8. QED
    BY <1>6, <1>7

LEMMA ActiveIfFields ==
    ASSUME NEW d \in Data, NEW ok \in BOOLEAN
    PROVE  /\ ActiveIf(d, ok).active = (d.active /\ ok)
           /\ ActiveIf(d, ok).key = d.key /\ ActiveIf(d, ok).up = d.up
           /\ ActiveIf(d, ok).refs = d.refs
  BY DEF ActiveIf, Data

(* Data that were read just now, with active cleared when a check failed. *)
LEMMA CopyAgrees ==
    ASSUME DependentsInv, NEW o \in Objects, MayList(o), UNCHANGED world,
           known' = known \cup {o},
           \E ok \in BOOLEAN : /\ o \in Zones \/ CheckOk(o, Read(o), mem) => ok
                               /\ mem' = [mem EXCEPT ![o] = ActiveIf(Read(o), ok)]
    PROVE  Agrees(o)'
  <1>1. PICK ok \in BOOLEAN : /\ o \in Zones \/ CheckOk(o, Read(o), mem) => ok
                              /\ mem' = [mem EXCEPT ![o] = ActiveIf(Read(o), ok)]
    OBVIOUS
  <1>2. TypeOK /\ mem \in [Objects -> Data] /\ o \notin Above(o) /\ o \notin RefsOf(o)
    BY ListingIsolates DEF DependentsInv, TypeOK
  <1>3. Read(o)' = Read(o) /\ Readable(o)' = Readable(o) /\ backend'[o] = backend[o]
    BY <1>2, ReadingStays
  <1>4. \A p \in Objects \ {o} : mem'[p] = mem[p]
    BY <1>1, <1>2
  <1>5. CheckOk(o, Read(o), mem)' = CheckOk(o, Read(o), mem)
    BY <1>2, <1>3, <1>4, CheckStays DEF world
  <1>6. mem'[o] = ActiveIf(Read(o), ok) /\ Read(o) \in Data
    BY <1>1, <1>2, ReadLemma
  <1>7. /\ mem'[o].active = (Read(o).active /\ ok) /\ mem'[o].key = Read(o).key
        /\ mem'[o].up = Read(o).up /\ mem'[o].refs = Read(o).refs
    BY <1>6, ActiveIfFields
  <1>8. Read(o).active = backend[o].active /\ backend[o].active \in BOOLEAN
    BY <1>2 DEF Read, TypeOK, Row
  <1>9. o \in Zones \/ CheckOk(o, Read(o), mem) => mem'[o].active = backend[o].active
    BY <1>1, <1>7, <1>8
  <1>10. o \in known'
    OBVIOUS
  <1>11. QED
    BY <1>3, <1>5, <1>7, <1>9, <1>10 DEF Agrees

(* A name that is added is no second reload: it was not known. *)
LEMMA AddAgrees ==
    ASSUME AgreesInv, DependentsInv', NEW o \in Objects, Add(o) PROVE AgreesInv'
  <1>1. /\ DependentsInv /\ TypeOK /\ TypeOK'
        /\ mem \in [Objects -> Data] /\ status \in [Objects -> Statuses]
    BY DEF AgreesInv, DependentsInv, TypeOK
  <1>2. /\ o \notin known /\ Readable(o) /\ MayList(o) /\ Listed(o)
        /\ UNCHANGED <<world, phase, edits, history>> /\ known' = known \cup {o}
        /\ mem' = [mem EXCEPT ![o] =
                    ActiveIf(Read(o), o \in Groups \/ CheckOk(o, Read(o), mem))]
        /\ status' = [status EXCEPT ![o] = IF o \in Services THEN "keep" ELSE "added"]
    BY DEF Add
  <1>3. \E ok \in BOOLEAN : /\ o \in Zones \/ CheckOk(o, Read(o), mem) => ok
                            /\ mem' = [mem EXCEPT ![o] = ActiveIf(Read(o), ok)]
    <2>1. (o \in Groups \/ CheckOk(o, Read(o), mem)) \in BOOLEAN
      OBVIOUS
    <2>2. o \in Zones => CheckOk(o, Read(o), mem)
      BY ObjectsAssumption DEF CheckOk, ParentsActive, ZoneData, Children, Members
    <2>3. QED
      BY <1>2, <2>1, <2>2
  <1>4. Agrees(o)'
    BY <1>1, <1>2, <1>3, CopyAgrees
  <1>5. \A p \in Objects \ {o} : mem'[p] = mem[p] /\ status'[p] = status[p]
    BY <1>1, <1>2
  <1>6. status'[o] # "untouched" /\ status'[o] # "removed"
    BY <1>1, <1>2
  <1>7. ListingInv' /\ StatusInv' /\ MemInv'
    BY <1>1, <1>2, <1>4, <1>5, <1>6, VisitAgrees
  <1>8. ~ (calm >= 1)
    BY <1>2 DEF AgreesInv, CalmInv, Agrees
  <1>9. CalmInv' /\ SecondReloadKeeps'
    BY <1>2, <1>5, <1>8, VisitCalm
  <1>10. QED
    BY <1>7, <1>9 DEF AgreesInv

LEMMA CompareFailsAgrees ==
    ASSUME AgreesInv, DependentsInv', NEW o \in Objects, CompareFails(o) PROVE AgreesInv'
  <1>1. /\ DependentsInv /\ TypeOK /\ TypeOK' /\ status \in [Objects -> Statuses]
    BY DEF AgreesInv, DependentsInv, TypeOK
  <1>2. /\ o \in known /\ ~Readable(o) /\ MayList(o) /\ Listed(o) /\ mem' = mem
        /\ UNCHANGED <<world, phase, edits, history>> /\ known' = known
        /\ status' = [status EXCEPT ![o] = "removed"]
    BY DEF CompareFails
  <1>3. Agrees(o)'
    BY <1>2 DEF Agrees, Readable, world
  <1>4. \A p \in Objects \ {o} : mem'[p] = mem[p] /\ status'[p] = status[p]
    BY <1>1, <1>2
  <1>5. status'[o] = "removed" /\ known' = known \cup {o}
    BY <1>1, <1>2
  <1>6. ListingInv' /\ StatusInv' /\ MemInv'
    BY <1>1, <1>2, <1>3, <1>4, <1>5, VisitAgrees
  <1>7. ASSUME calm >= 1, NEW q \in Objects PROVE Agrees(q)'
    <2>1. Agrees(q)
      BY <1>7 DEF AgreesInv, CalmInv
    <2>2. /\ Read(q)' = Read(q) /\ Readable(q)' = Readable(q) /\ backend'[q] = backend[q]
          /\ CheckOk(q, Read(q), mem)' = CheckOk(q, Read(q), mem)
      BY <1>2 DEF world, Read, Readable, CheckOk, IfaceOk
    <2>3. QED
      BY <1>2, <2>1, <2>2, AgreesStays
  <1>8. Kept(o)'
    BY <1>5 DEF Kept
  <1>9. CalmInv' /\ SecondReloadKeeps'
    BY <1>2, <1>4, <1>5, <1>7, <1>8, VisitCalm
  <1>10. QED
    BY <1>6, <1>9 DEF AgreesInv

(* A check that fails now fails as well when less is active. *)
LEMMA CheckFalls ==
    ASSUME NEW q \in Objects, device' = device, Read(q)' = Read(q),
           \A p \in Objects : mem'[p].active => mem[p].active,
           \A p \in Networks : mem'[p].key = mem[p].key
    PROVE  CheckOk(q, Read(q), mem)' => CheckOk(q, Read(q), mem)
  <1>1. q \in Children => ZoneOf[q] \in Objects
    BY ObjectsAssumption DEF Objects, ZoneData
  <1>2. q \in Members => NetOf[q] \in Networks /\ NetOf[q] \in Objects
    BY ObjectsAssumption DEF Objects, ZoneData
  <1>3. ParentsActive(q, mem)' => ParentsActive(q, mem)
    BY <1>1, <1>2 DEF ParentsActive
  <1>4. q \in Hosts => HostOk(q, Read(q), mem)' = HostOk(q, Read(q), mem)
    BY <1>2 DEF HostOk, Members
  <1>5. IfaceOk(q, Read(q))' = IfaceOk(q, Read(q))
    BY DEF IfaceOk
  <1>6. QED
    BY <1>3, <1>4, <1>5 DEF CheckOk, ServiceOk, NetworkOk, GroupOk

(* What a comparison leaves in memory agrees with what it read. *)
LEMMA CompareOfOne ==
    ASSUME DependentsInv, NEW o \in Objects, Compare(o)
    PROVE  Agrees(o)'
  <1>1. /\ TypeOK /\ mem \in [Objects -> Data] /\ o \in known /\ known' = known
        /\ MayList(o) /\ UNCHANGED world
    BY DEF DependentsInv, TypeOK, Compare
  <1>2. IF NewStatus(o, Read(o)) \in Copied
        THEN mem' = [mem EXCEPT ![o] =
                       ActiveIf(Read(o), o \in Zones \/ CheckOk(o, Read(o), mem))]
        ELSE mem' = mem
    BY DEF Compare
  <1>3. CASE NewStatus(o, Read(o)) \in Copied
    <2>1. (o \in Zones \/ CheckOk(o, Read(o), mem)) \in BOOLEAN
      OBVIOUS
    <2>2. \E ok \in BOOLEAN : /\ o \in Zones \/ CheckOk(o, Read(o), mem) => ok
                              /\ mem' = [mem EXCEPT ![o] = ActiveIf(Read(o), ok)]
      BY <1>2, <1>3, <2>1
    <2>3. known' = known \cup {o}
      BY <1>1
    <2>4. QED
      BY <1>1, <2>2, <2>3, CopyAgrees
  <1>4. CASE NewStatus(o, Read(o)) \notin Copied
    <2>1. mem' = mem /\ NewStatus(o, Read(o)) = "keep"
      BY <1>2, <1>4, NewStatusType DEF Copied
    <2>2. /\ Read(o)' = Read(o) /\ Readable(o)' = Readable(o) /\ backend'[o] = backend[o]
          /\ CheckOk(o, Read(o), mem)' = CheckOk(o, Read(o), mem)
      BY <1>1, <2>1 DEF world, Read, Readable, CheckOk, IfaceOk
    <2>3. o \in Zones \/ ~Differs(o, Read(o))
      BY <2>1 DEF NewStatus
    <2>4. o \in Zones \/ CheckOk(o, Read(o), mem) => mem[o].active = Read(o).active
      BY <2>1 DEF NewStatus
    <2>5. Read(o).active = backend[o].active
      BY DEF Read
    <2>6. QED
      BY <1>1, <2>1, <2>2, <2>3, <2>4, <2>5 DEF Agrees, Differs
  <1>5. QED
    BY <1>3, <1>4

(* In a second reload a comparison changes nothing, but that an object whose
   check fails may lose its active; and then one that it refers to is gone. *)
LEMMA CompareAgain ==
    ASSUME AgreesInv, NEW o \in Objects, Compare(o), calm >= 1
    PROVE  /\ mem'[o].active => mem[o].active
           /\ o \notin Zones => mem'[o].key = mem[o].key
           /\ Kept(o)'
  <1> DEFINE s == NewStatus(o, Read(o))
  <1>1. /\ DependentsInv /\ TypeOK /\ Agrees(o) /\ Undisturbed
        /\ mem \in [Objects -> Data] /\ status \in [Objects -> Statuses]
    BY DEF AgreesInv, CalmInv, DependentsInv, TypeOK
  <1>2. /\ o \in known /\ known' = known /\ Readable(o) /\ MayList(o) /\ Reloading
        /\ status' = [status EXCEPT ![o] = s]
        /\ IF s \in Copied
           THEN mem' = [mem EXCEPT ![o] =
                          ActiveIf(Read(o), o \in Zones \/ CheckOk(o, Read(o), mem))]
           ELSE mem' = mem
    BY DEF Compare, MayList
  <1>3. /\ o \notin Zones => /\ mem[o].key = Read(o).key /\ mem[o].up = Read(o).up
                             /\ mem[o].refs = Read(o).refs
        /\ o \in Zones \/ CheckOk(o, Read(o), mem) => mem[o].active = Read(o).active
    BY <1>1, <1>2 DEF Agrees, Read
  <1>4. CASE s \notin Copied
    <2>1. mem' = mem /\ status'[o] = "keep"
      BY <1>1, <1>2, <1>4, NewStatusType DEF Copied
    <2>2. QED
      BY <2>1 DEF Kept
  <1>5. CASE s \in Copied
    <2>1. s = "changed" /\ o \notin Zones /\ Touched(Read(o))
      BY <1>3, <1>5 DEF NewStatus, Differs, Copied
    <2>2. (o \in Zones \/ CheckOk(o, Read(o), mem)) \in BOOLEAN /\ Read(o) \in Data
          /\ Read(o).refs \subseteq RefsOf(o) \cap known
      BY <1>1, ReadLemma
    <2>3. mem'[o] = ActiveIf(Read(o), o \in Zones \/ CheckOk(o, Read(o), mem))
      BY <1>1, <1>2, <1>5
    <2>4. /\ mem'[o].active = (Read(o).active /\ (o \in Zones \/ CheckOk(o, Read(o), mem)))
          /\ mem'[o].key = Read(o).key /\ mem'[o].refs = Read(o).refs
      BY <2>2, <2>3, ActiveIfFields
    <2>5. PICK r \in Read(o).refs : status[r] # "keep"
      BY <2>1 DEF Touched
    <2>6. r \in RefsOf(o) /\ r \in known /\ r # o /\ o \in Category(phase)
          /\ r \in mem'[o].refs
      BY <1>1, <1>2, <2>2, <2>4, <2>5, ListingIsolates
    <2>7. RefsOf(r) = {} /\ o \in ZoneData
      BY <2>6, RefsLemma, ObjectsAssumption DEF RefsOf, Objects
    <2>8. phase = "zones"
      BY <1>2, <2>6, <2>7, CategoryLemma, ObjectsAssumption DEF Reloading
    <2>9. ASSUME r \in Covered PROVE status[r] = "removed"
      <3>1. Kept(r) /\ mem[r].refs \subseteq {}
        BY <1>1, <1>2, <2>6, <2>7, <2>9 DEF AgreesInv, CalmInv, DependentsInv, RefsAreKnown,
           TypeOK
      <3>2. QED
        BY <2>5, <3>1 DEF Kept
    <2>10. ASSUME r \notin Covered PROVE r \in ZoneData /\ status[r] = "untouched"
      <3>1. r \notin Services \cup Ifaces /\ r \notin visited /\ r \in Objects
        BY <1>1, <2>6, <2>8, <2>10 DEF Covered, Finished, TypeOK
      <3>2. r \in ZoneData
        BY <3>1 DEF Objects
      <3>3. QED
        BY <1>1, <2>6, <2>8, <3>1, <3>2 DEF DependentsInv, UnvisitedIsUntouched
    <2>11. status'[r] = status[r]
      BY <1>1, <1>2, <2>6 DEF TypeOK
    <2>12. Kept(o)'
      BY <2>6, <2>9, <2>10, <2>11 DEF Kept
    <2>13. mem'[o].active => mem[o].active
      BY <1>3, <2>2, <2>4
    <2>14. QED
      BY <1>3, <2>4, <2>12, <2>13
  <1>6. QED
    BY <1>4, <1>5

LEMMA CompareAgrees ==
    ASSUME AgreesInv, DependentsInv', NEW o \in Objects, Compare(o) PROVE AgreesInv'
  <1>1. /\ DependentsInv /\ TypeOK /\ TypeOK'
        /\ mem \in [Objects -> Data] /\ status \in [Objects -> Statuses]
    BY DEF AgreesInv, DependentsInv, TypeOK
  <1>2. /\ o \in known /\ Readable(o) /\ MayList(o) /\ Listed(o)
        /\ UNCHANGED <<world, phase, edits, history>> /\ known' = known
        /\ status' = [status EXCEPT ![o] = NewStatus(o, Read(o))]
    BY DEF Compare
  <1>3. Agrees(o)'
    BY <1>1, CompareOfOne
  <1>4. \A p \in Objects \ {o} : mem'[p] = mem[p] /\ status'[p] = status[p]
    BY <1>1, <1>2, CompareCopies
  <1>5. /\ status'[o] # "untouched" /\ (status'[o] = "removed" <=> ~Readable(o))
        /\ known' = known \cup {o}
    BY <1>1, <1>2, NewStatusType
  <1>6. ListingInv' /\ StatusInv' /\ MemInv'
    BY <1>1, <1>2, <1>3, <1>4, <1>5, VisitAgrees
  <1>7. ASSUME calm >= 1, NEW q \in Objects PROVE Agrees(q)'
    <2>1. Agrees(q) /\ (mem'[o].active => mem[o].active)
          /\ (o \notin Zones => mem'[o].key = mem[o].key)
      BY <1>7, CompareAgain DEF AgreesInv, CalmInv
    <2>2. /\ Read(q)' = Read(q) /\ Readable(q)' = Readable(q) /\ backend'[q] = backend[q]
      BY <1>2 DEF world, Read, Readable
    <2>3. Networks \subseteq Objects /\ Networks \cap Zones = {}
      BY ObjectsAssumption DEF Objects, ZoneData, Children
    <2>4. CheckOk(q, Read(q), mem)' => CheckOk(q, Read(q), mem)
      <3>1. \A p \in Objects : mem'[p].active => mem[p].active
        BY <1>4, <2>1
      <3>2. \A p \in Networks : mem'[p].key = mem[p].key
        BY <1>4, <2>1, <2>3
      <3>3. QED
        BY <1>2, <2>2, <3>1, <3>2, CheckFalls DEF world
    <2>5. CASE q = o
      BY <1>3, <2>5
    <2>6. CASE q # o
      BY <1>2, <1>4, <2>1, <2>2, <2>4, <2>6, AgreesStays
    <2>7. QED
      BY <2>5, <2>6
  <1>8. calm >= 1 => Kept(o)'
    BY CompareAgain
  <1>9. CalmInv' /\ SecondReloadKeeps'
    BY <1>2, <1>4, <1>5, <1>7, <1>8, VisitCalm
  <1>10. QED
    BY <1>6, <1>9 DEF AgreesInv

(* Where nothing is read or copied, what agreed agrees. *)
LEMMA AgreeingStays ==
    ASSUME UNCHANGED <<world, known, mem>>, NEW q \in Objects, Agrees(q)
    PROVE  Agrees(q)'
  <1>1. /\ Read(q)' = Read(q) /\ Readable(q)' = Readable(q) /\ backend'[q] = backend[q]
        /\ CheckOk(q, Read(q), mem)' = CheckOk(q, Read(q), mem)
    BY DEF world, Read, Readable, CheckOk, IfaceOk
  <1>2. QED
    BY <1>1, AgreesStays

(* Who leaves a category is through with it, and what was not listed is gone. *)
LEMMA LeaveCovers ==
    ASSUME AgreesInv, Leave
    PROVE  /\ UNCHANGED <<world, known, mem, quiet>>
           /\ NextPhase \in {"interfaces", "zones", "done"} /\ phase' = NextPhase
           /\ Covered' = Finished \cup Category(phase)
           /\ Covered' \cap Category(NextPhase) = {}
           /\ \A o \in known \cap Covered' :
                /\ o \in Covered => status'[o] = status[o]
                /\ o \notin Covered => status'[o] = "removed" /\ (quiet => ~Readable(o))
           /\ quiet => \A o \in Covered' \ Covered : ~Readable(o)
  <1>1. /\ TypeOK /\ known \subseteq Objects /\ visited \subseteq Category(phase)
        /\ status \in [Objects -> Statuses]
    BY DEF AgreesInv, DependentsInv, TypeOK, VisitedIsKnown
  <1>2. /\ Reloading /\ pending = {} /\ visited' = {} /\ phase' = NextPhase
        /\ UNCHANGED <<world, known, mem, quiet>>
        /\ status' = [o \in Objects |-> IF o \in Category(NextPhase) \cap known THEN "untouched"
                                        ELSE [q \in Objects |-> Settled(q)][o]]
    BY DEF Leave, EnterCategory
  <1>3. NextPhase \in {"interfaces", "zones", "done"}
    BY <1>2, NextPhaseType
  <1>4. /\ Covered' = Finished \cup Category(phase)
        /\ Finished \cap Category(phase) = {}
        /\ Covered' \cap Category(NextPhase) = {}
    <2>1. CASE phase = "services"
      <3>1. NextPhase = "interfaces" /\ Finished = {} /\ Finished' = Services
        BY <1>2, <2>1 DEF NextPhase, Finished
      <3>2. QED
        BY <1>2, <2>1, <3>1, CategoryLemma, ObjectsAssumption DEF Covered
    <2>2. CASE phase = "interfaces"
      <3>1. NextPhase = "zones" /\ Finished = Services /\ Finished' = Services \cup Ifaces
        BY <1>2, <2>2 DEF NextPhase, Finished
      <3>2. QED
        BY <1>2, <2>2, <3>1, CategoryLemma, ObjectsAssumption DEF Covered
    <2>3. CASE phase = "zones"
      <3>1. NextPhase = "done" /\ Finished = Services \cup Ifaces /\ Finished' = Objects
        BY <1>2, <2>3 DEF NextPhase, Finished
      <3>2. QED
        BY <1>2, <2>3, <3>1, CategoryLemma, ObjectsAssumption DEF Covered, Objects
    <2>4. QED
      BY <1>2, <2>1, <2>2, <2>3 DEF Reloading
  <1>5. ASSUME NEW o \in Covered' \ Covered
        PROVE  /\ o \in Category(phase) \ visited
               /\ quiet => ~Readable(o)
    <2>1. o \in Category(phase) \ visited
      BY <1>4, <1>5 DEF Covered
    <2>2. QED
      BY <1>2, <2>1 DEF AgreesInv, ListingInv, Readable
  <1>6. \A o \in known \cap Covered' : status'[o] = Settled(o)
    BY <1>1, <1>2, <1>4
  <1>7. ASSUME NEW o \in known \cap Covered', o \in Covered PROVE status'[o] = status[o]
    BY <1>4, <1>6, <1>7 DEF Covered, Settled, AgreesInv, ListingInv
  <1>8. ASSUME NEW o \in known \cap Covered', o \notin Covered PROVE status'[o] = "removed"
    <2>1. status[o] = "untouched"
      BY <1>2, <1>5, <1>8 DEF AgreesInv, ListingInv
    <2>2. QED
      BY <1>5, <1>6, <1>8, <2>1 DEF Settled
  <1>9. QED
    BY <1>2, <1>3, <1>4, <1>5, <1>7, <1>8

LEMMA LeaveListing == ASSUME AgreesInv, Leave PROVE ListingInv'
  <1>1. /\ known \subseteq Objects /\ known' = known /\ world' = world
        /\ visited' = {} /\ phase' = NextPhase
        /\ status' = [o \in Objects |-> IF o \in Category(NextPhase) \cap known THEN "untouched"
                                        ELSE [q \in Objects |-> Settled(q)][o]]
        /\ pending' = {o \in Category(NextPhase) : backend[o].there}
    BY DEF Leave, EnterCategory, AgreesInv, DependentsInv, TypeOK
  <1>2. Category(phase)' = Category(NextPhase)
    BY <1>1 DEF Category
  <1>3. \A o \in known \cap Category(NextPhase) : status'[o] = "untouched"
    BY <1>1
  <1>4. \A o \in Category(NextPhase) : backend'[o].there => o \in pending'
    BY <1>1 DEF world
  <1>5. QED
    BY <1>1, <1>2, <1>3, <1>4 DEF ListingInv

LEMMA LeaveAgrees == ASSUME AgreesInv, DependentsInv', Leave PROVE AgreesInv'
  <1>1. /\ UNCHANGED <<world, known, mem>> /\ quiet' = quiet /\ phase' = NextPhase
        /\ NextPhase \in {"interfaces", "zones", "done"}
        /\ Covered' = Finished \cup Category(phase)
        /\ \A o \in known \cap Covered' :
             /\ o \in Covered => status'[o] = status[o]
             /\ o \notin Covered => status'[o] = "removed" /\ (quiet => ~Readable(o))
        /\ quiet => \A o \in Covered' \ Covered : ~Readable(o)
    BY LeaveCovers
  <1>2. /\ Reloading /\ DependentsInv /\ known \subseteq Objects /\ visited \subseteq Objects
        /\ calm' = IF phase # "zones" THEN calm
                   ELSE IF ~quiet THEN 0 ELSE IF calm = 2 THEN 2 ELSE calm + 1
        /\ calm \in 0..2
    BY DEF AgreesInv, DependentsInv, TypeOK, Leave
  <1>3. /\ \A o : Readable(o)' = Readable(o)
        /\ Undisturbed' <=> quiet
        /\ Undisturbed <=> quiet
    BY <1>1, <1>2 DEF Readable, world, Undisturbed, Reloading
  <1>4. StatusInv'
    BY <1>1, <1>3 DEF AgreesInv, StatusInv
  <1>5. Covered' \subseteq Objects
    BY <1>1, CategoryLemma DEF Finished, Objects
  <1>6. MemInv'
    <2>1. ASSUME quiet, NEW o \in Covered' PROVE Agrees(o)'
      <3>1. CASE o \in Covered
        BY <1>1, <1>3, <1>5, <2>1, <3>1, AgreeingStays DEF AgreesInv, MemInv
      <3>2. CASE o \notin Covered
        BY <1>1, <1>3, <2>1, <3>2 DEF Agrees
      <3>3. QED
        BY <3>1, <3>2
    <2>2. QED
      BY <1>3, <2>1 DEF MemInv
  <1>7. phase # "zones" => calm' = calm /\ Covered' \subseteq Services \cup Ifaces
    <2>1. phase = "services" \/ phase = "interfaces" \/ phase = "zones"
      BY <1>2 DEF Reloading
    <2>2. QED
      BY <1>1, <1>2, <2>1, CategoryLemma DEF Finished
  <1>8. phase = "zones" => phase' = "done" /\ Covered' = Objects
    BY <1>1, CategoryLemma DEF NextPhase, Finished, Objects
  <1>9. CalmInv'
    <2>1. ASSUME calm' >= 1 PROVE quiet
      BY <1>2, <1>3, <1>7, <2>1 DEF AgreesInv, CalmInv
    <2>2. ASSUME calm' >= 1, NEW q \in Objects PROVE Agrees(q)'
      <3>1. CASE phase = "zones"
        BY <1>3, <1>6, <1>8, <2>1, <2>2, <3>1 DEF MemInv
      <3>2. CASE phase # "zones"
        BY <1>1, <1>7, <2>2, <3>2, AgreeingStays DEF AgreesInv, CalmInv
      <3>3. QED
        BY <3>1, <3>2
    <2>3. ASSUME calm' >= 1, Reloading', NEW o \in known' \cap Covered' PROVE Kept(o)'
      <3>1. phase # "zones" /\ o \in Services \cup Ifaces /\ calm >= 1
        BY <1>7, <1>8, <2>3 DEF Reloading
      <3>2. o \in Covered => status[o] \in {"keep", "removed"}
        <4>1. mem[o].refs \subseteq {}
          BY <1>1, <1>2, <2>3, <3>1, RefsLemma DEF DependentsInv, RefsAreKnown
        <4>2. QED
          BY <1>1, <1>2, <2>3, <3>1, <4>1 DEF AgreesInv, CalmInv, Kept
      <3>3. QED
        BY <1>1, <2>3, <3>2 DEF Kept
    <2>4. QED
      BY <1>3, <2>1, <2>2, <2>3 DEF CalmInv
  <1>10. SecondReloadKeeps'
    <2>1. ASSUME phase' = "done", calm' = 2, NEW o \in known
          PROVE  \/ status'[o] \in {"keep", "removed"}
                 \/ \E r \in mem'[o].refs : status'[r] = "removed"
      <3>1. phase = "zones"
        BY <1>1, <1>2, <2>1 DEF NextPhase, Reloading
      <3>2. calm >= 1 /\ o \in Covered'
        BY <1>2, <1>8, <2>1, <3>1
      <3>3. CASE o \notin Covered
        BY <1>1, <2>1, <3>2, <3>3
      <3>4. CASE o \in Covered
        <4>1. Kept(o) /\ status'[o] = status[o]
          BY <1>1, <1>2, <2>1, <3>2, <3>4 DEF AgreesInv, CalmInv
        <4>2. ASSUME NEW r \in mem[o].refs,
                     status[r] = "removed" \/ (r \in ZoneData /\ status[r] = "untouched")
              PROVE  status'[r] = "removed"
          <5>1. r \in known /\ r \in Objects
            BY <1>2, <2>1, <4>2 DEF DependentsInv, RefsAreKnown
          <5>2. r \in Covered'
            BY <1>8, <3>1, <5>1
          <5>3. CASE r \notin Covered
            BY <1>1, <5>1, <5>2, <5>3
          <5>4. CASE r \in Covered
            <6>1. status[r] # "untouched" \/ r \notin ZoneData
              <7>1. r \in visited \/ r \in Services \cup Ifaces
                BY <3>1, <5>4 DEF Covered, Finished
              <7>2. QED
                BY <7>1, ObjectsAssumption DEF AgreesInv, ListingInv
            <6>2. QED
              BY <1>1, <4>2, <5>1, <5>2, <5>4, <6>1
          <5>5. QED
            BY <5>3, <5>4
        <4>3. QED
          BY <1>1, <4>1, <4>2 DEF Kept
      <3>5. QED
        BY <3>3, <3>4
    <2>2. QED
      BY <1>1, <2>1 DEF SecondReloadKeeps
  <1>11. ListingInv'
    BY LeaveListing
  <1>12. QED
    BY <1>4, <1>6, <1>9, <1>10, <1>11 DEF AgreesInv

LEMMA StartAgrees == ASSUME AgreesInv, DependentsInv', Start PROVE AgreesInv'
  <1>1. /\ phase' = "services" /\ visited' = {} /\ quiet' = TRUE /\ calm' = calm
        /\ UNCHANGED <<world, known, mem>> /\ known \subseteq Objects
        /\ status' = [o \in Objects |-> IF o \in Category("services") \cap known THEN "untouched"
                                        ELSE status[o]]
        /\ pending' = {o \in Category("services") : backend[o].there}
    BY DEF Start, EnterCategory, AgreesInv, DependentsInv, TypeOK
  <1>2. Covered' = {} /\ Undisturbed'
    BY <1>1 DEF Covered, Finished, Undisturbed, Reloading
  <1>3. Category(phase)' = Category("services")
    BY <1>1 DEF Category
  <1>4. \A o \in known \cap Category("services") : status'[o] = "untouched"
    BY <1>1
  <1>5. ListingInv'
    BY <1>1, <1>3, <1>4 DEF ListingInv, world
  <1>6. StatusInv' /\ MemInv' /\ SecondReloadKeeps'
    BY <1>1, <1>2 DEF StatusInv, MemInv, SecondReloadKeeps
  <1>7. ASSUME calm >= 1, NEW q \in Objects PROVE Agrees(q)'
    BY <1>1, <1>7, AgreeingStays DEF AgreesInv, CalmInv
  <1>8. CalmInv'
    BY <1>1, <1>2, <1>7 DEF CalmInv
  <1>9. QED
    BY <1>5, <1>6, <1>8 DEF AgreesInv

LEMMA AddFailsAgrees ==
    ASSUME AgreesInv, DependentsInv', NEW o \in Objects, AddFails(o) PROVE AgreesInv'
  <1>1. phase' = "failed" /\ visited' = {} /\ calm' = 0
    BY DEF AddFails
  <1>2. ~Reloading' /\ ~Undisturbed'
    BY <1>1 DEF Reloading, Undisturbed
  <1>3. QED
    BY <1>1, <1>2 DEF AgreesInv, ListingInv, StatusInv, MemInv, CalmInv, SecondReloadKeeps

LEMMA SkipAgrees ==
    ASSUME AgreesInv, DependentsInv', NEW o \in Objects, Skip(o) PROVE AgreesInv'
  <1>1. /\ UNCHANGED <<world, known, mem, status, watch, phase, visited, edits, history>>
        /\ ~backend[o].there /\ pending' = pending \ {o}
    BY DEF Skip
  <1>2. /\ phase' = phase /\ quiet' = quiet /\ calm' = calm /\ backend' = backend
        /\ visited' = visited /\ known' = known /\ status' = status /\ mem' = mem
        /\ UNCHANGED <<world, known, mem>>
    BY <1>1 DEF history, world
  <1>3. /\ (Reloading' <=> Reloading) /\ (Undisturbed' <=> Undisturbed) /\ Covered' = Covered
        /\ Category(phase)' = Category(phase) /\ \A q : Readable(q)' = Readable(q)
    BY <1>2 DEF Reloading, Undisturbed, Covered, Finished, Category, Readable
  <1>4. ListingInv'
    BY <1>1, <1>2, <1>3 DEF AgreesInv, ListingInv
  <1>5. Covered \subseteq Objects
    BY DEF Covered, Finished, Objects, AgreesInv, DependentsInv, TypeOK
  <1>6. \A q \in Objects : Agrees(q) => Agrees(q)'
    BY <1>2, AgreeingStays
  <1>7. \A q : Kept(q) => Kept(q)'
    BY <1>2 DEF Kept
  <1>8. StatusInv' /\ MemInv' /\ CalmInv' /\ SecondReloadKeeps'
    BY <1>2, <1>3, <1>5, <1>6, <1>7
       DEF AgreesInv, StatusInv, MemInv, CalmInv, SecondReloadKeeps
  <1>9. QED
    BY <1>4, <1>8 DEF AgreesInv

(* An edit makes no promise: it is no quiet reload any more. *)
LEMMA EditAgrees ==
    ASSUME AgreesInv, DependentsInv', UNCHANGED daemon, quiet' = FALSE, calm' = 0
    PROVE  AgreesInv'
  <1>1. ListingInv'
    BY DEF AgreesInv, ListingInv, daemon, Reloading, Category
  <1>2. StatusInv' /\ MemInv' /\ CalmInv' /\ SecondReloadKeeps'
    BY DEF StatusInv, MemInv, CalmInv, SecondReloadKeeps, Undisturbed
  <1>3. QED
    BY <1>1, <1>2 DEF AgreesInv

LEMMA NextAgrees == AgreesInv /\ [Next]_vars => AgreesInv'
  <1> SUFFICES ASSUME AgreesInv, [Next]_vars PROVE AgreesInv'
    OBVIOUS
  <1>1. DependentsInv /\ TypeOK /\ DependentsInv'
    BY NextDependents DEF AgreesInv, DependentsInv
  <1>2. CASE UNCHANGED vars
    BY <1>1, <1>2
       DEF AgreesInv, ListingInv, StatusInv, MemInv, CalmInv, SecondReloadKeeps, Kept, Agrees,
           Undisturbed, Reloading, Covered, Finished, Category, Readable, Read, CheckOk, IfaceOk,
           vars, world, daemon, history
  <1>3. CASE Start \/ Leave
    BY <1>1, <1>3, StartAgrees, LeaveAgrees
  <1>4. ASSUME NEW o \in Objects,
               Add(o) \/ AddFails(o) \/ Compare(o) \/ CompareFails(o) \/ Skip(o)
        PROVE  AgreesInv'
    BY <1>1, <1>4, AddAgrees, AddFailsAgrees, CompareAgrees, CompareFailsAgrees, SkipAgrees
  <1>5. CASE \/ \E o \in Objects : Edit(o) \/ Create(o) \/ Delete(o)
             \/ \E i \in Ifaces : Replug(i)
    <2>1. UNCHANGED daemon
      BY <1>1, <1>5, WorldType
    <2>2. Edited
      BY <1>5 DEF Edit, Create, Delete, Replug
    <2>3. QED
      BY <1>1, <2>1, <2>2, EditAgrees DEF Edited
  <1>6. QED
    BY <1>2, <1>3, <1>4, <1>5 DEF Next

LEMMA AgreesTheorem == Spec => []AgreesInv
  <1>1. Init => AgreesInv
    BY InitDependents DEF Init, AgreesInv, ListingInv, StatusInv, MemInv, CalmInv,
       SecondReloadKeeps, Undisturbed, Reloading
  <1>2. QED
    BY <1>1, NextAgrees, PTL DEF Spec

LEMMA ReloadedIsCovered == Reloaded => Undisturbed /\ Covered = Objects \cup visited
  BY DEF Reloaded, Undisturbed, Covered, Finished

LEMMA AgreesLoads == AgreesInv => LoadsWhatIsThere
  BY ReloadedIsCovered DEF AgreesInv, MemInv, Agrees, LoadsWhatIsThere

LEMMA AgreesStatus == AgreesInv => StatusIsTrue
  BY ReloadedIsCovered DEF AgreesInv, DependentsInv, TypeOK, StatusInv, StatusIsTrue

LEMMA AgreesSettles == AgreesInv => OnlyRemovedUnsettled
  <1> SUFFICES ASSUME AgreesInv, Reloaded, NEW i \in known \cap Ifaces, AddressChanged(i),
                      status[i] # "removed"
               PROVE  FALSE
    BY DEF OnlyRemovedUnsettled
  <1>1. i \in Objects /\ i \in Dynamic /\ i \notin Zones
    BY ObjectsAssumption DEF Objects, ZoneData, AddressChanged
  <1>2. Readable(i) /\ Agrees(i)
    BY <1>1, ReloadedIsCovered DEF AgreesInv, StatusInv, MemInv
  <1>3. mem[i].key = device[i] /\ mem[i].up = (device[i] # NoKey)
    BY <1>1, <1>2 DEF Agrees, Read
  <1>4. QED
    BY <1>3 DEF AddressChanged

(* After a reload during which nothing was edited the memory is what the files
   say, for every tree of objects and whatever was edited before it. *)
THEOREM LoadsTheorem == Spec => []LoadsWhatIsThere
  BY AgreesTheorem, AgreesLoads, PTL

(* ... and removed is exactly what is not there or cannot be read. *)
THEOREM StatusTheorem == Spec => []StatusIsTrue
  BY AgreesTheorem, AgreesStatus, PTL

(* A second reload in a row finds no change, but for what refers to the removed. *)
THEOREM SecondReloadTheorem == Spec => []SecondReloadKeeps
  <1>1. AgreesInv => SecondReloadKeeps
    BY DEF AgreesInv
  <1>2. QED
    BY <1>1, AgreesTheorem, PTL

(* No interface but a removed one differs from its device after a reload. *)
THEOREM SettledTheorem == Spec => []OnlyRemovedUnsettled
  BY AgreesTheorem, AgreesSettles, PTL
=============================================================================

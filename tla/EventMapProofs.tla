---------------------------- MODULE EventMapProofs ----------------------------
(***************************************************************************)
(* Theorems about EventMap, for every source tree, set of events, number   *)
(* of instances and sequence of generator runs: as long as no element of   *)
(* the path above the input directory looks like a version, storing and    *)
(* reading domain events through generated mappings of any age is          *)
(* transparent, the next build reads all that any build has stored or may  *)
(* store, and generated tests that compile pass.                           *)
(***************************************************************************)
EXTENDS EventMap, WellFoundedInduction, SequenceTheorems, TLAPS

(* No checkout lies below a directory named like a version.                *)
NoVersionAbove ==
    \A c \in Checkouts : VersionElements(c.path \o InputPath) = {}

-----------------------------------------------------------------------------
(* The leftmost version element of a path exists if there is any.          *)
LEMMA LeftmostIsFirst ==
    ASSUME NEW path \in Seq(STRING), VersionElements(path) # {}
    PROVE  /\ Leftmost(path) \in VersionElements(path)
           /\ \A j \in VersionElements(path) : Leftmost(path) <= j
<1> DEFINE smaller == OpToRel(<, Nat)
<1>1. VersionElements(path) \subseteq Nat
    BY DEF VersionElements
<1>2. IsWellFoundedOn(smaller, Nat)
    BY NatLessThanWellFounded
<1>3. \A i, j \in Nat : <<i, j>> \in smaller <=> i < j
    BY DEF OpToRel
<1> HIDE DEF smaller
<1>4. PICK i \in VersionElements(path) :
            \A j \in VersionElements(path) : <<j, i>> \notin smaller
    BY <1>1, <1>2, WFMin
<1>5. ASSUME NEW j \in VersionElements(path)
      PROVE  i <= j
    <2>1. i \in Nat /\ j \in Nat
        BY <1>1
    <2>2. ~(j < i)
        BY <1>3, <1>4, <2>1
    <2> QED
        BY <2>1, <2>2
<1> QED
    BY <1>4, <1>5 DEF Leftmost

(* Elements before the input directory that do not look like versions do   *)
(* not matter.                                                             *)
LEMMA ElementsBelow ==
    ASSUME NEW above \in Seq(STRING), NEW dir \in Seq(STRING),
           VersionElements(above) = {}
    PROVE  /\ \A i \in VersionElements(dir) : Len(above) + i \in VersionElements(above \o dir)
           /\ \A i \in VersionElements(above \o dir) : i - Len(above) \in VersionElements(dir)
           /\ \A i \in VersionElements(dir) : (above \o dir)[Len(above) + i] = dir[i]
<1> DEFINE path == above \o dir
<1>1. /\ path \in Seq(STRING)
      /\ Len(path) = Len(above) + Len(dir)
      /\ \A i \in 1..Len(path) : path[i] = IF i <= Len(above) THEN above[i]
                                           ELSE dir[i - Len(above)]
    BY ConcatProperties
<1>2. /\ Len(above) \in Nat /\ Len(dir) \in Nat /\ Len(path) \in Nat
      /\ DOMAIN above = 1..Len(above) /\ DOMAIN dir = 1..Len(dir)
      /\ DOMAIN path = 1..Len(path)
    BY <1>1, LenProperties
<1>3. ASSUME NEW i \in VersionElements(dir)
      PROVE  Len(above) + i \in VersionElements(path) /\ path[Len(above) + i] = dir[i]
    <2>1. i \in 1..Len(dir) /\ dir[i] \in DOMAIN Number
        BY <1>2 DEF VersionElements
    <2>2. Len(above) + i \in 1..Len(path) /\ ~(Len(above) + i <= Len(above))
        BY <2>1, <1>1, <1>2
    <2>3. path[Len(above) + i] = dir[(Len(above) + i) - Len(above)]
        BY <2>2, <1>1
    <2>4. (Len(above) + i) - Len(above) = i
        BY <2>1, <1>2
    <2> QED
        BY <2>1, <2>2, <2>3, <2>4, <1>2 DEF VersionElements
<1>4. ASSUME NEW i \in VersionElements(path)
      PROVE  i - Len(above) \in VersionElements(dir)
    <2>1. i \in 1..Len(path) /\ path[i] \in DOMAIN Number
        BY <1>2 DEF VersionElements
    <2>2. CASE i <= Len(above)
        <3>1. i \in DOMAIN above /\ path[i] = above[i]
            BY <2>1, <2>2, <1>1, <1>2
        <3> QED
            BY <3>1, <2>1 DEF VersionElements
    <2>3. CASE ~(i <= Len(above))
        <3>1. i - Len(above) \in 1..Len(dir) /\ path[i] = dir[i - Len(above)]
            BY <2>1, <2>3, <1>1, <1>2
        <3> QED
            BY <3>1, <2>1, <1>2 DEF VersionElements
    <2> QED
        BY <2>2, <2>3
<1> QED
    BY <1>3, <1>4

(* The version of a struct depends on its place below the input directory. *)
LEMMA VersionFromBelow ==
    ASSUME NEW above \in Seq(STRING), NEW dir \in Seq(STRING),
           VersionElements(above) = {}
    PROVE  ExtractVersion(above \o dir) = ExtractVersion(dir)
<1> DEFINE path == above \o dir
<1>1. path \in Seq(STRING) /\ Len(above) \in Nat
    BY ConcatProperties, LenProperties
<1>2. CASE VersionElements(dir) = {}
    <2>1. VersionElements(path) = {}
        BY <1>2, ElementsBelow
    <2> QED
        BY <1>2, <2>1 DEF ExtractVersion
<1>3. CASE VersionElements(dir) # {}
    <2>1. VersionElements(path) # {}
        BY <1>3, ElementsBelow
    <2>2. /\ Leftmost(dir) \in VersionElements(dir)
          /\ \A j \in VersionElements(dir) : Leftmost(dir) <= j
        BY <1>3, LeftmostIsFirst
    <2>3. /\ Leftmost(path) \in VersionElements(path)
          /\ \A j \in VersionElements(path) : Leftmost(path) <= j
        BY <1>1, <2>1, LeftmostIsFirst
    <2>4. Leftmost(path) <= Len(above) + Leftmost(dir)
        BY <2>2, <2>3, ElementsBelow
    <2>5. Leftmost(dir) <= Leftmost(path) - Len(above)
        BY <2>2, <2>3, ElementsBelow
    <2>6. Leftmost(dir) \in Nat /\ Leftmost(path) \in Nat
        <3>1. /\ \A i \in VersionElements(dir) : i \in Nat
              /\ \A i \in VersionElements(path) : i \in Nat
            BY <1>1 DEF VersionElements
        <3> QED
            BY <3>1, <2>2, <2>3
    <2>7. Leftmost(path) = Len(above) + Leftmost(dir)
        BY <2>4, <2>5, <2>6, <1>1
    <2>8. path[Leftmost(path)] = dir[Leftmost(dir)]
        <3>1. \A i \in VersionElements(dir) : path[Len(above) + i] = dir[i]
            BY ElementsBelow, ZenonT(60)
        <3> QED
            BY <3>1, <2>7, <2>2
    <2> QED
        BY <1>3, <2>1, <2>8 DEF ExtractVersion
<1> QED
    BY <1>2, <1>3

-----------------------------------------------------------------------------
(* The inductive invariant: every EventInfo anywhere comes from a struct   *)
(* and a checkout, and every stored event from an EventInfo.               *)
ModulePaths == {ModulePath(c, flag) : c \in Checkouts, flag \in Flags} \cup {<< >>}

Infos == {EventInfo(s, c, m) : s \in Structs, c \in Checkouts, m \in ModulePaths}

GenRuns == [phase : {"idle", "walking", "coded"}, checkout : Checkouts,
            modulePath : ModulePaths, next : Nat, found : SUBSET Infos,
            careful : BOOLEAN]

MappedEvents == {ToHelper(i) : i \in Infos}

MapInv ==
    /\ tree \subseteq Structs
    /\ gen \in GenRuns
    /\ code.infos \subseteq Infos
    /\ app \in [Apps -> SUBSET Infos]
    /\ stored \in Seq(MappedEvents)
    /\ seen \in [Apps -> Seq(Schemas)]

(* Directories are paths.                                                  *)
LEMMA DirsArePaths == Dirs \subseteq Seq(STRING)
<1> SUFFICES ASSUME NEW k \in DOMAIN Walk PROVE Walk[k] \in Seq(STRING)
    BY DEF Dirs
<1>1. Walk \in Seq(Seq(STRING))
    BY PathsAssumption
<1>2. k \in 1..Len(Walk)
    BY <1>1, LenProperties
<1> QED
    BY <1>1, <1>2, ElementOfSeq

(* A version is a positive number.                                         *)
LEMMA VersionIsPositive ==
    ASSUME NEW path \in Seq(STRING)
    PROVE  ExtractVersion(path) \in Nat \ {0}
<1>1. CASE VersionElements(path) = {}
    BY <1>1 DEF ExtractVersion
<1>2. CASE VersionElements(path) # {}
    <2>1. Leftmost(path) \in VersionElements(path)
        BY <1>2, LeftmostIsFirst
    <2>2. Number[path[Leftmost(path)]] \in Nat
        BY <2>1, NumberAssumption DEF VersionElements
    <2> QED
        BY <2>2 DEF ExtractVersion
<1> QED
    BY <1>1, <1>2

LEMMA OneElementSeq ==
    ASSUME NEW S, NEW x \in S
    PROVE  <<x>> \in Seq(S)
OBVIOUS

(* What -module gives, or go.mod, is a path.                               *)
LEMMA ModulePathsArePaths == ModulePaths \subseteq Seq(STRING)
<1>1. << >> \in Seq(STRING)
    BY EmptySeq
<1>2. ASSUME NEW c \in Checkouts, NEW flag \in Flags
      PROVE  ModulePath(c, flag) \in Seq(STRING)
    <2>1. flag \in Seq(STRING)
        BY FlagsAssumption
    <2>2. Module \in STRING /\ InputPath \in Seq(STRING)
        BY PathsAssumption
    <2>3. <<Module>> \in Seq(STRING)
        BY <2>2, OneElementSeq
    <2>4. <<Module>> \o InputPath \in Seq(STRING)
        BY <2>2, <2>3, ConcatProperties
    <2> QED
        BY <1>1, <2>1, <2>4 DEF ModulePath, DetectModulePath
<1> SUFFICES ASSUME NEW m \in ModulePaths PROVE m \in Seq(STRING)
    OBVIOUS
<1>3. CASE m = << >>
    BY <1>1, <1>3
<1>4. CASE m \in {ModulePath(c, flag) : c \in Checkouts, flag \in Flags}
    <2>1. PICK c \in Checkouts, flag \in Flags : m = ModulePath(c, flag)
        BY <1>4
    <2> QED
        BY <2>1, <1>2
<1> QED
    BY <1>3, <1>4 DEF ModulePaths

(* An EventInfo is well formed and comes from a struct.                    *)
LEMMA InfosAreTyped ==
    ASSUME NEW i \in Infos
    PROVE  /\ i \in EventInfos
           /\ StructOf(i) \in Structs
           /\ Schema(StructOf(i)) \in Schemas
<1>1. PICK s \in Structs, c \in Checkouts, m \in ModulePaths : i = EventInfo(s, c, m)
    BY DEF Infos
<1>2. /\ s.name \in NameSet /\ s.dir \in Dirs /\ s.dir \in Seq(STRING)
      /\ s = [name |-> s.name, dir |-> s.dir]
    BY <1>1, StructsAssumption, DirsArePaths
<1>3. ExtractVersion(c.path \o InputPath \o s.dir) \in Nat \ {0}
    <2>1. c.path \in Seq(STRING) /\ InputPath \in Seq(STRING)
        BY CheckoutsAssumption, PathsAssumption
    <2>2. c.path \o InputPath \in Seq(STRING)
        BY <2>1, ConcatProperties
    <2>3. c.path \o InputPath \o s.dir \in Seq(STRING)
        BY <2>2, <1>2, ConcatProperties
    <2> QED
        BY <2>3, VersionIsPositive
<1>4. ImportPath(m, s.dir) \in Seq(STRING)
    <2>1. m \in Seq(STRING)
        BY ModulePathsArePaths
    <2> QED
        BY <2>1, <1>2, ConcatProperties DEF ImportPath
<1>5. i \in EventInfos
    BY <1>1, <1>2, <1>3, <1>4 DEF EventInfo, EventInfos
<1>6. StructOf(i) = s
    BY <1>1, <1>2 DEF StructOf, EventInfo
<1> QED
    BY <1>5, <1>6 DEF Schemas

(* An EventInfo carries the documented version of its struct.              *)
LEMMA InfosAreHonest ==
    ASSUME NoVersionAbove, NEW i \in Infos
    PROVE  Schema(StructOf(i)) = [name |-> i.name, version |-> i.version]
<1>1. PICK s \in Structs, c \in Checkouts, m \in ModulePaths : i = EventInfo(s, c, m)
    BY DEF Infos
<1>2. s.name \in NameSet /\ s.dir \in Seq(STRING) /\ s = [name |-> s.name, dir |-> s.dir]
    BY <1>1, StructsAssumption, DirsArePaths
<1>3. c.path \o InputPath \in Seq(STRING) /\ VersionElements(c.path \o InputPath) = {}
    <2>1. c.path \in Seq(STRING) /\ InputPath \in Seq(STRING)
        BY CheckoutsAssumption, PathsAssumption
    <2> QED
        BY <2>1, ConcatProperties DEF NoVersionAbove
<1>4. ExtractVersion((c.path \o InputPath) \o s.dir) = ExtractVersion(s.dir)
    BY <1>2, <1>3, VersionFromBelow
<1>5. /\ i.name = s.name /\ i.dir = s.dir
      /\ i.version = ExtractVersion(c.path \o InputPath \o s.dir)
    BY <1>1 DEF EventInfo
<1>6. StructOf(i) = s
    BY <1>2, <1>5 DEF StructOf
<1> QED
    BY <1>4, <1>5, <1>6 DEF Schema

(* Whatever a mapping reads, it reads into a struct of its own.            *)
LEMMA ReadsAStruct ==
    ASSUME NEW infos \in SUBSET Infos, NEW pe, IsReadable(infos, pe)
    PROVE  \E i \in infos : /\ i \in CasesFor(infos, pe)
                            /\ FromESEvent(infos, pe) = StructOf(i)
<1> DEFINE i == CHOOSE k \in CasesFor(infos, pe) : TRUE
<1>1. i \in CasesFor(infos, pe)
    BY DEF IsReadable
<1>2. i \in infos
    BY <1>1 DEF CasesFor
<1> QED
    BY <1>1, <1>2 DEF FromESEvent

(* Whatever mapping reads a stored event, it reads what was stored.        *)
LEMMA ReadsBack ==
    ASSUME NoVersionAbove, NEW infos \in SUBSET Infos, NEW pe \in MappedEvents,
           IsReadable(infos, pe)
    PROVE  Schema(FromESEvent(infos, pe)) = pe.payload
<1>1. PICK i \in Infos : pe = ToHelper(i)
    BY DEF MappedEvents
<1>2. /\ pe.type = i.name /\ pe.version = i.version
      /\ pe.payload = Schema(StructOf(i))
    BY <1>1 DEF ToHelper
<1>3. PICK j \in infos : j \in CasesFor(infos, pe) /\ FromESEvent(infos, pe) = StructOf(j)
    BY ReadsAStruct
<1>4. j \in Infos /\ j.name = pe.type /\ j.version = pe.version
    BY <1>3 DEF CasesFor
<1>5. /\ Schema(StructOf(j)) = [name |-> j.name, version |-> j.version]
      /\ Schema(StructOf(i)) = [name |-> i.name, version |-> i.version]
    BY <1>4, InfosAreHonest
<1> QED
    BY <1>2, <1>3, <1>4, <1>5

(* A converted domain event is what the helper of its struct makes.        *)
LEMMA ConvertsLikeHelper ==
    ASSUME NEW infos \in SUBSET Infos, NEW s \in Structs, IsKnown(infos, s)
    PROVE  /\ ToESEvent(infos, s) \in MappedEvents
           /\ ToESEvent(infos, s).payload = Schema(s)
<1> DEFINE i == CHOOSE k \in CaseOf(infos, s) : TRUE
<1>1. i \in CaseOf(infos, s)
    BY DEF IsKnown
<1>2. i \in Infos /\ StructOf(i) = s
    BY <1>1 DEF CaseOf
<1>3. GetEventVersion(infos, s) = i.version
    BY DEF GetEventVersion
<1> HIDE DEF i
<1>4. i.name = s.name
    BY <1>2 DEF StructOf
<1>5. ToESEvent(infos, s) = ToHelper(i)
    BY <1>2, <1>3, <1>4 DEF ToESEvent, ToHelper, EventTypeOf
<1>6. ToESEvent(infos, s).payload = Schema(s)
    BY DEF ToESEvent
<1> QED
    BY <1>2, <1>5, <1>6 DEF MappedEvents

(* The same for a whole slice.                                             *)
LEMMA SliceConverts ==
    ASSUME NEW infos \in SUBSET Infos, NEW n \in Nat, NEW batch \in [1..n -> Structs],
           IsConvertible(infos, batch)
    PROVE  /\ ToESEvents(infos, batch) \in Seq(MappedEvents)
           /\ Len(ToESEvents(infos, batch)) = n
           /\ \A k \in 1..n : ToESEvents(infos, batch)[k].payload = Schema(batch[k])
<1>1. DOMAIN batch = 1..n
    OBVIOUS
<1>2. ToESEvents(infos, batch) = [k \in 1..n |-> ToESEvent(infos, batch[k])]
    BY <1>1 DEF ToESEvents
<1>3. ASSUME NEW k \in 1..n
      PROVE  /\ ToESEvent(infos, batch[k]) \in MappedEvents
             /\ ToESEvent(infos, batch[k]).payload = Schema(batch[k])
    <2>1. batch[k] \in Structs /\ IsKnown(infos, batch[k])
        BY <1>1 DEF IsConvertible
    <2> QED
        BY <2>1, ConvertsLikeHelper
<1>4. ToESEvents(infos, batch) \in [1..n -> MappedEvents]
    BY <1>2, <1>3
<1>5. ToESEvents(infos, batch) \in Seq(MappedEvents)
    BY <1>4
<1>6. Len(ToESEvents(infos, batch)) = n
    BY <1>4, <1>5
<1> QED
    BY <1>2, <1>3, <1>5, <1>6

-----------------------------------------------------------------------------
LEMMA NoRunIsRun == NoRun \in GenRuns
<1> DEFINE c == CHOOSE d \in Checkouts : TRUE
<1>1. c \in Checkouts
    BY CheckoutsAssumption
<1>2. NoRun = [phase |-> "idle", checkout |-> c, modulePath |-> << >>,
               next |-> 1, found |-> {}, careful |-> TRUE]
    BY DEF NoRun
<1> HIDE DEF c
<1>3. << >> \in ModulePaths
    BY DEF ModulePaths
<1> QED
    BY <1>1, <1>2, <1>3 DEF GenRuns

LEMMA MapInvInit == Init => MapInv
<1> SUFFICES ASSUME Init PROVE MapInv
    OBVIOUS
<1>1. NoRun \in GenRuns
    BY NoRunIsRun
<1>2. << >> \in Seq(MappedEvents) /\ << >> \in Seq(Schemas)
    BY EmptySeq
<1> QED
    BY <1>1, <1>2 DEF Init, MapInv, NoFile

(* What the generator finds in a directory are EventInfos.                 *)
LEMMA FindsInfos ==
    ASSUME MapInv, NEW d
    PROVE  InfosIn(d) \subseteq Infos
<1>1. gen.checkout \in Checkouts /\ gen.modulePath \in ModulePaths
    BY DEF MapInv, GenRuns
<1> QED
    BY <1>1 DEF InfosIn, Infos, MapInv

LEMMA VisitKeepsRun ==
    ASSUME NEW g \in GenRuns, NEW F \in SUBSET Infos
    PROVE  [g EXCEPT !.next = @ + 1, !.found = @ \cup F] \in GenRuns
<1> DEFINE h == [g EXCEPT !.next = g.next + 1]
<1>1. g.next \in Nat /\ g.found \in SUBSET Infos
    BY DEF GenRuns
<1>2. h \in GenRuns /\ h.found = g.found
    BY <1>1 DEF GenRuns
<1>3. [g EXCEPT !.next = @ + 1, !.found = @ \cup F]
            = [h EXCEPT !.found = g.found \cup F]
    BY <1>2
<1> HIDE DEF h
<1>4. g.found \cup F \in SUBSET Infos
    BY <1>1
<1> QED
    BY <1>2, <1>3, <1>4 DEF GenRuns

(* Steps of the developers and of the generator.                           *)
LEMMA MapInvGenerates ==
    ASSUME MapInv, Develop \/ Generate
    PROVE  MapInv'
<1> USE DEF MapInv
<1>0. NoRun \in GenRuns
    BY NoRunIsRun
<1>1. ASSUME NEW s \in Structs, AddStruct(s) PROVE MapInv'
    BY <1>1 DEF AddStruct, outputs, running
<1>2. ASSUME NEW s \in Structs, NEW d \in Dirs, MoveStruct(s, d) PROVE MapInv'
    <2>1. gen' = [gen EXCEPT !.careful = gen.phase # "walking"]
        BY <1>2 DEF MoveStruct
    <2>2. gen' \in GenRuns
        BY <2>1 DEF GenRuns
    <2> QED
        BY <1>2, <2>2 DEF MoveStruct, outputs, running
<1>3. ASSUME NEW d \in Dirs, BreakFile(d) \/ MendFile(d) PROVE MapInv'
    BY <1>3 DEF BreakFile, MendFile, outputs, running
<1>4. ASSUME NEW c \in Checkouts, NEW flag \in Flags, Invoke(c, flag) PROVE MapInv'
    <2>1. ModulePath(c, flag) \in ModulePaths
        BY DEF ModulePaths
    <2>2. gen' \in GenRuns
        BY <1>0, <1>4, <2>1 DEF Invoke, GenRuns, NoRun
    <2> QED
        BY <1>4, <2>2 DEF Invoke, sources, outputs, running
<1>5. CASE VisitDirectory
    <2>1. gen' = [gen EXCEPT !.next = @ + 1, !.found = @ \cup InfosIn(Walk[gen.next])]
        BY <1>5 DEF VisitDirectory
    <2>2. InfosIn(Walk[gen.next]) \subseteq Infos
        BY FindsInfos
    <2>3. gen' \in GenRuns
        BY <2>1, <2>2, VisitKeepsRun
    <2> QED
        BY <1>5, <2>3 DEF VisitDirectory, sources, outputs, running
<1>6. CASE EndsEarly
    BY <1>0, <1>6 DEF EndsEarly, sources, outputs, running
<1>7. CASE WriteCode
    <2>1. gen' = [gen EXCEPT !.phase = "coded"]
        BY <1>7 DEF WriteCode
    <2>2. gen' \in GenRuns /\ gen.found \subseteq Infos
        BY <2>1 DEF GenRuns
    <2>3. code'.infos = gen.found
        BY <1>7 DEF WriteCode, Written
    <2> QED
        BY <1>7, <2>2, <2>3 DEF WriteCode, sources, running
<1>8. CASE WriteCodeFails
    BY <1>0, <1>8 DEF WriteCodeFails, Torn, sources, running
<1>9. CASE WriteTests \/ WriteTestsFails
    BY <1>0, <1>9 DEF WriteTests, WriteTestsFails, sources, running
<1> QED
    BY <1>1, <1>2, <1>3, <1>4, <1>5, <1>6, <1>7, <1>8, <1>9 DEF Develop, Generate

(* Steps of the application, and what they are for EventStream.            *)
LEMMA PayloadsOfConcat ==
    ASSUME NEW s \in Seq(MappedEvents), NEW t \in Seq(MappedEvents)
    PROVE  /\ Payloads(s \o t) = Payloads(s) \o Payloads(t)
           /\ Len(Payloads(s)) = Len(s)
           /\ Payloads(s) \in Seq({e.payload : e \in MappedEvents})
<1> DEFINE P == {e.payload : e \in MappedEvents}
<1>1. ASSUME NEW r \in Seq(MappedEvents)
      PROVE  /\ Payloads(r) \in Seq(P)
             /\ Len(Payloads(r)) = Len(r)
             /\ \A k \in 1..Len(r) : Payloads(r)[k] = r[k].payload
    <2>1. DOMAIN r = 1..Len(r) /\ Len(r) \in Nat
        BY LenProperties
    <2>2. Payloads(r) = [k \in 1..Len(r) |-> r[k].payload]
        BY <2>1 DEF Payloads
    <2>3. \A k \in 1..Len(r) : r[k] \in MappedEvents
        BY ElementOfSeq
    <2>4. Payloads(r) \in [1..Len(r) -> P]
        BY <2>2, <2>3
    <2>5. Payloads(r) \in Seq(P)
        BY <2>1, <2>4
    <2> QED
        BY <2>1, <2>2, <2>4, <2>5
<1>2. /\ s \o t \in Seq(MappedEvents)
      /\ Len(s \o t) = Len(s) + Len(t)
      /\ Len(s) \in Nat /\ Len(t) \in Nat
      /\ \A k \in 1..Len(s) + Len(t) :
            (s \o t)[k] = IF k <= Len(s) THEN s[k] ELSE t[k - Len(s)]
    BY ConcatProperties, LenProperties
<1>3. /\ Payloads(s) \o Payloads(t) \in Seq(P)
      /\ Len(Payloads(s) \o Payloads(t)) = Len(s) + Len(t)
      /\ \A k \in 1..Len(s) + Len(t) :
            (Payloads(s) \o Payloads(t))[k] =
                IF k <= Len(s) THEN Payloads(s)[k] ELSE Payloads(t)[k - Len(s)]
    <2> DEFINE u == Payloads(s)
    <2> DEFINE v == Payloads(t)
    <2>1. u \in Seq(P) /\ v \in Seq(P) /\ Len(u) = Len(s) /\ Len(v) = Len(t)
        BY <1>1
    <2> HIDE DEF P, u, v
    <2>2. /\ u \o v \in Seq(P)
          /\ Len(u \o v) = Len(u) + Len(v)
          /\ \A k \in 1..Len(u) + Len(v) :
                (u \o v)[k] = IF k <= Len(u) THEN u[k] ELSE v[k - Len(u)]
        BY <2>1, ConcatProperties
    <2> QED
        BY <2>1, <2>2 DEF u, v
<1>4. ASSUME NEW k \in 1..Len(s) + Len(t)
      PROVE  Payloads(s \o t)[k] = (Payloads(s) \o Payloads(t))[k]
    <2>1. Payloads(s \o t)[k] = (s \o t)[k].payload
        BY <1>1, <1>2
    <2>2. CASE k <= Len(s)
        <3>1. k \in 1..Len(s)
            BY <2>2, <1>2
        <3> QED
            BY <2>1, <2>2, <3>1, <1>1, <1>2, <1>3
    <2>3. CASE ~(k <= Len(s))
        <3>1. k - Len(s) \in 1..Len(t)
            BY <2>3, <1>2
        <3> QED
            BY <2>1, <2>3, <3>1, <1>1, <1>2, <1>3
    <2> QED
        BY <2>2, <2>3
<1> HIDE DEF P
<1>5. Payloads(s \o t) = Payloads(s) \o Payloads(t)
    <2>1. Payloads(s \o t) \in Seq(P) /\ Len(Payloads(s \o t)) = Len(s) + Len(t)
        BY <1>1, <1>2
    <2> QED
        BY <2>1, <1>3, <1>4, SeqEqual
<1> QED
    BY <1>1, <1>5 DEF P

(* Storing one event or a slice is StoreEvents of EventStream.             *)
LEMMA StoreRefines ==
    ASSUME MapInv, NEW a \in Apps,
           \/ \E batch \in Batches : StoreSlice(a, batch)
           \/ \E info \in app[a] : StoreOne(a, info)
    PROVE  MapInv' /\ Transparent!StoreEvents
<1>0. app[a] \in SUBSET Infos /\ stored \in Seq(MappedEvents) /\ MaxBatch \in Nat \ {0}
    BY EventMapBounds DEF MapInv
<1>1. ASSUME NEW new \in Seq(MappedEvents), NEW n \in 1..MaxBatch, Len(new) = n,
             \A k \in 1..n : new[k].payload \in Schemas,
             stored' = stored \o new,
             UNCHANGED <<sources, gen, runs, outputs, app, seen>>
      PROVE  MapInv' /\ Transparent!StoreEvents
    <2>1. stored' \in Seq(MappedEvents)
        BY <1>0, <1>1, ConcatProperties
    <2>2. MapInv'
        BY <2>1, <1>1 DEF MapInv, sources, outputs
    <2>3. Payloads(stored)' = Payloads(stored) \o Payloads(new)
        <3>1. Payloads(stored \o new) = Payloads(stored) \o Payloads(new)
            BY <1>0, PayloadsOfConcat
        <3> QED
            BY <3>1, <1>1 DEF Payloads
    <2>4. Payloads(new) \in [1..n -> Schemas]
        <3>1. DOMAIN new = 1..n
            BY <1>1, LenProperties
        <3> QED
            BY <3>1, <1>1 DEF Payloads
    <2>5. UNCHANGED seen
        BY <1>1
    <2> QED
        BY <2>2, <2>3, <2>4, <2>5 DEF Transparent!StoreEvents
<1>2. ASSUME NEW batch \in Batches, StoreSlice(a, batch)
      PROVE  MapInv' /\ Transparent!StoreEvents
    <2> DEFINE new == ToESEvents(app[a], batch)
    <2>1. PICK n \in 1..MaxBatch : batch \in [1..n -> Structs]
        BY DEF Batches
    <2>2. n \in Nat /\ IsConvertible(app[a], batch)
        BY <1>0, <1>2 DEF StoreSlice
    <2>3. /\ new \in Seq(MappedEvents) /\ Len(new) = n
          /\ \A k \in 1..n : new[k].payload = Schema(batch[k])
        BY <1>0, <2>1, <2>2, SliceConverts
    <2>4. \A k \in 1..n : Schema(batch[k]) \in Schemas
        BY <2>1 DEF Schemas
    <2>5. stored' = stored \o new /\ UNCHANGED <<sources, gen, runs, outputs, app, seen>>
        BY <1>2 DEF StoreSlice
    <2> HIDE DEF new
    <2> QED
        BY <2>3, <2>4, <2>5, <1>1
<1>3. ASSUME NEW info \in app[a], StoreOne(a, info)
      PROVE  MapInv' /\ Transparent!StoreEvents
    <2> DEFINE e == ToHelper(info)
    <2>1. info \in Infos
        BY <1>0
    <2>2. e \in MappedEvents
        BY <2>1 DEF MappedEvents
    <2>3. e.payload \in Schemas
        BY <2>1, InfosAreTyped DEF ToHelper
    <2>4. stored' = Append(stored, e) /\ UNCHANGED <<sources, gen, runs, outputs, app, seen>>
        BY <1>3 DEF StoreOne
    <2> HIDE DEF e
    <2>5. stored' = stored \o <<e>>
        BY <2>2, <2>4, <1>0, AppendIsConcat
    <2>6. <<e>> \in Seq(MappedEvents) /\ Len(<<e>>) = 1 /\ 1 \in 1..MaxBatch
        BY <2>2, <1>0
    <2>7. \A k \in 1..1 : <<e>>[k].payload \in Schemas
        BY <2>3
    <2> QED
        BY <2>4, <2>5, <2>6, <2>7, <1>1
<1> QED
    BY <1>2, <1>3

(* Handling an event keeps types: what was read is a struct.               *)
LEMMA MapInvHandles ==
    ASSUME MapInv, NEW a \in Apps, Handle(a)
    PROVE  MapInv'
<1> DEFINE pe == stored[Len(seen[a]) + 1]
<1> DEFINE x == Schema(FromESEvent(app[a], pe))
<1>0. app[a] \in SUBSET Infos /\ seen \in [Apps -> Seq(Schemas)] /\ seen[a] \in Seq(Schemas)
    BY DEF MapInv
<1>1. IsReadable(app[a], pe)
    BY DEF Handle
<1>2. /\ seen' = [seen EXCEPT ![a] = Append(seen[a], x)]
      /\ UNCHANGED <<sources, gen, runs, outputs, app, stored>>
    BY DEF Handle
<1>3. x \in Schemas
    <2> HIDE DEF pe
    <2>1. PICK i \in app[a] : FromESEvent(app[a], pe) = StructOf(i)
        BY <1>0, <1>1, ReadsAStruct
    <2> QED
        BY <1>0, <2>1, InfosAreTyped
<1> HIDE DEF pe, x
<1>4. Append(seen[a], x) \in Seq(Schemas)
    BY <1>0, <1>3, AppendProperties
<1> QED
    BY <1>0, <1>2, <1>4 DEF MapInv, sources, outputs

(* Handling an event is SeeNext: what was read is what was stored.         *)
LEMMA HandleRefines ==
    ASSUME NoVersionAbove, MapInv, NEW a \in Apps, Handle(a)
    PROVE  Transparent!SeeNext(a)
<1> DEFINE n  == Len(seen[a]) + 1
<1> DEFINE pe == stored[n]
<1>0. /\ app[a] \in SUBSET Infos /\ stored \in Seq(MappedEvents)
      /\ seen[a] \in Seq(Schemas)
    BY DEF MapInv
<1>1. n \in 1..Len(stored)
    BY <1>0, LenProperties DEF Handle
<1>2. pe \in MappedEvents /\ IsReadable(app[a], pe)
    BY <1>0, <1>1, ElementOfSeq DEF Handle
<1>3. Schema(FromESEvent(app[a], pe)) = pe.payload
    BY <1>0, <1>2, ReadsBack
<1>4. /\ seen' = [seen EXCEPT ![a] = Append(@, Schema(FromESEvent(app[a], pe)))]
      /\ UNCHANGED <<sources, gen, runs, outputs, app, stored>>
    BY DEF Handle
<1>5. seen' = [seen EXCEPT ![a] = Append(seen[a], pe.payload)]
    BY <1>3, <1>4
<1>6. Len(Payloads(stored)) = Len(stored) /\ Payloads(stored)[n] = pe.payload
    <2>1. Len(Payloads(stored)) = Len(stored)
        BY <1>0, PayloadsOfConcat
    <2>2. DOMAIN stored = 1..Len(stored)
        BY <1>0, LenProperties
    <2> QED
        BY <2>1, <2>2, <1>1 DEF Payloads
<1>7. Len(seen[a]) < Len(stored)
    BY DEF Handle
<1>8. Payloads(stored)' = Payloads(stored)
    BY <1>4 DEF Payloads
<1> QED
    BY <1>5, <1>6, <1>7, <1>8 DEF Transparent!SeeNext

LEMMA MapInvDeploys ==
    ASSUME MapInv, NEW a \in Apps, Deploy(a)
    PROVE  MapInv'
<1>1. code.infos \in SUBSET Infos
    BY DEF MapInv
<1>2. /\ app' = [app EXCEPT ![a] = code.infos]
      /\ UNCHANGED <<sources, gen, runs, outputs, stored, seen>>
    BY DEF Deploy
<1> QED
    BY <1>1, <1>2 DEF MapInv, sources, outputs

LEMMA MapInvStep == MapInv /\ [Next]_vars => MapInv'
<1> SUFFICES ASSUME MapInv, [Next]_vars PROVE MapInv'
    OBVIOUS
<1>1. CASE Develop \/ Generate
    BY <1>1, MapInvGenerates
<1>2. ASSUME NEW a \in Apps, Deploy(a) PROVE MapInv'
    BY <1>2, MapInvDeploys
<1>3. ASSUME NEW a \in Apps,
             \/ \E batch \in Batches : StoreSlice(a, batch)
             \/ \E info \in app[a] : StoreOne(a, info)
      PROVE  MapInv'
    BY <1>3, StoreRefines
<1>4. ASSUME NEW a \in Apps, Handle(a) PROVE MapInv'
    BY <1>4, MapInvHandles
<1>5. CASE UNCHANGED vars
    BY <1>5 DEF vars, sources, outputs, running, MapInv
<1> QED
    BY <1>1, <1>2, <1>3, <1>4, <1>5 DEF Next, Run

(* Steps that leave the stored events and the projections alone.           *)
LEMMA TheRestIsQuiet ==
    ASSUME Develop \/ Generate \/ (\E a \in Apps : Deploy(a)) \/ UNCHANGED vars
    PROVE  UNCHANGED <<Payloads(stored), seen>>
<1>1. UNCHANGED <<stored, seen>>
    BY DEF Develop, Generate, AddStruct, MoveStruct, BreakFile, MendFile,
        Invoke, VisitDirectory, EndsEarly, WriteCode, WriteCodeFails, WriteTests,
        WriteTestsFails, Deploy, running, vars
<1> QED
    BY <1>1 DEF Payloads

(* Every step is a step of EventStream or none.                            *)
LEMMA StepRefines ==
    ASSUME NoVersionAbove, MapInv, [Next]_vars
    PROVE  [Transparent!Next]_<<Payloads(stored), seen>>
<1>1. CASE Develop \/ Generate \/ (\E a \in Apps : Deploy(a)) \/ UNCHANGED vars
    BY <1>1, TheRestIsQuiet
<1>2. ASSUME NEW a \in Apps,
             \/ \E batch \in Batches : StoreSlice(a, batch)
             \/ \E info \in app[a] : StoreOne(a, info)
      PROVE  Transparent!Next
    BY <1>2, StoreRefines DEF Transparent!Next
<1>3. ASSUME NEW a \in Apps, Handle(a)
      PROVE  Transparent!Next
    BY <1>3, HandleRefines DEF Transparent!Next
<1> QED
    BY <1>1, <1>2, <1>3 DEF Next, Run

(* Where no directory above the sources looks like a version, a projection *)
(* sees the stored events in their order and each as it was stored, for    *)
(* every mixture of builds, failed runs and changes of the sources.        *)
THEOREM MappingIsTransparent ==
    ASSUME NoVersionAbove
    PROVE  Spec => ImplementsEventStream
<1>1. Init => MapInv
    BY MapInvInit
<1>2. Init => Transparent!Init
    BY DEF Init, Transparent!Init, Payloads
<1>3. MapInv /\ [Next]_vars => MapInv' /\ [Transparent!Next]_<<Payloads(stored), seen>>
    BY MapInvStep, StepRefines
<1> QED
    BY <1>1, <1>2, <1>3, PTL DEF Spec, ImplementsEventStream, Transparent!Spec

(* The type and the version of every stored event are those of the struct  *)
(* it was stored from, so that any later mapping finds the right case.     *)
StoredIsHonest == \A k \in DOMAIN stored :
    stored[k].payload = [name |-> stored[k].type, version |-> stored[k].version]

THEOREM StoredEventsAreHonest ==
    ASSUME NoVersionAbove
    PROVE  Spec => []StoredIsHonest
<1>1. Init => MapInv
    BY MapInvInit
<1>2. MapInv /\ [Next]_vars => MapInv'
    BY MapInvStep
<1>3. MapInv => StoredIsHonest
    <2> SUFFICES ASSUME MapInv, NEW k \in DOMAIN stored
                 PROVE  stored[k].payload
                            = [name |-> stored[k].type, version |-> stored[k].version]
        BY DEF StoredIsHonest
    <2>1. stored[k] \in MappedEvents
        BY ElementOfSeq, LenProperties DEF MapInv
    <2>2. PICK i \in Infos : stored[k] = ToHelper(i)
        BY <2>1 DEF MappedEvents
    <2> QED
        BY <2>2, InfosAreHonest DEF ToHelper
<1> QED
    BY <1>1, <1>2, <1>3, PTL DEF Spec

-----------------------------------------------------------------------------
(* Types, for checkouts of any kind.  FilesInv says what the generator has *)
(* written and what has been built from it.                                *)
InfoFiles == [state : {"none", "whole", "torn"}, infos : SUBSET Infos,
              careful : BOOLEAN]

FilesInv ==
    /\ editing \subseteq Dirs
    /\ gen.next \in 1..(Len(Walk) + 1)
    /\ code \in InfoFiles
    /\ tests \in InfoFiles
    /\ code.state = "whole" <=> code.infos # {}
    /\ gen.phase = "coded" => gen.found = code.infos /\ code.state = "whole"
    /\ \A a \in Apps : CasesDiffer(app[a])

LEMMA WalkIsFinite ==
    /\ Walk \in Seq(Seq(STRING))
    /\ Len(Walk) \in Nat
    /\ DOMAIN Walk = 1..Len(Walk)
<1>1. Walk \in Seq(Seq(STRING))
    BY PathsAssumption
<1> QED
    BY <1>1, LenProperties

LEMMA NoRunFacts ==
    /\ NoRun.next = 1 /\ NoRun.phase = "idle" /\ NoRun.found = {} /\ NoRun.careful
    /\ NoRun.next \in 1..(Len(Walk) + 1)
<1>1. NoRun.next = 1 /\ NoRun.phase = "idle" /\ NoRun.found = {} /\ NoRun.careful
    BY DEF NoRun
<1> QED
    BY <1>1, WalkIsFinite

LEMMA FilesAreFiles ==
    /\ NoFile \in InfoFiles /\ NoFile.state = "none" /\ NoFile.infos = {}
    /\ Torn \in InfoFiles /\ Torn.state = "torn" /\ Torn.infos = {}
    /\ \A F \in SUBSET Infos, b \in BOOLEAN :
            /\ Written(F, b) \in InfoFiles
            /\ Written(F, b).state = "whole" /\ Written(F, b).infos = F
            /\ Written(F, b).careful = b
BY DEF NoFile, Torn, Written, InfoFiles

LEMMA FilesInvInit == Init => FilesInv
<1> SUFFICES ASSUME Init PROVE FilesInv
    OBVIOUS
<1>1. gen.next \in 1..(Len(Walk) + 1) /\ gen.phase = "idle"
    BY NoRunFacts DEF Init
<1>2. code \in InfoFiles /\ tests \in InfoFiles /\ (code.state = "whole" <=> code.infos # {})
    BY FilesAreFiles DEF Init
<1>3. \A a \in Apps : CasesDiffer(app[a])
    BY DEF Init, CasesDiffer
<1> QED
    BY <1>1, <1>2, <1>3 DEF Init, FilesInv

(* What the steps of a run do to its fields.                               *)
LEMMA RunFields ==
    ASSUME MapInv
    PROVE  /\ \A s, d : MoveStruct(s, d) =>
                /\ gen'.phase = gen.phase /\ gen'.next = gen.next
                /\ gen'.found = gen.found /\ gen'.careful = (gen.phase # "walking")
           /\ \A c, flag : Invoke(c, flag) =>
                /\ gen'.phase = "walking" /\ gen'.next = 1
                /\ gen'.found = {} /\ gen'.careful
           /\ VisitDirectory =>
                /\ gen'.phase = "walking" /\ gen'.next = gen.next + 1
                /\ gen'.found = gen.found \cup InfosIn(Walk[gen.next])
                /\ gen'.careful = gen.careful
           /\ WriteCode =>
                /\ gen'.phase = "coded" /\ gen'.next = gen.next
                /\ gen'.found = gen.found
<1>0. gen \in GenRuns
    BY DEF MapInv
<1>1. ASSUME NEW s, NEW d, MoveStruct(s, d)
      PROVE  /\ gen'.phase = gen.phase /\ gen'.next = gen.next
             /\ gen'.found = gen.found /\ gen'.careful = (gen.phase # "walking")
    BY <1>0, <1>1 DEF MoveStruct, GenRuns
<1>2. ASSUME NEW c, NEW flag, Invoke(c, flag)
      PROVE  /\ gen'.phase = "walking" /\ gen'.next = 1
             /\ gen'.found = {} /\ gen'.careful
    BY <1>2 DEF Invoke, NoRun
<1>3. ASSUME VisitDirectory
      PROVE  /\ gen'.phase = "walking" /\ gen'.next = gen.next + 1
             /\ gen'.found = gen.found \cup InfosIn(Walk[gen.next])
             /\ gen'.careful = gen.careful
    BY <1>0, <1>3 DEF VisitDirectory, Walking, GenRuns
<1>4. ASSUME WriteCode
      PROVE  /\ gen'.phase = "coded" /\ gen'.next = gen.next
             /\ gen'.found = gen.found
    BY <1>0, <1>4 DEF WriteCode, GenRuns
<1> QED
    BY <1>1, <1>2, <1>3, <1>4

LEMMA FilesInvDevelops ==
    ASSUME MapInv, FilesInv, Develop
    PROVE  FilesInv'
<1>1. ASSUME NEW s \in Structs, AddStruct(s) PROVE FilesInv'
    BY <1>1 DEF AddStruct, FilesInv, outputs, running
<1>2. ASSUME NEW s \in Structs, NEW d \in Dirs, MoveStruct(s, d) PROVE FilesInv'
    <2>1. gen'.phase = gen.phase /\ gen'.next = gen.next /\ gen'.found = gen.found
        BY <1>2, RunFields
    <2>2. UNCHANGED <<editing, runs, outputs, running>>
        BY <1>2 DEF MoveStruct
    <2> QED
        BY <2>1, <2>2 DEF FilesInv, outputs, running
<1>3. ASSUME NEW d \in Dirs, BreakFile(d) \/ MendFile(d) PROVE FilesInv'
    BY <1>3 DEF BreakFile, MendFile, FilesInv, outputs, running
<1> QED
    BY <1>1, <1>2, <1>3 DEF Develop

LEMMA FilesInvGenerates ==
    ASSUME MapInv, FilesInv, Generate
    PROVE  FilesInv'
<1>0. /\ gen.found \in SUBSET Infos /\ gen.careful \in BOOLEAN
      /\ Len(Walk) \in Nat
    BY WalkIsFinite DEF MapInv, GenRuns
<1>1. ASSUME NEW c \in Checkouts, NEW flag \in Flags, Invoke(c, flag) PROVE FilesInv'
    <2>1. gen'.phase = "walking" /\ gen'.next = 1
        BY <1>1, RunFields
    <2>2. gen'.next \in 1..(Len(Walk) + 1)
        BY <2>1, <1>0
    <2> QED
        BY <1>1, <2>1, <2>2 DEF Invoke, FilesInv, sources, outputs, running
<1>2. CASE VisitDirectory
    <2>1. gen'.phase = "walking" /\ gen'.next = gen.next + 1
        BY <1>2, RunFields
    <2>2. gen'.next \in 1..(Len(Walk) + 1)
        BY <1>0, <1>2, <2>1 DEF VisitDirectory, Walking, FilesInv
    <2> QED
        BY <1>2, <2>1, <2>2 DEF VisitDirectory, FilesInv, sources, outputs, running
<1>3. CASE EndsEarly
    BY <1>3, NoRunFacts DEF EndsEarly, FilesInv, sources, outputs, running
<1>4. CASE WriteCode
    <2>1. gen'.phase = "coded" /\ gen'.next = gen.next /\ gen'.found = gen.found
        BY <1>4, RunFields
    <2>2. code' = Written(gen.found, gen.careful) /\ gen.found # {}
        BY <1>4 DEF WriteCode
    <2>3. code' \in InfoFiles /\ code'.state = "whole" /\ code'.infos = gen.found
        BY <1>0, <2>2, FilesAreFiles
    <2> QED
        BY <1>4, <2>1, <2>2, <2>3 DEF WriteCode, FilesInv, sources, running
<1>5. CASE WriteCodeFails
    BY <1>5, NoRunFacts, FilesAreFiles DEF WriteCodeFails, FilesInv, sources, running
<1>6. CASE WriteTests
    <2>1. tests' = Written(gen.found, gen.careful)
        BY <1>6 DEF WriteTests
    <2>2. tests' \in InfoFiles
        BY <1>0, <2>1, FilesAreFiles
    <2> QED
        BY <1>6, <2>2, NoRunFacts DEF WriteTests, FilesInv, sources, running
<1>7. CASE WriteTestsFails
    BY <1>7, NoRunFacts, FilesAreFiles DEF WriteTestsFails, FilesInv, sources, running
<1> QED
    BY <1>1, <1>2, <1>3, <1>4, <1>5, <1>6, <1>7 DEF Generate

LEMMA FilesInvStep ==
    ASSUME MapInv, FilesInv, [Next]_vars
    PROVE  FilesInv'
<1>1. CASE Develop
    BY <1>1, FilesInvDevelops
<1>2. CASE Generate
    BY <1>2, FilesInvGenerates
<1>3. ASSUME NEW a \in Apps, Deploy(a) PROVE FilesInv'
    <2>1. CasesDiffer(code.infos)
        BY <1>3 DEF Deploy, IsBuildable, Compiles
    <2>2. app' = [app EXCEPT ![a] = code.infos] /\ app \in [Apps -> SUBSET Infos]
        BY <1>3 DEF Deploy, MapInv
    <2>3. \A b \in Apps : CasesDiffer(app'[b])
        <3> TAKE b \in Apps
        <3>1. CASE b = a
            BY <2>1, <2>2, <3>1
        <3>2. CASE b # a
            BY <2>2, <3>2 DEF FilesInv
        <3> QED
            BY <3>1, <3>2
    <2> QED
        BY <1>3, <2>3 DEF Deploy, FilesInv, sources, outputs
<1>4. ASSUME NEW a \in Apps,
             \/ \E batch \in Batches : StoreSlice(a, batch)
             \/ \E info \in app[a] : StoreOne(a, info)
             \/ Handle(a)
      PROVE  FilesInv'
    BY <1>4 DEF StoreSlice, StoreOne, Handle, FilesInv, sources, outputs
<1>5. CASE UNCHANGED vars
    BY <1>5 DEF vars, FilesInv, sources, outputs, running
<1> QED
    BY <1>1, <1>2, <1>3, <1>4, <1>5 DEF Next, Run

LEMMA TypesFollow == MapInv /\ FilesInv => TypeOK
<1> SUFFICES ASSUME MapInv, FilesInv PROVE TypeOK
    OBVIOUS
<1>1. Infos \subseteq EventInfos
    BY InfosAreTyped
<1>2. MappedEvents \subseteq ESEvents
    <2> SUFFICES ASSUME NEW i \in Infos PROVE ToHelper(i) \in ESEvents
        BY DEF MappedEvents
    <2>1. i.name \in NameSet /\ i.version \in Nat \ {0}
        BY <1>1 DEF EventInfos
    <2>2. Schema(StructOf(i)) \in Schemas
        BY InfosAreTyped
    <2> QED
        BY <2>1, <2>2 DEF ToHelper, ESEvents
<1>3. stored \in Seq(ESEvents)
    <2>1. stored \in Seq(MappedEvents)
        BY DEF MapInv
    <2> QED
        BY <1>2, <2>1, ElementOfSeq, SeqDef
<1>4. code \in Files /\ tests \in Files
    BY <1>1 DEF FilesInv, InfoFiles, Files
<1>5. app \in [Apps -> SUBSET EventInfos] /\ gen.found \subseteq EventInfos
    BY <1>1 DEF MapInv, GenRuns
<1>6. tree \subseteq Structs /\ seen \in [Apps -> Seq(Schemas)]
    BY DEF MapInv
<1>7. gen.phase \in {"idle", "walking", "coded"}
    BY DEF MapInv, GenRuns
<1> QED
    BY <1>3, <1>4, <1>5, <1>6, <1>7 DEF FilesInv, TypeOK

(* Whatever the checkouts are: what is generated, deployed and stored is   *)
(* well formed, a mapping that was written whole is not empty, and the     *)
(* cases of every running mapping differ.                                  *)
THEOREM MappingTypes == Spec => []TypeOK
<1>1. Init => MapInv /\ FilesInv
    BY MapInvInit, FilesInvInit
<1>2. (MapInv /\ FilesInv) /\ [Next]_vars => (MapInv /\ FilesInv)'
    BY MapInvStep, FilesInvStep
<1>3. MapInv /\ FilesInv => TypeOK
    BY TypesFollow
<1> QED
    BY <1>1, <1>2, <1>3, PTL DEF Spec

-----------------------------------------------------------------------------
(* What a careful run finds.  Known are the schemas that anything depends  *)
(* on: those of the stored events and of the mappings that run, that are   *)
(* on disk and that the tests on disk were written from.  KnownInv says    *)
(* that all of them live on in the tree; that a careful run, on its way,   *)
(* has found each of them or has it before it; and that the mapping of a   *)
(* careful run has all of them, whatever has happened since.               *)
SchemasOf(infos) == {Schema(StructOf(i)) : i \in infos}

Live  == {Schema(s) : s \in tree}
Ahead == {Schema(s) : s \in {t \in tree : \E k \in gen.next..Len(Walk) : t.dir = Walk[k]}}

StoredSchemas == {stored[k].payload : k \in DOMAIN stored}
Running == UNION {SchemasOf(app[a]) : a \in Apps}
Known   == StoredSchemas \cup Running \cup SchemasOf(code.infos) \cup SchemasOf(tests.infos)

KnownLives   == Known \cup SchemasOf(gen.found) \subseteq Live
KnownIsAhead == gen.phase = "walking" /\ gen.careful =>
                    Known \subseteq SchemasOf(gen.found) \cup Ahead
KnownIsFound == code.state = "whole" /\ code.careful =>
                    Known \subseteq SchemasOf(code.infos)

KnownInv == KnownLives /\ KnownIsAhead /\ KnownIsFound

LEMMA KnownInvInit == Init => KnownInv
<1> SUFFICES ASSUME Init PROVE KnownInv
    OBVIOUS
<1>1. SchemasOf(code.infos) = {} /\ SchemasOf(tests.infos) = {} /\ SchemasOf(gen.found) = {}
    BY NoRunFacts, FilesAreFiles DEF Init, SchemasOf
<1>2. Running = {}
    BY DEF Init, Running, SchemasOf
<1>3. StoredSchemas = {}
    BY DEF Init, StoredSchemas
<1>4. gen.phase = "idle" /\ code.state = "none"
    BY NoRunFacts, FilesAreFiles DEF Init
<1> QED
    BY <1>1, <1>2, <1>3, <1>4 DEF KnownInv, KnownLives, KnownIsAhead, KnownIsFound, Known

(* A directory is found as it is.                                          *)
LEMMA FindsWhatIsThere ==
    ASSUME MapInv, NEW d
    PROVE  SchemasOf(InfosIn(d)) = {Schema(s) : s \in {t \in tree : t.dir = d}}
<1>1. ASSUME NEW s \in tree
      PROVE  StructOf(EventInfo(s, gen.checkout, gen.modulePath)) = s
    <2>1. s = [name |-> s.name, dir |-> s.dir]
        BY StructsAssumption DEF MapInv
    <2> QED
        BY <2>1 DEF EventInfo, StructOf
<1>2. ASSUME NEW s \in tree, s.dir = d
      PROVE  Schema(s) \in SchemasOf(InfosIn(d))
    BY <1>1, <1>2 DEF InfosIn, SchemasOf
<1>3. ASSUME NEW x \in SchemasOf(InfosIn(d))
      PROVE  \E s \in tree : s.dir = d /\ x = Schema(s)
    <2>1. PICK i \in InfosIn(d) : x = Schema(StructOf(i))
        BY DEF SchemasOf
    <2>2. PICK s \in tree : s.dir = d /\ i = EventInfo(s, gen.checkout, gen.modulePath)
        BY DEF InfosIn
    <2> QED
        BY <1>1, <2>1, <2>2
<1> QED
    BY <1>2, <1>3

LEMMA SchemasOfUnion ==
    ASSUME NEW F, NEW G
    PROVE  SchemasOf(F \cup G) = SchemasOf(F) \cup SchemasOf(G)
BY DEF SchemasOf

(* Developers: nothing depends on more than before, no schema dies, and a  *)
(* struct that is added to the tree takes nothing from what is ahead.      *)
LEMMA KnownInvDevelops ==
    ASSUME MapInv, KnownInv, Develop
    PROVE  KnownInv'
<1> USE DEF KnownInv
<1>1. ASSUME UNCHANGED <<code, tests, app, stored>>
      PROVE  Known' = Known
    BY <1>1 DEF Known, StoredSchemas, Running
<1>2. ASSUME NEW s \in Structs, AddStruct(s) PROVE KnownInv'
    <2>1. tree' = tree \cup {s} /\ UNCHANGED <<gen, code, tests, app, stored>>
        BY <1>2 DEF AddStruct, outputs, running
    <2>2. Live \subseteq Live' /\ Ahead \subseteq Ahead' /\ Known' = Known
        BY <1>1, <2>1 DEF Live, Ahead
    <2>3. SchemasOf(gen.found)' = SchemasOf(gen.found)
        BY <2>1
    <2> QED
        BY <2>1, <2>2, <2>3 DEF KnownLives, KnownIsAhead, KnownIsFound
<1>3. ASSUME NEW s \in Structs, NEW d \in Dirs, MoveStruct(s, d) PROVE KnownInv'
    <2> DEFINE moved == [s EXCEPT !.dir = d]
    <2>1. /\ tree' = (tree \ {s}) \cup {moved} /\ Schema(moved) = Schema(s)
          /\ UNCHANGED <<code, tests, app, stored>>
        BY <1>3 DEF MoveStruct, outputs, running
    <2>2. /\ gen'.phase = gen.phase /\ gen'.found = gen.found
          /\ gen'.careful = (gen.phase # "walking")
        BY <1>3, RunFields
    <2> HIDE DEF moved
    <2>3. Live \subseteq Live'
        BY <2>1 DEF Live
    <2>4. SchemasOf(gen'.found) = SchemasOf(gen.found) /\ Known' = Known
        BY <1>1, <2>1, <2>2
    <2>5. ~(gen'.phase = "walking" /\ gen'.careful)
        BY <2>2
    <2> QED
        BY <2>1, <2>3, <2>4, <2>5 DEF KnownLives, KnownIsAhead, KnownIsFound, SchemasOf
<1>4. ASSUME NEW d \in Dirs, BreakFile(d) \/ MendFile(d) PROVE KnownInv'
    <2>1. UNCHANGED <<tree, gen, code, tests, app, stored>>
        BY <1>4 DEF BreakFile, MendFile, outputs, running
    <2>2. Live' = Live /\ Ahead' = Ahead /\ Known' = Known
        BY <1>1, <2>1 DEF Live, Ahead
    <2> QED
        BY <2>1, <2>2 DEF KnownLives, KnownIsAhead, KnownIsFound, SchemasOf
<1> QED
    BY <1>2, <1>3, <1>4 DEF Develop

(* A directory is visited: what was ahead in it has been found.            *)
LEMMA KnownInvVisits ==
    ASSUME MapInv, FilesInv, KnownInv, VisitDirectory
    PROVE  KnownInv'
<1> DEFINE d == Walk[gen.next]
<1> DEFINE There == {Schema(s) : s \in {t \in tree : t.dir = d}}
<1>1. /\ gen'.phase = "walking" /\ gen'.next = gen.next + 1
      /\ gen'.found = gen.found \cup InfosIn(d) /\ gen'.careful = gen.careful
    BY RunFields
<1>2. UNCHANGED <<tree, code, tests, app, stored>>
    BY DEF VisitDirectory, sources, outputs, running
<1>3. gen.phase = "walking" /\ gen.next \in 1..(Len(Walk) + 1) /\ Len(Walk) \in Nat
    BY WalkIsFinite DEF VisitDirectory, Walking, FilesInv
<1>4. SchemasOf(gen'.found) = SchemasOf(gen.found) \cup There
    <2>1. SchemasOf(InfosIn(d)) = There
        BY FindsWhatIsThere
    <2> QED
        BY <1>1, <2>1, SchemasOfUnion
<1>5. Live' = Live /\ Known' = Known
    BY <1>2 DEF Live, Known, StoredSchemas, Running
<1>6. There \subseteq Live
    BY DEF Live
<1>7. Ahead \subseteq There \cup Ahead'
    <2> SUFFICES ASSUME NEW s \in tree, NEW k \in gen.next..Len(Walk), s.dir = Walk[k]
                 PROVE  Schema(s) \in There \cup Ahead'
        BY DEF Ahead
    <2>1. CASE k = gen.next
        BY <2>1
    <2>2. CASE k # gen.next
        <3>1. k \in gen'.next..Len(Walk)
            BY <1>1, <1>3, <2>2
        <3> QED
            BY <3>1, <1>2 DEF Ahead
    <2> QED
        BY <2>1, <2>2
<1> HIDE DEF There
<1>8. KnownLives'
    BY <1>4, <1>5, <1>6 DEF KnownInv, KnownLives, SchemasOf
<1>9. KnownIsAhead'
    <2> SUFFICES ASSUME gen'.careful PROVE Known' \subseteq SchemasOf(gen'.found) \cup Ahead'
        BY DEF KnownIsAhead, SchemasOf
    <2>1. Known \subseteq SchemasOf(gen.found) \cup Ahead
        BY <1>1, <1>3 DEF KnownInv, KnownIsAhead
    <2> QED
        BY <2>1, <1>4, <1>5, <1>7
<1>10. KnownIsFound'
    BY <1>2, <1>5 DEF KnownInv, KnownIsFound
<1> QED
    BY <1>8, <1>9, <1>10 DEF KnownInv

(* The rest of a run.                                                      *)
LEMMA KnownInvGenerates ==
    ASSUME MapInv, FilesInv, KnownInv, Generate
    PROVE  KnownInv'
<1>1. ASSUME NEW c \in Checkouts, NEW flag \in Flags, Invoke(c, flag) PROVE KnownInv'
    <2>1. gen'.phase = "walking" /\ gen'.next = 1 /\ gen'.found = {}
        BY <1>1, RunFields
    <2>2. UNCHANGED <<tree, code, tests, app, stored>>
        BY <1>1 DEF Invoke, sources, outputs, running
    <2>3. Live' = Live /\ Known' = Known
        BY <2>2 DEF Live, Known, StoredSchemas, Running
    <2>4. Live \subseteq Ahead'
        <3> SUFFICES ASSUME NEW s \in tree PROVE Schema(s) \in Ahead'
            BY DEF Live
        <3>1. s.dir \in Dirs
            BY StructsAssumption DEF MapInv
        <3>2. PICK k \in DOMAIN Walk : s.dir = Walk[k]
            BY <3>1 DEF Dirs
        <3>3. k \in gen'.next..Len(Walk)
            BY <2>1, WalkIsFinite
        <3> QED
            BY <2>2, <3>2, <3>3 DEF Ahead
    <2>5. SchemasOf(gen'.found) = {}
        BY <2>1 DEF SchemasOf
    <2> QED
        BY <2>2, <2>3, <2>4, <2>5
        DEF KnownInv, KnownLives, KnownIsAhead, KnownIsFound, SchemasOf
<1>2. CASE VisitDirectory
    BY <1>2, KnownInvVisits
<1>3. CASE WriteCode
    <2>1. gen'.phase = "coded" /\ gen'.found = gen.found
        BY <1>3, RunFields
    <2>2. code' = Written(gen.found, gen.careful) /\ UNCHANGED <<tree, tests, app, stored>>
        BY <1>3 DEF WriteCode, sources, running
    <2>3. code'.infos = gen.found /\ code'.careful = gen.careful
        BY <2>2, FilesAreFiles DEF MapInv, GenRuns
    <2>4. Live' = Live /\ Known' \subseteq Known \cup SchemasOf(gen.found)
        BY <2>2, <2>3 DEF Live, Known, StoredSchemas, Running
    <2>5. KnownLives'
        BY <2>1, <2>4 DEF KnownInv, KnownLives, SchemasOf
    <2>6. KnownIsFound'
        <3> SUFFICES ASSUME gen.careful PROVE Known' \subseteq SchemasOf(gen.found)
            BY <2>3 DEF KnownIsFound, SchemasOf
        <3>1. gen.phase = "walking" /\ gen.next > Len(Walk)
            BY <1>3 DEF WriteCode, Found
        <3>2. Ahead = {}
            <4>1. gen.next..Len(Walk) = {}
                BY <3>1, WalkIsFinite DEF FilesInv
            <4> QED
                BY <4>1 DEF Ahead
        <3>3. Known \subseteq SchemasOf(gen.found)
            BY <3>1, <3>2 DEF KnownInv, KnownIsAhead
        <3> QED
            BY <2>4, <3>3
    <2> QED
        BY <2>1, <2>5, <2>6 DEF KnownInv, KnownIsAhead
<1>4. ASSUME gen' = NoRun, UNCHANGED <<tree, app, stored>>,
             \/ UNCHANGED code
             \/ code' = Torn,
             \/ UNCHANGED tests
             \/ tests' = Torn
             \/ tests'.infos = code.infos /\ UNCHANGED code
      PROVE  KnownInv'
    <2>1. gen'.phase = "idle" /\ SchemasOf(gen'.found) = {}
        BY <1>4, NoRunFacts DEF SchemasOf
    <2>2. Live' = Live
        BY <1>4 DEF Live
    <2>3. Torn.infos = {} /\ Torn.state = "torn"
        BY FilesAreFiles
    <2>4. SchemasOf(code'.infos) \subseteq SchemasOf(code.infos)
        BY <1>4, <2>3 DEF SchemasOf
    <2>5. SchemasOf(tests'.infos) \subseteq SchemasOf(tests.infos) \cup SchemasOf(code.infos)
        BY <1>4, <2>3 DEF SchemasOf
    <2>6. StoredSchemas' = StoredSchemas /\ Running' = Running
        BY <1>4 DEF StoredSchemas, Running
    <2>7. Known' \subseteq Known
        BY <2>4, <2>5, <2>6 DEF Known, SchemasOf
    <2>8. KnownLives' /\ KnownIsAhead'
        BY <2>1, <2>2, <2>7 DEF KnownInv, KnownLives, KnownIsAhead, SchemasOf
    <2>9. KnownIsFound'
        <3>1. CASE UNCHANGED code
            BY <2>7, <3>1 DEF KnownInv, KnownIsFound
        <3>2. CASE code' = Torn
            BY <2>3, <3>2 DEF KnownIsFound
        <3> QED
            BY <1>4, <3>1, <3>2
    <2> QED
        BY <2>8, <2>9 DEF KnownInv
<1>5. CASE EndsEarly
    BY <1>4, <1>5 DEF EndsEarly, sources, outputs, running
<1>6. CASE WriteCodeFails
    BY <1>4, <1>6 DEF WriteCodeFails, sources, running
<1>7. CASE WriteTests
    <2>1. tests' = Written(gen.found, gen.careful) /\ gen.phase = "coded"
        BY <1>7 DEF WriteTests
    <2>2. tests'.infos = code.infos
        BY <2>1, FilesAreFiles DEF MapInv, GenRuns, FilesInv
    <2> QED
        BY <1>4, <1>7, <2>2 DEF WriteTests, sources, running
<1>8. CASE WriteTestsFails
    BY <1>4, <1>8 DEF WriteTestsFails, sources, running
<1> QED
    BY <1>1, <1>2, <1>3, <1>5, <1>6, <1>7, <1>8 DEF Generate

(* The application depends on nothing that was not known: it deploys the   *)
(* mapping on disk, and stores what its mapping knows.                     *)
LEMMA KnownInvRuns ==
    ASSUME MapInv, KnownInv, Run \/ UNCHANGED vars
    PROVE  KnownInv'
<1>1. ASSUME UNCHANGED <<tree, gen, code, tests>>, StoredSchemas' \cup Running' \subseteq Known
      PROVE  KnownInv'
    <2>1. Live' = Live /\ Ahead' = Ahead
        BY <1>1 DEF Live, Ahead
    <2>2. Known' \subseteq Known
        BY <1>1 DEF Known, SchemasOf
    <2> QED
        BY <1>1, <2>1, <2>2 DEF KnownInv, KnownLives, KnownIsAhead, KnownIsFound, SchemasOf
<1>2. ASSUME NEW a \in Apps, Deploy(a) PROVE KnownInv'
    <2>1. /\ app' = [app EXCEPT ![a] = code.infos]
          /\ UNCHANGED <<tree, gen, code, tests, stored>>
        BY <1>2 DEF Deploy, sources, outputs
    <2>2. Running' \subseteq Running \cup SchemasOf(code.infos)
        <3> SUFFICES ASSUME NEW b \in Apps
                     PROVE  SchemasOf(app'[b]) \subseteq Running \cup SchemasOf(code.infos)
            BY DEF Running, SchemasOf
        <3>1. app'[b] = app[b] \/ app'[b] = code.infos
            BY <2>1 DEF MapInv
        <3> QED
            BY <3>1 DEF Running
    <2>3. StoredSchemas' = StoredSchemas
        BY <2>1 DEF StoredSchemas
    <2> QED
        BY <1>1, <2>1, <2>2, <2>3 DEF Known
<1>3. ASSUME NEW a \in Apps, NEW new \in Seq(MappedEvents), stored' = stored \o new,
             \A k \in 1..Len(new) : new[k].payload \in SchemasOf(app[a]),
             UNCHANGED <<sources, gen, runs, outputs, app, seen>>
      PROVE  KnownInv'
    <2>1. stored \in Seq(MappedEvents)
        BY DEF MapInv
    <2>2. /\ stored' \in Seq(MappedEvents)
          /\ Len(stored') = Len(stored) + Len(new)
          /\ Len(stored) \in Nat /\ Len(new) \in Nat
          /\ \A k \in 1..Len(stored) + Len(new) :
                stored'[k] = IF k <= Len(stored) THEN stored[k] ELSE new[k - Len(stored)]
        BY <2>1, <1>3, ConcatProperties, LenProperties
    <2>3. DOMAIN stored = 1..Len(stored) /\ DOMAIN stored' = 1..Len(stored')
        BY <2>1, <2>2, LenProperties
    <2>4. ASSUME NEW k \in DOMAIN stored'
          PROVE  stored'[k].payload \in StoredSchemas \cup Running
        <3>1. CASE k <= Len(stored)
            <4>1. k \in DOMAIN stored /\ stored'[k] = stored[k]
                BY <2>2, <2>3, <3>1
            <4> QED
                BY <4>1 DEF StoredSchemas
        <3>2. CASE ~(k <= Len(stored))
            <4>1. k - Len(stored) \in 1..Len(new) /\ stored'[k] = new[k - Len(stored)]
                BY <2>2, <2>3, <3>2
            <4> QED
                BY <1>3, <4>1 DEF Running
        <3> QED
            BY <3>1, <3>2
    <2>5. StoredSchemas' \subseteq StoredSchemas \cup Running
        BY <2>4 DEF StoredSchemas
    <2>6. Running' = Running /\ UNCHANGED <<tree, gen, code, tests>>
        BY <1>3 DEF Running, sources, outputs
    <2> QED
        BY <1>1, <2>5, <2>6 DEF Known
<1>4. ASSUME NEW a \in Apps, NEW batch \in Batches, StoreSlice(a, batch) PROVE KnownInv'
    <2> DEFINE new == ToESEvents(app[a], batch)
    <2>1. PICK n \in 1..MaxBatch : batch \in [1..n -> Structs]
        BY DEF Batches
    <2>2. n \in Nat /\ IsConvertible(app[a], batch) /\ app[a] \in SUBSET Infos
        BY EventMapBounds, <1>4 DEF StoreSlice, MapInv
    <2>3. /\ new \in Seq(MappedEvents) /\ Len(new) = n
          /\ \A k \in 1..n : new[k].payload = Schema(batch[k])
        BY <2>1, <2>2, SliceConverts
    <2>4. ASSUME NEW k \in 1..n PROVE Schema(batch[k]) \in SchemasOf(app[a])
        <3>1. IsKnown(app[a], batch[k])
            BY <2>1, <2>2 DEF IsConvertible
        <3>2. PICK i \in app[a] : StructOf(i) = batch[k]
            BY <3>1 DEF IsKnown, CaseOf
        <3> QED
            BY <3>2 DEF SchemasOf
    <2>5. stored' = stored \o new /\ UNCHANGED <<sources, gen, runs, outputs, app, seen>>
        BY <1>4 DEF StoreSlice
    <2> HIDE DEF new
    <2>6. \A k \in 1..Len(new) : new[k].payload \in SchemasOf(app[a])
        BY <2>3, <2>4
    <2> QED
        BY <1>3, <2>3, <2>5, <2>6
<1>5. ASSUME NEW a \in Apps, NEW info \in app[a], StoreOne(a, info) PROVE KnownInv'
    <2> DEFINE e == ToHelper(info)
    <2>1. e \in MappedEvents /\ stored \in Seq(MappedEvents)
        BY DEF MapInv, MappedEvents
    <2>2. e.payload \in SchemasOf(app[a])
        BY DEF ToHelper, SchemasOf
    <2>3. stored' = Append(stored, e) /\ UNCHANGED <<sources, gen, runs, outputs, app, seen>>
        BY <1>5 DEF StoreOne
    <2> HIDE DEF e
    <2>4. stored' = stored \o <<e>>
        BY <2>1, <2>3, AppendIsConcat
    <2>5. <<e>> \in Seq(MappedEvents) /\ Len(<<e>>) = 1
        BY <2>1, OneElementSeq
    <2>6. \A k \in 1..Len(<<e>>) : <<e>>[k].payload \in SchemasOf(app[a])
        BY <2>2, <2>5
    <2> QED
        BY <1>3, <2>3, <2>4, <2>5, <2>6
<1>6. ASSUME NEW a \in Apps, Handle(a) PROVE KnownInv'
    <2>1. UNCHANGED <<tree, gen, code, tests, app, stored>>
        BY <1>6 DEF Handle, sources, outputs
    <2>2. StoredSchemas' = StoredSchemas /\ Running' = Running
        BY <2>1 DEF StoredSchemas, Running
    <2> QED
        BY <1>1, <2>1, <2>2 DEF Known
<1>7. CASE UNCHANGED vars
    <2>1. UNCHANGED <<tree, gen, code, tests, app, stored>>
        BY <1>7 DEF vars, sources, outputs, running
    <2>2. StoredSchemas' = StoredSchemas /\ Running' = Running
        BY <2>1 DEF StoredSchemas, Running
    <2> QED
        BY <1>1, <2>1, <2>2 DEF Known
<1> QED
    BY <1>2, <1>4, <1>5, <1>6, <1>7 DEF Run

LEMMA MappingInit == Init => MapInv /\ FilesInv /\ KnownInv
BY MapInvInit, FilesInvInit, KnownInvInit

LEMMA MappingStep ==
    (MapInv /\ FilesInv /\ KnownInv) /\ [Next]_vars => (MapInv /\ FilesInv /\ KnownInv)'
<1> SUFFICES ASSUME MapInv, FilesInv, KnownInv, [Next]_vars
             PROVE  MapInv' /\ FilesInv' /\ KnownInv'
    OBVIOUS
<1>1. MapInv' /\ FilesInv'
    BY MapInvStep, FilesInvStep
<1>2. KnownInv'
    BY KnownInvDevelops, KnownInvGenerates, KnownInvRuns DEF Next
<1> QED
    BY <1>1, <1>2

(* Where no directory above the sources looks like a version, a mapping    *)
(* that a run wrote undisturbed, and that still compiles, reads every      *)
(* stored event and every event a running instance of any age may store,   *)
(* each as the struct it was.                                              *)
THEOREM NextBuildAlwaysReadsAll ==
    ASSUME NoVersionAbove
    PROVE  Spec => []NextBuildReadsAll
<1>1. MapInv /\ FilesInv /\ KnownInv => NextBuildReadsAll
    <2> SUFFICES ASSUME MapInv, FilesInv, KnownInv, IsBuildable, code.careful,
                        NEW pe \in {stored[k] : k \in DOMAIN stored}
                                    \cup UNION {Storable(app[a]) : a \in Apps}
                 PROVE  /\ IsReadable(code.infos, pe)
                        /\ Schema(FromESEvent(code.infos, pe)) = pe.payload
        BY DEF NextBuildReadsAll
    <2>1. pe \in MappedEvents /\ pe.payload \in Known
        <3>1. CASE pe \in {stored[k] : k \in DOMAIN stored}
            <4>1. PICK k \in DOMAIN stored : pe = stored[k]
                BY <3>1
            <4>2. stored[k] \in MappedEvents
                BY ElementOfSeq, LenProperties DEF MapInv
            <4> QED
                BY <4>1, <4>2 DEF Known, StoredSchemas
        <3>2. CASE pe \in UNION {Storable(app[a]) : a \in Apps}
            <4>0. PICK a \in Apps : pe \in Storable(app[a])
                BY <3>2
            <4>1. PICK i \in app[a] : pe = ToHelper(i)
                BY <4>0 DEF Storable
            <4>2. i \in Infos
                BY DEF MapInv
            <4>3. pe.payload \in SchemasOf(app[a])
                BY <4>1 DEF ToHelper, SchemasOf
            <4> QED
                BY <4>1, <4>2, <4>3 DEF MappedEvents, Known, Running
        <3> QED
            BY <3>1, <3>2
    <2>2. Known \subseteq SchemasOf(code.infos) /\ code.infos \in SUBSET Infos
        BY DEF IsBuildable, KnownInv, KnownIsFound, MapInv
    <2>3. PICK i \in code.infos : Schema(StructOf(i)) = pe.payload
        BY <2>1, <2>2 DEF SchemasOf
    <2>4. PICK j \in Infos : pe = ToHelper(j)
        BY <2>1 DEF MappedEvents
    <2>5. pe.type = j.name /\ pe.version = j.version /\ pe.payload = Schema(StructOf(j))
        BY <2>4 DEF ToHelper
    <2>6. /\ Schema(StructOf(i)) = [name |-> i.name, version |-> i.version]
          /\ Schema(StructOf(j)) = [name |-> j.name, version |-> j.version]
        BY <2>2, InfosAreHonest
    <2>7. i.name = pe.type /\ i.version = pe.version
        BY <2>3, <2>5, <2>6
    <2>8. IsReadable(code.infos, pe)
        BY <2>7 DEF IsReadable, CasesFor
    <2> QED
        BY <2>1, <2>2, <2>8, ReadsBack
<1> QED
    BY <1>1, MappingInit, MappingStep, PTL DEF Spec

(* Tests that compile, and the mapping they are run against.               *)
LEMMA TestsThatCompilePass ==
    ASSUME NoVersionAbove, NEW old \in SUBSET Infos, NEW infos \in SUBSET Infos,
           OneStructPerVersion, Compiles(infos, tree), TestsCompile(old, infos, tree),
           SchemasOf(old) \subseteq SchemasOf(infos)
    PROVE  /\ TestEventTypeOf(old, infos)
           /\ TestToESEvents(old, infos)
           /\ TestFromESEvents(old, infos)
           /\ TestOptions(old, infos)
           /\ TestTypeHelpers(old, infos)
<1> DEFINE t == First(old)
<1>1. PICK i \in infos : HelperFor(i, t)
    BY DEF TestsCompile
<1> HIDE DEF t
<1>2. /\ StructOf(i) = StructOf(t) /\ i.version = t.version
      /\ i.name = t.name /\ ToHelper(i) = ToHelper(t)
    BY <1>1 DEF HelperFor, StructOf, ToHelper
<1>3. TestEventTypeOf(old, infos)
    <2> SUFFICES ASSUME NEW u \in old
                 PROVE  IsKnown(infos, StructOf(u)) /\ EventTypeOf(StructOf(u)) = u.name
        BY DEF TestEventTypeOf
    <2>1. PICK k \in infos : Schema(StructOf(k)) = Schema(StructOf(u))
        BY DEF SchemasOf
    <2>2. StructOf(k) \in tree /\ StructOf(u) \in tree
        BY DEF Compiles, TestsCompile, ImportsResolve
    <2>3. StructOf(k) = StructOf(u)
        BY <2>1, <2>2 DEF OneStructPerVersion
    <2> QED
        BY <2>3 DEF IsKnown, CaseOf, EventTypeOf, StructOf
<1>4. IsKnown(infos, StructOf(t))
    BY <1>2 DEF IsKnown, CaseOf
<1>5. TestToESEvents(old, infos)
    <2> DEFINE k == CHOOSE j \in CaseOf(infos, StructOf(t)) : TRUE
    <2>1. k \in CaseOf(infos, StructOf(t))
        BY <1>4 DEF IsKnown
    <2>2. GetEventVersion(infos, StructOf(t)) = k.version
        BY <1>4 DEF GetEventVersion
    <2> HIDE DEF k
    <2>3. k \in Infos /\ i \in Infos /\ StructOf(k) = StructOf(i)
        BY <1>2, <2>1 DEF CaseOf
    <2>4. /\ Schema(StructOf(k)) = [name |-> k.name, version |-> k.version]
          /\ Schema(StructOf(i)) = [name |-> i.name, version |-> i.version]
        BY <2>3, InfosAreHonest
    <2>5. k.version = t.version
        BY <1>2, <2>3, <2>4
    <2>6. ToESEvent(infos, StructOf(t)) = ToHelper(t)
        BY <2>2, <2>5 DEF ToESEvent, ToHelper, EventTypeOf, StructOf
    <2>7. ToESEvents(infos, <<StructOf(t)>>) = <<ToHelper(t)>>
        BY <2>6 DEF ToESEvents
    <2> QED
        BY <2>7 DEF TestToESEvents, t
<1>6. TestFromESEvents(old, infos)
    <2>1. i \in CasesFor(infos, ToHelper(t))
        BY <1>2 DEF CasesFor, ToHelper
    <2>2. IsReadable(infos, ToHelper(t))
        BY <2>1 DEF IsReadable
    <2>3. PICK j \in infos : /\ j \in CasesFor(infos, ToHelper(t))
                             /\ FromESEvent(infos, ToHelper(t)) = StructOf(j)
        BY <2>2, ReadsAStruct
    <2>4. j.name = i.name /\ j.version = i.version
        BY <2>1, <2>3 DEF CasesFor
    <2>5. j = i
        BY <2>4 DEF Compiles, CasesDiffer
    <2> QED
        BY <1>2, <2>2, <2>3, <2>5 DEF TestFromESEvents, t
<1>7. TestOptions(old, infos)
    BY <1>4 DEF TestOptions, t
<1>8. TestTypeHelpers(old, infos)
    BY <1>1 DEF TestTypeHelpers, FromHelperReads, ToHelper, t
<1> QED
    BY <1>3, <1>5, <1>6, <1>7, <1>8

(* Where, moreover, no event has the name that the generated tests use for *)
(* an unknown one, generated tests that compile pass, of whatever run they *)
(* are: the mapping of an undisturbed run has all schemas of the tests.    *)
THEOREM GeneratedTestsAlwaysPass ==
    ASSUME NoVersionAbove, "UnknownEvent" \notin NameSet
    PROVE  Spec => []GeneratedTestsPass
<1>1. MapInv /\ FilesInv /\ KnownInv => GeneratedTestsPass
    <2> SUFFICES ASSUME MapInv, FilesInv, KnownInv, IsBuildable, code.careful,
                        OneStructPerVersion, TestsCompile(tests.infos, code.infos, tree)
                 PROVE  TestsPass(tests.infos, code.infos)
        BY DEF GeneratedTestsPass
    <2>1. tests.infos \in SUBSET Infos /\ code.infos \in SUBSET Infos
        BY DEF FilesInv, InfoFiles
    <2>2. SchemasOf(tests.infos) \subseteq SchemasOf(code.infos)
        BY DEF IsBuildable, KnownInv, KnownIsFound, Known
    <2>3. Compiles(code.infos, tree)
        BY DEF IsBuildable
    <2>4. TestErrorCases(code.infos)
        <3>1. ASSUME NEW i \in code.infos PROVE i.name # "UnknownEvent"
            <4>1. i \in EventInfos
                BY <2>1, InfosAreTyped
            <4> QED
                BY <4>1 DEF EventInfos
        <3> QED
            BY <3>1 DEF TestErrorCases, IsReadable, CasesFor
    <2> QED
        BY <2>1, <2>2, <2>3, <2>4, TestsThatCompilePass DEF TestsPass
<1> QED
    BY <1>1, MappingInit, MappingStep, PTL DEF Spec

=============================================================================

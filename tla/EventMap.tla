------------------------------- MODULE EventMap -------------------------------
(***************************************************************************)
(* The life of a generated event mapping: developers add and move event    *)
(* structs, eventmap-gen walks the source tree and writes the mapping and  *)
(* its tests, and running instances of the application, built at different *)
(* times, store domain events and hand stored events to a projection.      *)
(*                                                                         *)
(* The generator is not atomic: the tree may change while it walks, it may *)
(* stop at a file that does not parse, and each of the two files it writes *)
(* may be left as it was, truncated or missing.  Instances are deployed    *)
(* one by one, so that events are read by older builds than wrote them.    *)
(***************************************************************************)
EXTENDS EventMapping

CONSTANTS
    Checkouts,      \* where, and with which go.mod, the module is checked out
    Flags,          \* what users pass as -module, << >> for nothing
    Apps,           \* running instances of the application
    MaxBatch,       \* bound: domain events of one ToESEvents call
    MaxChanges,     \* bound: changes of the source tree
    MaxRuns,        \* bound: runs of the generator
    MaxStored       \* bound: stored events

ASSUME EventMapBounds ==
    /\ MaxBatch \in Nat \ {0}
    /\ {MaxChanges, MaxRuns, MaxStored} \subseteq Nat

ASSUME CheckoutsAssumption ==
    /\ Checkouts # {}
    /\ \A c \in Checkouts :
        /\ c.path \in Seq(STRING)
        /\ c.goMod \in {"module first", "comment first", "missing"}

ASSUME FlagsAssumption == Flags \subseteq Seq(STRING)

VARIABLES
    tree,           \* the exported event structs in the source tree
    editing,        \* directories with a file that does not parse just now
    gen,            \* the run of the generator
    code,           \* the generated file
    tests,          \* the generated test file
    app,            \* per instance: the mapping it was built with
    stored,         \* the events table, as es.PersistedEvents
    seen,           \* history, per instance: what its projection has handled
    changes, runs   \* bounds: count changes of the tree and runs

sources == <<tree, editing, changes>>
outputs == <<code, tests>>
running == <<app, stored, seen>>
vars    == <<sources, gen, runs, outputs, running>>

(* "idle": no run.  "walking": in Discover, before the directory Walk[next]. *)
(* "coded": the mapping is written, the tests are not.  careful: no struct *)
(* was moved while the run walked.                                         *)
NoRun == [phase |-> "idle", checkout |-> CHOOSE c \in Checkouts : TRUE,
          modulePath |-> << >>, next |-> 1, found |-> {}, careful |-> TRUE]

(* "none": not there.  "whole": written from a mapping.  "torn": truncated. *)
NoFile == [state |-> "none", infos |-> {}, careful |-> TRUE]
Torn   == [state |-> "torn", infos |-> {}, careful |-> TRUE]

Written(infos, careful) ==
    [state |-> "whole", infos |-> infos, careful |-> careful]

Init ==
    /\ tree = {} /\ editing = {} /\ changes = 0
    /\ gen = NoRun /\ runs = 0
    /\ code = NoFile /\ tests = NoFile
    /\ app = [a \in Apps |-> {}]
    /\ stored = << >>
    /\ seen = [a \in Apps |-> << >>]

-----------------------------------------------------------------------------
(* The developers.  They follow the documented way to change an event: a   *)
(* new version gets a new directory and old structs stay.  A struct may    *)
(* move where its documented version remains the same.                     *)
Change == changes < MaxChanges /\ changes' = changes + 1

AddStruct(s) ==
    /\ Change
    /\ s \notin tree
    /\ tree' = tree \cup {s}
    /\ UNCHANGED <<editing, gen, runs, outputs, running>>

MoveStruct(s, d) ==
    /\ Change
    /\ s \in tree
    /\ LET moved == [s EXCEPT !.dir = d] IN
        /\ moved \in Structs \ tree
        /\ Schema(moved) = Schema(s)
        /\ tree' = (tree \ {s}) \cup {moved}
    /\ gen' = [gen EXCEPT !.careful = gen.phase # "walking"]
    /\ UNCHANGED <<editing, runs, outputs, running>>

(* A file is saved that does not parse, and later one that does.           *)
BreakFile(d) ==
    /\ Change
    /\ \E s \in tree : s.dir = d
    /\ d \notin editing
    /\ editing' = editing \cup {d}
    /\ UNCHANGED <<tree, gen, runs, outputs, running>>

MendFile(d) ==
    /\ d \in editing
    /\ editing' = editing \ {d}
    /\ UNCHANGED <<tree, changes, gen, runs, outputs, running>>

-----------------------------------------------------------------------------
(* The generator.                                                          *)

(* main with its flags, up to Discover.                                    *)
Invoke(checkout, flag) ==
    /\ gen.phase = "idle"
    /\ runs < MaxRuns
    /\ runs' = runs + 1
    /\ gen' = [NoRun EXCEPT !.phase = "walking", !.checkout = checkout,
                            !.modulePath = ModulePath(checkout, flag)]
    /\ UNCHANGED <<sources, outputs, running>>

Walking == gen.phase = "walking" /\ gen.next <= Len(Walk)
Found   == gen.phase = "walking" /\ gen.next > Len(Walk)

InfosIn(d) == {EventInfo(s, gen.checkout, gen.modulePath) : s \in {t \in tree : t.dir = d}}

(* Variant: a file that does not parse is left out.                        *)
VisitOrSkip ==
    /\ Walking
    /\ gen' = [gen EXCEPT !.next = @ + 1,
                          !.found = IF Walk[gen.next] \in editing THEN @
                                    ELSE @ \cup InfosIn(Walk[gen.next])]
    /\ UNCHANGED <<sources, runs, outputs, running>>

(* The files of the next directory are parsed.                             *)
VisitDirectory ==
    /\ Walking
    /\ Walk[gen.next] \notin editing
    /\ gen' = [gen EXCEPT !.next = @ + 1, !.found = @ \cup InfosIn(Walk[gen.next])]
    /\ UNCHANGED <<sources, runs, outputs, running>>

(* The run ends before it has opened a file for writing: a file does not   *)
(* parse or cannot be read, no event was found, the output directory       *)
(* cannot be made, the process is killed.                                  *)
EndsEarly ==
    /\ gen.phase = "walking"
    /\ gen' = NoRun
    /\ UNCHANGED <<sources, runs, outputs, running>>

(* Generate sorts the events and writes the mapping.                       *)
WriteCode ==
    /\ Found
    /\ gen.found # {}
    /\ code' = Written(gen.found, gen.careful)
    /\ gen' = [gen EXCEPT !.phase = "coded"]
    /\ UNCHANGED <<sources, runs, tests, running>>

(* os.WriteFile truncates the file first, and fails.                       *)
WriteCodeFails ==
    /\ Found
    /\ gen.found # {}
    /\ code' = Torn
    /\ gen' = NoRun
    /\ UNCHANGED <<sources, runs, tests, running>>

WriteTests ==
    /\ gen.phase = "coded"
    /\ tests' = Written(gen.found, gen.careful)
    /\ gen' = NoRun
    /\ UNCHANGED <<sources, runs, code, running>>

(* The mapping is new, its tests are old or truncated.                     *)
WriteTestsFails ==
    /\ gen.phase = "coded"
    /\ tests' \in {tests, Torn}
    /\ gen' = NoRun
    /\ UNCHANGED <<sources, runs, code, running>>

-----------------------------------------------------------------------------
(* The application.                                                        *)

IsBuildable ==
    /\ code.state = "whole"
    /\ Compiles(code.infos, tree)
    /\ \A i \in code.infos : i.dir \notin editing

(* An instance is started with the current build.                          *)
Deploy(a) ==
    /\ IsBuildable
    /\ app' = [app EXCEPT ![a] = code.infos]
    /\ UNCHANGED <<sources, gen, runs, outputs, stored, seen>>

Batches == UNION {[1..n -> Structs] : n \in 1..MaxBatch}

(* Domain events are converted with ToESEvents and appended.  One unknown  *)
(* struct in the slice and nothing is.                                     *)
StoreSlice(a, batch) ==
    /\ Len(stored) + Len(batch) <= MaxStored
    /\ IsConvertible(app[a], batch)
    /\ stored' = stored \o ToESEvents(app[a], batch)
    /\ UNCHANGED <<sources, gen, runs, outputs, app, seen>>

(* A domain event is converted with the helper of its struct.              *)
StoreOne(a, info) ==
    /\ Len(stored) < MaxStored
    /\ info \in app[a]
    /\ stored' = Append(stored, ToHelper(info))
    /\ UNCHANGED <<sources, gen, runs, outputs, app, seen>>

(* Variant: Handle logs the error and returns nil.                         *)
HandleOrSkip(a) ==
    LET pe == stored[Len(seen[a]) + 1]
        s  == IF IsReadable(app[a], pe) THEN FromESEvent(app[a], pe)
              ELSE CHOOSE t \in Structs : TRUE IN
    /\ Len(seen[a]) < Len(stored)
    /\ app[a] # {}
    /\ seen' = [seen EXCEPT ![a] = Append(@, Schema(s))]
    /\ UNCHANGED <<sources, gen, runs, outputs, app, stored>>

(* Handle of a projection: the next event is converted with FromESEvent.   *)
(* If that fails, Handle returns the error, and the projection stops       *)
(* before the event.                                                       *)
Handle(a) ==
    LET pe == stored[Len(seen[a]) + 1] IN
    /\ Len(seen[a]) < Len(stored)
    /\ IsReadable(app[a], pe)
    /\ seen' = [seen EXCEPT ![a] = Append(@, Schema(FromESEvent(app[a], pe)))]
    /\ UNCHANGED <<sources, gen, runs, outputs, app, stored>>

-----------------------------------------------------------------------------
Develop ==
    \/ \E s \in Structs : AddStruct(s)
    \/ \E s \in Structs, d \in Dirs : MoveStruct(s, d)
    \/ \E d \in Dirs : BreakFile(d) \/ MendFile(d)

Generate ==
    \/ \E c \in Checkouts, flag \in Flags : Invoke(c, flag)
    \/ VisitDirectory
    \/ EndsEarly
    \/ WriteCode
    \/ WriteCodeFails
    \/ WriteTests
    \/ WriteTestsFails

Run == \E a \in Apps :
    \/ Deploy(a)
    \/ \E batch \in Batches : StoreSlice(a, batch)
    \/ \E info \in app[a] : StoreOne(a, info)
    \/ Handle(a)

Next == Develop \/ Generate \/ Run

Spec == Init /\ [][Next]_vars

-----------------------------------------------------------------------------
(* Properties.                                                             *)

EventInfos == [name : NameSet, dir : Dirs, version : Nat \ {0},
               import : Seq(STRING)]

Files == [state : {"none", "whole", "torn"}, infos : SUBSET EventInfos,
          careful : BOOLEAN]

ESEvents == [type : NameSet, version : Nat \ {0}, payload : Schemas]

(* Types; a file that is not whole has no mapping, and only what the       *)
(* compiler took runs: the cases of an instance's mapping differ.          *)
TypeOK ==
    /\ tree \subseteq Structs /\ editing \subseteq Dirs
    /\ gen.phase \in {"idle", "walking", "coded"}
    /\ gen.next \in 1..(Len(Walk) + 1)
    /\ gen.found \subseteq EventInfos
    /\ code \in Files /\ tests \in Files
    /\ code.state = "whole" <=> code.infos # {}
    /\ app \in [Apps -> SUBSET EventInfos]
    /\ \A a \in Apps : CasesDiffer(app[a])
    /\ stored \in Seq(ESEvents)
    /\ seen \in [Apps -> Seq(Schemas)]

(* Storing and reading is transparent: whatever builds write and read, an  *)
(* event is never unmarshalled into another version of its struct, and a   *)
(* projection whose build does not know an event waits and does not skip   *)
(* it ("Round-Trip Conversion", "version routing").                        *)
Payloads(s) == [k \in DOMAIN s |-> s[k].payload]

Transparent == INSTANCE EventStream WITH stored <- Payloads(stored)
ImplementsEventStream == Transparent!Spec

(* What instances with a mapping may still store.                          *)
Storable(infos) == {ToHelper(i) : i \in infos}

(* "Both versions remain available for replaying historical events": the   *)
(* next build reads every stored event, and every event that running       *)
(* instances of any age may still store, as what it was, although structs  *)
(* were added and moved, runs failed half-way and files were broken in     *)
(* between.  Only a struct that moves while the generator walks may be     *)
(* missed by it.                                                           *)
NextBuildReadsAll == IsBuildable /\ code.careful =>
    \A pe \in {stored[k] : k \in DOMAIN stored}
                \cup UNION {Storable(app[a]) : a \in Apps} :
        /\ IsReadable(code.infos, pe)
        /\ Schema(FromESEvent(code.infos, pe)) = pe.payload

(* A version of an event is one struct, as developers are told to keep it. *)
OneStructPerVersion ==
    \A s, t \in tree : Schema(s) = Schema(t) => s = t

(* The generated tests pass whenever they compile, also when they are left *)
(* from an earlier run than the mapping because writing them failed.  They *)
(* would not if the sources gave a version a second struct, which the old  *)
(* tests know and the mapping does not.                                    *)
GeneratedTestsPass ==
    /\ IsBuildable /\ code.careful
    /\ OneStructPerVersion
    /\ tests.state = "whole"
    /\ TestsCompile(tests.infos, code.infos, tree)
    => TestsPass(tests.infos, code.infos)

=============================================================================

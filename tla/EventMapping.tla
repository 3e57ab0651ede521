---------------------------- MODULE EventMapping ----------------------------
(***************************************************************************)
(* The pure part of the event mapping generator (es/eventmap and           *)
(* cmd/eventmap-gen): what it derives from the place of a struct in the    *)
(* source tree, when the Go compiler takes the code it writes, and what    *)
(* that code computes.                                                     *)
(*                                                                         *)
(* A directory is a sequence of path elements.  A mapping, which stands    *)
(* for the text of a generated file, is the set of EventInfos it was       *)
(* written from.  A payload is known by the schema it was marshalled from: *)
(* the struct's name and the version its directory is documented to give.  *)
(***************************************************************************)
EXTENDS Integers, Sequences, FiniteSets

CONSTANTS
    Names,          \* names of the event structs, in lexical order
    Walk,           \* directories below the input directory, in WalkDir order
    Structs,        \* exported event structs that may exist: name and directory
    Number,         \* the path elements v<digits>, and their numbers
    Module,         \* the module path of the application
    InputPath       \* the input directory, below the root of the module

NameSet == {Names[k] : k \in DOMAIN Names}
Dirs    == {Walk[k] : k \in DOMAIN Walk}

ASSUME NamesAssumption ==
    /\ Names \in Seq(NameSet) /\ Names # << >>
    /\ \A j, k \in DOMAIN Names : Names[j] = Names[k] => j = k

ASSUME NumberAssumption == \A n \in DOMAIN Number : Number[n] \in Nat

ASSUME PathsAssumption ==
    /\ InputPath \in Seq(STRING) /\ InputPath # << >>
    /\ Walk \in Seq(Seq(STRING))
    /\ Module \in STRING

ASSUME StructsAssumption == Structs \subseteq [name : NameSet, dir : Dirs]

-----------------------------------------------------------------------------
(* What the generator derives from a path.                                 *)

(* The matches of the expression /v(\d+)/ .                                *)
VersionElements(path) == {i \in DOMAIN path : path[i] \in DOMAIN Number}

(* FindStringSubmatch returns the leftmost match.                          *)
Leftmost(path) ==
    CHOOSE i \in VersionElements(path) : \A j \in VersionElements(path) : i <= j

(* Variant: no version is 0.                                               *)
VersionOrZero(path) ==
    IF VersionElements(path) = {} THEN 0 ELSE Number[path[Leftmost(path)]]

ExtractVersion(path) ==
    IF VersionElements(path) = {} \/ Number[path[Leftmost(path)]] < 1
    THEN 1
    ELSE Number[path[Leftmost(path)]]

(* Version directories determine the version: those below the input.       *)
Schema(struct) == [name |-> struct.name, version |-> ExtractVersion(struct.dir)]

Schemas == {Schema(s) : s \in Structs}

(* main looks for go.mod, upwards from the input directory, and reads the  *)
(* module path if it stands at the very beginning of the file.  A checkout *)
(* says where the module lies and what its go.mod is like.                 *)
DetectModulePath(checkout) ==
    IF checkout.goMod = "module first" THEN <<Module>> \o InputPath ELSE << >>

(* The flag -module, or what was detected.                                 *)
ModulePath(checkout, flag) ==
    IF flag # << >> THEN flag ELSE DetectModulePath(checkout)

ImportPath(modulePath, dir) == modulePath \o dir

(* One entry of Generator.events: the checkout is the one of the run.      *)
EventInfo(struct, checkout, modulePath) ==
    [name    |-> struct.name,
     dir     |-> struct.dir,
     import  |-> ImportPath(modulePath, struct.dir),
     version |-> ExtractVersion(checkout.path \o InputPath \o struct.dir)]

StructOf(info) == [name |-> info.name, dir |-> info.dir]

-----------------------------------------------------------------------------
(* When the compiler takes a generated file.                               *)

(* A package is named after its directory; the name becomes the alias.     *)
PackageName(dir) ==
    LET path == InputPath \o dir IN path[Len(path)]

ImportsResolve(infos, tree) == \A i \in infos :
    /\ i.import = <<Module>> \o InputPath \o i.dir
    /\ StructOf(i) \in tree

(* Imports of different packages must not share their alias.               *)
AliasesDiffer(infos) == \A i, j \in infos :
    i.dir # j.dir => PackageName(i.dir) # PackageName(j.dir)

(* The cases of FromESEvent, and the names of the helpers, must differ.    *)
CasesDiffer(infos) == \A i, j \in infos :
    i.name = j.name /\ i.version = j.version => i = j

Compiles(infos, tree) ==
    ImportsResolve(infos, tree) /\ AliasesDiffer(infos) /\ CasesDiffer(infos)

-----------------------------------------------------------------------------
(* The generated code.                                                     *)

(* The case of the switch on the type of a domain event, value or pointer. *)
CaseOf(infos, struct) == {i \in infos : StructOf(i) = struct}

(* EventTypeOf returns no error.                                           *)
IsKnown(infos, struct) == CaseOf(infos, struct) # {}

EventTypeOf(struct) == struct.name

(* Variant: the switch has lost its cases.                                 *)
AlwaysVersion1(infos, struct) == 1

GetEventVersion(infos, struct) ==
    IF IsKnown(infos, struct)
    THEN (CHOOSE i \in CaseOf(infos, struct) : TRUE).version
    ELSE 1

(* The es.Event of a domain event.                                         *)
ToESEvent(infos, struct) ==
    [type    |-> EventTypeOf(struct),
     version |-> GetEventVersion(infos, struct),
     payload |-> Schema(struct)]

(* ToESEvents converts all events of a slice or returns an error.          *)
IsConvertible(infos, batch) == \A k \in DOMAIN batch : IsKnown(infos, batch[k])

ToESEvents(infos, batch) == [k \in DOMAIN batch |-> ToESEvent(infos, batch[k])]

(* To<Name>V<version>, whose parameter has the type of the struct.         *)
ToHelper(info) ==
    [type |-> info.name, version |-> info.version, payload |-> Schema(StructOf(info))]

(* Variant: the type alone chooses the struct.                             *)
CasesOfType(infos, pe) == {i \in infos : i.name = pe.type}

(* The switch on the type and, inside, on the version.                     *)
CasesFor(infos, pe) ==
    {i \in infos : i.name = pe.type /\ i.version = pe.version}

(* FromESEvent returns no error.                                           *)
IsReadable(infos, pe) == CasesFor(infos, pe) # {}

(* The struct that FromESEvent unmarshals the payload into.                *)
FromESEvent(infos, pe) == StructOf(CHOOSE i \in CasesFor(infos, pe) : TRUE)

(* From<Name>V<version> checks type and version.                           *)
FromHelperReads(info, pe) == pe.type = info.name /\ pe.version = info.version

-----------------------------------------------------------------------------
(* The generated tests.                                                    *)

Rank(name) == CHOOSE k \in DOMAIN Names : Names[k] = name

(* The first event after the sort by name and version.                     *)
First(infos) == CHOOSE i \in infos : \A j \in infos :
    \/ Rank(i.name) < Rank(j.name)
    \/ i.name = j.name /\ i.version <= j.version

(* The helpers of i are those that tests written from t call.              *)
HelperFor(i, t) == StructOf(i) = StructOf(t) /\ i.version = t.version

(* Tests written from a mapping compile against code written from another  *)
(* one: they name the structs of all its events and the helpers of the     *)
(* first.                                                                  *)
TestsCompile(tests, infos, tree) ==
    /\ ImportsResolve(tests, tree) /\ AliasesDiffer(tests)
    /\ \E i \in infos : HelperFor(i, First(tests))

TestEventTypeOf(tests, infos) == \A t \in tests :
    IsKnown(infos, StructOf(t)) /\ EventTypeOf(StructOf(t)) = t.name

TestToESEvents(tests, infos) == LET t == First(tests) IN
    ToESEvents(infos, <<StructOf(t)>>) = <<ToHelper(t)>>

TestFromESEvents(tests, infos) == LET t == First(tests) IN
    /\ IsReadable(infos, ToHelper(t))
    /\ FromESEvent(infos, ToHelper(t)) = StructOf(t)

(* TestTypeHelpers goes there and back with the helpers of the code.       *)
TestTypeHelpers(tests, infos) == \E i \in infos :
    /\ HelperFor(i, First(tests))
    /\ FromHelperReads(i, ToHelper(i))

(* The parts of TestErrorCases and TestOptions that depend on the mapping. *)
TestOptions(tests, infos) == IsKnown(infos, StructOf(First(tests)))

TestErrorCases(infos) ==
    ~IsReadable(infos, [type |-> "UnknownEvent", version |-> 1])

TestsPass(tests, infos) ==
    /\ TestEventTypeOf(tests, infos)
    /\ TestToESEvents(tests, infos)
    /\ TestFromESEvents(tests, infos)
    /\ TestOptions(tests, infos)
    /\ TestTypeHelpers(tests, infos)
    /\ TestErrorCases(infos)

=============================================================================

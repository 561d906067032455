----------------------------- MODULE WasmBinary -----------------------------
(***************************************************************************)
(* The binaries the parser is given, as wasmparser presents them: a        *)
(* sequence of sections, each with its items, and for the code section one *)
(* body per function.  A section or a body may be one that the validator   *)
(* refuses, or one that cannot be read at all; a file may break off in its *)
(* last section.  What a file should be parsed to is said here too, without*)
(* a word about how: Outcomes.                                             *)
(***************************************************************************)
EXTENDS Integers, Sequences, SequencesExt, FiniteSets

CONSTANTS
  Files,            \* the inputs
  Options           \* the ParserOptions, and whether the input is a stream

\* ModuleReader refuses a second section of one of these kinds.
CheckedKinds ==
  {"start", "type", "global", "table", "memory", "data", "function", "import", "export"}
StoredKinds == CheckedKinds \cup {"element"}
Kinds == StoredKinds \cup {"version", "custom", "datacount", "code", "unknown"}

\* The order in which a binary has its sections.
SectionOrder ==
  <<"version", "type", "import", "function", "table", "memory", "global", "export",
    "start", "element", "datacount", "code", "data">>
Rank(kind) == CHOOSE i \in DOMAIN SectionOrder : SectionOrder[i] = kind

\* Bytes: one for the header of a section and for the length of a body.
BodyBytes(b) == 1 + b.len
Sum(s) == FoldLeft(LAMBDA x, y : x + y, 0, s)
SizeOf(s) ==
  IF s.kind = "code" THEN Sum([i \in DOMAIN s.items |-> BodyBytes(s.items[i])]) + s.junk
  ELSE Len(s.items)
SectionBytes(s) == 1 + SizeOf(s)
FileBytes(f) == Sum([i \in DOMAIN f.sections |-> SectionBytes(f.sections[i])]) - f.cut

\* Files have sections with items; only a code section can have bytes that no
\* item takes.  Custom sections are not looked into.
IsSection(s) ==
  /\ s.kind \in Kinds
  /\ s.items \in Seq(Range(s.items))
  /\ s.kind = "function" => Range(s.items) \subseteq Nat
  /\ s.kind = "code" => \A b \in Range(s.items) : b.len \in Nat
  /\ s.junk \in Nat /\ (s.kind # "code" => s.junk = 0)
  /\ s.kind = "custom" => s.fault = "none"

ASSUME FilesAssumption ==
  \A f \in Files :
    /\ f.sections \in Seq(Range(f.sections))
    /\ \A s \in Range(f.sections) : IsSection(s)
    /\ f.cut \in Nat /\ FileBytes(f) >= 0

ASSUME OptionsAssumption ==
  Options \subseteq [validation : BOOLEAN, optimize_local_memory_allocation : BOOLEAN,
                     parser_threads : Nat, stream : BOOLEAN]

\* A section or a body with a fault that this parser notices.
Refused(x, validation) == x.fault = "reader" \/ (validation /\ x.fault = "validator")

\* wasmparser's Parser refuses sections out of order.  It refuses a repeated
\* section too; those that ModuleReader checks itself are left to it here.
Placed(f, i) ==
  LET known == {j \in 1 .. i - 1 : f.sections[j].kind \notin {"custom", "unknown"}}
      kind == f.sections[i].kind
  IN kind \in {"custom", "unknown"} \/
     \A j \in known : \/ Rank(f.sections[j].kind) < Rank(kind)
                      \/ f.sections[j].kind = kind /\ kind \in CheckedKinds \cup {"code"}

-----------------------------------------------------------------------------
\* What a file declares.

\* The items of a kind, in the first n sections and in all of them.
Parts(f, kind, n) ==
  [i \in 1 .. n |-> IF f.sections[i].kind = kind THEN f.sections[i].items ELSE <<>>]
ItemsUpTo(f, kind, n) == FlattenSeq(Parts(f, kind, n))
ItemsOf(f, kind) == ItemsUpTo(f, kind, Len(f.sections))
Bodies(f) == ItemsOf(f, "code")
Signatures(f) == ItemsOf(f, "function")
CountOf(s, x) == Cardinality({i \in DOMAIN s : s[i] = x})

\* What lowering has to know about the module around a function body.
MetadataOf(types, functions, imports, memories) ==
  [types |-> types, functions |-> functions, imports |-> imports, memories |-> memories]

\* Function number i of a file, as it is lowered with everything the file says.
FunctionOf(f, i) ==
  LET ty == Signatures(f)[i] IN
  [body |-> Bodies(f)[i].id, ty |-> ty, results |-> ItemsOf(f, "type")[ty + 1],
   addr |-> CountOf(ItemsOf(f, "import"), "func") + i - 1,
   metadata |-> MetadataOf(ItemsOf(f, "type"), Signatures(f), ItemsOf(f, "import"),
                           ItemsOf(f, "memory"))]
ModuleOf(f) ==
  [funcs |-> [i \in DOMAIN Bodies(f) |-> FunctionOf(f, i)],
   lists |-> [k \in StoredKinds |-> ItemsOf(f, k)]]

\* An error is a class and, for an error in a function body, its number.
Error(class) == <<class, 0>>
NoError == Error("none")
FaultyBodies(f, validation) == {i \in DOMAIN Bodies(f) : Refused(Bodies(f)[i], validation)}
FirstOf(S) == CHOOSE i \in S : \A j \in S : i <= j

\* Everything that is wrong with a file.  Functions have the types, and bodies
\* the functions, of the sections in front of theirs.  Of several bodies with a
\* fault the first one counts.
Faults(f, validation) ==
  LET s == f.sections
      Wrong(class, condition) == IF condition THEN {Error(class)} ELSE {}
      faulty == FaultyBodies(f, validation)
  IN UNION {
       Wrong("truncated", f.cut > 0),
       Wrong("order", \E i \in DOMAIN s : ~Placed(f, i)),
       Wrong("unsupported", \E i \in DOMAIN s : s[i].kind = "unknown"),
       Wrong("section", \E i \in DOMAIN s : Refused(s[i], validation)),
       Wrong("duplicate",
         \E i, j \in DOMAIN s : /\ i < j /\ s[i].kind = s[j].kind
                                /\ \/ s[i].kind = "code"
                                   \/ s[i].kind \in CheckedKinds /\ s[i].items # <<>>),
       Wrong("type",
         \E i \in DOMAIN s : /\ s[i].kind = "function"
                             /\ \E ty \in Range(s[i].items) : ty >= Len(ItemsUpTo(f, "type", i - 1))),
       Wrong("signature",
         \E i \in DOMAIN s : /\ s[i].kind = "code"
                             /\ Len(s[i].items) > Len(ItemsUpTo(f, "function", i - 1))),
       Wrong("mismatch", Len(Bodies(f)) < Len(Signatures(f))),
       Wrong("junk", \E i \in DOMAIN s : s[i].junk > 0),
       IF faulty = {} THEN {} ELSE {<<"function", FirstOf(faulty)>>}}

\* What parsing a file may come to.  A stream may fail to be read.
Outcomes(f, o) ==
  LET faults == Faults(f, o.validation)
      results == IF faults # {} THEN [error : faults]
                 ELSE {[error |-> NoError, module |-> ModuleOf(f)]}
  IN results \cup IF o.stream THEN {[error |-> Error("read")]} ELSE {}

=============================================================================
